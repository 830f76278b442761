SPECIFICATION QueueSpec
CONSTANTS
  Agents = {a1}
  Tasks = {t1, t2}
  AgentOf <- OnlyAgentOf
  Approvals = {x1}
  Workers = {w1}
  Tools = {"risky"}
  GatedSets <- FixedGate
  Concurrency = 2
  MaxSteps = 1
  MaxCalls = 1
  None = None
SYMMETRY TaskSymmetry
PROPERTIES
  RefinesLifecycle
