SPECIFICATION DecisionSpec
CONSTANTS
  Agents = {a1}
  Tasks = {t1}
  AgentOf <- OnlyAgentOf
  Approvals = {x1, x2}
  Workers = {w1}
  Tools = {"safe", "risky"}
  GatedSets <- FixedGate
  Concurrency = 1
  MaxSteps = 2
  MaxCalls = 1
  None = None
SYMMETRY Symmetry
PROPERTIES
  SecondResumeIsNoOp
