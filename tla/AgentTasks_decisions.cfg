SPECIFICATION DecisionSpec
CONSTANTS
  Agents = {a1}
  Tasks = {t1}
  AgentOf <- OnlyAgentOf
  Approvals = {x1, x2}
  Workers = {w1}
  Tools = {"safe", "risky"}
  GatedSets <- EditedGate
  Concurrency = 1
  MaxSteps = 2
  MaxCalls = 2
  None = None
SYMMETRY Symmetry
INVARIANTS
  ApprovedCallRunsOnce
  CallsAnsweredInOrder
  OneOutstanding
  ResumeFindsItsCall
