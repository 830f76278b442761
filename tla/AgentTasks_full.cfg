SPECIFICATION SweepSpec
CONSTANTS
  Agents = {a1}
  Tasks = {t1}
  AgentOf <- OnlyAgentOf
  Approvals = {x1}
  Workers = {w1}
  Tools = {"safe", "risky"}
  GatedSets <- FixedGate
  Concurrency = 1
  MaxSteps = 1
  MaxCalls = 1
  None = None
INVARIANTS
  NoRunnerBeforeClaim
  RanWasApproved
  CompletedHasReport
PROPERTIES
  RunningEnds
