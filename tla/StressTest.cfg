SPECIFICATION FairSpec
CONSTANTS
  Tests = {t1}
  Requests = {r1, r2}
  MaxCalls = 1
INVARIANTS
  NoOrphan
  RowHasPoller
  EndIsTrue
  FinalSnapshot
PROPERTIES
  RunningEnds
