SPECIFICATION FairSpec
CONSTANTS
  MaxSteps = 2
  MaxChanges = 2
  MaxFaults = 1
INVARIANTS
  StepsWithoutGap
  FinalHasAllSteps
  NeverStranded
  IdleIsUpToDate
PROPERTIES
  FeedSpec
  BaseConverges
CHECK_DEADLOCK FALSE
