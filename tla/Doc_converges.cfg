SPECIFICATION FairSpec
CONSTANTS
  MaxSteps = 2
  MaxChanges = 2
  MaxFaults = 1
PROPERTY PageConverges
CHECK_DEADLOCK FALSE
