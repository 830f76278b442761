SPECIFICATION Spec
CONSTANTS
  Processes = {b1}
  Contacts = {1, 2, 3}
  Kind <- MixedKind
  People <- Guests
  Sims = {"sim"}
  Person <- TwoPerson
  Number <- TwoNumber
  SimNumber <- FleetNumber
  Short <- Stray
  HasSim = {1, 2, 3}
  Lookback = 1
  Cooldown = 2
  MaxPerRun = 2
  PageSize = 1
  MaxPages = 3
  MaxReading = 0
  MaxTime = 1
  Never = Never
INVARIANTS
  FailureCostsItself
