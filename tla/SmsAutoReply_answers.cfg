SPECIFICATION MCSpec
CONSTANTS
  Processes = {b1}
  Contacts = {1, 2, 3}
  Kind <- MixedKind
  People <- Guests
  Sims <- Fleet
  Person <- MixedPerson
  Number <- MixedNumber
  SimNumber <- FleetNumber
  Short <- Stray
  HasSim = {1, 2, 3}
  Lookback = 1
  Cooldown = 1
  MaxPerRun = 2
  PageSize = 1
  MaxPages = 2
  MaxReading = 1
  MaxTime = 3
  Never = Never
INVARIANTS
  CooldownKept
  FleetNeverAnswered
  BurstAnsweredOnce
  AnsweredOnce
