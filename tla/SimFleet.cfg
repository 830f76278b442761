SPECIFICATION FleetSpec
CONSTANTS
  Sims = {1, 2, 3, 4}
  Views <- FleetViews
  CountryOf <- OneCountry
  Labelled = {2}
  MaxPairs = 3
  PairLimit = 2
  Syncs = {"job", "api"}
  Jobs = {"job"}
  Retention = 1
  PurgeBatch = 1
  MaxTime = 2
  DayLength = 4
  WakeSpread = 1
  Quiet <- Night
  Interval = 1
  Jitter = {0}
  Cooldown = 1
  RetryDelay = 1
  BatchSize = 2
  Overfetch = 1
  Target = 1
  MaxAttempts = 2
  MaxRows = 2
  CallInterval = 1
  CallsPerRun = 2
  Lookback = 2
  Patience = 1
  MaxCalls = 2
INVARIANTS
  PairsWellFormed
  SyncIdempotent
  NamesNeverClash
  OnePendingPerPair
  Alternates
  PairCooldownKept
  NoTextForArchived
  WakesWhenTheyEnd
  CallCadence
  CompletedWasMade
