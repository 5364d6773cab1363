SPECIFICATION Spec
CONSTANTS
  board = board
  Board <- BoardMC
  Rank <- RankMC
  StaleShare = 75
  Shortest = 1
  Hour = 2
  SixHours = 3
  Week = 4
  Fortnight = 5
  Month = 6
  RefreshInterval = 3
  IngestLimit = 1
  ProbeLimit = 1
  Attempts = 2
  SuppliedDelay = {0, 3, 9}
  MaxTime = 6
  Seed = {}
  ForceAllowed = FALSE
INVARIANTS TypeOK FlagsAgree PendingRetryable
PROPERTIES HealthNeverRegresses GateOpensOnProof BackoffHonoured
