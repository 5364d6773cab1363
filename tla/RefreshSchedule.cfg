SPECIFICATION Spec
CONSTANTS
  Boards = 5
  Broken = 1
  Board <- BoardsMC
  Rank <- RankMC
  Failing <- FailingMC
  StaleShare = 50
  Interval = 1
  MaxRevisit = 6
  MinBatch = 2
  MaxBatch = 4
  Backoff = 1
  MaxAge = 8
INVARIANTS TypeOK 
 
