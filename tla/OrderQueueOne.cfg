SPECIFICATION FairSpec
CONSTANTS
  Orders = {1, 2}
  NoOrder = none
  Workers = {w1}
  Routes = {"signal", "market"}
  MaxAttempts = 2
  BatchSize = 1
  Deduplicates = TRUE
  MaxFaults = 2
INVARIANTS BookedOnce
PROPERTIES VerdictFinal RowsMoveOn
CHECK_DEADLOCK FALSE
