SPECIFICATION Spec
CONSTANTS
  Orders = {1}
  NoOrder = none
  Workers = {w1, w2}
  Routes = {"signal", "maker", "broker"}
  MaxAttempts = 2
  BatchSize = 2
  Deduplicates = FALSE
  MaxFaults = 1
INVARIANTS QueueInv DoubleOnlyIfSnatched
PROPERTIES LifecycleSpec
CHECK_DEADLOCK FALSE
