SPECIFICATION Spec
CONSTANTS
  Orders = {1}
  NoOrder = none
  Workers = {w1, w2}
  Routes = {"market"}
  MaxAttempts = 2
  BatchSize = 1
  Deduplicates = FALSE
  MaxFaults = 0
INVARIANTS NoDoubleProcessing
CHECK_DEADLOCK FALSE
