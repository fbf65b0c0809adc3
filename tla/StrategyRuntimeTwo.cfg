SPECIFICATION Spec
CONSTANTS
  Procs = {p1, p2}
  Strategies = {s1, s2}
  Scripts = {s2}
  Loops = {l1, l2}
  NoLoop = noloop
  Callers = {c1}
  Kinds = {"start", "stop"}
  MaxThreads = 1
  LoopFails = TRUE
  MaxCrashes = 0
INVARIANTS RuntimeInv OneLoopUnlessParted
CHECK_DEADLOCK FALSE
