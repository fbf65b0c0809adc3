SPECIFICATION FairSpec
CONSTANTS
  Procs = {p1}
  Strategies = {s1}
  Scripts = {s1}
  Loops = {l1, l2}
  NoLoop = noloop
  Callers = {c1, c2}
  Kinds = {"start", "batchstart", "stop", "delete", "batchdelete"}
  MaxThreads = 1
  LoopFails = TRUE
  MaxCrashes = 1
PROPERTIES StopEffective 
CHECK_DEADLOCK FALSE
