\* One server that crashes, is stopped, restarts and loses its store.
SPECIFICATION FairSpec
CONSTANTS
  Job = {j1, j2, j3, j4}
  NoJob = NoJob
  Worker = {w1}
  OneShot = {}
  MaxAttempts = 2
  MaxStarts = 2
  StoreFails = TRUE
  Sched = {s1}
  Direct = {j1}
  Interval = 1
  MaxTime = 3
INVARIANTS NoneLeftRunning OncePerInterval
PROPERTIES DoneForGood EveryJobEnds DueIsFired
CHECK_DEADLOCK FALSE
