\* Two servers and a --worker-once process on one database.
SPECIFICATION QueueSpec
CONSTANTS
  Job = {j1, j2}
  NoJob = NoJob
  Worker = {w1, w2, o1}
  OneShot = {o1}
  MaxAttempts = 2
  MaxStarts = 3
  StoreFails = TRUE
SYMMETRY WorkerSymmetry
INVARIANTS AttemptsRespected
CHECK_DEADLOCK FALSE
