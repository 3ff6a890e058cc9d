\* A second process starts while a job runs.
SPECIFICATION QueueSpec
CONSTANTS
  Job = {j1}
  NoJob = NoJob
  Worker = {w1, w2}
  OneShot = {}
  MaxAttempts = 2
  MaxStarts = 2
  StoreFails = FALSE
SYMMETRY WorkerSymmetry
INVARIANTS OneWorkerPerJob
CHECK_DEADLOCK FALSE
