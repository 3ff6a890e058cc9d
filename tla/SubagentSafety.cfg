\* Cancels with a shutdown, a shutdown beside a second process or with a failing store, a failing
\* store with a restart.
SPECIFICATION MCSpec
CONSTANTS
  Sub = {a, b, c}
  NoSub = NoSub
  p1 = p1
  p2 = p2
  plain = plain
  guarded = guarded
  spawn = spawn
  off = off
  other = other
  Parent <- TwoParents
  Tool <- AllTools
  SpawnTool = {spawn}
  PolicyTool = {plain, guarded, spawn, other}
  GuardedTool = {guarded}
  Request <- MixedRequests
  Caller = {c1}
  Operator = {k1}
  GlobalLimit = 2
  PerParentLimit = 1
  MaxSteps = 1
  MaxRestarts = 1
  Scenario = {{"cancel", "close"}, {"close", "peer"}, {"close", "storeFails"},
              {"storeFails", "waitExpires"}}
SYMMETRY SubSymmetry
ACTION_CONSTRAINT MCStep
INVARIANTS SlotsAccounted RunningHasWorker LateReplyIsInert
  WorkerConfined CloseReachesEveryWorker ReportIsTrue
PROPERTIES NeverRunTwice
CHECK_DEADLOCK FALSE
