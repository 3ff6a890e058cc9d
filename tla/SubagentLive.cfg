\* Liveness and refinement: cancels, or a shutdown, with a failing store.
SPECIFICATION FairSpec
CONSTANTS
  Sub = {a, b}
  NoSub = NoSub
  p1 = p1
  p2 = p2
  plain = plain
  guarded = guarded
  spawn = spawn
  off = off
  other = other
  Parent <- OneParent
  Tool <- AllTools
  SpawnTool = {spawn}
  PolicyTool = {plain, guarded, spawn, other}
  GuardedTool = {guarded}
  Request <- PlainRequests
  Caller = {c1}
  Operator = {k1}
  GlobalLimit = 2
  PerParentLimit = 1
  MaxSteps = 1
  MaxRestarts = 0
  Scenario = {{"cancel", "storeFails"}, {"close", "storeFails"}}
PROPERTIES BatchCompletes EveryWorkerStops CancelTakesEffect BoundedSlots
CHECK_DEADLOCK FALSE
