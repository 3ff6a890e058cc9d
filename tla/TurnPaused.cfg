\* One turn, and a user who pauses the memory.
SPECIFICATION Spec
CONSTANTS
  Turn = {t1}
  Conv = {"home", "chat"}
  owner = owner
  guest = guest
  UserOf <- MCUserOf
  Operator = {owner}
  Shared = Shared
  NoTurn = NoTurn
  MaxSteps = 1
  Window = 1
  MaxStarts = 1
  Scenario = {{"pause"}}
INVARIANT PausedStoresNothing
CHECK_DEADLOCK FALSE
