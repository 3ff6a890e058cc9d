\* Two turns of an operator or another user, one restart or second process.
SPECIFICATION FairSpec
CONSTANTS
  Turn = {t1, t2}
  Conv = {"home", "chat"}
  owner = owner
  guest = guest
  UserOf <- MCUserOf
  Operator = {owner}
  Shared = Shared
  NoTurn = NoTurn
  MaxSteps = 2
  Window = 1
  MaxStarts = 2
  Scenario = {{"pause"}, {"crash"}, {"storeFails", "peer"}}
ACTION_CONSTRAINT MCStep
INVARIANTS HistoryFollowsAnswers RecallIsOwn TasksAreTrue PauseHolds
PROPERTIES OneExchangeAtATime EveryTurnEnds
CHECK_DEADLOCK FALSE
