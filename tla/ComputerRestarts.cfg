\* Two processes at a time, five in all: a server, restarts, commands of the owner.
SPECIFICATION Spec
CONSTANTS
  Process = {p1, p2}
  Action = {click, clipboard}
  OptionalAction = {clipboard}
  NoAction = NoAction
  DesktopEnabled = TRUE
  MaxActions = 1
  MaxStarts = 5
SYMMETRY ProcessSymmetry
INVARIANTS StopSurvivesRestart RevokeSurvivesRestart
CHECK_DEADLOCK FALSE
