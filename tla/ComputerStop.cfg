\* A command stops the desktop while a server runs.
SPECIFICATION Spec
CONSTANTS
  Process = {p1, p2}
  Action = {click, clipboard}
  OptionalAction = {clipboard}
  NoAction = NoAction
  DesktopEnabled = TRUE
  MaxActions = 1
  MaxStarts = 2
SYMMETRY ProcessSymmetry
PROPERTIES StopReachesEveryone
CHECK_DEADLOCK FALSE
