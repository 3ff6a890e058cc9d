SPECIFICATION ToolsSpec
CONSTANTS
  Call = {c1, c2}
  McpRequest <- McpRequests
  McpFile <- McpFiles
  McpSwitches <- McpRuns
  Slots = 1
  MinTime = 1
  Slack = 1
  Grace = 2
  MaxEdits = 1
  GateTool <- GateTools
  Registered <- GateTools
  Manifest <- GateManifest
  PermissionFiles <- GateFiles
  FlagRuns <- GateFlagRuns
  DepRuns <- GateDepRuns
  Skill = "run_skill"
  Delegate = "delegate_task"
  SkillSteps <- GateSkill
  MemoryTool = {"remember"}
  Client = {q1, q2}
  Bodies <- GateBodies
  Command = {w1, w2}
  Orders <- GateOrders
  Surfer = {s1, s2}
  BrowserAsk <- BrowserAsks
  Host = {"site", "local"}
  Literal = {"local"}
  SensitiveSite = {"site"}
  MaxAsks = 3
  MaxMoves = 1
  MaxRequests = 1
  MaxDownloads = 1
INVARIANTS HandedOverIsVetted OnlyGrantedRuns DenialIsReported SwitchIsKept PeersAreReviewed SavedOnce
PROPERTIES EveryCallReports SlotsComeBack
CHECK_DEADLOCK FALSE
