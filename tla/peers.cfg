SPECIFICATION MCSpec
CONSTANTS
  McpNames = {n1, n2}
  McpSlots = 2
  McpAsks = 5
  MaxPages = 2
  DapNames = {d1}
  DapSlots = 2
  DapAsks = 7
  DapStops = 2
  EventRing = 1
  LspFiles = {f1, f2, f3}
  Granted = {f1, f2}
  LspAsks = 3
  EvalSessions = {e1, e2}
  EvalLines = 2
  EvalLives = 2
  EvalPipe = 1
  MaxCaptured = 1
  TabNames = {"main", "tab-1"}
  MainTab = "main"
  Chromes = 2
  TabPages = 2
  Snapshots = 2
INVARIANTS
  TypesOK
  OwnAnswer
  NoOrphanPeer
  ConsoleComplete
  SessionsRemembered
  
  RefsAsShown
  SessionWhole
PROPERTIES
  CallsEnd
\* An engine whose bounded calls are used up stops.
CHECK_DEADLOCK FALSE
