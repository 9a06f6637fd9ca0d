SPECIFICATION LocalSpec
CONSTANTS
  f = f
  g = g
  small = small
  huge = huge
  folder = folder
  Absent = Absent
  Torn = Torn
  Path = {f, g}
  Content = {small, huge, folder, Absent, Torn}
  Folders = {folder}
  SizeOf <- Bytes
  MaxCheckpoints = 2
  MaxTotalBytes = 2
  MaxFileBytes = 1
  MaxWriteBytes = 1
  MaxStamp = 3
  Chats = {c1, c2}
  c1 = c1
  c2 = c2
  Notes = {m1, m2, m3}
  m1 = m1
  m2 = m2
  m3 = m3
  ChatOf <- Belongs
  Texts = {"a", "b"}
  Docs = {d1}
  LastTime = 2
  Projects = {p1, p2}
  Contents = {"fact", "rule"}
  Terms <- Words
  Day = 1
  MemoryTime = 10
  MemoryIds = 2
  MaxHits = 1
  Procs = {p1}
  Actions = {a1, a2}
  MaxTasks = 2
  Nobody = Nobody
  RingCapacity = 3
  MaxLines = 7
  MaxOutput = 2
  FlushBytes = 2
  ChannelSize = 1
  Marker = 1
  Width = 2
  MaxPrinted = 3
  Sessions = {s1, s2, s3}
  MaxSessions = 2
  RingLines = 1
  MaxShell = 2
  NoSession = NoSession
INVARIANTS
  TypeOK
  DamageIsOldest
  LimitsEnforced
  ChatAsNewestTold
  MemoryAsTold
  TypesOK
  TerminalIsTrue
  RunningIsKillable
  StreamedBeforeResult
  NoShellLeaks
  BufferIsUnreadTail
PROPERTIES
  CapturedBeforeChange
  ImplementsUndoLog
  LiveTaskDroppedOnlyByCap
  CancelledProcessEnds
  PollsInOrder
  ShellEnds
\* A part may stop: every task finished, every line printed, the clock of the chat
\* archive used up with nothing left to delete.
CHECK_DEADLOCK FALSE
