SPECIFICATION ShellSpec
CONSTANTS
  Procs = {p1}
  Actions = {a1, a2}
  MaxTasks = 2
  Nobody = Nobody
  RingCapacity = 3
  MaxLines = 7
  MaxOutput = 2
  FlushBytes = 2
  ChannelSize = 1
  Marker = 1
  Width = 2
  MaxPrinted = 3
  Sessions = {s1, s2, s3}
  MaxSessions = 2
  RingLines = 1
  MaxShell = 2
  NoSession = NoSession
PROPERTIES
  StoppedCommandReports
CHECK_DEADLOCK FALSE
