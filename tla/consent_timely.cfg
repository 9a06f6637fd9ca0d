SPECIFICATION PunctualSpec
CONSTANTS
  a = a
  b = b
  c = c
  write = write
  undo = undo
  p = p
  q = q
  NoAct = NoAct
  Id = {a, c}
  Scope = {write, undo}
  Path = {p, q}
  ArmOf <- ArmSession
  ScopeOf <- AllWrite
  PathOf <- OnPathP
  Grants <- SnapshotsFew
  Timeout = 1
  MaxSend = 1
PROPERTY TimelyApprovalHonoured
