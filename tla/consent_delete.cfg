SPECIFICATION FairClientSpec
CONSTANTS
  a = a
  b = b
  c = c
  write = write
  undo = undo
  p = p
  q = q
  NoAct = NoAct
  Id = {b}
  Scope = {write, undo}
  Path = {p, q}
  ArmOf <- ArmWriteDelete
  ScopeOf <- AllWrite
  PathOf <- OnPathP
  Grants <- SnapshotsFew
  Timeout = 1
  MaxSend = 1
PROPERTY PromptComesDown
