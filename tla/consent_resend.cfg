SPECIFICATION Spec
CONSTANTS
  a = a
  b = b
  c = c
  write = write
  undo = undo
  p = p
  q = q
  NoAct = NoAct
  Id = {a, b}
  Scope = {write, undo}
  Path = {p, q}
  ArmOf <- ArmWriteDelete
  ScopeOf <- AllWrite
  PathOf <- OnPathP
  Grants <- SnapshotsFew
  Timeout = 1
  MaxSend = 2
INVARIANTS TypeOK ParkedIsAnswerable ApprovalsNotMultiplied AnsweredAtMostOnce
