SPECIFICATION PunctualSpec
CONSTANTS
  a = a
  b = b
  c = c
  write = write
  undo = undo
  p = p
  q = q
  NoAct = NoAct
  Id = {a, b}
  Scope = {write, undo}
  Path = {p, q}
  ArmOf <- ArmParking
  ScopeOf <- AllWrite
  PathOf <- OnPathP
  Grants <- SnapshotScopeOnly
  Timeout = 1
  MaxSend = 1
PROPERTY DenialRespected
