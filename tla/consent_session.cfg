SPECIFICATION FairClientSpec
CONSTANTS
  a = a
  b = b
  c = c
  write = write
  undo = undo
  p = p
  q = q
  NoAct = NoAct
  Id = {a, b, c}
  Scope = {write, undo}
  Path = {p, q}
  ArmOf <- ArmSession
  ScopeOf <- ScopeSession
  PathOf <- OnPathP
  Grants <- SnapshotsFew
  Timeout = 1
  MaxSend = 1
INVARIANT NoOrphanPrompt
PROPERTIES ImplementsContract ParkedIsResolved PromptComesDown
