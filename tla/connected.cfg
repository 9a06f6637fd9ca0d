SPECIFICATION LifecycleSpec
CONSTANTS
  Devices = {"a"}
  Nobody = Nobody
  Callers = {"r1"}
  Tasks = {"k1", "k2"}
  Nonces = 2
  Starts = 1
INVARIANTS ConnectedIsReal
CHECK_DEADLOCK FALSE
