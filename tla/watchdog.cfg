SPECIFICATION MCSpec
CONSTANTS
  Interval = 3
  MaxBackoff = 3
  AckDelay = 1
  Handling = 7
  Lag = 1
  Outstanding = 1
  MaxTime = 18
  d1 = d1
  d2 = d2
  r1 = r1
  r2 = r2
  k1 = k1
  k2 = k2
  Devices = {d1, d2}
  Nobody = Nobody
  Callers = {r1, r2}
  Tasks = {k1, k2}
  Nonces = 2
  Starts = 2
SYMMETRY Alike
INVARIANTS TypeOK DetectedInTime ClientServesPaired
PROPERTIES KillNotEarly LivePeerKept
\* Time is bounded, and requests and nonces are used up.
CHECK_DEADLOCK FALSE
