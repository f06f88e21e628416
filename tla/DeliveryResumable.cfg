SPECIFICATION Spec
CONSTANTS
  Msgs = {m1, m2}
  Workers = 2
  Prefetch = 2
  RetryFailures = TRUE
  MayHang = FALSE
  MaxConns = 3
  Idle = Idle
SYMMETRY MsgSymmetry
INVARIANTS TypeOK OneHolder CleanDrain
PROPERTIES GoneForever ImplementsContract
CHECK_DEADLOCK FALSE
