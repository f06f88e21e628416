SPECIFICATION Spec
CONSTANTS
  Msgs = {m1, m2}
  Workers = 1
  Prefetch = 2
  RetryFailures = FALSE
  MayHang = FALSE
  MaxConns = 3
  Idle = Idle
INVARIANT DroppedAfterRetry
CHECK_DEADLOCK FALSE
