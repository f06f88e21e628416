SPECIFICATION FairSpec
CONSTANTS
  Msgs = {m1, m2}
  Workers = 1
  Prefetch = 1
  RetryFailures = FALSE
  MayHang = TRUE
  MaxConns = 3
  Idle = Idle
INVARIANTS NoSilentLoss
PROPERTIES NoPoisonSpin EventuallySettled
CHECK_DEADLOCK FALSE
