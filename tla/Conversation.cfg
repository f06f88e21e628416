SPECIFICATION FairSpec
CONSTANTS
  a = a
  b = b
  c = c
  j1 = j1
  j2 = j2
  People = {a, b, c}
  Communities = {c}
  Workers = {w1, w2}
  Jobs = {j1, j2}
  Scenarios <- SomeScenarios
  MaxFaults = 1
  MaxChanges = 1
INVARIANTS PostedOnce Announced PromiseKept ChatListRight
PROPERTIES NobodyThrownOut WorkedOff
CHECK_DEADLOCK FALSE
