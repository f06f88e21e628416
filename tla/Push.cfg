SPECIFICATION Spec
CONSTANTS
  a = a
  b = b
  c = c
  t1 = t1
  t2 = t2
  t3 = t3
  t4 = t4
  j1 = j1
  j2 = j2
  NoToken = NoToken
  People = {a, b, c}
  Tokens = {t1, t2, t3, t4}
  Chunk = 2
  Workers = {w1, w2}
  Jobs = {j1, j2}
  Scenarios <- SomeScenarios
  MaxFaults = 1
  MaxChanges = 1
INVARIANTS OnlyAudience SentOnce AllTried
PROPERTIES PruneRight
CHECK_DEADLOCK FALSE
