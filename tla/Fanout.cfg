SPECIFICATION FairSpec
CONSTANTS
  P = 4
  Batch = 2
  TopFollowers = 2
  MaxScore = 1
  Workers = {w1, w2}
  Scenarios <- SomeScenarios
  Memberships <- SomeMemberships
  Follows <- SomeFollows
  MaxFaults = 1
  MaxChanges = 1
INVARIANTS NobodyMissed OneRowEach
PROPERTIES ScopeObeyed EventuallyQuiescent
CHECK_DEADLOCK FALSE
