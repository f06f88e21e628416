SPECIFICATION Spec
CONSTANTS
  alice = alice
  bob = bob
  Entities <- People
  Interests = {1, 2}
  Scenarios <- AllScenarios
  Workers = {w1, w2}
  Loose = {g1, g2}
  MaxFaults = 1
INVARIANTS NothingInvented EngagementExact BumpsExact AppliedOnce
PROPERTIES EveryJobEnds
CHECK_DEADLOCK FALSE
