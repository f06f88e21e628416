SPECIFICATION Spec
CONSTANTS
  Posts = {1, 2, 3}
  ByFriend = {1, 2}
  Commented = {3}
  InCommunity = {}
  RowType = "fanout"
  CandidateLimit = 1
  First = {1, 2}
  ChunkSize = 1
  Workers = {w1, w2}
  MaxFaults = 1
  MaxChanges = 2
SYMMETRY AnyWorker
INVARIANTS TimelineRight
PROPERTIES RemovalComplete RetractionComplete ViewedStaysOut
CHECK_DEADLOCK FALSE
