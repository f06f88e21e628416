SPECIFICATION FairSpec
CONSTANTS
  N = 2
  Hangs <- EmailConsumer
  MaxFaults = 2
INVARIANTS NoLeakedConnection AllCancelled
PROPERTIES NoAddDuringWait CloseReturns LossRepaired SupervisorEnds
CHECK_DEADLOCK FALSE
