SPECIFICATION FairSpec
CONSTANTS
  N = 2
  Hangs <- NoConsumer
  MaxFaults = 1
PROPERTY OutageVisible
CHECK_DEADLOCK FALSE
