SPECIFICATION FairSpec
CONSTANTS
  Calls = {"shutdown", "restart"}
  MaxMsgs = 2
  MaxRestarts = 1
  MaxSuspends = 0
  Handles = {}
  MaxInFlight = 0
  Capacity = 0
  MaxMessages = 0
  THROUGHPUT = 2
PROPERTIES RestartBacksOff
CHECK_DEADLOCK FALSE
