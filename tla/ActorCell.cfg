SPECIFICATION MCSpec
CONSTANTS
  Calls = {"shutdown", "restart", "reinstate", "suspend", "fault", "async", "pill", "panic", "allowAll", "stashNonReentrant", "cancel", "stash"}
  MaxMsgs = 4
  MaxRestarts = 2
  MaxSuspends = 1
  Handles = {1, 2}
  MaxInFlight = 2
  Capacity = 0
  MaxMessages = 3
  THROUGHPUT = 2
INVARIANTS TypeOK SingleLoop LoopOwed StopsClean HooksInTurn RequestsExact
PROPERTIES AllEnds
CHECK_DEADLOCK FALSE
