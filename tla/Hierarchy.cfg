SPECIFICATION MCSpec
CONSTANTS
  Root = 0
  Nil = nil
  Pids = {0, 1, 2, 3}
  Names = {"a", "b"}
  Watchers = {0, 1, 2}
  MaxRestarts = 1
  MaxWatches = 2
INVARIANTS TreeKept
PROPERTIES WatchesKept StopsFinish
CHECK_DEADLOCK FALSE
