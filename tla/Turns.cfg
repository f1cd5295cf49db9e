SPECIFICATION MCSpec
CONSTANTS
  Actors = {a1, a2}
  NoActor = NoActor
  MaxBacklog = 2
  THROUGHPUT = 2
INVARIANTS QueueArmed OnePlace ContextsSound
PROPERTIES QueuedRuns AsksSettle
CHECK_DEADLOCK FALSE
