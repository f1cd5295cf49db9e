SPECIFICATION MCSpec
CONSTANTS
  Nil = nil
  Actors = {"a", "b"}
  Refs = {"r"}
  Entries <- MCEntries
  owner <- MCOwner
  receiver <- MCReceiver
  reference <- MCReference
  interval <- MCInterval
  repeats <- MCRepeats
  TimeoutMax = 2
  MaxLate = 1
INVARIANTS TimersCover SchedulesAgree RootIsEarliest
PROPERTIES OwnerTakesAll OnlyIdle DueHappens
CHECK_DEADLOCK FALSE
