SPECIFICATION MCSpec
CONSTANTS
  Strategy = "roundRobin"
  PoolSize = 2
  Keys = {1, 2}
  Order <- MCOrder
  Outside = {"stop", "reinstate", "nospawn"}
  Sizes = {0, 1, 2, 3}
  MaxRoutees = 4
  MaxMessages = 3
  MaxLosses = 2
INVARIANTS PoolSized RestartsSound BudgetKept
PROPERTIES Routes RouteesLeave EventsHeard OneOutcome DirectivesEnd
CHECK_DEADLOCK FALSE
