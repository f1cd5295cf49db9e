SPECIFICATION Spec
CONSTANTS
  Ctxs = {1, 2, 3}
  Asks = {1, 2, 3}
  Nil = Nil
  ASK_POOL_LIMIT = 2
  PERIOD = 2
  MaxStashes = 1
  Capacity = 2
  Router = FALSE
INVARIANTS NoAlias
CHECK_DEADLOCK FALSE
