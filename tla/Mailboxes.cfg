SPECIFICATION MCSpec
CONSTANTS
  Msgs = {m1, m2}
  capacity = 3
  Empty = empty
INVARIANTS RingInv StructuresSound
PROPERTIES IsQueue AreQueues ServesInOrder
