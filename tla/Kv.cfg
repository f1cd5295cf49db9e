SPECIFICATION MCSpec
CONSTANTS
  Keys = {k1, k2}
  Nil = nil
  Text = 9
  CounterHalf = 2
  Ttls = {0, 1}
  TOMBSTONE_TTL = 1
  Self = 1
  Peers = {2}
  MaxWall = 2
  MaxWrites = 3
  Parts = {"alone", "peers", "crashing", "losing", "joining", "staying"}
INVARIANTS DigestInStep AckedSurvives
PROPERTIES AppliedIsKept OnlyForward AckedReachPrimary
CHECK_DEADLOCK FALSE
