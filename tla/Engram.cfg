\* Two calls and two shutdowns over a child that answers, goes mute or dies.
SPECIFICATION Spec
CONSTANTS
  Calls = {c1, c2}
  Closers = {k1, k2}
INVARIANTS
  PendingMatchesCalls
PROPERTIES
  CallsSettle
  NoOrphan
CHECK_DEADLOCK FALSE
