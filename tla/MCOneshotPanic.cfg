SPECIFICATION AnyUnwindSpec
CONSTANTS
  Tx = tx
  Receivers = {r1}
  Wakers = {w1}
  NoWaker = noWaker
  Features = {"sync", "wait", "async"}
CHECK_DEADLOCK FALSE
INVARIANTS PendingHasWaker
