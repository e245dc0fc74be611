SPECIFICATION LiveSpec
CONSTANTS
  Tx = tx
  Receivers = {r1, r2, r3}
  Wakers = {w1}
  NoWaker = noWaker
  Features = {"sync"}
CHECK_DEADLOCK FALSE
PROPERTIES RecvReturns
