SPECIFICATION LiveSpec
CONSTANTS
  Tx = tx
  Receivers = {r1, r2}
  Wakers = {w1, w2}
  NoWaker = noWaker
  Features = {"sync", "wait", "async"}
CHECK_DEADLOCK FALSE
INVARIANTS NoLeak
PROPERTIES ImplementsChannel RecvReturns SenderFinishes TaskWoken
