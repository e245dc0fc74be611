SPECIFICATION UnwindSpec
CONSTANTS
  Tx = tx
  Receivers = {r1, r2, r3}
  Wakers = {w1, w2}
  NoWaker = noWaker
  Features = {"sync", "wait", "async"}
SYMMETRY Symmetry
CHECK_DEADLOCK FALSE
INVARIANTS DataAccess WakerAccess DeallocSafe LeakOnlyByUnwinding NoLostWakeup Outcomes
PROPERTIES Transitions
