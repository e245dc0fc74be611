SPECIFICATION Spec
CONSTANTS
  Calls = {c1, c2, c3}
  Oversized = {c3}
  NoCall = noCall
  IdModulus = 2
  QueueCap = 1
  WireCap = 1
CHECK_DEADLOCK FALSE
INVARIANTS NoOrphan SenderHeldOnce Routing
