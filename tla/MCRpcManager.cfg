SPECIFICATION ManagerSpec
CONSTANTS
  Calls = {c1, c2}
  Oversized = {}
  NoCall = noCall
  Connector = Connector
  Replacer = Replacer
  IdModulus = 3
  QueueCap = 1
  WireCap = 1
INVARIANTS GuardedAccess FoundIsLive OneAnswer
PROPERTIES ImplementsPeer EveryCallReturns LockReturns Retired
CHECK_DEADLOCK FALSE
