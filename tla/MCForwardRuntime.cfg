SPECIFICATION Spec
CONSTANTS
  c1 = c1
  c2 = c2
  c3 = c3
  c4 = c4
  io = io
  async = async
  alpha = alpha
  Calls = {c1, c2, c3}
  AsyncCalls = {c2, c3}
  Threads = {io, async}
  Sites = {alpha}
  Plan <- OrderedPlan
  Delta <- Deltas
  NoCall = noCall
  Stop = stop
  InitialScore = 1
  MinScore <- LowestScore
  MaxScore = 3
  Overflow = "panic"
CHECK_DEADLOCK FALSE
INVARIANTS AtDestination OneJobPerThread NoLostJob ExactlyOnce
PROPERTIES EveryCallEnds
