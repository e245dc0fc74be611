SPECIFICATION Spec
CONSTANTS
  c1 = c1
  c2 = c2
  c3 = c3
  c4 = c4
  io = io
  async = async
  alpha = alpha
  Calls = {c1, c2, c3, c4}
  AsyncCalls = {c2, c4}
  Threads = {io, async}
  Sites = {alpha}
  Plan <- CircularPlan
  Delta <- Deltas
  NoCall = noCall
  Stop = stop
  InitialScore = 2
  MinScore <- LowestScore
  MaxScore = 3
  Overflow = "wrap"
CHECK_DEADLOCK FALSE
INVARIANTS RevisitNeverRuns Serialized
PROPERTIES EndsOrCircular
