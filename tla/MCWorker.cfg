SPECIFICATION Spec
CONSTANTS
  Users = {u1, u2}
  Tasks = {t1, t2, t3}
  NoTask = noTask
  QueueCap = 2
CHECK_DEADLOCK FALSE
INVARIANTS InOrder GracefulEnd
PROPERTIES TasksSettle WorkerEnds
