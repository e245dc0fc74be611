SPECIFICATION Spec
CONSTANTS
  Users = {u1}
  Tasks = {t1}
  NoTask = noTask
  QueueCap = 1
CHECK_DEADLOCK FALSE
INVARIANTS ReportedPanicked
