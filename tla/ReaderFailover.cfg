SPECIFICATION Spec
CONSTANTS
  NULL = NULL
  w = w
  r1 = r1
  r2 = r2
  Hosts = {w, r1, r2}
  Calls = {"reader_or_writer", "strict_reader", "get_reader"}
  Slots = {s1, s2}
  MaxTasks = 2
  Views <- MCViews
INVARIANTS
  TypeOK
  ResultUsable
  NoHostSkipped
  FailsOnlyOnTimeout
  SyncCountsWorkers
PROPERTIES
  TasksEnd
  IsFailoverCall
