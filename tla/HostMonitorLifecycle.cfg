SPECIFICATION Spec
CONSTANTS
  NULL = NULL
  h1 = h1
  h2 = h2
  cluster = cluster
  Hosts = {h1, h2}
  InstanceOf <- TwoInstances
  Conns = {c1}
  Monitors = {m1, m2}
  Threads = {t1, t2}
  MaxCalls = 2
  Failover = TRUE
  Disposal = TRUE
  Crashes = 1
CHECK_DEADLOCK FALSE
INVARIANTS
  TypeOK
  EndedContextsInactive
PROPERTIES
  StopReturns
  CallEnds
