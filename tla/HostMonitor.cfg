SPECIFICATION Spec
CONSTANTS
  NULL = NULL
  h1 = h1
  h2 = h2
  cluster = cluster
  Hosts = {h1, cluster}
  InstanceOf <- TwoNames
  Conns = {c1, c2}
  Monitors = {m1, m2}
  Threads = {t1}
  MaxCalls = 1
  Failover = FALSE
  Disposal = FALSE
  Crashes = 1
CHECK_DEADLOCK FALSE
INVARIANTS
  AbortOnlyDuringCall
  NoStaleContext
  CallMonitored
  OneMonitorPerInstance
PROPERTY
  CallEnds
