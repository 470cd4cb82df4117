SPECIFICATION Spec
CONSTANTS
  NULL = NULL
  h1 = h1
  h2 = h2
  h3 = h3
  Hosts = {h1, h2, h3}
  Conns = {c1, c2, c3}
  Views <- MCViews
INVARIANTS
  TypeOK
  NoDanglingConnection
  ExclusiveConnections
  ResultNamesItsHost
  CacheNotLost
  FailsOnlyOnTimeout
  OnlyLosersLeak
PROPERTIES
  TasksEnd
  IsFailoverCall
