SPECIFICATION Spec
CONSTANTS
    Conns = {c1, c2}
    Endpoints = {e1, e2}
    h1 = h1
    h2 = h2
    Hosts = {h1, h2}
    Lists <- MCLists
    MaxCalls = 1
    NULL = NULL
INVARIANTS
    LoopMonitorHeld
    
PROPERTY StopReturns
CHECK_DEADLOCK FALSE
