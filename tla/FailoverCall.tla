---------------------------- MODULE FailoverCall ----------------------------
(***************************************************************************)
(* What FAILOVER_HANDLER relies on when it calls failover() of the writer  *)
(* or of the reader handler: the call ends, it ends in one way only, and   *)
(* what it returned stays what it is, however long the tasks it started    *)
(* go on running on the thread pool.                                       *)
(***************************************************************************)
CONSTANTS Hosts, NULL

VARIABLES
    status,     \* "running", or how the call ended
    host,       \* the host of the connection it returned, NULL without one
    working     \* that connection has not been deleted

vars == <<status, host, working>>

Init == status = "running" /\ host = NULL /\ working = FALSE

Succeed ==
    /\ status = "running"
    /\ status' = "connected"
    /\ host' \in Hosts
    /\ working' = TRUE

GiveUp ==
    /\ status = "running"
    /\ status' \in {"failed", "threw"}
    /\ UNCHANGED <<host, working>>

\* A task may bring the process down, even after the call has returned.
Crash ==
    /\ status # "crashed"
    /\ status' = "crashed"
    /\ UNCHANGED <<host, working>>

Next == Succeed \/ GiveUp \/ Crash

Spec == Init /\ [][Next]_vars /\ WF_vars(Succeed \/ GiveUp)
=============================================================================
