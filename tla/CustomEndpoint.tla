--------------------------- MODULE CustomEndpoint ---------------------------
(***************************************************************************)
(* CUSTOM_ENDPOINT_PROXY and CUSTOM_ENDPOINT_MONITOR: every call of a      *)
(* connection to a custom endpoint looks for the monitor of the endpoint   *)
(* in a cache, waits for the members of the endpoint to be known, and goes *)
(* on; the monitor fetches them and hands them to the topology service as  *)
(* a filter of the hosts failover may use.                                 *)
(*                                                                         *)
(* The cache of monitors has no lock: connections (each with its thread),  *)
(* the clean-up thread and SQLFreeEnv work on it side by side.  All        *)
(* monitors of an environment share one thread pool, whose class, ctpl,    *)
(* runs its tasks in the order they are pushed, and once stopped accepts   *)
(* tasks but never runs them.                                              *)
(***************************************************************************)
EXTENDS Naturals, FiniteSets, Sequences

CONSTANTS
    Conns,          \* connections of one environment
    Endpoints,      \* custom endpoints
    Hosts,          \* instances of the cluster
    Lists,          \* member lists an endpoint may have
    MaxCalls,       \* bound of the calls of a connection
    NULL

\* CUSTOM_ENDPOINT_INFO: the members of the endpoint, or those that are excluded.
Info == [static : BOOLEAN, members : SUBSET Hosts]
\* ALLOWED_AND_BLOCKED_HOSTS.
Filter == [allowed : SUBSET Hosts, blocked : SUBSET Hosts]

ASSUME ListsAssumption == Lists \subseteq Info
ASSUME MaxCallsAssumption == MaxCalls \in Nat

VARIABLES
    endpoint,       \* the endpoint of a connection
    list,           \* the member list of an endpoint, in the service
    pool,           \* custom_endpoint_thread_pool: "empty", "one", "stopping", "stopped"
    tasks,          \* the monitors whose loops were pushed; the first one runs
    phase,          \* where the running loop is
    cached,         \* monitors: the one of an endpoint, or NULL
    expired,        \* endpoints whose entry has expired
    should_stop,    \* monitors that are to stop
    info,           \* custom_endpoint_cache
    filter,         \* per connection: allowed_and_blocked_hosts, or NULL
    pc,             \* per connection: where its call is
    calls,          \* per connection: calls made
    disposing,      \* per thread: what it is disposing of, or NULL
    ending,         \* SQLFreeEnv has been called
    fetched,        \* per connection: endpoint_info, the list its filter was made of
    overlap         \* history: two threads have worked on the cache of monitors at once

service == <<endpoint, list>>
monitor == <<pool, tasks, phase, should_stop>>
caches == <<cached, expired, info>>
connection == <<filter, pc, calls, fetched>>
\* All but overlap.
state == <<service, monitor, caches, connection, disposing, ending>>
vars == <<state, overlap>>

\* A monitor, by the call that made it.
Monitor == Conns \X (1..MaxCalls)
Owner(m) == m[1]
Host(m) == endpoint[Owner(m)]

\* Disposal in progress: the key, the monitor, and whether stop waits for the thread.
Removal == [of : Endpoints, item : Monitor, join : BOOLEAN]

\* The threads that dispose of monitors: the clean-up thread, the one that calls
\* SQLFreeEnv, and the connections.
Threads == Conns \union {"cleaner", "env"}

ASSUME ConnsAssumption == IsFiniteSet(Conns) /\ Conns \intersect {"cleaner", "env"} = {}
ASSUME NullAssumption == NULL \notin Monitor /\ NULL \notin Removal /\ NULL \notin Filter

Mine(c) == <<c, calls[c]>>
Goto(c, label) == pc' = [pc EXCEPT ![c] = label]

-----------------------------------------------------------------------------
(* A call of a connection                                                  *)

\* connect, query or real_query.
Call(c) ==
    /\ pc[c] = "idle" /\ calls[c] < MaxCalls /\ ~ending
    /\ calls' = [calls EXCEPT ![c] = @ + 1] /\ Goto(c, "create")
    /\ UNCHANGED <<service, monitor, caches, filter, fetched, disposing, ending>>

\* compute_if_absent, after clean_up: a monitor is made in any case, and run()
\* looks at the size of the pool.
Create(c) ==
    /\ pc[c] = "create" /\ disposing[c] = NULL
    /\ Goto(c, IF pool \in {"one", "stopping"} THEN "emplace" ELSE "start")
    /\ UNCHANGED <<service, monitor, caches, filter, calls, fetched, disposing, ending>>

\* The rest of run(): a pool that was stopped ignores resize.
Start(c) ==
    /\ pc[c] = "start"
    /\ pool' = IF pool = "empty" THEN "one" ELSE pool
    /\ tasks' = IF pool = "stopped" THEN tasks ELSE Append(tasks, Mine(c))
    /\ Goto(c, "emplace")
    /\ UNCHANGED <<service, phase, should_stop, caches, filter, calls, fetched, disposing, ending>>

\* emplace keeps the entry that is there, and its time of expiration.
Emplace(c) ==
    /\ pc[c] = "emplace"
    /\ cached' = [cached EXCEPT ![endpoint[c]] = IF @ = NULL THEN Mine(c) ELSE @]
    /\ Goto(c, "wait")
    /\ UNCHANGED <<service, monitor, expired, info, filter, calls, fetched, disposing, ending>>

\* wait_for_custom_endpoint_info, if it is asked for: until there is some, or the
\* time is over; the call goes on in both cases.  The monitor is let go.
Wait(c) ==
    /\ pc[c] = "wait"
    /\ Goto(c, "idle")
    /\ UNCHANGED <<service, monitor, caches, filter, calls, fetched, disposing, ending>>

-----------------------------------------------------------------------------
(* The cache of monitors                                                   *)

Expire(e) ==
    /\ cached[e] # NULL /\ expired' = expired \union {e} /\ expired' # expired
    /\ UNCHANGED <<service, monitor, cached, info, connection, disposing, ending>>

\* Who disposes of what: the clean-up thread and calls, of what has expired;
\* SQLFreeEnv, of everything.
May(t, e) ==
    /\ cached[e] # NULL /\ disposing[t] = NULL
    /\ \/ t = "cleaner" /\ e \in expired
       \/ t = "env" /\ ending
       \/ t \in Conns /\ e \in expired /\ pc[t] = "create"

\* remove_if_expired or remove_and_dispose calls CUSTOM_ENDPOINT_MONITOR::stop,
\* which stops the pool: the first one to do so waits for its thread.
Dispose(t, e) ==
    /\ May(t, e)
    /\ disposing' = [disposing EXCEPT ![t] = [of |-> e, item |-> cached[e], join |-> pool \in {"empty", "one"}]]
    /\ should_stop' = should_stop \union {cached[e]}
    /\ pool' = CASE pool = "one" -> "stopping" [] pool = "empty" -> "stopped" [] OTHER -> pool
    /\ UNCHANGED <<service, tasks, phase, caches, connection, ending>>

\* Mutant: the entry is erased before the thread has ended.
DisposedAtOnce(t) ==
    /\ disposing[t] # NULL
    /\ info' = [info EXCEPT ![disposing[t].of] = NULL]
    /\ cached' = [cached EXCEPT ![disposing[t].of] = NULL]
    /\ expired' = expired \ {disposing[t].of}
    /\ disposing' = [disposing EXCEPT ![t] = NULL]
    /\ UNCHANGED <<service, monitor, connection, ending>>

\* The rest of stop, and the erasure of the entry.
Disposed(t) ==
    /\ disposing[t] # NULL /\ (disposing[t].join => pool = "stopped")
    /\ info' = [info EXCEPT ![disposing[t].of] = NULL]
    /\ cached' = [cached EXCEPT ![disposing[t].of] = NULL]
    /\ expired' = expired \ {disposing[t].of}
    /\ disposing' = [disposing EXCEPT ![t] = NULL]
    /\ UNCHANGED <<service, monitor, connection, ending>>

\* SQLFreeEnv, which the driver manager allows when there is no connection.
FreeEnv ==
    /\ ~ending /\ \A c \in Conns : pc[c] = "idle"
    /\ ending' = TRUE
    /\ UNCHANGED <<service, monitor, caches, connection, disposing>>

-----------------------------------------------------------------------------
(* The thread of the pool: the loop of the first task                      *)

Running == pool \in {"one", "stopping"} /\ tasks # <<>>
Loop == Head(tasks)

\* The task is over; the next one runs, and a pool that is being stopped ends
\* with the last one.
TaskEnds ==
    /\ should_stop' = should_stop \union {Loop}
    /\ tasks' = Tail(tasks) /\ phase' = "test"
    /\ pool' = IF pool = "stopping" /\ Len(tasks) = 1 THEN "stopped" ELSE pool

\* while (!should_stop)
Test ==
    /\ Running /\ phase = "test"
    /\ IF Loop \in should_stop THEN TaskEnds
       ELSE phase' = "fetch" /\ UNCHANGED <<pool, tasks, should_stop>>
    /\ UNCHANGED <<service, caches, connection, disposing, ending>>

\* The thread of a pool that has nothing to do ends when the pool is stopped.
IdleEnds ==
    /\ pool = "stopping" /\ tasks = <<>> /\ pool' = "stopped"
    /\ UNCHANGED <<service, tasks, phase, should_stop, caches, connection, disposing, ending>>

\* What a member list is turned into.
AllowedAndBlocked(l) ==
    IF l.static THEN [allowed |-> l.members, blocked |-> {}] ELSE [allowed |-> {}, blocked |-> l.members]

\* Mutant: the hosts are not handed to the topology service.
FetchUnfiltered ==
    /\ Running /\ phase = "fetch"
    /\ \/ /\ fetched' = [fetched EXCEPT ![Owner(Loop)] = list[Host(Loop)]]
          /\ phase' = "put" /\ UNCHANGED <<pool, tasks, should_stop, filter>>
       \/ phase' = "test" /\ UNCHANGED <<pool, tasks, should_stop, filter, fetched>>
       \/ TaskEnds /\ UNCHANGED <<filter, fetched>>
    /\ UNCHANGED <<service, caches, pc, calls, disposing, ending>>

\* The service answers with the endpoint, with none or several, or the client
\* throws, which ends the loop.  (The comparison with the cached information
\* compares pointers and never finds the two equal.)
Fetch ==
    /\ Running /\ phase = "fetch"
    /\ \/ /\ filter' = [filter EXCEPT ![Owner(Loop)] = AllowedAndBlocked(list[Host(Loop)])]
          /\ fetched' = [fetched EXCEPT ![Owner(Loop)] = list[Host(Loop)]]
          /\ phase' = "put" /\ UNCHANGED <<pool, tasks, should_stop>>
       \/ phase' = "test" /\ UNCHANGED <<pool, tasks, should_stop, filter, fetched>>
       \/ TaskEnds /\ UNCHANGED <<filter, fetched>>
    /\ UNCHANGED <<service, caches, pc, calls, disposing, ending>>

\* Mutant: once there is information, the flag is not looked at any more.
PutUntested ==
    /\ Running /\ phase = "put"
    /\ info' = [info EXCEPT ![Host(Loop)] = fetched[Owner(Loop)]]
    /\ phase' = "fetch"
    /\ UNCHANGED <<service, pool, tasks, should_stop, cached, expired, connection, disposing, ending>>

Put ==
    /\ Running /\ phase = "put"
    /\ info' = [info EXCEPT ![Host(Loop)] = fetched[Owner(Loop)]]
    /\ phase' = "test"
    /\ UNCHANGED <<service, pool, tasks, should_stop, cached, expired, connection, disposing, ending>>

\* Information nobody refreshes expires.
InfoExpires(e) ==
    /\ info[e] # NULL /\ ~(Running /\ Host(Loop) = e)
    /\ info' = [info EXCEPT ![e] = NULL]
    /\ UNCHANGED <<service, monitor, cached, expired, connection, disposing, ending>>

\* The endpoint is modified in the service.
Modify(e, l) ==
    /\ l # list[e] /\ list' = [list EXCEPT ![e] = l]
    /\ UNCHANGED <<endpoint, monitor, caches, connection, disposing, ending>>

-----------------------------------------------------------------------------
Init ==
    /\ endpoint \in [Conns -> Endpoints] /\ list \in [Endpoints -> Lists]
    /\ pool = "empty" /\ tasks = <<>> /\ phase = "test" /\ should_stop = {}
    /\ cached = [e \in Endpoints |-> NULL] /\ expired = {} /\ info = [e \in Endpoints |-> NULL]
    /\ filter = [c \in Conns |-> NULL] /\ fetched = [c \in Conns |-> NULL]
    /\ pc = [c \in Conns |-> "idle"] /\ calls = [c \in Conns |-> 0]
    /\ disposing = [t \in Threads |-> NULL]
    /\ ending = FALSE /\ overlap = FALSE

Connection(c) == Call(c) \/ Create(c) \/ Start(c) \/ Emplace(c) \/ Wait(c)
PoolThread == Test \/ Fetch \/ Put \/ IdleEnds
Environment == \E e \in Endpoints : Expire(e) \/ InfoExpires(e) \/ \E l \in Lists : Modify(e, l)
Disposal == \E t \in Threads : Disposed(t) \/ \E e \in Endpoints : Dispose(t, e)

Working == {c \in Conns : pc[c] \in {"create", "start", "emplace"}}
           \union {t \in Threads : disposing[t] # NULL}

Next ==
    /\ FreeEnv \/ PoolThread \/ Disposal \/ Environment \/ \E c \in Conns : Connection(c)
    /\ overlap' = (overlap \/ Cardinality(Working') > 1)

\* Every thread goes on.
Fairness ==
    /\ WF_state(PoolThread)
    /\ \A t \in Threads : WF_state(Disposed(t))

Spec == Init /\ [][Next]_vars /\ Fairness

-----------------------------------------------------------------------------
(* Properties                                                              *)

\* The objects somebody still holds: the cache, a call, or who disposes of it.
Held ==
    {cached[e] : e \in Endpoints}
    \union {Mine(c) : c \in {d \in Conns : pc[d] \in {"start", "emplace", "wait"}}}
    \union {disposing[t].item : t \in {u \in Threads : disposing[u] # NULL}}

\* As long as no two threads work on the cache of monitors at once, the loop that
\* runs is that of a monitor that has not been destroyed, although the loop does
\* not hold it and the cache, the calls and the clean-up let go of monitors on
\* their own.  (overlap covers more than two accesses to the map: two first calls that
\* both find the pool empty in run() push two loops, of which emplace keeps one
\* monitor, and the other loop then runs on a destroyed one.)
LoopMonitorHeld ==
    ~overlap => \A i \in DOMAIN tasks : tasks[i] \in Held

\* The members of an endpoint are in the cache, where they let waiting calls go on,
\* only after the connection of a monitor of that endpoint has got its filter, however
\* loops, disposals and expirations follow each other: the only connection to an
\* endpoint that has waited for the members does not fail over unfiltered.
FilterBeforeInfo ==
    \A e \in Endpoints : info[e] # NULL => \E c \in Conns : endpoint[c] = e /\ filter[c] # NULL

\* Whoever waits in stop for the thread of the pool waits for ever only if the
\* thread is running the loop of a monitor that was not told to stop, that of
\* another endpoint.
StopReturns ==
    \A t \in Threads :
        disposing[t] # NULL ~> (disposing[t] = NULL \/ \E i \in DOMAIN tasks : tasks[i] \notin should_stop)
=============================================================================
