----------------------------- MODULE HostMonitor -----------------------------
(***************************************************************************)
(* Enhanced failure monitoring.  Every network call of a connection is     *)
(* wrapped (EFM_PROXY): start_monitoring registers a context with the      *)
(* MONITOR of the connection's node, stop_monitoring removes it.  A        *)
(* monitor runs on a thread of its own, pings the node while it has        *)
(* contexts, and closes the socket of a connection whose node is dead, so  *)
(* that the call blocked on it returns.                                    *)
(*                                                                         *)
(* Monitors are shared by all connections to a node, through the maps of   *)
(* MONITOR_THREAD_CONTAINER.  The module has one step per critical section *)
(* and per access to shared state outside of one.  Times are abstracted:   *)
(* the check interval is FAILURE_DETECTION_INTERVAL ("short") or           *)
(* milliseconds::max() ("max"), and whether FAILURE_DETECTION_TIME, the    *)
(* duration that makes a node dead and MONITOR_DISPOSAL_TIME have passed   *)
(* is left open (ConnectionContext models the first two).                  *)
(***************************************************************************)
EXTENDS Naturals, Sequences, FiniteSets

CONSTANTS
    Conns,      \* connections, each used by one application thread
    Monitors,   \* MONITOR objects that can be created
    Threads,    \* threads of the container's pool
    Hosts,      \* names a connection can be opened with
    InstanceOf, \* the instance behind a host name, as RETRIEVE_HOST_PORT_SQL names it
    MaxCalls,   \* bound: monitored calls per connection
    Failover,   \* whether connections fail over to another host
    Disposal,   \* whether MONITOR_DISPOSAL_TIME can pass
    Crashes,    \* bound: times the health of an instance changes
    NULL

Instances == {InstanceOf[h] : h \in Hosts}
Keys == Hosts \union Instances
\* The contexts of a connection, one per monitored call.
Contexts == Conns \X (1 .. MaxCalls)

ASSUME HostAssumption == InstanceOf \in [Hosts -> Instances]
ASSUME BoundAssumption == MaxCalls \in Nat /\ Crashes \in Nat
ASSUME SwitchAssumption == Failover \in BOOLEAN /\ Disposal \in BOOLEAN
ASSUME NullAssumption == /\ NULL \notin Monitors \union Conns \union Keys \union Contexts \union Threads
                         /\ "absent" \notin Monitors \union {NULL}
\* A connection opened with the name an instance gives itself is to that instance.
ASSUME InstanceAssumption ==
    \A h \in Hosts : InstanceOf[h] \in Hosts => InstanceOf[InstanceOf[h]] = InstanceOf[h]

VARIABLES
    up, changes,                \* instances that answer, and how often that changed
    server, node_keys, sock,    \* per connection: its host, its keys, socket open
    pc, calls, node, mon, shortest,     \* per connection: its application thread
    active, unhealthy,          \* contexts that are active, and with node_unhealthy
    host, contexts, stopped, interval, expired, lock,   \* per MONITOR
    monitor_map, task_map, available, owner,    \* the container; owner of its mutex_
    tpc, tmon, valid, todo, cur,   \* per pool thread running MONITOR::run
    pcF,                           \* the thread in SQLFreeEnv
    overwritten    \* history: monitors whose interval was set to "max" in spite of a call

netVars == <<up, changes, server, node_keys, sock>>
appVars == <<pc, calls, node, mon, shortest>>
ctxVars == <<active, unhealthy>>
monVars == <<host, contexts, stopped, interval, expired, lock>>
boxVars == <<monitor_map, task_map, available, owner>>
runVars == <<tpc, tmon, valid, todo, cur>>
vars == <<netVars, appVars, ctxVars, monVars, boxVars, runVars, pcF, overwritten>>

Context(c) == <<c, calls[c]>>
Goto(c, label) == pc' = [pc EXCEPT ![c] = label]
Mapped(keys) == {k \in keys : monitor_map[k] # "absent"}
\* Where a call is registered: from add_task until its context has been removed.
Registered == {"task", "call", "invalidate", "find", "remove"}
IsUp(h) == InstanceOf[h] \in up

-----------------------------------------------------------------------------
(* The application thread: EFM_PROXY::start_monitoring                     *)

\* get_or_create_monitor locks the container and looks for a key that is mapped;
\* which of several it finds first depends on the order of the strings.
Start(c) ==
    /\ pc[c] = "idle" /\ pcF = "no" /\ owner = NULL
    /\ calls[c] < MaxCalls
    /\ calls' = [calls EXCEPT ![c] = @ + 1]
    /\ owner' = c
    /\ Goto(c, "fetch")
    /\ IF Mapped(node_keys[c]) = {} THEN node' = [node EXCEPT ![c] = NULL]
       ELSE \E k \in Mapped(node_keys[c]) : node' = [node EXCEPT ![c] = k]
    /\ UNCHANGED <<netVars, mon, shortest, ctxVars, monVars,
                   monitor_map, task_map, available, runVars, pcF, overwritten>>

\* monitor_map[node], under a second lock: operator[] inserts a null pointer
\* when the entry has gone since.
Fetch(c) ==
    /\ pc[c] = "fetch" /\ node[c] # NULL
    /\ monitor_map' = [monitor_map EXCEPT ![node[c]] = IF @ = "absent" THEN NULL ELSE @]
    /\ mon' = [mon EXCEPT ![c] = monitor_map'[node[c]]]
    /\ Goto(c, "populate")
    /\ UNCHANGED <<netVars, calls, node, shortest, ctxVars, monVars,
                   task_map, available, owner, runVars, pcF, overwritten>>

\* get_available_monitor takes the first of the queue unless it is stopped;
\* then, or when the queue is empty, a MONITOR for the connection's host is made.
GetOrCreate(c) ==
    /\ pc[c] = "fetch" /\ node[c] = NULL
    /\ LET reused == available # <<>> /\ ~stopped[Head(available)]
           first == IF available # <<>> THEN {Head(available)} ELSE {}
       IN
         /\ available' = IF available # <<>> THEN Tail(available) ELSE available
         /\ \/ /\ reused
               /\ mon' = [mon EXCEPT ![c] = Head(available)]
               /\ UNCHANGED <<host, task_map>>
            \/ /\ ~reused
               /\ task_map' = task_map \ first
               /\ \E m \in Monitors :
                    /\ host[m] = NULL
                    /\ host' = [host EXCEPT ![m] = server[c]]
                    /\ mon' = [mon EXCEPT ![c] = m]
    /\ Goto(c, "populate")
    /\ UNCHANGED <<netVars, calls, node, shortest, ctxVars, contexts, stopped, interval,
                   expired, lock, monitor_map, owner, runVars, pcF, overwritten>>

\* Mutant: the monitor is entered under the name of the host only.
PopulateHostOnly(c) ==
    /\ pc[c] = "populate"
    /\ monitor_map' = [monitor_map EXCEPT ![server[c]] = mon[c]]
    /\ owner' = NULL
    /\ Goto(c, "compare")
    /\ UNCHANGED <<netVars, calls, node, mon, shortest, ctxVars, monVars,
                   task_map, available, runVars, pcF, overwritten>>

\* populate_monitor_map, and the end of get_or_create_monitor.
Populate(c) ==
    /\ pc[c] = "populate"
    /\ monitor_map' = [k \in Keys |-> IF k \in node_keys[c] THEN mon[c] ELSE monitor_map[k]]
    /\ owner' = NULL
    /\ Goto(c, "compare")
    /\ UNCHANGED <<netVars, calls, node, mon, shortest, ctxVars, monVars,
                   task_map, available, runVars, pcF, overwritten>>

\* Mutant: the comparison of the intervals is the wrong way round.
CompareLonger(c) ==
    /\ pc[c] = "compare" /\ mon[c] # NULL
    /\ expired' = [expired EXCEPT ![mon[c]] = FALSE]
    /\ active' = active \union {Context(c)}
    /\ Goto(c, "push")
    /\ UNCHANGED <<netVars, calls, node, mon, shortest, unhealthy, host, contexts, stopped,
                   interval, lock, boxVars, runVars, pcF, overwritten>>

\* MONITOR::start_monitoring up to its lock: the interval and the timestamp are
\* shared with the monitor's thread and with other connections, unprotected.
Compare(c) ==
    /\ pc[c] = "compare" /\ mon[c] # NULL
    /\ interval' = [interval EXCEPT ![mon[c]] = "short"]
    /\ expired' = [expired EXCEPT ![mon[c]] = FALSE]
    /\ active' = active \union {Context(c)}
    /\ Goto(c, "push")
    /\ UNCHANGED <<netVars, calls, node, mon, shortest, unhealthy, host, contexts, stopped,
                   lock, boxVars, runVars, pcF, overwritten>>

\* start_monitoring called through the null pointer.
CompareNull(c) ==
    /\ pc[c] = "compare" /\ mon[c] = NULL
    /\ Goto(c, "crash")
    /\ UNCHANGED <<netVars, calls, node, mon, shortest, ctxVars, monVars, boxVars, runVars, pcF, overwritten>>

Push(c) ==
    /\ pc[c] = "push" /\ lock[mon[c]] = NULL
    /\ contexts' = [contexts EXCEPT ![mon[c]] = @ \union {Context(c)}]
    /\ Goto(c, "task")
    /\ UNCHANGED <<netVars, calls, node, mon, shortest, ctxVars, host, stopped, interval,
                   expired, lock, boxVars, runVars, pcF, overwritten>>

\* Mutant: the task captures the monitor after it has been moved from.
AddTaskMovedFrom(c) ==
    /\ pc[c] = "task"
    /\ \/ mon[c] \in task_map /\ UNCHANGED <<task_map, tpc, tmon>>
       \/ /\ mon[c] \notin task_map
          /\ task_map' = task_map \union {mon[c]}
          /\ \E t \in Threads : tpc[t] = "free" /\ tpc' = [tpc EXCEPT ![t] = "start"]
          /\ UNCHANGED tmon
    /\ Goto(c, "call")
    /\ UNCHANGED <<netVars, calls, node, mon, shortest, ctxVars, monVars,
                   monitor_map, available, owner, valid, todo, cur, pcF, overwritten>>

\* The pool grows by a thread for every task, so one is free to run it.
AddTask(c) ==
    /\ pc[c] = "task"
    /\ \/ mon[c] \in task_map /\ UNCHANGED <<task_map, tpc, tmon>>
       \/ /\ mon[c] \notin task_map
          /\ task_map' = task_map \union {mon[c]}
          /\ \E t \in Threads :
               /\ tpc[t] = "free"
               /\ tpc' = [tpc EXCEPT ![t] = "start"]
               /\ tmon' = [tmon EXCEPT ![t] = mon[c]]
    /\ Goto(c, "call")
    /\ UNCHANGED <<netVars, calls, node, mon, shortest, ctxVars, monVars,
                   monitor_map, available, owner, valid, todo, cur, pcF, overwritten>>

\* The call of the next proxy returns: the server answered, or the socket is
\* closed, or the connection to a dead server happens to be reset.
EndCall(c) ==
    /\ pc[c] = "call"
    /\ Goto(c, "invalidate")
    /\ UNCHANGED <<netVars, calls, node, mon, shortest, ctxVars, monVars, boxVars, runVars, pcF, overwritten>>

-----------------------------------------------------------------------------
(* EFM_PROXY::stop_monitoring                                              *)

\* Mutant: the context is left active.
InvalidateNothing(c) ==
    /\ pc[c] = "invalidate"
    /\ Goto(c, "find")
    /\ UNCHANGED <<netVars, calls, node, mon, shortest, ctxVars, monVars, boxVars, runVars, pcF, overwritten>>

Invalidate(c) ==
    /\ pc[c] = "invalidate"
    /\ active' = active \ {Context(c)}
    /\ Goto(c, "find")
    /\ UNCHANGED <<netVars, calls, node, mon, shortest, unhealthy, monVars, boxVars, runVars, pcF, overwritten>>

\* get_node and get_monitor with the context's keys.  Nothing else is done when
\* no monitor is found (or a null one).
Find(c) ==
    /\ pc[c] = "find"
    /\ \/ /\ \E k \in Mapped(node_keys[c]) :
               /\ monitor_map[k] # NULL
               /\ mon' = [mon EXCEPT ![c] = monitor_map[k]]
          /\ Goto(c, "remove")
       \/ /\ Mapped(node_keys[c]) = {} \/ \E k \in Mapped(node_keys[c]) : monitor_map[k] = NULL
          /\ Goto(c, "close")
          /\ UNCHANGED mon
    /\ UNCHANGED <<netVars, calls, node, shortest, ctxVars, monVars, boxVars, runVars, pcF, overwritten>>

\* Mutant: the list is changed without the monitor's mutex_.
RemoveUnlocked(c) ==
    /\ pc[c] = "remove"
    /\ contexts' = [contexts EXCEPT ![mon[c]] = @ \ {Context(c)}]
    /\ Goto(c, "shortest")
    /\ UNCHANGED <<netVars, calls, node, mon, shortest, ctxVars, host, stopped, interval,
                   expired, lock, boxVars, runVars, pcF, overwritten>>

\* Mutant: only an active context is removed, and this one is inactive by now.
RemoveActive(c) ==
    /\ pc[c] = "remove" /\ lock[mon[c]] = NULL
    /\ contexts' = [contexts EXCEPT ![mon[c]] = @ \ ({Context(c)} \intersect active)]
    /\ Goto(c, "shortest")
    /\ UNCHANGED <<netVars, calls, node, mon, shortest, ctxVars, host, stopped, interval,
                   expired, lock, boxVars, runVars, pcF, overwritten>>

Remove(c) ==
    /\ pc[c] = "remove" /\ lock[mon[c]] = NULL
    /\ contexts' = [contexts EXCEPT ![mon[c]] = @ \ {Context(c)}]
    /\ Goto(c, "shortest")
    /\ UNCHANGED <<netVars, calls, node, mon, shortest, ctxVars, host, stopped, interval,
                   expired, lock, boxVars, runVars, pcF, overwritten>>

\* find_shortest_interval.
FindShortest(c) ==
    /\ pc[c] = "shortest" /\ lock[mon[c]] = NULL
    /\ shortest' = [shortest EXCEPT ![c] = IF contexts[mon[c]] = {} THEN "max" ELSE "short"]
    /\ Goto(c, "assign")
    /\ UNCHANGED <<netVars, calls, node, mon, ctxVars, monVars, boxVars, runVars, pcF, overwritten>>

\* A call that has set the interval and has not been removed from the list.
InUse(c) == pc[c] \in {"push"} \union Registered

\* connection_check_interval is assigned outside of the lock, whoever else has
\* registered a context since the list was looked at.
SetInterval(c, value) ==
    /\ interval' = [interval EXCEPT ![mon[c]] = value]
    /\ overwritten' = IF value = "max" /\ \E d \in Conns \ {c} : mon[d] = mon[c] /\ InUse(d)
                      THEN overwritten \union {mon[c]} ELSE overwritten

Assign(c) ==
    /\ pc[c] = "assign"
    /\ SetInterval(c, shortest[c])
    /\ Goto(c, "close")
    /\ UNCHANGED <<netVars, calls, node, mon, shortest, ctxVars, host, contexts, stopped,
                   expired, lock, boxVars, runVars, pcF>>

\* close_socket() on a connection whose node was found unhealthy.
Close(c) ==
    /\ pc[c] = "close"
    /\ sock' = [sock EXCEPT ![c] = @ /\ Context(c) \notin unhealthy]
    /\ Goto(c, "idle")
    /\ UNCHANGED <<up, changes, server, node_keys, calls, node, mon, shortest, ctxVars,
                   monVars, boxVars, runVars, pcF, overwritten>>

Monitored(c) ==
    \/ Start(c) \/ Fetch(c) \/ GetOrCreate(c) \/ Populate(c)
    \/ Compare(c) \/ CompareNull(c) \/ Push(c) \/ AddTask(c)
    \/ Invalidate(c) \/ Find(c) \/ Remove(c) \/ FindShortest(c) \/ Assign(c) \/ Close(c)

-----------------------------------------------------------------------------
(* EFM_PROXY::set_connection after a failover, and                         *)
(* stop_monitoring_for_all_connections for the node that was left.         *)

\* generate_node_keys: the instance is asked for its name when it answers.
Settle(c) ==
    /\ node_keys' = [node_keys EXCEPT ![c] =
         {server'[c]} \union (IF IsUp(server'[c]) THEN {InstanceOf[server'[c]]} ELSE {})]
    /\ Goto(c, "idle")

SetConnection(c) ==
    /\ Failover /\ pc[c] = "idle" /\ pcF = "no"
    /\ calls[c] \in 1 .. MaxCalls - 1
    /\ ~sock[c] \/ ~IsUp(server[c])
    /\ \E h \in Hosts \ {server[c]} : server' = [server EXCEPT ![c] = h]
    /\ sock' = [sock EXCEPT ![c] = TRUE]
    /\ \/ /\ \E k \in Mapped(node_keys[c]) :
               /\ monitor_map[k] # NULL
               /\ mon' = [mon EXCEPT ![c] = monitor_map[k]]
          /\ Goto(c, "clear")
          /\ UNCHANGED node_keys
       \/ /\ Mapped(node_keys[c]) = {} \/ \E k \in Mapped(node_keys[c]) : monitor_map[k] = NULL
          /\ Settle(c)
          /\ UNCHANGED mon
    /\ UNCHANGED <<up, changes, calls, node, shortest, ctxVars, monVars, boxVars, runVars, pcF, overwritten>>

ClearContexts(c) ==
    /\ pc[c] = "clear" /\ lock[mon[c]] = NULL
    /\ contexts' = [contexts EXCEPT ![mon[c]] = {}]
    /\ Goto(c, "max")
    /\ UNCHANGED <<netVars, calls, node, mon, shortest, ctxVars, host, stopped, interval,
                   expired, lock, boxVars, runVars, pcF, overwritten>>

ResetInterval(c) ==
    /\ pc[c] = "max"
    /\ SetInterval(c, "max")
    /\ Goto(c, "unmap")
    /\ UNCHANGED <<netVars, calls, node, mon, shortest, ctxVars, host, contexts, stopped,
                   expired, lock, boxVars, runVars, pcF>>

RemoveMapping(m) ==
    monitor_map' = [k \in Keys |-> IF monitor_map[k] = m THEN "absent" ELSE monitor_map[k]]

ResetUnmap(c) ==
    /\ pc[c] = "unmap"
    /\ RemoveMapping(mon[c])
    /\ Goto(c, "release")
    /\ UNCHANGED <<netVars, calls, node, mon, shortest, ctxVars, monVars,
                   task_map, available, owner, runVars, pcF, overwritten>>

ResetRelease(c) ==
    /\ pc[c] = "release"
    /\ available' = Append(available, mon[c])
    /\ UNCHANGED server
    /\ Settle(c)
    /\ UNCHANGED <<up, changes, sock, calls, node, mon, shortest, ctxVars, monVars,
                   monitor_map, task_map, owner, runVars, pcF, overwritten>>

FailOver(c) ==
    SetConnection(c) \/ ClearContexts(c) \/ ResetInterval(c) \/ ResetUnmap(c) \/ ResetRelease(c)

-----------------------------------------------------------------------------
(* MONITOR::run on thread t of the pool                                    *)

Step(t, label) == tpc' = [tpc EXCEPT ![t] = label]

RunStart(t) ==
    /\ tpc[t] = "start"
    /\ stopped' = [stopped EXCEPT ![tmon[t]] = FALSE]
    /\ Step(t, "loop")
    /\ UNCHANGED <<netVars, appVars, ctxVars, host, contexts, interval, expired, lock, boxVars,
                   tmon, valid, todo, cur, pcF, overwritten>>

\* The loop condition, and have_contexts under the lock.
RunLoop(t) ==
    /\ tpc[t] = "loop" /\ lock[tmon[t]] = NULL
    /\ Step(t, IF stopped[tmon[t]] THEN "unused"
               ELSE IF contexts[tmon[t]] # {} THEN "ping" ELSE "idle")
    /\ UNCHANGED <<netVars, appVars, ctxVars, monVars, boxVars, tmon, valid, todo, cur, pcF, overwritten>>

\* check_connection_status: a ping, or an attempt to connect, to the host the
\* monitor was created with.
Ping(t) ==
    /\ tpc[t] = "ping"
    /\ expired' = [expired EXCEPT ![tmon[t]] = FALSE]
    /\ valid' = [valid EXCEPT ![t] = IsUp(host[tmon[t]])]
    /\ Step(t, "status")
    /\ UNCHANGED <<netVars, appVars, ctxVars, host, contexts, stopped, interval, lock, boxVars,
                   tmon, todo, cur, pcF, overwritten>>

\* The loop over the contexts holds the monitor's mutex_ until it ends.
LockContexts(t) ==
    /\ tpc[t] = "status" /\ lock[tmon[t]] = NULL
    /\ lock' = [lock EXCEPT ![tmon[t]] = t]
    /\ todo' = [todo EXCEPT ![t] = contexts[tmon[t]]]
    /\ Step(t, "update")
    /\ UNCHANGED <<netVars, appVars, ctxVars, host, contexts, stopped, interval, expired, boxVars,
                   tmon, valid, cur, pcF, overwritten>>

\* update_connection_status of the next context x:
\* it is not active, or FAILURE_DETECTION_TIME has not passed since it started;
Skip(t, x) ==
    UNCHANGED <<ctxVars, cur>> /\ UNCHANGED tpc

\* the ping was answered;
Alive(t, x) ==
    /\ x \in active /\ valid[t]
    /\ unhealthy' = unhealthy \ {x}
    /\ UNCHANGED <<active, cur, tpc>>

\* the ping failed, and has failed long enough: abort_connection.
Dead(t, x) ==
    /\ x \in active /\ ~valid[t]
    /\ unhealthy' = unhealthy \union {x}
    /\ cur' = [cur EXCEPT ![t] = x]
    /\ Step(t, "abort")
    /\ UNCHANGED active

Update(t) ==
    /\ tpc[t] = "update"
    /\ \E x \in todo[t] :
         /\ Skip(t, x) \/ Alive(t, x) \/ Dead(t, x)
         /\ todo' = [todo EXCEPT ![t] = @ \ {x}]
    /\ UNCHANGED <<netVars, appVars, monVars, boxVars, tmon, valid, pcF, overwritten>>

\* Mutant: the test is the wrong way round.
AbortSwapped(t) ==
    /\ tpc[t] = "abort"
    /\ Step(t, IF cur[t] \in active THEN "update" ELSE "shut")
    /\ UNCHANGED <<netVars, appVars, ctxVars, monVars, boxVars, tmon, valid, todo, cur, pcF,
                   overwritten>>

\* abort_connection tests again that the context is active;
Abort(t) ==
    /\ tpc[t] = "abort"
    /\ Step(t, IF cur[t] \in active THEN "shut" ELSE "update")
    /\ UNCHANGED <<netVars, appVars, ctxVars, monVars, boxVars, tmon, valid, todo, cur, pcF, overwritten>>

\* and close_socket shuts the socket of the connection down.
Shut(t) ==
    /\ tpc[t] = "shut"
    /\ sock' = [sock EXCEPT ![cur[t][1]] = FALSE]
    /\ Step(t, "update")
    /\ UNCHANGED <<up, changes, server, node_keys, appVars, ctxVars, monVars, boxVars,
                   tmon, valid, todo, cur, pcF, overwritten>>

\* Mutant: the mutex_ is not released after the loop.
UnlockForgotten(t) ==
    /\ tpc[t] = "update" /\ todo[t] = {}
    /\ Step(t, "interval")
    /\ UNCHANGED <<netVars, appVars, ctxVars, monVars, boxVars, tmon, valid, todo, cur, pcF, overwritten>>

Unlock(t) ==
    /\ tpc[t] = "update" /\ todo[t] = {}
    /\ lock' = [lock EXCEPT ![tmon[t]] = NULL]
    /\ Step(t, "interval")
    /\ UNCHANGED <<netVars, appVars, ctxVars, host, contexts, stopped, interval, expired, boxVars,
                   tmon, valid, todo, cur, pcF, overwritten>>

\* Mutant: the interval is used although there are no contexts.
SleepInterval(t) ==
    /\ tpc[t] = "interval" /\ lock[tmon[t]] = NULL
    /\ Step(t, IF interval[tmon[t]] = "short" THEN "loop" ELSE "asleep")
    /\ UNCHANGED <<netVars, appVars, ctxVars, monVars, boxVars, tmon, valid, todo, cur, pcF, overwritten>>

\* get_connection_check_interval: 0 without contexts; milliseconds::max() is a
\* sleep that does not end.
Sleep(t) ==
    /\ tpc[t] = "interval" /\ lock[tmon[t]] = NULL
    /\ Step(t, IF contexts[tmon[t]] = {} \/ interval[tmon[t]] = "short"
               THEN "loop" ELSE "asleep")
    /\ UNCHANGED <<netVars, appVars, ctxVars, monVars, boxVars, tmon, valid, todo, cur, pcF, overwritten>>

\* Without contexts: leave the loop once MONITOR_DISPOSAL_TIME has passed.
Idle(t) ==
    /\ tpc[t] = "idle"
    /\ Step(t, IF expired[tmon[t]] THEN "unused" ELSE "loop")
    /\ UNCHANGED <<netVars, appVars, ctxVars, monVars, boxVars, tmon, valid, todo, cur, pcF, overwritten>>

\* notify_unused and release_resource, in two critical sections.
Unused(t) ==
    /\ tpc[t] = "unused"
    /\ RemoveMapping(tmon[t])
    /\ Step(t, "erase")
    /\ UNCHANGED <<netVars, appVars, ctxVars, monVars, task_map, available, owner,
                   tmon, valid, todo, cur, pcF, overwritten>>

EraseTask(t) ==
    /\ tpc[t] = "erase"
    /\ task_map' = task_map \ {tmon[t]}
    /\ Step(t, "end")
    /\ UNCHANGED <<netVars, appVars, ctxVars, monVars, monitor_map, available, owner,
                   tmon, valid, todo, cur, pcF, overwritten>>

RunEnd(t) ==
    /\ tpc[t] = "end"
    /\ stopped' = [stopped EXCEPT ![tmon[t]] = TRUE]
    /\ Step(t, "free")
    /\ tmon' = [tmon EXCEPT ![t] = NULL]
    /\ valid' = [valid EXCEPT ![t] = TRUE]
    /\ cur' = [cur EXCEPT ![t] = NULL]
    /\ UNCHANGED <<netVars, appVars, ctxVars, host, contexts, interval, expired, lock, boxVars,
                   todo, pcF, overwritten>>

Run(t) ==
    \/ RunStart(t) \/ RunLoop(t) \/ Ping(t) \/ LockContexts(t) \/ Update(t)
    \/ Abort(t) \/ Shut(t) \/ Unlock(t) \/ Sleep(t) \/ Idle(t)
    \/ Unused(t) \/ EraseTask(t) \/ RunEnd(t)

-----------------------------------------------------------------------------
(* SQLFreeEnv: release_instance and release_resources                      *)

\* The application has freed its connections.
FreeEnv ==
    /\ pcF = "no" /\ \A c \in Conns : pc[c] = "idle"
    /\ \E m \in Monitors : host[m] # NULL
    /\ stopped' = [m \in Monitors |-> m \in task_map \/ stopped[m]]
    /\ pcF' = "join"
    /\ UNCHANGED <<netVars, appVars, ctxVars, host, contexts, interval, expired, lock,
                   boxVars, runVars, overwritten>>

\* thread_pool.stop(true) has joined every thread; the maps are cleared.
Joined ==
    /\ pcF = "join" /\ \A t \in Threads : tpc[t] = "free"
    /\ monitor_map' = [k \in Keys |-> "absent"]
    /\ task_map' = {}
    /\ available' = <<>>
    /\ pcF' = "done"
    /\ UNCHANGED <<netVars, appVars, ctxVars, monVars, owner, runVars, overwritten>>

-----------------------------------------------------------------------------
(* Time and the cluster                                                    *)

\* MONITOR_DISPOSAL_TIME has passed since last_context_timestamp.  A running
\* monitor with contexts refreshes it at every ping, and no connection takes so
\* long from its own refresh to its push.
Expire(m) ==
    /\ Disposal /\ ~expired[m]
    /\ host[m] # NULL /\ contexts[m] = {}
    /\ \A c \in Conns : ~(pc[c] = "push" /\ mon[c] = m)
    /\ expired' = [expired EXCEPT ![m] = TRUE]
    /\ UNCHANGED <<netVars, appVars, ctxVars, host, contexts, stopped, interval, lock, boxVars,
                   runVars, pcF, overwritten>>

\* An instance stops answering, or answers again.
Change(i) ==
    /\ changes < Crashes
    /\ changes' = changes + 1
    /\ up' = IF i \in up THEN up \ {i} ELSE up \union {i}
    /\ UNCHANGED <<server, node_keys, sock, appVars, ctxVars, monVars, boxVars, runVars, pcF, overwritten>>

Init ==
    /\ up = Instances /\ changes = 0
    /\ server \in [Conns -> Hosts]
    /\ node_keys = [c \in Conns |-> {server[c], InstanceOf[server[c]]}]
    /\ sock = [c \in Conns |-> TRUE]
    /\ pc = [c \in Conns |-> "idle"]
    /\ calls = [c \in Conns |-> 0]
    /\ node = [c \in Conns |-> NULL]
    /\ mon = [c \in Conns |-> NULL]
    /\ shortest = [c \in Conns |-> "max"]
    /\ active = {} /\ unhealthy = {}
    /\ host = [m \in Monitors |-> NULL]
    /\ contexts = [m \in Monitors |-> {}]
    /\ stopped = [m \in Monitors |-> TRUE]
    /\ interval = [m \in Monitors |-> "max"]
    /\ expired = [m \in Monitors |-> FALSE]
    /\ lock = [m \in Monitors |-> NULL]
    /\ monitor_map = [k \in Keys |-> "absent"]
    /\ task_map = {}
    /\ available = <<>>
    /\ owner = NULL
    /\ tpc = [t \in Threads |-> "free"]
    /\ tmon = [t \in Threads |-> NULL]
    /\ valid = [t \in Threads |-> TRUE]
    /\ todo = [t \in Threads |-> {}]
    /\ cur = [t \in Threads |-> NULL]
    /\ pcF = "no" /\ overwritten = {}

Next ==
    \/ \E c \in Conns : Monitored(c) \/ EndCall(c) \/ FailOver(c)
    \/ \E t \in Threads : Run(t)
    \/ FreeEnv \/ Joined
    \/ \E m \in Monitors : Expire(m)
    \/ \E i \in Instances : Change(i)

\* Threads are scheduled, and one that waits for a mutex gets it although the
\* monitor takes it again after every sleep; a call returns once the server answers or its socket
\* is closed; time passes, so a node that fails every ping is dead in the end
\* and an unused monitor reaches its disposal time.  Nothing makes a new call,
\* a failover or SQLFreeEnv happen.
Returns(c) == EndCall(c) /\ (IsUp(server[c]) \/ ~sock[c])
Fairness ==
    /\ \A c \in Conns : SF_vars(~(pc[c] = "idle") /\ (Monitored(c) \/ FailOver(c)))
    /\ \A c \in Conns : WF_vars(Returns(c))
    /\ \A t \in Threads : WF_vars(Run(t)) /\ SF_vars(Update(t) /\ tpc'[t] = "abort")
    /\ \A m \in Monitors : WF_vars(Expire(m))
    /\ WF_vars(Joined)

Spec == Init /\ [][Next]_vars /\ Fairness

-----------------------------------------------------------------------------
(* Properties                                                              *)

AppPC == {"idle", "fetch", "populate", "compare", "push", "task", "call", "invalidate", "find",
          "remove", "shortest", "assign", "close", "clear", "max", "unmap", "release", "crash"}
RunPC == {"free", "start", "loop", "ping", "status", "update", "abort", "shut", "interval",
          "asleep", "idle", "unused", "erase", "end"}

\* The state of the monitors, of the container and of the threads that use them.
\* A connection past populate_monitor_map has a monitor, unless it crashed.
TypeOK ==
    /\ up \subseteq Instances /\ changes \in 0 .. Crashes
    /\ server \in [Conns -> Hosts] /\ node_keys \in [Conns -> SUBSET Keys]
    /\ sock \in [Conns -> BOOLEAN]
    /\ pc \in [Conns -> AppPC] /\ calls \in [Conns -> 0 .. MaxCalls]
    /\ node \in [Conns -> Keys \union {NULL}]
    /\ mon \in [Conns -> Monitors \union {NULL}]
    /\ shortest \in [Conns -> {"short", "max"}]
    /\ active \subseteq Contexts /\ unhealthy \subseteq Contexts
    /\ host \in [Monitors -> Hosts \union {NULL}]
    /\ contexts \in [Monitors -> SUBSET Contexts]
    /\ stopped \in [Monitors -> BOOLEAN] /\ expired \in [Monitors -> BOOLEAN]
    /\ interval \in [Monitors -> {"short", "max"}]
    /\ lock \in [Monitors -> Threads \union {NULL}]
    /\ monitor_map \in [Keys -> Monitors \union {NULL, "absent"}]
    /\ task_map \subseteq Monitors
    /\ available \in Seq(Monitors)
    /\ owner \in Conns \union {NULL}
    /\ tpc \in [Threads -> RunPC]
    /\ tmon \in [Threads -> Monitors \union {NULL}]
    /\ valid \in [Threads -> BOOLEAN] /\ todo \in [Threads -> SUBSET Contexts]
    /\ cur \in [Threads -> Contexts \union {NULL}]
    /\ pcF \in {"no", "join", "done"} /\ overwritten \subseteq Monitors
    /\ \A t \in Threads : tpc[t] = "free" \/ tmon[t] # NULL

Ongoing(x) == x[2] = calls[x[1]] /\ pc[x[1]] \in Registered
Running(m) == {t \in Threads : tmon[t] = m /\ tpc[t] \notin {"free", "unused", "erase", "end"}}
\* A thread of the monitor is in the sleep of milliseconds::max().
Overslept(m) == \E t \in Threads : tmon[t] = m /\ tpc[t] = "asleep"

\* close_socket is only called on a connection whose monitored call has not
\* returned to the application: stop_monitoring waits for the loop over the
\* contexts, which holds the monitor's mutex_.
AbortOnlyDuringCall ==
    \A t \in Threads : tpc[t] = "shut" => Ongoing(cur[t])

\* After stop_monitoring the context is in no monitor's list.
NoStaleContext ==
    \A m \in Monitors : \A x \in contexts[m] : Ongoing(x)

\* While a call is under way its context is in the list of a monitor that runs and
\* checks: its interval is the one a call asked for, and it is not in the sleep that
\* does not end.  The exception is the race at the end of stop_monitoring, whose
\* outdated interval overwrites the one of a call that has just registered.
CallMonitored ==
    \A c \in Conns : pc[c] = "call" =>
        \E m \in Monitors :
          /\ Context(c) \in contexts[m] /\ Running(m) # {}
          /\ m \in overwritten \/ (interval[m] = "short" /\ ~Overslept(m))

\* Calls to one instance are registered with one monitor, under whichever of its
\* names their connections were opened.
OneMonitorPerInstance ==
    \A c, d \in Conns :
        {pc[c], pc[d]} \subseteq {"task", "call"} /\ InstanceOf[server[c]] = InstanceOf[server[d]]
        => \E m \in Monitors : {Context(c), Context(d)} \subseteq contexts[m]

\* Whatever becomes of the monitors, a context whose call has ended is inactive,
\* so that a monitor that still has it does not find its connection dead.
EndedContextsInactive ==
    \A m \in Monitors : \A x \in contexts[m] : x \in active => Ongoing(x) /\ pc[x[1]] # "remove"

\* A running monitor of the call's node has its context, be it asleep or not.
WatchedBy(c, m) ==
    /\ Context(c) \in contexts[m] /\ Running(m) # {}
    /\ InstanceOf[host[m]] = InstanceOf[server[c]]

\* A call on a dead node does not block for ever while a running monitor of that
\* node has its context: the monitor finds the node dead and closes the socket.
\* Only the interval overwritten by a concurrent stop_monitoring is excepted.
Watched(c) == pc[c] = "call" /\ \E m \in Monitors \ overwritten : WatchedBy(c, m)
CallEnds == \A c \in Conns : Watched(c) ~> ~Watched(c)

\* The same without the exception, as HostMonitoring.md has it: a monitor checks
\* the node periodically, so that a query fails instead of waiting indefinitely.
NoEndlessWait == \A c \in Conns :
    (pc[c] = "call" /\ \E m \in Monitors : WatchedBy(c, m))
      ~> ~(pc[c] = "call" /\ \E m \in Monitors : WatchedBy(c, m))

\* Stopping, and failing over, never waits for ever on a mutex.
StopReturns == \A c \in Conns :
    (pc[c] \notin {"idle", "call", "crash"}) ~> (pc[c] \in {"idle", "call", "crash"})
=============================================================================
