--------------------------- MODULE WriterFailover ---------------------------
(***************************************************************************)
(* One call of FAILOVER_WRITER_HANDLER::failover and the two tasks it      *)
(* races on the thread pool:                                               *)
(*   TaskA  RECONNECT_TO_WRITER_HANDLER  reconnects to the writer that was *)
(*          lost, until a topology read through it names it writer again;  *)
(*   TaskB  WAIT_NEW_WRITER_HANDLER      connects to a reader, reads the   *)
(*          topology through it until it names another writer, and         *)
(*          connects to that one.                                          *)
(* The first to connect publishes its result and cancels the other one     *)
(* through a FAILOVER_SYNC; the calling thread waits for that or for       *)
(* FAILOVER_TIMEOUT, and then polls the two futures.                       *)
(*                                                                         *)
(* Connections are raw pointers that somebody has to delete, so a state    *)
(* says for every connection whether it is allocated, and for every task   *)
(* which ones its members point at.  The host marks of mark_host_up and    *)
(* mark_host_down are read by build_hosts_list alone, which orders the     *)
(* readers that get_reader_connection tries: ReaderFailover models them,   *)
(* and this module takes from it that any reader may be the one connected. *)
(***************************************************************************)
EXTENDS FailoverSync

CONSTANTS
    Hosts,      \* instances of the cluster, by instance_name
    Conns,      \* connections that can be allocated at the same time
    Views,      \* topologies a node may report
    NULL        \* nullptr

\* A CLUSTER_TOPOLOGY_INFO.  query_for_topology keeps at most one writer.
Topology == [writer : Hosts \union {NULL}, readers : SUBSET Hosts]

ASSUME NullAssumption == NULL \notin Hosts /\ NULL \notin Conns /\ NULL \notin Topology
ASSUME ViewsAssumption == Views \subseteq Topology

VARIABLES
    num_tasks,          \* the FAILOVER_SYNC of this call
    expired,            \* FAILOVER_TIMEOUT has passed since the call
    cache,              \* topology_cache[cluster_id], NULL while being replaced
    link, peer,         \* per connection: its state, and the host it is to
    pcA, newA, latestA, resA,                    \* TaskA
    pcB, newB, readerB, hostB, topoB, latestB, resB, \* TaskB
    pcM, futA, futB,    \* calling thread, and which futures are still valid()
    arg,                \* the topology failover() was called with
    outcome, ret        \* how failover() ended, and the result it returned

syncVars == <<num_tasks, expired>>
connVars == <<link, peer>>
aVars == <<pcA, newA, latestA, resA>>
bVars == <<pcB, newB, readerB, hostB, topoB, latestB, resB>>
mVars == <<pcM, futA, futB, arg, outcome, ret>>
vars == <<syncVars, cache, connVars, aVars, bVars, mVars>>

\* WRITER_FAILOVER_RESULT.  The result of a task that has not connected, which
\* is also what failover() returns when it gives up.
Result == [connected : BOOLEAN, is_new_host : BOOLEAN,
           topology : Topology \union {NULL}, connection : Conns \union {NULL}]
NotConnected == [connected |-> FALSE, is_new_host |-> FALSE,
                 topology |-> NULL, connection |-> NULL]

\* total_hosts() == 0
NoHosts(t) == t.writer = NULL /\ t.readers = {}

EndedPC == {"done", "threw"}
EndedA == pcA \in EndedPC
EndedB == pcB \in EndedPC
\* A task has dereferenced a null topology and taken the process with it.
Crashed == pcA = "crash" \/ pcB = "crash"

\* Where each thread is.
AtA(label) == pcA = label /\ ~Crashed
AtB(label) == pcB = label /\ ~Crashed
AtM(label) == pcM = label /\ ~Crashed

OriginalWriter == arg.writer

\* CONNECTION_HANDLER::connect(host) that succeeds and yields connection c.
\* Which of the free objects it is has no consequence: always the same one.
Allocate(c, h) ==
    /\ link[c] = "none"
    /\ c = CHOOSE d \in Conns : link[d] = "none"
    /\ link' = [link EXCEPT ![c] = "open"]
    /\ peer' = [peer EXCEPT ![c] = h]

\* delete of the connections in S; a null pointer is skipped by the caller.
Delete(S) ==
    /\ link' = [c \in Conns |-> IF c \in S THEN "none" ELSE link[c]]
    /\ peer' = [c \in Conns |-> IF c \in S THEN NULL ELSE peer[c]]

\* is_connected(): the client library still has a socket.
IsConnected(c) == c # NULL /\ link[c] = "open"

\* try_execute_query fails; the connection may be lost with it, and one that
\* is lost already fails every query.
QueryFails(c) ==
    \/ UNCHANGED link
    \/ c \in Conns /\ link' = [link EXCEPT ![c] = "lost"]

-----------------------------------------------------------------------------
(* The calling thread: FAILOVER_WRITER_HANDLER::failover                   *)

Return(how, result) ==
    /\ pcM' = "done"
    /\ outcome' = how
    /\ ret' = result

\* A null or empty topology is refused before anything is started.
RefuseTopology ==
    /\ AtM("start")
    /\ arg = NULL \/ (arg # NULL /\ NoHosts(arg))
    /\ Return("failed", NotConnected)
    /\ UNCHANGED <<syncVars, cache, connVars, aVars, bVars, futA, futB, arg>>

\* get_writer() throws on a topology that has only readers.
NoOriginalWriter ==
    /\ AtM("start")
    /\ arg # NULL /\ ~NoHosts(arg) /\ arg.writer = NULL
    /\ Return("threw", NotConnected)
    /\ UNCHANGED <<syncVars, cache, connVars, aVars, bVars, futA, futB, arg>>

\* FAILOVER_SYNC(2) and the two push() calls.
StartTasks ==
    /\ AtM("start")
    /\ arg # NULL /\ arg.writer # NULL
    /\ num_tasks' = 2
    /\ pcA' = "head"
    /\ pcB' = "head"
    /\ topoB' = arg
    /\ futA' = TRUE
    /\ futB' = TRUE
    /\ pcM' = "wait"
    /\ UNCHANGED <<expired, cache, connVars, newA, latestA, resA,
                   newB, readerB, hostB, latestB, resB, arg, outcome, ret>>

\* wait_and_complete(writer_failover_timeout_ms).
Wait ==
    /\ AtM("wait")
    /\ WaitEnds(num_tasks, expired)
    /\ num_tasks' = WaitAndComplete
    /\ pcM' = "pollA"
    /\ UNCHANGED <<expired, cache, connVars, aVars, bVars,
                   futA, futB, arg, outcome, ret>>

\* The future of TaskA: get() rethrows what the task threw.
PollA ==
    /\ AtM("pollA")
    /\ \/ /\ futA /\ pcA = "threw"
          /\ futA' = FALSE
          /\ Return("threw", NotConnected)
       \/ /\ futA /\ pcA = "done" /\ resA.connected
          /\ futA' = FALSE
          /\ Return("connected", resA)
       \/ /\ futA /\ pcA = "done" /\ ~resA.connected
          /\ futA' = FALSE
          /\ pcM' = "pollB"
          /\ UNCHANGED <<outcome, ret>>
       \/ /\ ~(futA /\ EndedA)
          /\ pcM' = "pollB"
          /\ UNCHANGED <<futA, outcome, ret>>
    /\ UNCHANGED <<syncVars, cache, connVars, aVars, bVars, futB, arg>>

\* Mutant: the result is read as soon as it is there, not when the task has ended.
PollBPeeks ==
    /\ AtM("pollB")
    /\ \/ /\ futB /\ resB.connected
          /\ futB' = FALSE
          /\ Return("connected", resB)
       \/ /\ ~(futB /\ resB.connected)
          /\ pcM' = "remaining"
          /\ UNCHANGED <<futB, outcome, ret>>
    /\ UNCHANGED <<syncVars, cache, connVars, aVars, bVars, futA, arg>>

\* The future of TaskB, in the same way.
PollB ==
    /\ AtM("pollB")
    /\ \/ /\ futB /\ pcB = "threw"
          /\ futB' = FALSE
          /\ Return("threw", NotConnected)
       \/ /\ futB /\ pcB = "done" /\ resB.connected
          /\ futB' = FALSE
          /\ Return("connected", resB)
       \/ /\ futB /\ pcB = "done" /\ ~resB.connected
          /\ futB' = FALSE
          /\ pcM' = "remaining"
          /\ UNCHANGED <<outcome, ret>>
       \/ /\ ~(futB /\ EndedB)
          /\ pcM' = "remaining"
          /\ UNCHANGED <<futB, outcome, ret>>
    /\ UNCHANGED <<syncVars, cache, connVars, aVars, bVars, futA, arg>>

\* Neither future had a connection: give up when both are used up or the time
\* is over, poll again otherwise.
PollAgain ==
    /\ AtM("remaining")
    /\ IF (~futA /\ ~futB) \/ expired
       THEN Return("failed", NotConnected)
       ELSE pcM' = "pollA" /\ UNCHANGED <<outcome, ret>>
    /\ UNCHANGED <<syncVars, cache, connVars, aVars, bVars, futA, futB, arg>>

Main == RefuseTopology \/ NoOriginalWriter \/ StartTasks \/ Wait
        \/ PollA \/ PollB \/ PollAgain

\* FAILOVER_TIMEOUT passes.
Expire ==
    /\ ~Crashed /\ pcM \notin {"start", "done"}
    /\ ~expired
    /\ expired' = TRUE
    /\ UNCHANGED <<num_tasks, cache, connVars, aVars, bVars, mVars>>

-----------------------------------------------------------------------------
(* TaskA: RECONNECT_TO_WRITER_HANDLER::operator()                          *)

\* while (!f_sync->is_completed()): go on, or release and end.
HeadA ==
    /\ AtA("head")
    /\ IF IsCompleted(num_tasks)
       THEN Delete({newA}) /\ newA' = NULL /\ pcA' = "done"
       ELSE pcA' = "connect" /\ UNCHANGED <<connVars, newA>>
    /\ UNCHANGED <<syncVars, cache, latestA, resA, bVars, mVars>>

\* Mutant: a failed attempt takes the task off the race as if it had won it.
ConnectAGivesUp ==
    /\ AtA("connect")
    /\ \/ /\ newA' = NULL /\ pcA' = "head" /\ num_tasks' = MarkAsCompleteCancel
          /\ UNCHANGED connVars
       \/ \E c \in Conns : Allocate(c, OriginalWriter) /\ newA' = c /\ pcA' = "cached"
                           /\ UNCHANGED num_tasks
    /\ UNCHANGED <<expired, cache, latestA, resA, bVars, mVars>>

\* connect(original_writer); a failed attempt leaves a null pointer, sleeps
\* and starts over.
ConnectA ==
    /\ AtA("connect")
    /\ \/ /\ newA' = NULL /\ pcA' = "head"
          /\ UNCHANGED connVars
       \/ \E c \in Conns : Allocate(c, OriginalWriter) /\ newA' = c /\ pcA' = "cached"
    /\ UNCHANGED <<syncVars, cache, latestA, resA, bVars, mVars>>

\* get_topology(new_connection, true): the entry of the cache is read first ...
CachedA ==
    /\ AtA("cached")
    /\ latestA' = cache
    /\ pcA' = "query"
    /\ UNCHANGED <<syncVars, cache, connVars, newA, resA, bVars, mVars>>

\* ... and is what the caller gets when the query fails.
QueryA ==
    /\ AtA("query")
    /\ \/ /\ IsConnected(newA)
          /\ latestA' \in Views /\ pcA' = "reset"
          /\ UNCHANGED link
       \/ /\ QueryFails(newA)
          /\ pcA' = "judge" /\ UNCHANGED latestA
    /\ UNCHANGED <<syncVars, cache, peer, newA, resA, bVars, mVars>>

\* put_to_cache replaces an existing entry without the lock: reset(), and then
\* the assignment.
ResetA ==
    /\ AtA("reset")
    /\ cache' = NULL
    /\ pcA' = "put"
    /\ UNCHANGED <<syncVars, connVars, newA, latestA, resA, bVars, mVars>>

\* Mutant: a topology without a writer is not put back.
PutAUnlessNoWriter ==
    /\ AtA("put")
    /\ cache' = IF latestA.writer = NULL THEN cache ELSE latestA
    /\ pcA' = "judge"
    /\ UNCHANGED <<syncVars, connVars, newA, latestA, resA, bVars, mVars>>

PutA ==
    /\ AtA("put")
    /\ cache' = latestA
    /\ pcA' = "judge"
    /\ UNCHANGED <<syncVars, connVars, newA, latestA, resA, bVars, mVars>>

\* Mutant: any topology with a writer is good enough.
JudgeAAnyWriter ==
    /\ AtA("judge")
    /\ \/ /\ latestA # NULL /\ latestA.writer # NULL
          /\ pcA' = "check"
          /\ UNCHANGED <<connVars, newA>>
       \/ /\ latestA # NULL /\ latestA.writer = NULL
          /\ Delete({newA}) /\ newA' = NULL
          /\ pcA' = "head"
    /\ UNCHANGED <<syncVars, cache, latestA, resA, bVars, mVars>>

\* Mutant: the connection is not released before the next attempt.
JudgeAKeeps ==
    /\ AtA("judge")
    /\ \/ /\ latestA # NULL /\ latestA.writer = OriginalWriter
          /\ pcA' = "check"
       \/ /\ latestA # NULL /\ latestA.writer # OriginalWriter
          /\ pcA' = "head"
    /\ UNCHANGED <<syncVars, cache, connVars, newA, latestA, resA, bVars, mVars>>

\* total_hosts() > 0 && is_current_host_writer(): a null topology is
\* dereferenced, one without a writer makes get_writer() throw past the task.
JudgeA ==
    /\ AtA("judge")
    /\ \/ /\ latestA = NULL
          /\ pcA' = "crash"
          /\ UNCHANGED <<connVars, newA>>
       \/ /\ latestA # NULL /\ ~NoHosts(latestA) /\ latestA.writer = NULL
          /\ pcA' = "threw"
          /\ UNCHANGED <<connVars, newA>>
       \/ /\ latestA # NULL /\ latestA.writer = OriginalWriter
          /\ pcA' = "check"
          /\ UNCHANGED <<connVars, newA>>
       \/ /\ latestA # NULL
          /\ NoHosts(latestA) \/ latestA.writer \notin {NULL, OriginalWriter}
          /\ Delete({newA}) /\ newA' = NULL
          /\ pcA' = "head"
    /\ UNCHANGED <<syncVars, cache, latestA, resA, bVars, mVars>>

\* The second is_completed(): break out of the loop, or go on to publish.
CheckA ==
    /\ AtA("check")
    /\ IF IsCompleted(num_tasks)
       THEN Delete({newA}) /\ newA' = NULL /\ pcA' = "done"
       ELSE pcA' = "publish" /\ UNCHANGED <<connVars, newA>>
    /\ UNCHANGED <<syncVars, cache, latestA, resA, bVars, mVars>>

\* The result is filled in and mark_as_complete(true) wakes the caller; nobody
\* reads the result before the task has returned.
PublishA ==
    /\ AtA("publish")
    /\ resA' = [connected |-> TRUE, is_new_host |-> FALSE,
                topology |-> latestA, connection |-> newA]
    /\ num_tasks' = MarkAsCompleteCancel
    /\ pcA' = "return"
    /\ UNCHANGED <<expired, cache, connVars, newA, latestA, bVars, mVars>>

ReturnA ==
    /\ AtA("return")
    /\ pcA' = "done"
    /\ UNCHANGED <<syncVars, cache, connVars, newA, latestA, resA, bVars, mVars>>

TaskA == HeadA \/ ConnectA \/ CachedA \/ QueryA \/ ResetA \/ PutA \/ JudgeA
         \/ CheckA \/ PublishA \/ ReturnA

-----------------------------------------------------------------------------
(* TaskB: WAIT_NEW_WRITER_HANDLER::operator()                              *)

\* clean_up_reader_connection() deletes the reader's connection unless it has
\* become the new one.
ReaderToCleanUp == IF readerB # newB THEN {readerB} ELSE {}

\* while (!f_sync->is_completed()): publish a connection that works, look for
\* one otherwise; a cancelled task deletes what it holds.
HeadB ==
    /\ AtB("head")
    /\ IF IsCompleted(num_tasks)
       THEN /\ Delete(ReaderToCleanUp \union {newB})
            /\ newB' = NULL /\ readerB' = NULL
            /\ pcB' = "done"
       ELSE /\ pcB' = IF IsConnected(newB) THEN "publish" ELSE "reader"
            /\ UNCHANGED <<connVars, newB, readerB>>
    /\ UNCHANGED <<syncVars, cache, hostB, topoB, latestB, resB, aVars, mVars>>

\* connect_to_reader: get_reader_connection(current_topology, f_sync) tries the
\* readers again and again; it ends with a connection to one of them, without
\* one once it is cancelled, or with the exception of a mark_as_complete(false)
\* that lost a race.
ConnectToReaderB ==
    /\ AtB("reader")
    /\ \/ /\ IsCompleted(num_tasks)
          /\ pcB' = "refresh"
          /\ UNCHANGED <<connVars, readerB, hostB>>
       \/ \E c \in Conns, h \in topoB.readers :
             Allocate(c, h) /\ readerB' = c /\ hostB' = h /\ pcB' = "refresh"
       \/ /\ topoB.readers # {}
          /\ pcB' = "threw"
          /\ UNCHANGED <<connVars, readerB, hostB>>
    /\ UNCHANGED <<syncVars, cache, newB, topoB, latestB, resB, aVars, mVars>>

\* Mutant: do ... while, the first round runs although the task is cancelled.
RefreshBNoTest ==
    /\ AtB("refresh")
    /\ pcB' = "cached"
    /\ UNCHANGED <<syncVars, cache, connVars, newB, readerB, hostB, topoB,
                   latestB, resB, aVars, mVars>>

\* refresh_topology_and_connect_to_new_writer: the loop's test.
RefreshB ==
    /\ AtB("refresh")
    /\ pcB' = IF IsCompleted(num_tasks) THEN "cleanup" ELSE "cached"
    /\ UNCHANGED <<syncVars, cache, connVars, newB, readerB, hostB, topoB,
                   latestB, resB, aVars, mVars>>

\* get_topology(reader_connection, true), step by step as for TaskA.
CachedB ==
    /\ AtB("cached")
    /\ latestB' = cache
    /\ pcB' = "query"
    /\ UNCHANGED <<syncVars, cache, connVars, newB, readerB, hostB, topoB,
                   resB, aVars, mVars>>

QueryB ==
    /\ AtB("query")
    /\ \/ /\ IsConnected(readerB)
          /\ latestB' \in Views /\ pcB' = "reset"
          /\ UNCHANGED link
       \/ /\ QueryFails(readerB)
          /\ pcB' = "judge" /\ UNCHANGED latestB
    /\ UNCHANGED <<syncVars, cache, peer, newB, readerB, hostB, topoB, resB,
                   aVars, mVars>>

ResetB ==
    /\ AtB("reset")
    /\ cache' = NULL
    /\ pcB' = "put"
    /\ UNCHANGED <<syncVars, connVars, newB, readerB, hostB, topoB, latestB,
                   resB, aVars, mVars>>

PutB ==
    /\ AtB("put")
    /\ cache' = latestB
    /\ pcB' = "judge"
    /\ UNCHANGED <<syncVars, connVars, newB, readerB, hostB, topoB, latestB,
                   resB, aVars, mVars>>

\* Mutant: the topology is taken over before it is looked at.
JudgeBTakesNull ==
    /\ AtB("judge")
    /\ topoB' = latestB
    /\ pcB' = IF latestB = NULL THEN "refresh"
              ELSE IF latestB.writer \in {NULL, OriginalWriter} THEN "refresh" ELSE "connect"
    /\ UNCHANGED <<syncVars, cache, connVars, newB, readerB, hostB, latestB,
                   resB, aVars, mVars>>

\* The writer candidate of the latest topology: none, the writer that was lost
\* (left to TaskA), or a new one to connect to.
JudgeB ==
    /\ AtB("judge")
    /\ \/ latestB = NULL /\ pcB' = "crash" /\ UNCHANGED topoB
       \/ latestB # NULL /\ NoHosts(latestB) /\ pcB' = "refresh" /\ UNCHANGED topoB
       \/ /\ latestB # NULL /\ ~NoHosts(latestB)
          /\ topoB' = latestB
          /\ pcB' = CASE latestB.writer = NULL           -> "threw"
                      [] latestB.writer = OriginalWriter -> "refresh"
                      [] OTHER                           -> "connect"
    /\ UNCHANGED <<syncVars, cache, connVars, newB, readerB, hostB, latestB,
                   resB, aVars, mVars>>

\* connect_to_writer: the reader that was used turns out to be the candidate,
\* or a connection of its own is made (over whatever new_connection held).
ConnectB ==
    /\ AtB("connect")
    /\ \/ /\ topoB.writer = hostB
          /\ newB' = readerB /\ pcB' = "cleanup"
          /\ UNCHANGED connVars
       \/ /\ topoB.writer # hostB
          /\ newB' = NULL /\ pcB' = "refresh"
          /\ UNCHANGED connVars
       \/ /\ topoB.writer # hostB
          /\ \E c \in Conns : Allocate(c, topoB.writer) /\ newB' = c
          /\ pcB' = "cleanup"
    /\ UNCHANGED <<syncVars, cache, readerB, hostB, topoB, latestB, resB, aVars, mVars>>

\* Mutant: the reader's connection goes even when it has become the new one.
CleanUpBAlways ==
    /\ AtB("cleanup")
    /\ Delete({readerB})
    /\ readerB' = NULL
    /\ pcB' = "head"
    /\ UNCHANGED <<syncVars, cache, newB, hostB, topoB, latestB, resB, aVars, mVars>>

\* clean_up_reader_connection() at the end of a round.
CleanUpB ==
    /\ AtB("cleanup")
    /\ Delete(ReaderToCleanUp)
    /\ readerB' = IF readerB # newB THEN NULL ELSE readerB
    /\ pcB' = "head"
    /\ UNCHANGED <<syncVars, cache, newB, hostB, topoB, latestB, resB, aVars, mVars>>

\* Mutant: the caller is woken and the task goes on with its loop.
PublishBNoReturn ==
    /\ AtB("publish")
    /\ resB' = [connected |-> TRUE, is_new_host |-> TRUE,
                topology |-> topoB, connection |-> newB]
    /\ num_tasks' = MarkAsCompleteCancel
    /\ pcB' = "head"
    /\ UNCHANGED <<expired, cache, connVars, newB, readerB, hostB, topoB, latestB,
                   aVars, mVars>>

PublishB ==
    /\ AtB("publish")
    /\ resB' = [connected |-> TRUE, is_new_host |-> TRUE,
                topology |-> topoB, connection |-> newB]
    /\ num_tasks' = MarkAsCompleteCancel
    /\ pcB' = "return"
    /\ UNCHANGED <<expired, cache, connVars, newB, readerB, hostB, topoB, latestB,
                   aVars, mVars>>

ReturnB ==
    /\ AtB("return")
    /\ pcB' = "done"
    /\ UNCHANGED <<syncVars, cache, connVars, newB, readerB, hostB, topoB,
                   latestB, resB, aVars, mVars>>

TaskB == HeadB \/ ConnectToReaderB \/ RefreshB \/ CachedB \/ QueryB \/ ResetB
         \/ PutB \/ JudgeB \/ ConnectB \/ CleanUpB \/ PublishB \/ ReturnB

-----------------------------------------------------------------------------
Init ==
    /\ num_tasks = 0
    /\ expired = FALSE
    /\ cache \in Views
    /\ link = [c \in Conns |-> "none"]
    /\ peer = [c \in Conns |-> NULL]
    /\ pcA = "idle" /\ newA = NULL /\ latestA = NULL /\ resA = NotConnected
    /\ pcB = "idle" /\ newB = NULL /\ readerB = NULL /\ hostB = NULL
    /\ topoB = NULL /\ latestB = NULL /\ resB = NotConnected
    /\ pcM = "start" /\ futA = FALSE /\ futB = FALSE
    /\ arg \in Views \union {NULL}
    /\ outcome = "none" /\ ret = NotConnected

\* The call has returned and its tasks have ended (or the process has).
Ended == (pcM = "done" /\ pcA \in EndedPC \union {"idle"} /\ pcB \in EndedPC \union {"idle"})
         \/ Crashed
Terminated == Ended /\ UNCHANGED vars

Next ==
    \/ Main
    \/ TaskA
    \/ TaskB
    \/ Expire
    \/ Terminated

\* Threads are scheduled, connection attempts and queries end (CONNECT_TIMEOUT,
\* NETWORK_TIMEOUT) and time passes.
Fairness == WF_vars(Main) /\ WF_vars(TaskA) /\ WF_vars(TaskB) /\ WF_vars(Expire)

Spec == Init /\ [][Next]_vars /\ Fairness

-----------------------------------------------------------------------------
(* Properties                                                              *)

PointerOrNull == Conns \union {NULL}

\* The variables have their types; a task that runs has a topology to work on.
TypeOK ==
    /\ num_tasks \in 0 .. 2
    /\ expired \in BOOLEAN
    /\ cache \in Topology \union {NULL}
    /\ link \in [Conns -> {"none", "open", "lost"}]
    /\ peer \in [Conns -> Hosts \union {NULL}]
    /\ pcA \in {"idle", "head", "connect", "cached", "query", "reset", "put",
                "judge", "check", "publish", "return", "done", "threw", "crash"}
    /\ newA \in PointerOrNull
    /\ latestA \in Topology \union {NULL}
    /\ resA \in Result
    /\ pcB \in {"idle", "head", "reader", "refresh", "cached", "query", "reset", "put",
                "judge", "connect", "cleanup", "publish", "return", "done", "threw", "crash"}
    /\ newB \in PointerOrNull /\ readerB \in PointerOrNull
    /\ hostB \in Hosts \union {NULL}
    /\ topoB \in Topology \union {NULL}
    /\ pcB # "idle" => topoB # NULL
    /\ latestB \in Topology \union {NULL}
    /\ resB \in Result
    /\ pcM \in {"start", "wait", "pollA", "pollB", "remaining", "done"}
    /\ futA \in BOOLEAN /\ futB \in BOOLEAN
    /\ arg \in Topology \union {NULL}
    /\ pcM \notin {"start", "done"} \/ pcA # "idle" => arg # NULL /\ arg.writer # NULL
    /\ outcome \in {"none", "connected", "failed", "threw"}
    /\ ret \in Result

\* The connections a task that has not ended points at.
HeldA == IF EndedA THEN {} ELSE {newA} \ {NULL}
HeldB == IF EndedB THEN {} ELSE {newB, readerB} \ {NULL}

\* Every connection the code may still use or delete has not been deleted: the
\* members of running tasks, the results they have published and the result
\* failover() returned.  clean_up_reader_connection and release_new_connection
\* may delete the same object when the reader was promoted, or delete what the
\* caller has been given.
NoDanglingConnection ==
    /\ \A c \in HeldA \union HeldB : link[c] # "none"
    /\ \A r \in {resA, resB, ret} : r.connected => link[r.connection] # "none"

\* No connection is in the hands of two parties that both delete it: the tasks
\* share nothing, and what failover() returned is no running task's any more.
ExclusiveConnections ==
    /\ HeldA \intersect HeldB = {}
    /\ ret.connected => ret.connection \notin HeldA \union HeldB

\* The result is consistent with itself: its connection is to the host its
\* topology names writer, and is_new_host tells whether that is another host
\* than the one that was lost (failover_to_writer takes host, topology and
\* connection from it without comparing them).
ResultNamesItsHost ==
    ret.connected =>
        /\ ret.topology # NULL
        /\ peer[ret.connection] = ret.topology.writer
        /\ ret.is_new_host <=> ret.topology.writer # OriginalWriter

\* Why these hold: who owns what, step by step.
RunsA == ~EndedA /\ pcA # "idle"
RunsB == ~EndedB /\ pcB # "idle"

\* TaskA holds a connection, to the writer that was lost, from connect() on ...
OwnA ==
    /\ pcA \in {"idle", "head", "connect"} => newA = NULL
    /\ RunsA /\ pcA \notin {"head", "connect"} =>
           newA \in Conns /\ link[newA] # "none" /\ peer[newA] = OriginalWriter
    /\ pcA \in {"check", "publish", "return"} =>
           latestA # NULL /\ latestA.writer = OriginalWriter

\* ... and TaskB one to a reader and one to a new writer; one it goes on looking
\* with has no use any more.
OwnB ==
    /\ pcB = "idle" => newB = NULL /\ readerB = NULL
    /\ RunsB /\ readerB # NULL => link[readerB] # "none" /\ peer[readerB] = hostB
    /\ RunsB /\ newB # NULL => link[newB] # "none"
    /\ RunsB /\ pcB \notin {"head", "cleanup", "publish", "return"} =>
           (newB # NULL => link[newB] = "lost")
    /\ pcB \in {"head", "cleanup", "publish", "return"} =>
           (newB # NULL /\ link[newB] = "open" =>
               peer[newB] = topoB.writer /\ topoB.writer # OriginalWriter)
    /\ pcB \in {"publish", "return"} => newB \in Conns /\ link[newB] = "open"
    /\ pcB = "connect" => topoB.writer \notin {NULL, OriginalWriter}

\* No two hold the same connection.
Apart ==
    /\ RunsA /\ RunsB /\ newA # NULL => newA \notin {newB, readerB}
    /\ resA.connected /\ RunsB => resA.connection \notin {newB, readerB}
    /\ resB.connected /\ RunsA => resB.connection # newA

\* A published result keeps its connection, and is what its publisher saw.
OwnResults ==
    /\ resA.connected =>
           /\ pcA \in {"return", "done"}
           /\ resA.connection \in Conns /\ link[resA.connection] # "none"
           /\ resA.topology # NULL /\ resA.topology.writer = OriginalWriter
           /\ peer[resA.connection] = OriginalWriter /\ ~resA.is_new_host
    /\ resB.connected =>
           /\ pcB \in {"return", "done"}
           /\ resB.connection \in Conns /\ link[resB.connection] # "none"
           /\ resB.topology # NULL /\ resB.topology.writer # OriginalWriter
           /\ peer[resB.connection] = resB.topology.writer /\ resB.is_new_host
    /\ ret.connected => \/ ret = resA /\ pcA = "done"
                        \/ ret = resB /\ pcB = "done"

OwnershipInv == OwnA /\ OwnB /\ Apart /\ OwnResults

\* put_to_cache never leaves the cluster without a topology: the entry is null
\* only while a task is between reset() and the assignment.
CacheNotLost == cache = NULL => pcA = "put" \/ pcB = "put"

\* Writer failover gives up only when its time is over (or it was called with
\* no topology): a task that stops early never leaves the call without a result.
FailsOnlyOnTimeout ==
    outcome = "failed" => expired \/ arg = NULL \/ NoHosts(arg)

\* Why: the sync completes early only for a result that is on its way to the
\* caller, and a future is used up only when its task ended without one.
Polling == pcM \in {"pollA", "pollB", "remaining"}
RaceInv ==
    /\ pcM # "done" => outcome = "none"
    /\ pcM = "start" => pcA = "idle" /\ pcB = "idle"
    /\ pcM = "wait" => futA /\ futB
    /\ pcM = "wait" /\ IsCompleted(num_tasks) => resA.connected \/ resB.connected
    /\ Polling => IsCompleted(num_tasks) /\ (expired \/ resA.connected \/ resB.connected)
    /\ resA.connected => pcA \in {"return", "done"}
    /\ resB.connected => pcB \in {"return", "done"}
    /\ Polling /\ ~futA => pcA = "done" /\ ~resA.connected
    /\ Polling /\ ~futB => pcB = "done" /\ ~resB.connected

\* Once all has ended, a connection that is still open belongs to a published
\* result or to a task that threw: a task that is cancelled in any of its steps
\* closes what it had opened.
OnlyLosersLeak ==
    Ended /\ ~Crashed =>
        \A c \in Conns : link[c] = "open" =>
            \/ c \in {resA.connection, resB.connection}
            \/ pcA = "threw" /\ c = newA
            \/ pcB = "threw" /\ c \in {newB, readerB}

\* The tasks do not outlive the call for ever: each notices that it is cancelled.
TasksEnd == (pcM = "done") ~> Ended

\* failover() is a FailoverCall: it returns, whatever the cluster does, and what
\* it returned stays what it is while its tasks run on.
FC == INSTANCE FailoverCall WITH
    status <- IF Crashed THEN "crashed" ELSE IF pcM = "done" THEN outcome ELSE "running",
    host <- IF ret.connected THEN peer[ret.connection] ELSE NULL,
    working <- ret.connected /\ link[ret.connection] # "none"
IsFailoverCall == FC!Spec
=============================================================================
