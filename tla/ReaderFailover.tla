--------------------------- MODULE ReaderFailover ---------------------------
(***************************************************************************)
(* FAILOVER_READER_HANDLER: one call of failover(), which hands a search   *)
(* for a host to the thread pool and waits for it, or one call of          *)
(* get_reader_connection(), which is that search in the caller's own       *)
(* thread (TaskB of WriterFailover).                                       *)
(*                                                                         *)
(* The search goes through a list of hosts two by two: each pair is given  *)
(* to two CONNECT_TO_READER_HANDLER tasks that share a FAILOVER_SYNC and   *)
(* race for a connection.  A pair whose time is over is left behind, and   *)
(* its tasks may go on for as long as a connection attempt takes, next to  *)
(* those of later pairs.  Each task makes at most one connection, so a     *)
(* task stands for its connection too.                                     *)
(***************************************************************************)
EXTENDS FailoverSync, Sequences, FiniteSets

CONSTANTS
    Hosts, Views, NULL,     \* as in WriterFailover
    Calls,                  \* which calls are made: see Call
    Slots,                  \* pairs of tasks on the thread pool at a time, and
    MaxTasks                \* how many of their tasks may run (2 let a late task
                            \* run next to the single task of an odd list's end)

Topology == [writer : Hosts \union {NULL}, readers : SUBSET Hosts]

\* failover() in mode "reader or writer" or "strict reader", or
\* get_reader_connection().
Call == {"reader_or_writer", "strict_reader", "get_reader"}

ASSUME NullAssumption == NULL \notin Hosts /\ NULL \notin Topology /\ NULL \notin Slots \X {1, 2}
ASSUME HostsAssumption == IsFiniteSet(Hosts)
ASSUME ViewsAssumption == Views \subseteq Topology
ASSUME CallsAssumption == Calls \subseteq Call
ASSUME MaxTasksAssumption == MaxTasks \in Nat \ {0, 1}

VARIABLES
    call, arg,          \* the call made, and its topology
    down,               \* hosts marked DOWN
    global, expired,    \* global_sync (or the caller's f_sync); FAILOVER_TIMEOUT passed
    pcM, outcome, ret,  \* the calling thread; the task whose result it returned
    pcS, hosts, next, slot, tried, fut, late, found, \* the search
    sync, task          \* per pair its local_sync, per task its state

callVars == <<call, arg>>
globalVars == <<global, expired>>
mVars == <<pcM, outcome, ret>>
sVars == <<pcS, hosts, next, slot, tried, fut, late, found>>
tVars == <<sync, task, down>>
vars == <<callVars, globalVars, mVars, sVars, tVars>>

Tasks == Slots \X {1, 2}
Idle == [pc |-> "idle", host |-> NULL, conn |-> "none", connected |-> FALSE]
Free(t) == task[t].pc \in {"idle", "done", "threw"}
\* Where the next pair goes: which of the free places it takes is of no
\* consequence, and always taking the same one keeps the state graph small.
FreeSlots == {s \in Slots : Free(<<s, 1>>) /\ Free(<<s, 2>>)}
NextSlot == CHOOSE s \in FreeSlots : TRUE

-----------------------------------------------------------------------------
(* build_hosts_list                                                        *)

Orderings(S) == {f \in [1 .. Cardinality(S) -> S] : \A i, j \in DOMAIN f : f[i] = f[j] => i = j}

InTurn(A, B, C) == {a \o b \o c : a \in Orderings(A), b \in Orderings(B), c \in Orderings(C)}

\* A shuffle of the readers that are up, one of those marked down, and the
\* writer at the end if writers are wanted.
HostsLists(t, include_writers) ==
    InTurn(t.readers \ down, t.readers \intersect down, IF include_writers THEN {t.writer} \ {NULL} ELSE {})

-----------------------------------------------------------------------------
(* CONNECT_TO_READER_HANDLER::operator()                                   *)

AtT(t, label) == task[t].pc = label
Cancelled(t) == IsCompleted(sync[t[1]])
MoveTo(t, label) == task' = [task EXCEPT ![t].pc = label]

BeginTask(t) ==
    /\ AtT(t, "begin")
    /\ MoveTo(t, IF Cancelled(t) THEN "done" ELSE "connect")
    /\ UNCHANGED <<callVars, globalVars, mVars, sVars, sync, down>>

\* connect(reader), and the mark that follows.
ConnectTask(t) ==
    /\ AtT(t, "connect")
    /\ \/ /\ task' = [task EXCEPT ![t].pc = "connected", ![t].conn = "open"]
          /\ down' = down \ {task[t].host}
       \/ /\ MoveTo(t, "failed")
          /\ down' = down \union {task[t].host}
    /\ UNCHANGED <<callVars, globalVars, mVars, sVars, sync>>

\* A task that is cancelled by now releases its connection.
CheckTask(t) ==
    /\ AtT(t, "connected")
    /\ IF Cancelled(t)
       THEN task' = [task EXCEPT ![t].pc = "done", ![t].conn = "closed"]
       ELSE MoveTo(t, "publish")
    /\ UNCHANGED <<callVars, globalVars, mVars, sVars, sync, down>>

\* Mutant: the task runs on into release_new_connection() after publishing.
PublishTaskNoReturn(t) ==
    /\ AtT(t, "publish")
    /\ task' = [task EXCEPT ![t].pc = "return", ![t].connected = TRUE, ![t].conn = "closed"]
    /\ sync' = [sync EXCEPT ![t[1]] = MarkAsCompleteCancel]
    /\ UNCHANGED <<callVars, globalVars, mVars, sVars, down>>

\* The result, and mark_as_complete(true).
PublishTask(t) ==
    /\ AtT(t, "publish")
    /\ task' = [task EXCEPT ![t].pc = "return", ![t].connected = TRUE]
    /\ sync' = [sync EXCEPT ![t[1]] = MarkAsCompleteCancel]
    /\ UNCHANGED <<callVars, globalVars, mVars, sVars, down>>

ReturnTask(t) ==
    /\ AtT(t, "return")
    /\ MoveTo(t, "done")
    /\ UNCHANGED <<callVars, globalVars, mVars, sVars, sync, down>>

\* if (!f_sync->is_completed()) f_sync->mark_as_complete(false): the test ...
FailTask(t) ==
    /\ AtT(t, "failed")
    /\ MoveTo(t, IF Cancelled(t) THEN "done" ELSE "mark")
    /\ UNCHANGED <<callVars, globalVars, mVars, sVars, sync, down>>

\* Mutant: mark_as_complete(false) does not look at the counter.
MarkTaskUnchecked(t) ==
    /\ AtT(t, "mark")
    /\ MoveTo(t, "done") /\ sync' = [sync EXCEPT ![t[1]] = MarkAsComplete(@)]
    /\ UNCHANGED <<callVars, globalVars, mVars, sVars, down>>

\* Mutant: a task that failed does not count itself off.
MarkTaskForgets(t) ==
    /\ AtT(t, "mark")
    /\ MoveTo(t, "done")
    /\ UNCHANGED <<callVars, globalVars, mVars, sVars, sync, down>>

\* ... and the call, which throws if the sync was completed in between.
MarkTask(t) ==
    /\ AtT(t, "mark")
    /\ IF MarkAsCompleteThrows(sync[t[1]])
       THEN MoveTo(t, "threw") /\ UNCHANGED sync
       ELSE MoveTo(t, "done") /\ sync' = [sync EXCEPT ![t[1]] = MarkAsComplete(@)]
    /\ UNCHANGED <<callVars, globalVars, mVars, sVars, down>>

Task(t) == BeginTask(t) \/ ConnectTask(t) \/ CheckTask(t) \/ PublishTask(t)
           \/ ReturnTask(t) \/ FailTask(t) \/ MarkTask(t)

-----------------------------------------------------------------------------
(* The search: the loop of failover() or of get_reader_connection() around *)
(* get_connection_from_hosts                                               *)

\* Mutant: the loop does not notice that it is cancelled.
BuildListForever ==
    /\ pcS = "head"
    /\ hosts' \in HostsLists(arg, call = "reader_or_writer")
    /\ next' = 1 /\ tried' = {}
    /\ pcS' = "pair"
    /\ UNCHANGED <<callVars, globalVars, mVars, slot, fut, late, found, tVars>>

\* failover() builds a new list every time it goes through the hosts,
\* get_reader_connection() keeps the first one.
BuildList ==
    /\ pcS = "head"
    /\ IF IsCompleted(global)
       THEN pcS' = "done" /\ hosts' = <<>> /\ next' = 0 /\ tried' = {}
       ELSE /\ IF call = "get_reader" /\ next > 0
               THEN UNCHANGED hosts
               ELSE hosts' \in HostsLists(arg, call = "reader_or_writer")
            /\ next' = 1 /\ tried' = {}
            /\ pcS' = "pair"
    /\ UNCHANGED <<callVars, globalVars, mVars, slot, fut, late, found, tVars>>

\* Mutant: the last host of an odd list is taken for the end of it.
PairSkipsOdd ==
    /\ pcS = "pair"
    /\ IF IsCompleted(global) \/ next + 1 > Len(hosts)
       THEN pcS' = "over" /\ UNCHANGED <<slot, tried, fut, late, sync, task>>
       ELSE LET s == NextSlot IN
              /\ FreeSlots # {}
              /\ sync' = [sync EXCEPT ![s] = 2]
              /\ task' = [t \in Tasks |->
                            IF t[1] = s THEN [Idle EXCEPT !.pc = "begin", !.host = hosts[next + t[2] - 1]]
                            ELSE task[t]]
              /\ tried' = tried \union {hosts[next], hosts[next + 1]}
              /\ slot' = s /\ fut' = {<<s, 1>>, <<s, 2>>} /\ late' = FALSE
              /\ pcS' = "wait"
    /\ UNCHANGED <<callVars, globalVars, mVars, hosts, next, found, down>>

\* The next pair, or the last host alone: FAILOVER_SYNC(1), incremented for a
\* second task, and the push() calls.
Pair ==
    /\ pcS = "pair"
    /\ IF IsCompleted(global) \/ next > Len(hosts)
       THEN pcS' = "over" /\ UNCHANGED <<slot, tried, fut, late, sync, task>>
       ELSE LET s == NextSlot
                odd == next = Len(hosts)
                pair == IF odd THEN {<<s, 1>>} ELSE {<<s, 1>>, <<s, 2>>}
            IN    /\ FreeSlots # {} /\ Cardinality({t \in Tasks : ~Free(t)} \union pair) <= MaxTasks
                  /\ sync' = [sync EXCEPT ![s] = IF odd THEN 1 ELSE IncrementTask(1)]
                  /\ task' = [t \in Tasks |->
                                IF t \in pair THEN [Idle EXCEPT !.pc = "begin", !.host = hosts[next + t[2] - 1]]
                                ELSE IF t[1] = s THEN Idle ELSE task[t]]
                  /\ tried' = tried \union {hosts[next + t[2] - 1] : t \in pair}
                  /\ slot' = s /\ fut' = pair /\ late' = FALSE
                  /\ pcS' = "wait"
    /\ UNCHANGED <<callVars, globalVars, mVars, hosts, next, found, down>>

\* reader_connect_timeout_ms passes for the pair in hand.
PairLate ==
    /\ pcS \in {"wait", "poll1", "poll2", "again"}
    /\ ~late
    /\ late' = TRUE
    /\ UNCHANGED <<callVars, globalVars, mVars, pcS, hosts, next, slot, tried, fut, found, tVars>>

\* wait_and_complete(reader_connect_timeout_ms).
WaitPair ==
    /\ pcS = "wait"
    /\ WaitEnds(sync[slot], late)
    /\ sync' = [sync EXCEPT ![slot] = WaitAndComplete]
    /\ pcS' = "poll1"
    /\ UNCHANGED <<callVars, globalVars, mVars, hosts, next, slot, tried, fut, late, found, task, down>>

\* The future of one task: get() rethrows what it threw.
Poll(t, at, then) ==
    /\ pcS = at
    /\ \/ /\ t \in fut /\ task[t].pc = "threw"
          /\ pcS' = "threw" /\ fut' = {} /\ UNCHANGED found
       \/ /\ t \in fut /\ task[t].pc = "done" /\ task[t].connected
          /\ pcS' = "success" /\ fut' = {} /\ found' = t
       \/ /\ t \in fut /\ task[t].pc = "done" /\ ~task[t].connected
          /\ pcS' = then /\ fut' = fut \ {t} /\ UNCHANGED found
       \/ /\ t \notin fut \/ task[t].pc \notin {"done", "threw"}
          /\ pcS' = then /\ UNCHANGED <<fut, found>>
    /\ UNCHANGED <<callVars, globalVars, mVars, hosts, next, slot, tried, late, tVars>>

\* The first future, then the second.
PollFirst == Poll(<<slot, 1>>, "poll1", "poll2")
PollSecond == Poll(<<slot, 2>>, "poll2", "again")

\* Move on when both futures are used up or the pair is late, poll otherwise.
PollAgain ==
    /\ pcS = "again"
    /\ IF fut = {} \/ late
       THEN pcS' = "pair" /\ next' = next + 2 /\ slot' = NULL /\ fut' = {} /\ late' = FALSE
       ELSE pcS' = "poll1" /\ UNCHANGED <<next, slot, fut, late>>
    /\ UNCHANGED <<callVars, globalVars, mVars, hosts, tried, found, tVars>>

\* The list is through without a connection: sleep (failover() only), start over.
Over ==
    /\ pcS = "over"
    /\ pcS' = "head"
    /\ UNCHANGED <<callVars, globalVars, mVars, hosts, next, slot, tried, fut, late, found, tVars>>

\* global_sync->mark_as_complete(true) in failover(); get_reader_connection()
\* leaves the sync to its caller.
Success ==
    /\ pcS = "success"
    /\ global' = IF call = "get_reader" THEN global ELSE MarkAsCompleteCancel
    /\ pcS' = "done"
    /\ slot' = NULL /\ late' = FALSE /\ hosts' = <<>> /\ next' = 0 /\ tried' = {}
    /\ UNCHANGED <<callVars, expired, mVars, fut, found, tVars>>

Search == BuildList \/ Pair \/ WaitPair \/ PollFirst \/ PollSecond \/ PollAgain \/ Over \/ Success

-----------------------------------------------------------------------------
(* The calling thread                                                      *)

Return(how, result) ==
    /\ pcM' = "done"
    /\ outcome' = how
    /\ ret' = result

Start ==
    /\ pcM = "start"
    /\ IF call # "get_reader" /\ (IF arg = NULL THEN TRUE ELSE arg.writer = NULL /\ arg.readers = {})
       THEN Return("failed", NULL) /\ UNCHANGED <<global, pcS>>
       ELSE /\ global' = 1 /\ pcS' = "head" /\ pcM' = "wait"
            /\ UNCHANGED <<outcome, ret>>
    /\ UNCHANGED <<callVars, expired, hosts, next, slot, tried, fut, late, found, tVars>>

\* wait_and_complete(max_failover_timeout_ms).  For get_reader_connection(),
\* f_sync is completed by the other task or by the writer failover's timeout.
WaitSearch ==
    /\ pcM = "wait"
    /\ WaitEnds(global, expired)
    /\ global' = WaitAndComplete
    /\ pcM' = "poll"
    /\ UNCHANGED <<callVars, expired, outcome, ret, sVars, tVars>>

SearchEnded == pcS \in {"done", "threw"}
ReturnSearch == IF pcS = "threw" THEN Return("threw", NULL)
                ELSE IF found # NULL THEN Return("connected", found)
                ELSE Return("failed", NULL)

\* Mutant: the result that has just come in is dropped if it was waited for.
PollSearchEmpty ==
    /\ pcM = "poll"
    /\ IF SearchEnded \/ expired THEN Return("failed", NULL)
       ELSE UNCHANGED mVars
    /\ UNCHANGED <<callVars, globalVars, sVars, tVars>>

\* The future of the search, until the time is over.
PollSearch ==
    /\ pcM = "poll"
    /\ \/ SearchEnded /\ ReturnSearch
       \/ /\ ~SearchEnded /\ expired /\ call # "get_reader"
          /\ Return("failed", NULL)
    /\ UNCHANGED <<callVars, globalVars, sVars, tVars>>

\* get_reader_connection() is the search itself: it returns when that ends.
ReturnReader ==
    /\ call = "get_reader" /\ pcM = "wait" /\ SearchEnded
    /\ ReturnSearch
    /\ UNCHANGED <<callVars, globalVars, sVars, tVars>>

Main == Start \/ WaitSearch \/ PollSearch \/ ReturnReader

Expire ==
    /\ pcM \in {"wait", "poll"}
    /\ ~expired
    /\ expired' = TRUE
    /\ UNCHANGED <<callVars, global, mVars, sVars, tVars>>

-----------------------------------------------------------------------------
Init ==
    /\ call \in Calls
    /\ arg \in Views \union (IF call = "get_reader" THEN {} ELSE {NULL})
    /\ down \in SUBSET (IF arg = NULL THEN {} ELSE arg.readers)
    /\ global = 0 /\ expired = FALSE
    /\ pcM = "start" /\ outcome = "none" /\ ret = NULL
    /\ pcS = "idle" /\ hosts = <<>> /\ next = 0 /\ slot = NULL /\ tried = {}
    /\ fut = {} /\ late = FALSE /\ found = NULL
    /\ sync = [s \in Slots |-> 0]
    /\ task = [t \in Tasks |-> Idle]

Ended == /\ pcM = "done"
         /\ pcS \in {"idle", "done", "threw"}
         /\ \A t \in Tasks : task[t].pc \in {"idle", "done", "threw"}
Terminated == Ended /\ UNCHANGED vars

Next ==
    \/ Main
    \/ Expire
    \/ Search
    \/ PairLate
    \/ \E t \in Tasks : Task(t)
    \/ Terminated

\* Threads are scheduled, connection attempts end (CONNECT_TIMEOUT), time passes.
Fairness == /\ WF_vars(Main) /\ WF_vars(Search)
            /\ WF_vars(Expire) /\ WF_vars(PairLate)
            /\ \A t \in Tasks : WF_vars(Task(t))

Spec == Init /\ [][Next]_vars /\ Fairness

-----------------------------------------------------------------------------
(* Properties                                                              *)

TaskState == [pc : {"idle", "begin", "connect", "connected", "publish", "return",
                    "failed", "mark", "done", "threw"},
              host : Hosts \union {NULL},
              conn : {"none", "open", "closed"},
              connected : BOOLEAN]

\* The variables have their types; no sync counts below zero or above its tasks.
TypeOK ==
    /\ call \in Calls
    /\ arg \in Topology \union {NULL}
    /\ down \in SUBSET Hosts
    /\ global \in {0, 1} /\ expired \in BOOLEAN
    /\ pcM \in {"start", "wait", "poll", "done"}
    /\ outcome \in {"none", "connected", "failed", "threw"}
    /\ ret \in Tasks \union {NULL}
    /\ pcS \in {"idle", "head", "pair", "wait", "poll1", "poll2", "again", "over",
                "success", "done", "threw"}
    /\ hosts \in Seq(Hosts) /\ next \in 0 .. (Len(hosts) + 2)
    /\ slot \in Slots \union {NULL}
    /\ tried \in SUBSET Hosts
    /\ fut \in SUBSET Tasks /\ late \in BOOLEAN
    /\ found \in Tasks \union {NULL}
    /\ sync \in [Slots -> 0 .. 2]
    /\ task \in [Tasks -> TaskState]

\* What the call returned is usable: the connection is open (no task releases
\* one it has published, and no later pair takes its place), and it is to a host
\* of the topology that the kind of call allows; only "reader or writer" may end
\* on the writer.
ResultUsable ==
    ret # NULL =>
        /\ task[ret].conn = "open" /\ task[ret].connected
        /\ task[ret].host \in arg.readers
           \/ (call = "reader_or_writer" /\ task[ret].host = arg.writer)

\* A search that got to the end of the list without being cancelled has tried
\* every host of it, the odd one at the end included.
NoHostSkipped ==
    pcS = "over" /\ ~IsCompleted(global) =>
        arg.readers \union (IF call = "reader_or_writer" THEN {arg.writer} \ {NULL} ELSE {})
            \subseteq tried

\* Reader failover gives up only when its time is over, or on an invalid topology.
FailsOnlyOnTimeout ==
    outcome = "failed" => expired \/ arg = NULL \/ (arg.writer = NULL /\ arg.readers = {})

\* A task that counts itself off a sync that is not yet complete never hides a
\* connection: as long as a pair is being waited for, an open sync means that
\* one of its tasks is still at work.
SyncCountsWorkers ==
    pcS = "wait" /\ ~IsCompleted(sync[slot]) =>
        sync[slot] <= Cardinality({t \in Tasks : t[1] = slot /\
                          task[t].pc \in {"begin", "connect", "connected", "publish", "failed", "mark"}})

\* "If it goes through the list and does not succeed to connect, it tries again,
\* endlessly": the search ends with a connection or by being cancelled, not with
\* an exception.
SearchNeverThrows == outcome # "threw"

\* The search and the tasks do not outlive the call for ever.
TasksEnd == (pcM = "done") ~> Ended

\* failover() and get_reader_connection() are FailoverCalls: they return in any
\* case, and what they returned stays what it is.
FC == INSTANCE FailoverCall WITH
    status <- IF pcM = "done" THEN outcome ELSE "running",
    host <- IF ret # NULL THEN task[ret].host ELSE NULL,
    working <- IF ret # NULL THEN task[ret].conn = "open" ELSE FALSE
IsFailoverCall == FC!Spec
=============================================================================
