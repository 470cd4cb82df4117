------------------------ MODULE ReaderFailoverProofs ------------------------
(***************************************************************************)
(* Proofs about ReaderFailover, for every cluster, every topology and any  *)
(* number of pairs on the thread pool.                                     *)
(*                                                                         *)
(* SearchInv is inductive: it has the types, the phases of the caller and  *)
(* of the search (PhaseInv), what a task has connected to and whether its  *)
(* connection is still there (TaskInv), and that the list is one of all    *)
(* hosts that are wanted (ListInv).  Three invariants are inductive beside *)
(* it: the hosts before next have been tried (TriedInv), only the timeout  *)
(* cancels a search that has found nothing (CancelInv), and no sync counts *)
(* more tasks than are at work (CountInv).                                 *)
(***************************************************************************)
EXTENDS ReaderFailover, FunctionTheorems, FiniteSetTheorems, SequenceTheorems, TLAPS

\* The hosts the call may end on.
Wanted == arg.readers \union (IF call = "reader_or_writer" THEN {arg.writer} \ {NULL} ELSE {})

\* The search has a pair in hand.
InHand == pcS \in {"wait", "poll1", "poll2", "again"}

\* get_reader_connection() is not called without a topology.
ArgInv == call = "get_reader" => arg # NULL

PhaseInv ==
    /\ ArgInv
    /\ pcM = "start" => pcS = "idle"
    /\ pcM \in {"wait", "poll"} => pcS # "idle"
    /\ pcM # "done" => ret = NULL /\ outcome = "none"
    /\ pcS # "idle" => arg \in Topology
    /\ InHand => next \in 1 .. Len(hosts) /\ slot \in Slots
    /\ pcS \in {"pair", "over"} => next > 0
    /\ pcS = "success" => found # NULL
    /\ found # NULL => pcS \in {"success", "done"} /\ task[found].pc = "done" /\ task[found].connected
    /\ ret # NULL => ret = found

TaskInv ==
    \A t \in Tasks :
        /\ task[t].pc # "idle" => pcS # "idle" /\ task[t].host \in Wanted
        /\ task[t].pc \in {"connected", "publish"} => task[t].conn = "open"
        /\ task[t].connected => task[t].conn = "open" /\ task[t].pc \in {"return", "done"}

\* A list of all elements of a set and of no other.
Lists(s, S) == s \in Seq(S) /\ \A h \in S : \E i \in 1 .. Len(s) : s[i] = h
ListInv == next > 0 => Lists(hosts, Wanted)

\* The hosts before place n have been tried.
TriedBefore(n) == \A i \in 1 .. Len(hosts) : i < n => hosts[i] \in tried
TriedInv ==
    /\ pcS = "pair" => TriedBefore(next)
    /\ InHand => TriedBefore(next + 2)
    /\ pcS = "over" /\ ~IsCompleted(global) => next > Len(hosts) /\ TriedBefore(next)

\* A search is cancelled by the timeout, unless it has ended with a connection.
CancelInv ==
    /\ pcS # "idle" /\ IsCompleted(global) => expired \/ (pcS = "done" /\ found # NULL)
    /\ pcS = "done" => found # NULL \/ expired

\* The tasks that have not yet taken themselves off their sync.
Counted == {"begin", "connect", "connected", "publish", "failed", "mark"}
Count(s, i) == IF task[<<s, i>>].pc \in Counted THEN 1 ELSE 0
CountInv == \A s \in Slots : sync[s] > 0 => sync[s] <= Count(s, 1) + Count(s, 2)

SearchInv == TypeOK /\ PhaseInv /\ TaskInv /\ ListInv

-----------------------------------------------------------------------------
(* The list of hosts                                                       *)

\* An ordering of a finite set is a list of it.
LEMMA OrderingIsComplete ==
    ASSUME NEW S, IsFiniteSet(S), NEW f \in Orderings(S)
    PROVE  Lists(f, S)
<1> DEFINE n == Cardinality(S)
<1>1. n \in Nat
  BY FS_CardinalityType
<1>2. f \in [1 .. n -> S] /\ \A i, j \in 1 .. n : f[i] = f[j] => i = j
  BY DEF Orderings
<1>3. f \in Seq(S) /\ Len(f) = n
  BY <1>1, <1>2
<1>4. f \in Injection(1 .. n, S)
  BY <1>2 DEF Injection, IsInjective
<1>5. IsFiniteSet(1 .. n) /\ Cardinality(1 .. n) = n
  BY <1>1, FS_Interval
<1>6. f \in Surjection(1 .. n, S)
  BY <1>4, <1>5, FS_Injection
<1> QED
  BY <1>3, <1>6 DEF Surjection, Lists

\* Two lists one after the other are a list of the union.
LEMMA ConcatIsComplete ==
    ASSUME NEW A, NEW B, NEW a, NEW b, Lists(a, A), Lists(b, B)
    PROVE  Lists(a \o b, A \union B)
<1> DEFINE W == A \union B
<1>1. a \in Seq(W) /\ b \in Seq(W)
  BY SeqMonotonic DEF Lists
<1>2. /\ a \o b \in Seq(W) /\ Len(a \o b) = Len(a) + Len(b)
      /\ \A i \in 1 .. Len(a) + Len(b) : (a \o b)[i] = IF i <= Len(a) THEN a[i] ELSE b[i - Len(a)]
  BY <1>1, ConcatProperties
<1>3. Len(a) \in Nat /\ Len(b) \in Nat
  BY <1>1, LenProperties
<1>4. ASSUME NEW h \in A PROVE \E i \in 1 .. Len(a \o b) : (a \o b)[i] = h
  <2>1. PICK i \in 1 .. Len(a) : a[i] = h
    BY <1>4 DEF Lists
  <2>2. i \in 1 .. Len(a \o b) /\ (a \o b)[i] = h
    BY <1>2, <1>3, <2>1
  <2> QED
    BY <2>2
<1>5. ASSUME NEW h \in B PROVE \E i \in 1 .. Len(a \o b) : (a \o b)[i] = h
  <2>1. PICK i \in 1 .. Len(b) : b[i] = h
    BY <1>5 DEF Lists
  <2>2. i + Len(a) \in 1 .. Len(a \o b) /\ (a \o b)[i + Len(a)] = h
    BY <1>2, <1>3, <2>1
  <2> QED
    BY <2>2
<1> QED
  BY <1>2, <1>4, <1>5 DEF Lists

\* build_hosts_list lists the hosts that are wanted and no other, whatever is marked
\* down.
LEMMA ListIsComplete ==
    ASSUME arg \in Topology, NEW s, s \in HostsLists(arg, call = "reader_or_writer")
    PROVE  Lists(s, Wanted)
<1> DEFINE U == arg.readers \ down
           D == arg.readers \intersect down
           R == IF call = "reader_or_writer" THEN {arg.writer} \ {NULL} ELSE {}
<1>1. arg.readers \subseteq Hosts /\ R \subseteq Hosts /\ Wanted = (U \union D) \union R
  BY DEF Topology, Wanted
<1>2. IsFiniteSet(U) /\ IsFiniteSet(D) /\ IsFiniteSet(R)
  <2>1. U \in SUBSET Hosts /\ D \in SUBSET Hosts /\ R \in SUBSET Hosts
    BY <1>1
  <2> HIDE DEF U, D, R
  <2> QED
    BY <2>1, HostsAssumption, FS_Subset
<1>3. s \in InTurn(U, D, R)
  BY DEF HostsLists
<1> HIDE DEF U, D, R
<1>4. PICK up \in Orderings(U), dn \in Orderings(D), wr \in Orderings(R) : s = (up \o dn) \o wr
  BY <1>3 DEF InTurn
<1>5. Lists(up, U) /\ Lists(dn, D) /\ Lists(wr, R)
  BY <1>2, OrderingIsComplete
<1>6. Lists(up \o dn, U \union D)
  BY <1>5, ConcatIsComplete
<1>7. Lists((up \o dn) \o wr, (U \union D) \union R)
  BY <1>5, <1>6, ConcatIsComplete
<1> QED
  BY <1>1, <1>4, <1>7

-----------------------------------------------------------------------------
(* A step of a task                                                        *)

\* What a task may become: it keeps its host, and its result goes with an open
\* connection.
Becomes(t, r) ==
    /\ r \in TaskState /\ r.host = task[t].host /\ r.pc # "idle"
    /\ r.pc \in {"connected", "publish"} => r.conn = "open"
    /\ r.connected => r.conn = "open" /\ r.pc \in {"return", "done"}
\* What it leaves of its sync, n before: it is not counted any more once it has
\* stopped, unless the sync was complete or it completes it.
Leaves(t, r, n, k) ==
    /\ k \in 0 .. 2 /\ k <= n
    /\ \/ k = 0
       \/ k = n /\ (r.pc \in Counted \/ task[t].pc \notin Counted)
       \/ k = n - 1 /\ task[t].pc \in Counted

LEMMA TaskEffect ==
    ASSUME TypeOK, PhaseInv, TaskInv, NEW t \in Tasks, Task(t)
    PROVE  /\ UNCHANGED <<callVars, globalVars, mVars, sVars>> /\ down' \in SUBSET Hosts
           /\ ~Free(t) /\ task[t].pc # "idle"
           /\ \E r, k : /\ task' = [task EXCEPT ![t] = r] /\ Becomes(t, r)
                        /\ sync' = [sync EXCEPT ![t[1]] = k] /\ Leaves(t, r, sync[t[1]], k)
<1> DEFINE c == task[t]
           n == sync[t[1]]
           Goal(r, k) == /\ task' = [task EXCEPT ![t] = r] /\ Becomes(t, r)
                         /\ sync' = [sync EXCEPT ![t[1]] = k] /\ Leaves(t, r, n, k)
<1>1. c \in TaskState /\ task \in [Tasks -> TaskState] /\ sync \in [Slots -> 0 .. 2]
  BY DEF TypeOK
<1>2. t[1] \in Slots /\ n \in 0 .. 2 /\ down \in SUBSET Hosts
  BY <1>1 DEF Tasks, TypeOK
<1>3. /\ c.connected => c.conn = "open" /\ c.pc \in {"return", "done"}
      /\ c.pc \in {"connected", "publish"} => c.conn = "open"
  BY DEF TaskInv
<1>4. UNCHANGED <<callVars, globalVars, mVars, sVars>> /\ ~Free(t) /\ c.pc # "idle"
  BY DEF Task, BeginTask, ConnectTask, CheckTask, PublishTask, ReturnTask, FailTask, MarkTask, AtT, Free
<1>5. [sync EXCEPT ![t[1]] = n] = sync
  BY <1>1, <1>2
<1>6. ASSUME NEW l, MoveTo(t, l) PROVE task' = [task EXCEPT ![t] = [c EXCEPT !.pc = l]]
  BY <1>1, <1>6 DEF MoveTo
<1> USE DEF AtT, Becomes, Leaves, TaskState, Counted, Cancelled, IsCompleted
<1>7. CASE BeginTask(t) \/ FailTask(t) \/ ReturnTask(t)
  <2>1. PICK l \in {"done", "connect", "mark"} :
          MoveTo(t, l) /\ (l = "done" => n <= 0 \/ c.pc = "return") /\ (l # "done" => c.pc \in {"begin", "failed"})
    BY <1>2, <1>7 DEF BeginTask, FailTask, ReturnTask
  <2>2. UNCHANGED <<sync, down>> /\ c.pc \in {"begin", "failed", "return"}
    BY <1>7 DEF BeginTask, FailTask, ReturnTask
  <2>3. Becomes(t, [c EXCEPT !.pc = l])
    BY <1>1, <1>3, <2>1, <2>2
  <2>4. Leaves(t, [c EXCEPT !.pc = l], n, n)
    BY <1>1, <1>2, <2>1, <2>2
  <2>5. Goal([c EXCEPT !.pc = l], n)
    BY <1>5, <1>6, <2>1, <2>2, <2>3, <2>4
  <2> QED
    BY <1>2, <1>4, <2>2, <2>5
<1>8. CASE ConnectTask(t)
  <2>1. c.pc = "connect" /\ UNCHANGED sync /\ ~c.connected
    BY <1>3, <1>8 DEF ConnectTask
  <2>2. down' \in SUBSET Hosts
    <3>1. task[t].host \in Wanted /\ arg \in Topology
      BY <1>4 DEF TaskInv, PhaseInv
    <3>2. task[t].host \in Hosts
      BY <3>1 DEF Wanted, Topology
    <3> QED
      BY <1>2, <1>8, <3>2 DEF ConnectTask
  <2>3. CASE task' = [task EXCEPT ![t].pc = "connected", ![t].conn = "open"]
    <3>1. task' = [task EXCEPT ![t] = [c EXCEPT !.pc = "connected", !.conn = "open"]]
      BY <1>1, <2>3
    <3>2. Becomes(t, [c EXCEPT !.pc = "connected", !.conn = "open"])
      BY <1>1, <2>1
    <3>3. Leaves(t, [c EXCEPT !.pc = "connected", !.conn = "open"], n, n)
      BY <1>1, <1>2
    <3>4. Goal([c EXCEPT !.pc = "connected", !.conn = "open"], n)
      BY <1>5, <2>1, <3>1, <3>2, <3>3
    <3> QED
      BY <1>4, <2>2, <3>4
  <2>4. CASE MoveTo(t, "failed")
    <3>1. Goal([c EXCEPT !.pc = "failed"], n)
      BY <1>1, <1>2, <1>5, <1>6, <2>1, <2>4
    <3> QED
      BY <1>4, <2>2, <3>1
  <2> QED
    BY <1>8, <2>3, <2>4 DEF ConnectTask
<1>9. CASE CheckTask(t)
  <2>1. c.pc = "connected" /\ UNCHANGED <<sync, down>> /\ ~c.connected
    BY <1>3, <1>9 DEF CheckTask
  <2>2. CASE n <= 0 /\ task' = [task EXCEPT ![t].pc = "done", ![t].conn = "closed"]
    <3>1. task' = [task EXCEPT ![t] = [c EXCEPT !.pc = "done", !.conn = "closed"]]
      BY <1>1, <2>2
    <3>2. Becomes(t, [c EXCEPT !.pc = "done", !.conn = "closed"])
      BY <1>1, <2>1
    <3>3. Leaves(t, [c EXCEPT !.pc = "done", !.conn = "closed"], n, n)
      BY <1>1, <1>2, <2>2
    <3>4. Goal([c EXCEPT !.pc = "done", !.conn = "closed"], n)
      BY <1>5, <2>1, <3>1, <3>2, <3>3
    <3> QED
      BY <1>2, <1>4, <2>1, <3>4
  <2>3. CASE MoveTo(t, "publish")
    <3>1. Goal([c EXCEPT !.pc = "publish"], n)
      BY <1>1, <1>2, <1>3, <1>5, <1>6, <2>1, <2>3
    <3> QED
      BY <1>2, <1>4, <2>1, <3>1
  <2> QED
    BY <1>9, <2>2, <2>3 DEF CheckTask
<1>10. CASE PublishTask(t)
  <2>1. c.pc = "publish" /\ UNCHANGED down /\ sync' = [sync EXCEPT ![t[1]] = 0]
    BY <1>10 DEF PublishTask, MarkAsCompleteCancel
  <2>2. task' = [task EXCEPT ![t] = [c EXCEPT !.pc = "return", !.connected = TRUE]]
    BY <1>1, <1>10 DEF PublishTask
  <2>3. Becomes(t, [c EXCEPT !.pc = "return", !.connected = TRUE])
    BY <1>1, <1>3, <2>1
  <2>4. Goal([c EXCEPT !.pc = "return", !.connected = TRUE], 0)
    BY <1>2, <2>1, <2>2, <2>3
  <2> QED
    BY <1>2, <1>4, <2>1, <2>4
<1>11. CASE MarkTask(t)
  <2>1. c.pc = "mark" /\ UNCHANGED down /\ ~c.connected
    BY <1>3, <1>11 DEF MarkTask
  <2>2. CASE n <= 0 /\ MoveTo(t, "threw") /\ UNCHANGED sync
    <3>1. Goal([c EXCEPT !.pc = "threw"], n)
      BY <1>1, <1>2, <1>5, <1>6, <2>1, <2>2
    <3> QED
      BY <1>2, <1>4, <2>1, <3>1
  <2>3. CASE n > 0 /\ MoveTo(t, "done") /\ sync' = [sync EXCEPT ![t[1]] = n - 1]
    <3>1. Goal([c EXCEPT !.pc = "done"], n - 1)
      BY <1>1, <1>2, <1>6, <2>1, <2>3
    <3> QED
      BY <1>2, <1>4, <2>1, <3>1
  <2> QED
    BY <1>2, <1>11, <2>2, <2>3 DEF MarkTask, MarkAsCompleteThrows, MarkAsComplete
<1> QED
  BY <1>7, <1>8, <1>9, <1>10, <1>11 DEF Task

\* The step of a task keeps the invariant: the task that was found has ended.
LEMMA TaskStep ==
    ASSUME SearchInv, NEW t \in Tasks, Task(t)
    PROVE  SearchInv'
<1>1. TypeOK /\ PhaseInv /\ TaskInv /\ ListInv
  BY DEF SearchInv
<1>2. PICK r, k : /\ task' = [task EXCEPT ![t] = r] /\ Becomes(t, r)
                  /\ sync' = [sync EXCEPT ![t[1]] = k] /\ Leaves(t, r, sync[t[1]], k)
  BY <1>1, TaskEffect
<1>3. /\ UNCHANGED <<call, arg, global, expired, pcM, outcome, ret>>
      /\ UNCHANGED <<pcS, hosts, next, slot, tried, fut, late, found>>
      /\ down' \in SUBSET Hosts /\ ~Free(t) /\ task[t].pc # "idle"
  BY <1>1, TaskEffect DEF callVars, globalVars, mVars, sVars
<1>4. t[1] \in Slots /\ k \in 0 .. 2 /\ r \in TaskState
  BY <1>2 DEF Tasks, Leaves, Becomes
<1>5. TypeOK'
  BY <1>1, <1>2, <1>3, <1>4 DEF TypeOK
<1>6. PhaseInv'
  <2>1. found # NULL => found \in Tasks /\ found # t
    BY <1>1, <1>3 DEF TypeOK, PhaseInv, Free
  <2>2. found # NULL => task'[found] = task[found]
    BY <1>1, <1>2, <2>1 DEF TypeOK
  <2> QED
    BY <1>1, <1>3, <2>2 DEF PhaseInv, ArgInv, InHand
<1>7. TaskInv'
  <2>1. Wanted' = Wanted
    BY <1>3 DEF Wanted
  <2>2. ASSUME NEW u \in Tasks
        PROVE  /\ task'[u].pc # "idle" => pcS' # "idle" /\ task'[u].host \in Wanted
               /\ task'[u].pc \in {"connected", "publish"} => task'[u].conn = "open"
               /\ task'[u].connected => task'[u].conn = "open" /\ task'[u].pc \in {"return", "done"}
    BY <1>1, <1>2, <1>3 DEF TypeOK, TaskInv, Becomes
  <2> QED
    BY <2>1, <2>2 DEF TaskInv
<1>8. ListInv'
  BY <1>1, <1>3 DEF ListInv, Wanted
<1> QED
  BY <1>5, <1>6, <1>7, <1>8 DEF SearchInv

-----------------------------------------------------------------------------
(* A step of the search                                                    *)

\* The hosts of the topology.
LEMMA WantedAreHosts ==
    ASSUME arg \in Topology
    PROVE  Wanted \subseteq Hosts
BY DEF Wanted, Topology

\* What Pair starts: s is the place of the pair, two tells whether it has two tasks.
PairStarts(s, two) ==
    /\ s \in FreeSlots
    /\ next <= Len(hosts) /\ (two => next + 1 <= Len(hosts)) /\ (~two => next = Len(hosts))
    /\ sync' = [sync EXCEPT ![s] = IF two THEN 2 ELSE 1]
    /\ task' = [t \in Tasks |->
                  IF t[1] # s THEN task[t]
                  ELSE IF t[2] = 1 THEN [Idle EXCEPT !.pc = "begin", !.host = hosts[next]]
                  ELSE IF two THEN [Idle EXCEPT !.pc = "begin", !.host = hosts[next + 1]]
                  ELSE Idle]
    /\ tried' = tried \union (IF two THEN {hosts[next], hosts[next + 1]} ELSE {hosts[next]})
    /\ slot' = s /\ fut' \in SUBSET Tasks /\ late' = FALSE /\ pcS' = "wait"

LEMMA PairEffect ==
    ASSUME TypeOK, Pair
    PROVE  /\ UNCHANGED <<callVars, globalVars, mVars, hosts, next, found, down>> /\ pcS = "pair"
           /\ \/ /\ IsCompleted(global) \/ next > Len(hosts)
                 /\ pcS' = "over" /\ UNCHANGED <<slot, tried, fut, late, sync, task>>
              \/ ~IsCompleted(global) /\ \E s, two : PairStarts(s, two)
<1>1. UNCHANGED <<callVars, globalVars, mVars, hosts, next, found, down>> /\ pcS = "pair"
  BY DEF Pair
<1>2. CASE IsCompleted(global) \/ next > Len(hosts)
  BY <1>1, <1>2 DEF Pair
<1>3. CASE ~(IsCompleted(global) \/ next > Len(hosts))
  <2> DEFINE s == NextSlot
             odd == next = Len(hosts)
             pair == IF odd THEN {<<s, 1>>} ELSE {<<s, 1>>, <<s, 2>>}
  <2>1. /\ FreeSlots # {}
        /\ sync' = [sync EXCEPT ![s] = IF odd THEN 1 ELSE IncrementTask(1)]
        /\ task' = [t \in Tasks |->
                      IF t \in pair THEN [Idle EXCEPT !.pc = "begin", !.host = hosts[next + t[2] - 1]]
                      ELSE IF t[1] = s THEN Idle ELSE task[t]]
        /\ tried' = tried \union {hosts[next + t[2] - 1] : t \in pair}
        /\ slot' = s /\ fut' = pair /\ late' = FALSE /\ pcS' = "wait"
    BY <1>3 DEF Pair
  <2>2. s \in FreeSlots
    BY <2>1 DEF NextSlot
  <2>3. s \in Slots
    BY <2>2 DEF FreeSlots
  <2>4. next \in Nat /\ Len(hosts) \in Nat /\ next <= Len(hosts)
    BY <1>3, LenProperties DEF TypeOK
  <2> HIDE DEF s
  <2>5. pair \in SUBSET Tasks /\ \A t \in Tasks : t \in pair <=> t[1] = s /\ (t[2] = 1 \/ ~odd)
    BY <2>3 DEF Tasks
  <2>6. ASSUME NEW t \in Tasks
        PROVE  task'[t] = IF t[1] # s THEN task[t]
                          ELSE IF t[2] = 1 THEN [Idle EXCEPT !.pc = "begin", !.host = hosts[next]]
                          ELSE IF ~odd THEN [Idle EXCEPT !.pc = "begin", !.host = hosts[next + 1]]
                          ELSE Idle
    <3>1. t[2] \in {1, 2} /\ next + t[2] - 1 = (IF t[2] = 1 THEN next ELSE next + 1)
      BY <2>4 DEF Tasks
    <3>2. task'[t] = IF t \in pair THEN [Idle EXCEPT !.pc = "begin", !.host = hosts[next + t[2] - 1]]
                     ELSE IF t[1] = s THEN Idle ELSE task[t]
      BY <2>1
    <3> HIDE DEF pair, odd
    <3> QED
      BY <2>5, <3>1, <3>2
  <2>7. {hosts[next + t[2] - 1] : t \in pair} = IF ~odd THEN {hosts[next], hosts[next + 1]} ELSE {hosts[next]}
    <3>1. next + 1 - 1 = next /\ next + 2 - 1 = next + 1
      BY <2>4
    <3>2. CASE odd
      <4>1. \A t \in pair : t[2] = 1
        BY <3>2
      <4>2. <<s, 1>> \in pair /\ <<s, 1>>[2] = 1
        BY <3>2
      <4> HIDE DEF pair
      <4> QED
        BY <3>1, <3>2, <4>1, <4>2
    <3>3. CASE ~odd
      <4>1. \A t \in pair : t[2] \in {1, 2}
        BY <3>3
      <4>2. /\ <<s, 1>> \in pair /\ <<s, 1>>[2] = 1
            /\ <<s, 2>> \in pair /\ <<s, 2>>[2] = 2
        BY <3>3
      <4> HIDE DEF pair
      <4> QED
        BY <3>1, <3>3, <4>1, <4>2
    <3> QED
      BY <3>2, <3>3
  <2>8. sync' = [sync EXCEPT ![s] = IF ~odd THEN 2 ELSE 1]
    <3>1. (IF odd THEN 1 ELSE IncrementTask(1)) = (IF ~odd THEN 2 ELSE 1)
      BY DEF IncrementTask
    <3> HIDE DEF odd
    <3> QED
      BY <2>1, <3>1
  <2>9. PairStarts(s, ~odd)
    <3>1. task' = [t \in Tasks |->
                  IF t[1] # s THEN task[t]
                  ELSE IF t[2] = 1 THEN [Idle EXCEPT !.pc = "begin", !.host = hosts[next]]
                  ELSE IF ~odd THEN [Idle EXCEPT !.pc = "begin", !.host = hosts[next + 1]]
                  ELSE Idle]
      <4>1. DOMAIN task' = Tasks /\ task' = [t \in DOMAIN task' |-> task'[t]]
        BY <2>1
      <4> QED
        BY <2>6, <4>1
    <3>2. next <= Len(hosts) /\ (~odd => next + 1 <= Len(hosts)) /\ (odd => next = Len(hosts))
      BY <2>4
    <3>3. tried' = tried \union (IF ~odd THEN {hosts[next], hosts[next + 1]} ELSE {hosts[next]})
      BY <2>1, <2>7
    <3>4. slot' = s /\ fut' \in SUBSET Tasks /\ late' = FALSE /\ pcS' = "wait"
      BY <2>1, <2>5
    <3> HIDE DEF odd
    <3> QED
      BY <2>2, <2>8, <3>1, <3>2, <3>3, <3>4 DEF PairStarts
  <2> QED
    BY <1>1, <1>3, <2>9
<1> QED
  BY <1>2, <1>3

\* Every step of the search keeps the invariant.
LEMMA SearchStep ==
    ASSUME SearchInv, Search \/ PairLate
    PROVE  SearchInv'
<1>1. TypeOK /\ PhaseInv /\ TaskInv /\ ListInv
  BY DEF SearchInv
<1>2. /\ UNCHANGED <<call, arg, expired, pcM, outcome, ret, down>> /\ pcS # "idle" /\ arg \in Topology
      /\ Wanted' = Wanted
  <2>1. UNCHANGED <<call, arg, expired, pcM, outcome, ret, down>> /\ pcS # "idle"
    BY DEF Search, BuildList, Pair, WaitPair, PollFirst, PollSecond, Poll, PollAgain, Over, Success,
           PairLate, callVars, globalVars, mVars, tVars
  <2> QED
    BY <1>1, <2>1 DEF PhaseInv, Wanted
<1>3. CASE Pair
  <2>1. UNCHANGED <<global, hosts, next, found>> /\ pcS = "pair"
    BY <1>1, <1>3, PairEffect DEF globalVars
  <2>2. CASE pcS' = "over" /\ UNCHANGED <<slot, tried, fut, late, sync, task>>
    <3>1. TypeOK'
      BY <1>1, <1>2, <2>1, <2>2 DEF TypeOK
    <3> QED
      BY <1>1, <1>2, <2>1, <2>2, <3>1 DEF SearchInv, PhaseInv, ArgInv, InHand, TaskInv, ListInv
  <2>3. ASSUME NEW s, NEW two, PairStarts(s, two) PROVE SearchInv'
    <3>1. s \in Slots /\ \A t \in Tasks : t[1] = s => Free(t)
      BY <2>3 DEF PairStarts, FreeSlots, Tasks
    <3>2. /\ next \in 1 .. Len(hosts) /\ hosts[next] \in Wanted /\ hosts[next] \in Hosts
          /\ two => hosts[next + 1] \in Wanted /\ hosts[next + 1] \in Hosts
      <4>1. next \in Nat /\ next > 0 /\ hosts \in Seq(Wanted) /\ Len(hosts) \in Nat
        BY <1>1, <2>1, LenProperties DEF TypeOK, PhaseInv, ListInv, Lists
      <4>2. next \in 1 .. Len(hosts) /\ (two => next + 1 \in 1 .. Len(hosts))
        BY <2>3, <4>1 DEF PairStarts
      <4> QED
        BY <1>2, <4>1, <4>2, ElementOfSeq, WantedAreHosts
    <3>3. ASSUME NEW t \in Tasks
          PROVE  /\ task'[t] \in TaskState
                 /\ task'[t].pc # "idle" => task'[t].host \in Wanted
                 /\ task'[t].pc \in {"connected", "publish"} => task'[t].conn = "open"
                 /\ task'[t].connected => task'[t].conn = "open" /\ task'[t].pc \in {"return", "done"}
      <4>1. CASE t[1] # s
        BY <1>1, <2>3, <4>1 DEF PairStarts, TypeOK, TaskInv
      <4>2. CASE t[1] = s
        BY <2>3, <3>2, <4>2 DEF PairStarts, Idle, TaskState
      <4> QED
        BY <4>1, <4>2
    <3>4. TypeOK'
      <4>1. task' \in [Tasks -> TaskState]
        BY <2>3, <3>3 DEF PairStarts
      <4>2. sync' \in [Slots -> 0 .. 2] /\ tried' \in SUBSET Hosts
        BY <1>1, <2>3, <3>1, <3>2 DEF PairStarts, TypeOK
      <4>3. slot' \in Slots /\ fut' \in SUBSET Tasks /\ late' = FALSE /\ pcS' = "wait"
        BY <2>3, <3>1 DEF PairStarts
      <4> QED
        BY <1>1, <1>2, <2>1, <4>1, <4>2, <4>3 DEF TypeOK
    <3>5. PhaseInv'
      <4>1. found = NULL /\ pcM # "start"
        BY <1>1, <2>1 DEF PhaseInv
      <4>2. slot' \in Slots /\ pcS' = "wait"
        BY <2>3, <3>1 DEF PairStarts
      <4> QED
        BY <1>1, <1>2, <2>1, <3>2, <4>1, <4>2 DEF PhaseInv, ArgInv, InHand
    <3>6. TaskInv'
      <4>1. pcS' # "idle"
        BY <2>3 DEF PairStarts
      <4> QED
        BY <1>2, <3>3, <4>1 DEF TaskInv
    <3>7. ListInv'
      BY <1>1, <1>2, <2>1 DEF ListInv
    <3> QED
      BY <3>4, <3>5, <3>6, <3>7 DEF SearchInv
  <2> QED
    BY <1>1, <1>3, <2>2, <2>3, PairEffect
<1>4. CASE BuildList
  <2>1. UNCHANGED <<global, slot, fut, late, found, sync, task>> /\ pcS = "head"
    BY <1>4 DEF BuildList, globalVars, tVars
  <2>2. CASE pcS' = "done" /\ hosts' = <<>> /\ next' = 0 /\ tried' = {}
    <3>1. hosts' \in Seq(Hosts) /\ Len(hosts') = 0
      BY <2>2, EmptySeq
    <3>2. TypeOK'
      BY <1>1, <1>2, <2>1, <2>2, <3>1 DEF TypeOK
    <3> QED
      BY <1>1, <1>2, <2>1, <2>2, <3>2 DEF SearchInv, PhaseInv, ArgInv, InHand, TaskInv, ListInv
  <2>3. CASE /\ (hosts' = hosts /\ next > 0) \/ hosts' \in HostsLists(arg, call = "reader_or_writer")
             /\ next' = 1 /\ tried' = {} /\ pcS' = "pair"
    <3>1. Lists(hosts', Wanted)
      BY <1>1, <1>2, <2>3, ListIsComplete DEF ListInv
    <3>2. hosts' \in Seq(Hosts) /\ Len(hosts') \in Nat
      BY <1>2, <3>1, WantedAreHosts, SeqMonotonic, LenProperties DEF Lists
    <3>3. TypeOK'
      BY <1>1, <1>2, <2>1, <2>3, <3>2 DEF TypeOK
    <3>4. PhaseInv' /\ TaskInv'
      BY <1>1, <1>2, <2>1, <2>3 DEF PhaseInv, ArgInv, InHand, TaskInv
    <3>5. ListInv'
      BY <1>2, <3>1 DEF ListInv
    <3> QED
      BY <3>3, <3>4, <3>5 DEF SearchInv
  <2> QED
    BY <1>4, <2>2, <2>3 DEF BuildList
<1>5. CASE WaitPair
  <2>1. /\ UNCHANGED <<global, hosts, next, slot, tried, fut, late, found, task>>
        /\ pcS = "wait" /\ pcS' = "poll1" /\ sync' = [sync EXCEPT ![slot] = 0]
    BY <1>5 DEF WaitPair, WaitAndComplete, globalVars
  <2>2. sync' \in [Slots -> 0 .. 2]
    <3>1. slot \in Slots /\ sync \in [Slots -> 0 .. 2]
      BY <1>1, <2>1 DEF PhaseInv, InHand, TypeOK
    <3> QED
      BY <2>1, <3>1
  <2>3. TypeOK'
    BY <1>1, <1>2, <2>1, <2>2 DEF TypeOK
  <2> QED
    BY <1>1, <1>2, <2>1, <2>3 DEF SearchInv, PhaseInv, ArgInv, InHand, TaskInv, ListInv
<1>6. CASE PollFirst \/ PollSecond
  <2>1. PICK i \in {1, 2}, at \in {"poll1", "poll2"}, then \in {"poll2", "again"} : Poll(<<slot, i>>, at, then)
    BY <1>6 DEF PollFirst, PollSecond
  <2>2. UNCHANGED <<global, hosts, next, slot, tried, late, sync, task>> /\ pcS = at
    BY <2>1 DEF Poll, globalVars, tVars
  <2>3. slot \in Slots /\ <<slot, i>> \in Tasks /\ found = NULL
    BY <1>1, <2>2 DEF PhaseInv, ArgInv, InHand, Tasks
  <2>4. /\ fut' \in SUBSET Tasks
        /\ \/ pcS' = "threw" /\ UNCHANGED found
           \/ pcS' = then /\ UNCHANGED found
           \/ /\ pcS' = "success" /\ found' = <<slot, i>>
              /\ task[<<slot, i>>].pc = "done" /\ task[<<slot, i>>].connected
    BY <1>1, <2>1 DEF Poll, TypeOK
  <2>5. TypeOK'
    BY <1>1, <1>2, <2>2, <2>3, <2>4 DEF TypeOK
  <2>6. <<slot, i>> # NULL
    BY <2>3, NullAssumption DEF Tasks
  <2>7. PhaseInv'
    BY <1>1, <1>2, <2>2, <2>3, <2>4, <2>6 DEF PhaseInv, ArgInv, InHand
  <2> QED
    BY <1>1, <1>2, <2>2, <2>4, <2>5, <2>7 DEF SearchInv, TaskInv, ListInv
<1>7. CASE PollAgain
  <2>1. UNCHANGED <<global, hosts, tried, found, sync, task>> /\ pcS = "again" /\ next \in 1 .. Len(hosts)
    BY <1>1, <1>7 DEF PollAgain, globalVars, tVars, PhaseInv, ArgInv, InHand
  <2>2. \/ pcS' = "pair" /\ next' = next + 2 /\ slot' = NULL /\ fut' = {} /\ late' = FALSE
        \/ pcS' = "poll1" /\ UNCHANGED <<next, slot, fut, late>>
    BY <1>7 DEF PollAgain
  <2>3. Len(hosts) \in Nat
    BY <1>1, LenProperties DEF TypeOK
  <2>4. TypeOK'
    <3>1. CASE pcS' = "pair" /\ next' = next + 2 /\ slot' = NULL /\ fut' = {} /\ late' = FALSE
      <4>1. next' \in 0 .. (Len(hosts) + 2)
        BY <2>1, <2>3, <3>1
      <4> QED
        BY <1>1, <1>2, <2>1, <3>1, <4>1 DEF TypeOK
    <3>2. CASE pcS' = "poll1" /\ UNCHANGED <<next, slot, fut, late>>
      BY <1>1, <1>2, <2>1, <3>2 DEF TypeOK
    <3> QED
      BY <2>2, <3>1, <3>2
  <2>5. PhaseInv'
    BY <1>1, <1>2, <2>1, <2>2, <2>3 DEF PhaseInv, ArgInv, InHand
  <2> QED
    BY <1>1, <1>2, <2>1, <2>2, <2>4, <2>5 DEF SearchInv, TaskInv, ListInv
<1>8. CASE Over \/ PairLate
  <2>1. UNCHANGED <<global, hosts, next, slot, tried, fut, found, sync, task>>
    BY <1>8 DEF Over, PairLate, globalVars, tVars
  <2>2. (pcS = "over" /\ pcS' = "head" /\ late' = late) \/ (pcS' = pcS /\ late' = TRUE)
    BY <1>8 DEF Over, PairLate
  <2>3. TypeOK'
    <3>1. late' \in BOOLEAN /\ (pcS' = pcS \/ pcS' = "head")
      BY <1>1, <2>2 DEF TypeOK
    <3>2. next' \in 0 .. (Len(hosts') + 2)
      BY <1>1, <2>1 DEF TypeOK
    <3> QED
      BY <1>1, <1>2, <2>1, <3>1, <3>2 DEF TypeOK
  <2>4. PhaseInv'
    BY <1>1, <1>2, <2>1, <2>2 DEF PhaseInv, ArgInv, InHand
  <2> QED
    BY <1>1, <1>2, <2>1, <2>2, <2>3, <2>4 DEF SearchInv, TaskInv, ListInv
<1>9. CASE Success
  <2>1. /\ UNCHANGED <<fut, found, sync, task>> /\ pcS = "success" /\ pcS' = "done"
        /\ slot' = NULL /\ late' = FALSE /\ hosts' = <<>> /\ next' = 0 /\ tried' = {}
        /\ global' \in {0, 1}
    BY <1>1, <1>9 DEF Success, tVars, TypeOK, MarkAsCompleteCancel
  <2>2. hosts' \in Seq(Hosts) /\ next' \in 0 .. (Len(hosts') + 2)
    <3>1. hosts' \in Seq(Hosts) /\ Len(hosts') = 0
      BY <2>1, EmptySeq
    <3> QED
      BY <2>1, <3>1
  <2>3. TypeOK'
    BY <1>1, <1>2, <2>1, <2>2 DEF TypeOK
  <2> QED
    BY <1>1, <1>2, <2>1, <2>3 DEF SearchInv, PhaseInv, ArgInv, InHand, TaskInv, ListInv
<1> QED
  BY <1>3, <1>4, <1>5, <1>6, <1>7, <1>8, <1>9 DEF Search

-----------------------------------------------------------------------------
(* A step of the caller                                                    *)

\* So does every step of the calling thread and of the clock.
LEMMA CallerStep ==
    ASSUME SearchInv, Main \/ Expire \/ Terminated \/ UNCHANGED vars
    PROVE  SearchInv'
<1>1. TypeOK /\ PhaseInv /\ TaskInv /\ ListInv
  BY DEF SearchInv
<1>2. /\ UNCHANGED <<call, arg, hosts, next, slot, tried, fut, late, found, sync, task, down>>
      /\ Wanted' = Wanted
  <2>1. UNCHANGED <<call, arg, hosts, next, slot, tried, fut, late, found, sync, task, down>>
    BY DEF Main, Start, WaitSearch, PollSearch, ReturnReader, Expire, Terminated, vars,
           callVars, sVars, tVars
  <2> QED
    BY <2>1 DEF Wanted
<1>3. CASE Start
  <2>1. CASE Return("failed", NULL) /\ UNCHANGED <<global, pcS>> /\ UNCHANGED expired
    BY <1>1, <1>2, <2>1 DEF Return, SearchInv, TypeOK, PhaseInv, ArgInv, InHand, TaskInv, ListInv
  <2>2. CASE /\ global' = 1 /\ pcS' = "head" /\ pcM' = "wait" /\ UNCHANGED <<outcome, ret, expired>>
             /\ call = "get_reader" \/ arg # NULL
    <3>1. arg \in Topology
      BY <1>1, <2>2 DEF TypeOK, PhaseInv, ArgInv
    <3>2. pcM = "start" /\ pcS = "idle"
      BY <1>1, <1>3 DEF Start, PhaseInv
    <3>3. TypeOK'
      BY <1>1, <1>2, <2>2 DEF TypeOK
    <3>4. PhaseInv'
      BY <1>1, <1>2, <2>2, <3>1, <3>2 DEF PhaseInv, ArgInv, InHand
    <3> QED
      BY <1>1, <1>2, <2>2, <3>3, <3>4 DEF SearchInv, TaskInv, ListInv
  <2> QED
    BY <1>3, <2>1, <2>2 DEF Start
<1>4. CASE WaitSearch \/ Expire
  <2>1. /\ UNCHANGED <<outcome, ret, pcS>> /\ pcM' \in {"wait", "poll"} /\ pcM \in {"wait", "poll"}
        /\ global' \in {0, 1} /\ expired' \in BOOLEAN
    BY <1>1, <1>4 DEF WaitSearch, Expire, WaitAndComplete, TypeOK, mVars, sVars
  <2>2. TypeOK'
    BY <1>1, <1>2, <2>1 DEF TypeOK
  <2> QED
    BY <1>1, <1>2, <2>1, <2>2 DEF SearchInv, PhaseInv, ArgInv, InHand, TaskInv, ListInv
<1>5. CASE PollSearch \/ ReturnReader
  <2>1. /\ UNCHANGED <<global, expired, pcS>> /\ pcM' = "done" /\ pcM # "start"
        /\ outcome' \in {"connected", "failed", "threw"} /\ ret' \in {NULL, found}
    BY <1>5 DEF PollSearch, ReturnReader, ReturnSearch, Return, globalVars, sVars
  <2>2. TypeOK'
    BY <1>1, <1>2, <2>1 DEF TypeOK
  <2> QED
    BY <1>1, <1>2, <2>1, <2>2 DEF SearchInv, PhaseInv, ArgInv, InHand, TaskInv, ListInv
<1>6. CASE Terminated \/ UNCHANGED vars
  <2>1. UNCHANGED <<global, expired, pcM, outcome, ret, pcS>>
    BY <1>6 DEF Terminated, vars, globalVars, mVars, sVars
  <2> QED
    BY <1>1, <1>2, <2>1 DEF SearchInv, TypeOK, PhaseInv, ArgInv, InHand, TaskInv, ListInv
<1> QED
  BY <1>3, <1>4, <1>5, <1>6 DEF Main

-----------------------------------------------------------------------------
LEMMA SearchInit == Init => SearchInv
<1> SUFFICES ASSUME Init PROVE SearchInv
  OBVIOUS
<1>1. hosts \in Seq(Hosts) /\ Len(hosts) = 0
  BY EmptySeq DEF Init
<1>2. arg \in Topology \union {NULL} /\ ArgInv
  BY ViewsAssumption, NullAssumption DEF Init, ArgInv
<1>3. down \in SUBSET Hosts
  BY <1>2 DEF Init, Topology
<1>4. task \in [Tasks -> TaskState] /\ \A t \in Tasks : task[t].pc = "idle" /\ ~task[t].connected
  BY DEF Init, Idle, TaskState
<1>5. sync \in [Slots -> 0 .. 2] /\ next \in 0 .. (Len(hosts) + 2)
  BY <1>1 DEF Init
<1>6. TypeOK
  BY <1>1, <1>2, <1>3, <1>4, <1>5 DEF Init, TypeOK
<1> QED
  BY <1>2, <1>4, <1>6 DEF Init, SearchInv, PhaseInv, InHand, TaskInv, ListInv

LEMMA SearchNext == SearchInv /\ [Next]_vars => SearchInv'
BY TaskStep, SearchStep, CallerStep DEF Next

LEMMA SearchInvariance == Spec => []SearchInv
BY SearchInit, SearchNext, PTL DEF Spec

\* Every variable of the search and of its tasks keeps its type.
THEOREM TypeCorrect == Spec => []TypeOK
<1>1. SearchInv => TypeOK
  BY DEF SearchInv
<1> QED
  BY <1>1, SearchInvariance, PTL

\* A connection that reader failover returned is open, and to a host of the topology
\* that the kind of call allows.
THEOREM ResultsAreUsable == Spec => []ResultUsable
<1>1. SearchInv => ResultUsable
  <2> SUFFICES ASSUME SearchInv, ret # NULL
               PROVE  /\ task[ret].conn = "open" /\ task[ret].connected /\ task[ret].host \in Wanted
    BY DEF ResultUsable, Wanted
  <2>1. ret \in Tasks /\ ret = found /\ found # NULL
    BY DEF SearchInv, TypeOK, PhaseInv
  <2>2. task[ret].pc = "done" /\ task[ret].connected
    BY <2>1 DEF SearchInv, PhaseInv
  <2> QED
    BY <2>1, <2>2 DEF SearchInv, TaskInv
<1> QED
  BY <1>1, SearchInvariance, PTL

-----------------------------------------------------------------------------
(* Every host is tried                                                     *)

LEMMA TriedStep == SearchInv /\ TriedInv /\ [Next]_vars => TriedInv'
<1> SUFFICES ASSUME SearchInv, TriedInv, [Next]_vars PROVE TriedInv'
  OBVIOUS
<1>1. TypeOK /\ PhaseInv /\ global \in {0, 1} /\ next \in Nat /\ Len(hosts) \in Nat
  BY LenProperties DEF SearchInv, TypeOK
<1> USE DEF InHand, TriedBefore, IsCompleted
<1>2. CASE \E t \in Tasks : Task(t)
  <2>1. UNCHANGED <<global, pcS, hosts, next, tried>>
    BY <1>2, TaskEffect DEF SearchInv, globalVars, sVars
  <2> QED
    BY <2>1 DEF TriedInv
<1>3. CASE Main \/ Expire \/ Terminated \/ UNCHANGED vars
  <2>1. /\ UNCHANGED <<hosts, next, tried>>
        /\ (pcS' = pcS /\ global' \in {global, 0}) \/ pcS' = "head"
    BY <1>3 DEF Main, Start, WaitSearch, PollSearch, ReturnReader, Expire, Terminated, vars,
                globalVars, sVars, WaitAndComplete
  <2> QED
    BY <1>1, <2>1 DEF TriedInv
<1>4. CASE Pair
  <2>1. UNCHANGED <<global, hosts, next>> /\ pcS = "pair" /\ TriedBefore(next)
    BY <1>1, <1>4, PairEffect DEF globalVars, TriedInv
  <2>2. CASE /\ IsCompleted(global) \/ next > Len(hosts)
             /\ pcS' = "over" /\ UNCHANGED <<slot, tried, fut, late, sync, task>>
    BY <1>1, <2>1, <2>2 DEF TriedInv
  <2>3. ASSUME NEW s, NEW two, PairStarts(s, two) PROVE TriedInv'
    <3>1. /\ pcS' = "wait" /\ tried \subseteq tried' /\ hosts[next] \in tried'
          /\ two => hosts[next + 1] \in tried'
          /\ ~two => next = Len(hosts)
      BY <2>3 DEF PairStarts
    <3>2. ASSUME NEW i \in 1 .. Len(hosts), i < next + 2 PROVE hosts[i] \in tried'
      <4>1. i < next \/ i = next \/ (i = next + 1 /\ two)
        BY <1>1, <3>1, <3>2
      <4> QED
        BY <2>1, <3>1, <4>1
    <3> QED
      BY <2>1, <3>1, <3>2 DEF TriedInv
  <2> QED
    BY <1>1, <1>4, <2>2, <2>3, PairEffect
<1>5. CASE BuildList
  BY <1>5 DEF BuildList, TriedInv
<1>6. CASE WaitPair \/ PollFirst \/ PollSecond \/ PairLate
  <2>1. UNCHANGED <<hosts, next, tried>> /\ InHand /\ pcS' \notin {"pair", "over"}
    BY <1>6 DEF WaitPair, PollFirst, PollSecond, Poll, PairLate
  <2> QED
    BY <2>1 DEF TriedInv
<1>7. CASE PollAgain
  BY <1>7 DEF PollAgain, TriedInv
<1>8. CASE Over \/ Success
  <2>1. pcS' \in {"head", "done"}
    BY <1>8 DEF Over, Success
  <2> QED
    BY <2>1 DEF TriedInv
<1> QED
  BY <1>2, <1>3, <1>4, <1>5, <1>6, <1>7, <1>8 DEF Next, Search

\* A search that gets to the end of its list without being cancelled has tried every
\* host that is wanted, the odd one at the end included.
THEOREM NoHostIsSkipped == Spec => []NoHostSkipped
<1>1. SearchInv /\ TriedInv => NoHostSkipped
  <2> SUFFICES ASSUME SearchInv, TriedInv, pcS = "over", ~IsCompleted(global), NEW h \in Wanted
               PROVE  h \in tried
    BY DEF NoHostSkipped, Wanted
  <2>1. next > 0 /\ next \in Nat /\ Len(hosts) \in Nat
    BY LenProperties DEF SearchInv, PhaseInv, TypeOK
  <2>2. PICK i \in 1 .. Len(hosts) : hosts[i] = h
    BY <2>1 DEF SearchInv, ListInv, Lists
  <2>3. i < next /\ TriedBefore(next)
    BY <2>1 DEF TriedInv
  <2> QED
    BY <2>2, <2>3 DEF TriedBefore
<1>2. Init => TriedInv
  BY DEF Init, TriedInv, InHand
<1> QED
  BY <1>1, <1>2, SearchInit, SearchNext, TriedStep, PTL DEF Spec

-----------------------------------------------------------------------------
(* A search gives up when its time is over                                 *)

GiveUpInv == CancelInv /\ FailsOnlyOnTimeout

LEMMA GiveUpStep == SearchInv /\ GiveUpInv /\ [Next]_vars => GiveUpInv'
<1> SUFFICES ASSUME SearchInv, GiveUpInv, [Next]_vars PROVE GiveUpInv'
  OBVIOUS
<1>1. TypeOK /\ PhaseInv /\ CancelInv /\ FailsOnlyOnTimeout
  BY DEF SearchInv, GiveUpInv
<1> USE DEF GiveUpInv, IsCompleted
<1>2. CASE \E t \in Tasks : Task(t)
  <2>1. UNCHANGED <<call, arg, global, expired, outcome, pcS, found>>
    BY <1>2, TaskEffect DEF SearchInv, callVars, globalVars, mVars, sVars
  <2> QED
    BY <1>1, <2>1 DEF CancelInv, FailsOnlyOnTimeout
<1>3. CASE Start
  <2>1. UNCHANGED <<call, arg, expired, found>>
    BY <1>3 DEF Start, callVars
  <2>2. \/ global' = 1 /\ pcS' = "head" /\ UNCHANGED outcome
        \/ UNCHANGED <<global, pcS>> /\ (arg = NULL \/ (arg.writer = NULL /\ arg.readers = {}))
    BY <1>3 DEF Start
  <2> QED
    BY <1>1, <2>1, <2>2 DEF CancelInv, FailsOnlyOnTimeout
<1>4. CASE WaitSearch \/ Expire
  <2>1. UNCHANGED <<call, arg, outcome, pcS, found>> /\ (expired => expired') /\ pcS # "idle"
    BY <1>1, <1>4 DEF WaitSearch, Expire, callVars, mVars, sVars, PhaseInv
  <2>2. global' = global \/ global <= 0 \/ expired
    BY <1>4 DEF WaitSearch, Expire, WaitEnds
  <2> QED
    BY <1>1, <2>1, <2>2 DEF CancelInv, FailsOnlyOnTimeout
<1>5. CASE PollSearch \/ ReturnReader
  <2>1. UNCHANGED <<call, arg, global, expired, pcS, found>>
    BY <1>5 DEF PollSearch, ReturnReader, callVars, globalVars, sVars
  <2>2. outcome' = "failed" => expired \/ (pcS = "done" /\ found = NULL)
    BY <1>5 DEF PollSearch, ReturnReader, ReturnSearch, Return, SearchEnded
  <2> QED
    BY <1>1, <2>1, <2>2 DEF CancelInv, FailsOnlyOnTimeout
<1>6. CASE Terminated \/ UNCHANGED vars
  BY <1>1, <1>6 DEF Terminated, vars, callVars, globalVars, mVars, sVars, CancelInv, FailsOnlyOnTimeout
<1>7. CASE Pair
  <2>1. UNCHANGED <<call, arg, global, expired, outcome, found>> /\ pcS = "pair" /\ pcS' \in {"over", "wait"}
    BY <1>1, <1>7, PairEffect DEF callVars, globalVars, mVars, PairStarts
  <2> QED
    BY <1>1, <2>1 DEF CancelInv, FailsOnlyOnTimeout
<1>8. CASE BuildList \/ WaitPair \/ PollFirst \/ PollSecond \/ PollAgain \/ Over \/ PairLate
  <2>1. UNCHANGED <<call, arg, global, expired, outcome>> /\ pcS \notin {"idle", "done", "success"}
    BY <1>8 DEF BuildList, WaitPair, PollFirst, PollSecond, Poll, PollAgain, Over, PairLate,
                callVars, globalVars, mVars
  <2>2. pcS' = "done" => global <= 0
    BY <1>8, <2>1 DEF BuildList, WaitPair, PollFirst, PollSecond, Poll, PollAgain, Over, PairLate
  <2> QED
    BY <1>1, <2>1, <2>2 DEF CancelInv, FailsOnlyOnTimeout
<1>9. CASE Success
  <2>1. UNCHANGED <<call, arg, expired, outcome, found>> /\ pcS' = "done" /\ found # NULL
    BY <1>1, <1>9 DEF Success, callVars, mVars, PhaseInv
  <2> QED
    BY <1>1, <2>1 DEF CancelInv, FailsOnlyOnTimeout
<1> QED
  BY <1>2, <1>3, <1>4, <1>5, <1>6, <1>7, <1>8, <1>9 DEF Next, Main, Search

\* Reader failover fails only when its time is over, or on an invalid topology.
THEOREM GivesUpOnlyOnTimeout == Spec => []FailsOnlyOnTimeout
<1>1. Init => GiveUpInv
  BY DEF Init, GiveUpInv, CancelInv, FailsOnlyOnTimeout
<1>2. GiveUpInv => FailsOnlyOnTimeout
  BY DEF GiveUpInv
<1> QED
  BY <1>1, <1>2, SearchInit, SearchNext, GiveUpStep, PTL DEF Spec

-----------------------------------------------------------------------------
(* A sync counts the tasks of its pair that are at work                    *)

LEMMA CountStep == SearchInv /\ CountInv /\ [Next]_vars => CountInv'
<1> SUFFICES ASSUME SearchInv, CountInv, [Next]_vars PROVE CountInv'
  OBVIOUS
<1>1. TypeOK /\ PhaseInv /\ TaskInv /\ sync \in [Slots -> 0 .. 2] /\ task \in [Tasks -> TaskState]
  BY DEF SearchInv, TypeOK
<1>2. \A s \in Slots : <<s, 1>> \in Tasks /\ <<s, 2>> \in Tasks
  BY DEF Tasks
<1>3. ASSUME NEW t \in Tasks, Task(t) PROVE CountInv'
  <2>1. PICK r, k : /\ task' = [task EXCEPT ![t] = r] /\ Becomes(t, r)
                    /\ sync' = [sync EXCEPT ![t[1]] = k] /\ Leaves(t, r, sync[t[1]], k)
    BY <1>1, <1>3, TaskEffect
  <2>2. PICK p \in Slots, i \in {1, 2} : t = <<p, i>>
    BY DEF Tasks
  <2> SUFFICES ASSUME NEW s \in Slots, sync'[s] > 0
               PROVE  sync'[s] <= Count(s, 1)' + Count(s, 2)'
    BY DEF CountInv
  <2>3. CASE s # p
    <3>1. sync'[s] = sync[s] /\ Count(s, 1)' = Count(s, 1) /\ Count(s, 2)' = Count(s, 2)
      BY <1>1, <1>2, <2>1, <2>2, <2>3 DEF Count
    <3> QED
      BY <3>1 DEF CountInv
  <2>4. CASE s = p
    <3>1. sync'[s] = k /\ k \in 0 .. 2 /\ sync[s] \in 0 .. 2 /\ k > 0
      BY <1>1, <2>1, <2>2, <2>4 DEF Leaves
    <3>2. sync[s] <= Count(s, 1) + Count(s, 2)
      BY <2>1, <2>2, <2>4, <3>1 DEF Leaves, CountInv
    <3>3. /\ task[t].pc \in Counted => k = sync[s] - 1 \/ r.pc \in Counted
          /\ k <= sync[s] /\ (task[t].pc \notin Counted => k = sync[s])
      BY <2>1, <2>2, <2>4, <3>1 DEF Leaves
    <3>4. task'[<<s, i>>] = r /\ \A j \in {1, 2} : j # i => task'[<<s, j>>] = task[<<s, j>>]
      BY <1>1, <1>2, <2>1, <2>2, <2>4
    <3> QED
      BY <2>2, <2>4, <3>1, <3>2, <3>3, <3>4 DEF Count
  <2> QED
    BY <2>3, <2>4
<1>4. CASE Pair
  <2>1. CASE UNCHANGED <<sync, task>>
    BY <2>1 DEF CountInv, Count
  <2>2. ASSUME NEW p, NEW two, PairStarts(p, two) PROVE CountInv'
    <3>1. p \in Slots
      BY <2>2 DEF PairStarts, FreeSlots
    <3>2. sync'[p] <= 2 /\ (sync'[p] > 1 => two)
      BY <1>1, <2>2, <3>1 DEF PairStarts
    <3>3. task'[<<p, 1>>].pc = "begin" /\ (two => task'[<<p, 2>>].pc = "begin")
      BY <1>2, <2>2, <3>1 DEF PairStarts, Idle
    <3>4. sync'[p] \in 0 .. 2
      BY <1>1, <2>2, <3>1 DEF PairStarts
    <3>5. ASSUME NEW s \in Slots, s # p
          PROVE  sync'[s] = sync[s] /\ Count(s, 1)' = Count(s, 1) /\ Count(s, 2)' = Count(s, 2)
      BY <1>1, <1>2, <2>2, <3>5 DEF PairStarts, Count
    <3> QED
      BY <3>2, <3>3, <3>4, <3>5 DEF CountInv, Count, Counted
  <2> QED
    BY <1>1, <1>4, <2>1, <2>2, PairEffect
<1>5. CASE WaitPair
  <2>1. sync' = [sync EXCEPT ![slot] = 0] /\ UNCHANGED task
    BY <1>5 DEF WaitPair, WaitAndComplete
  <2> QED
    BY <1>1, <2>1 DEF CountInv, Count
<1>6. CASE UNCHANGED <<sync, task>>
  BY <1>6 DEF CountInv, Count
<1>7. Main \/ Expire \/ Terminated \/ UNCHANGED vars => UNCHANGED <<sync, task>>
  BY DEF Main, Start, WaitSearch, PollSearch, ReturnReader, Expire, Terminated, vars, tVars
<1>8. BuildList \/ PollFirst \/ PollSecond \/ PollAgain \/ Over \/ Success \/ PairLate => UNCHANGED <<sync, task>>
  BY DEF BuildList, PollFirst, PollSecond, Poll, PollAgain, Over, Success, PairLate, tVars
<1> QED
  BY <1>3, <1>4, <1>5, <1>6, <1>7, <1>8 DEF Next, Search

\* While a pair is waited for, its sync is at most the number of its tasks that are
\* still at work: a task that fails never uses up the count of the other.
THEOREM SyncsCountWorkers == Spec => []SyncCountsWorkers
<1>1. SearchInv /\ CountInv => SyncCountsWorkers
  <2> DEFINE W == {t \in Tasks : t[1] = slot /\ task[t].pc \in Counted}
             a == <<slot, 1>>
             b == <<slot, 2>>
  <2> SUFFICES ASSUME SearchInv, CountInv, pcS = "wait", sync[slot] > 0
               PROVE  sync[slot] <= Cardinality(W)
    <3>1. SearchInv /\ pcS = "wait" => sync[slot] \in 0 .. 2
      BY DEF SearchInv, TypeOK, PhaseInv, InHand
    <3> QED
      BY <3>1 DEF SyncCountsWorkers, IsCompleted, Counted
  <2>1. slot \in Slots /\ sync[slot] \in 1 .. 2
    BY DEF SearchInv, TypeOK, PhaseInv, InHand
  <2>2. sync[slot] <= Count(slot, 1) + Count(slot, 2)
    BY <2>1 DEF CountInv
  <2>3. a \in Tasks /\ b \in Tasks /\ a # b /\ \A t \in Tasks : t[1] = slot => t = a \/ t = b
    BY <2>1 DEF Tasks
  <2>4. W = (IF task[a].pc \in Counted THEN {a} ELSE {}) \union (IF task[b].pc \in Counted THEN {b} ELSE {})
    BY <2>3
  <2>5. /\ Count(slot, 1) = IF task[a].pc \in Counted THEN 1 ELSE 0
        /\ Count(slot, 2) = IF task[b].pc \in Counted THEN 1 ELSE 0
    BY DEF Count
  <2>6. Cardinality(W) = Count(slot, 1) + Count(slot, 2)
    <3> HIDE DEF W, a, b
    <3>1. CASE task[a].pc \in Counted /\ task[b].pc \in Counted
      <4>1. W = {a} \union {b} /\ b \notin {a}
        BY <2>3, <2>4, <3>1
      <4>2. Cardinality({a} \union {b}) = 2
        <5>1. IsFiniteSet({a}) /\ Cardinality({a}) = 1
          BY FS_Singleton
        <5>2. Cardinality({a} \union {b}) = Cardinality({a}) + 1
          BY <4>1, <5>1, FS_AddElement
        <5> QED
          BY <5>1, <5>2
      <4> QED
        BY <3>1, <4>1, <4>2, <2>5
    <3>2. CASE task[a].pc \in Counted /\ task[b].pc \notin Counted
      <4>1. W = {a}
        BY <2>4, <3>2
      <4>2. Cardinality({a}) = 1
        BY FS_Singleton
      <4> QED
        BY <3>2, <4>1, <4>2, <2>5
    <3>3. CASE task[a].pc \notin Counted /\ task[b].pc \in Counted
      <4>1. W = {b}
        BY <2>4, <3>3
      <4>2. Cardinality({b}) = 1
        BY FS_Singleton
      <4> QED
        BY <3>3, <4>1, <4>2, <2>5
    <3>4. CASE task[a].pc \notin Counted /\ task[b].pc \notin Counted
      <4>1. W = {}
        BY <2>4, <3>4
      <4> QED
        BY <3>4, <4>1, FS_EmptySet, <2>5
    <3> QED
      BY <3>1, <3>2, <3>3, <3>4
  <2> QED
    BY <2>2, <2>6
<1>2. Init => CountInv
  BY DEF Init, CountInv
<1> QED
  BY <1>1, <1>2, SearchInit, SearchNext, CountStep, PTL DEF Spec

-----------------------------------------------------------------------------
(* The call implements FailoverCall (its safety part)                      *)

\* How the call ended.
ReturnInv ==
    pcM = "done" => /\ outcome \in {"connected", "failed", "threw"}
                    /\ outcome = "connected" <=> ret # NULL

\* What a step may do to the caller: nothing, go on, or return.
LEMMA CallerSteps ==
    ASSUME SearchInv, [Next]_vars
    PROVE  \/ UNCHANGED <<pcM, outcome, ret>>
           \/ pcM # "done" /\ pcM' # "done" /\ UNCHANGED <<outcome, ret>>
           \/ /\ pcM # "done" /\ pcM' = "done"
              /\ \/ outcome' = "connected" /\ ret' # NULL
                 \/ outcome' \in {"failed", "threw"} /\ ret' = NULL
<1>1. CASE \E t \in Tasks : Task(t)
  BY <1>1, TaskEffect DEF SearchInv, mVars
<1>2. CASE Start
  BY <1>2 DEF Start, Return
<1>3. CASE WaitSearch \/ Expire
  BY <1>3 DEF WaitSearch, Expire, mVars
<1>4. CASE PollSearch \/ ReturnReader
  BY <1>4 DEF PollSearch, ReturnReader, ReturnSearch, Return
<1>5. CASE Search \/ PairLate
  BY <1>5 DEF Search, BuildList, Pair, WaitPair, PollFirst, PollSecond, Poll, PollAgain, Over,
              Success, PairLate, mVars
<1>6. CASE Terminated \/ UNCHANGED vars
  BY <1>6 DEF Terminated, vars, mVars
<1> QED
  BY <1>1, <1>2, <1>3, <1>4, <1>5, <1>6 DEF Next, Main

\* Nothing happens any more to the task that was found: it has ended, and no pair
\* takes its place.
LEMMA FoundTaskStays ==
    ASSUME SearchInv, [Next]_vars, found # NULL
    PROVE  task'[found] = task[found]
<1>1. /\ TypeOK /\ PhaseInv /\ TaskInv /\ found \in Tasks /\ task[found].pc = "done"
      /\ pcS \in {"success", "done"} /\ task \in [Tasks -> TaskState]
  BY DEF SearchInv, TypeOK, PhaseInv
<1>2. CASE \E t \in Tasks : Task(t)
  <2>1. PICK t \in Tasks : Task(t)
    BY <1>2
  <2>2. PICK r : task' = [task EXCEPT ![t] = r]
    BY <1>1, <2>1, TaskEffect
  <2>3. t # found
    BY <1>1, <2>1, TaskEffect DEF Free
  <2> QED
    BY <1>1, <2>2, <2>3
<1>3. CASE Main \/ Expire \/ Terminated \/ UNCHANGED vars
  BY <1>3 DEF Main, Start, WaitSearch, PollSearch, ReturnReader, Expire, Terminated, vars, tVars
<1>4. CASE Search \/ PairLate
  BY <1>1, <1>4 DEF Search, BuildList, Pair, WaitPair, PollFirst, PollSecond, Poll, PollAgain, Over,
                    Success, PairLate, tVars
<1> QED
  BY <1>2, <1>3, <1>4 DEF Next

\* failover() and get_reader_connection() return once, in one of the ways of
\* FailoverCall, with a connection to a host; neither the outcome nor that connection
\* changes afterwards, whatever the tasks that are still running do.
THEOREM ImplementsFailoverCall == Spec => FC!Init /\ [][FC!Next]_(FC!vars)
<1>1. Init => ReturnInv
  BY DEF Init, ReturnInv
<1>2. SearchInv /\ ReturnInv /\ [Next]_vars => ReturnInv'
  BY CallerSteps DEF ReturnInv
<1>3. Init => FC!Init
  BY DEF Init, FC!Init
<1>4. SearchInv /\ SearchInv' /\ ReturnInv /\ ReturnInv' /\ [Next]_vars => [FC!Next]_(FC!vars)
  <2> SUFFICES ASSUME SearchInv, SearchInv', ReturnInv, ReturnInv', [Next]_vars
               PROVE  FC!Next \/ UNCHANGED FC!vars
    OBVIOUS
  <2>1. pcM # "done" => ret = NULL
    BY DEF SearchInv, PhaseInv
  <2>2. ret # NULL => ret = found /\ ret \in Tasks /\ task[ret].conn = "open"
    <3>1. ret # NULL => ret = found /\ ret \in Tasks /\ task[ret].connected
      BY DEF SearchInv, PhaseInv, TypeOK
    <3> QED
      BY <3>1 DEF SearchInv, TaskInv
  <2>3. ret' # NULL => task'[ret'].conn = "open" /\ task'[ret'].host \in Hosts
    <3>1. ret' # NULL => /\ ret' = found' /\ ret' \in Tasks /\ task'[ret'].connected
                         /\ task'[ret'].pc = "done" /\ arg' \in Topology
      BY DEF SearchInv, PhaseInv, TypeOK
    <3>2. ret' # NULL => task'[ret'].conn = "open" /\ task'[ret'].host \in Wanted'
      BY <3>1 DEF SearchInv, TaskInv
    <3>3. arg' \in Topology => Wanted' \subseteq Hosts
      BY DEF Wanted, Topology
    <3> QED
      BY <3>1, <3>2, <3>3
  <2>4. ret # NULL => task'[ret] = task[ret]
    BY <2>2, FoundTaskStays
  <2>5. CASE UNCHANGED <<pcM, outcome, ret>>
    BY <2>2, <2>4, <2>5 DEF FC!vars
  <2>6. CASE pcM # "done" /\ pcM' # "done" /\ UNCHANGED <<outcome, ret>>
    BY <2>1, <2>6 DEF FC!vars
  <2>7. CASE pcM # "done" /\ pcM' = "done" /\ outcome' = "connected" /\ ret' # NULL
    BY <2>1, <2>3, <2>7 DEF FC!Next, FC!Succeed
  <2>8. CASE pcM # "done" /\ pcM' = "done" /\ outcome' \in {"failed", "threw"} /\ ret' = NULL
    BY <2>1, <2>8 DEF FC!Next, FC!GiveUp
  <2> QED
    BY <2>5, <2>6, <2>7, <2>8, CallerSteps
<1> QED
  BY <1>1, <1>2, <1>3, <1>4, SearchInit, SearchNext, PTL DEF Spec
=============================================================================
