------------------------ MODULE CustomEndpointProofs ------------------------
(***************************************************************************)
(* LoopMonitorHeld and FilterBeforeInfo for any number of connections,     *)
(* endpoints and calls.                                                    *)
(*                                                                         *)
(* A loop is pushed only while the pool is empty, when no monitor has been *)
(* cached yet, so that the monitor of the loop is the one that gets into   *)
(* the cache; and it leaves the cache only when the pool has stopped, and  *)
(* then there is no loop any more.  Both halves need that no other thread  *)
(* works on the cache meanwhile (Alone).                                   *)
(***************************************************************************)
EXTENDS CustomEndpoint, FiniteSetTheorems, SequenceTheorems, TLAPS

CallPC == {"idle", "create", "start", "emplace", "wait"}

\* The types the argument needs.
Types ==
    /\ endpoint \in [Conns -> Endpoints] /\ list \in [Endpoints -> Lists]
    /\ pool \in {"empty", "one", "stopping", "stopped"}
    /\ tasks \in Seq(Monitor)
    /\ cached \in [Endpoints -> Monitor \union {NULL}]
    /\ disposing \in [Threads -> Removal \union {NULL}]
    /\ pc \in [Conns -> CallPC] /\ calls \in [Conns -> 0 .. MaxCalls]
    /\ \A c \in Conns : pc[c] # "idle" => calls[c] > 0
    /\ overlap \in BOOLEAN

\* What holds of the pool even if threads get into each other's way.
PoolInv ==
    /\ pool \in {"empty", "stopped"} => tasks = <<>>
    /\ pool = "empty" => /\ \A e \in Endpoints : cached[e] = NULL
                         /\ \A c \in Conns : pc[c] # "emplace"
    /\ pool = "stopping" => \E t \in Threads : disposing[t] # NULL /\ disposing[t].join
    /\ \A c \in Conns : disposing[c] # NULL => pc[c] = "create"

\* At most one thread works on the cache of monitors.
Alone == \A s, t \in Working : s = t

\* The monitor of a loop is in the cache, or is about to get there.
Kept(m) == \/ cached[Host(m)] = m
           \/ \E c \in Conns : m = Mine(c) /\ pc[c] = "emplace" /\ cached[endpoint[c]] = NULL

\* What holds as long as they do not.
Order ==
    /\ \A c \in Conns : pc[c] = "start" => pool \in {"empty", "stopped"}
    /\ \A t \in Threads : disposing[t] # NULL /\ ~disposing[t].join => pool = "stopped"
    /\ \A i \in DOMAIN tasks : Kept(tasks[i])

AloneInv == ~overlap => Alone /\ Order

\* A loop that is about to publish what it has fetched has set the filter of the
\* connection it works for.
FilterInv ==
    /\ filter \in [Conns -> Filter \union {NULL}] /\ DOMAIN info = Endpoints
    /\ phase = "put" => tasks # <<>> /\ filter[Owner(Loop)] # NULL
    /\ FilterBeforeInfo

EndpointInv == Types /\ PoolInv /\ AloneInv

-----------------------------------------------------------------------------
\* There are finitely many threads, and of a set of them that does not have more
\* than one element any two elements are the same.
LEMMA AtMostOne ==
    ASSUME NEW S \in SUBSET Threads, ~(Cardinality(S) > 1)
    PROVE  \A s, t \in S : s = t
<1> SUFFICES ASSUME NEW s \in S, NEW t \in S, s # t PROVE FALSE
  OBVIOUS
<1>1. IsFiniteSet({"cleaner", "env"})
  <2>1. IsFiniteSet({"cleaner"}) /\ IsFiniteSet({"env"})
    BY FS_Singleton
  <2>2. IsFiniteSet({"cleaner"} \union {"env"})
    BY <2>1, FS_Union
  <2>3. {"cleaner", "env"} = {"cleaner"} \union {"env"}
    OBVIOUS
  <2> QED
    BY <2>2, <2>3
<1>2. IsFiniteSet(Threads)
  BY <1>1, ConnsAssumption, FS_Union DEF Threads
<1>3. IsFiniteSet(S) /\ Cardinality(S) \in Nat
  BY <1>2, FS_Subset, FS_CardinalityType
<1>4. Cardinality({s} \union {t}) = 2
  <2>1. IsFiniteSet({s}) /\ Cardinality({s}) = 1
    BY FS_Singleton
  <2>2. t \notin {s}
    OBVIOUS
  <2> QED
    BY <2>1, <2>2, FS_AddElement
<1>5. Cardinality({s} \union {t}) <= Cardinality(S)
  BY <1>3, FS_Subset
<1> QED
  BY <1>3, <1>4, <1>5

\* A step that leaves overlap false had nobody overlapping before or after it.
LEMMA AloneStep ==
    ASSUME overlap \in BOOLEAN, overlap' = (overlap \/ Cardinality(Working') > 1), ~overlap'
    PROVE  ~overlap /\ Alone'
<1>1. ~overlap /\ ~(Cardinality(Working') > 1)
  OBVIOUS
<1>2. Working' \subseteq Threads
  BY DEF Working, Threads
<1>3. \A s, t \in Working' : s = t
  BY <1>1, <1>2, AtMostOne
<1> QED
  BY <1>1, <1>3 DEF Alone

\* The monitor a call has made.
LEMMA MineIsMonitor ==
    ASSUME Types, NEW c \in Conns, pc[c] # "idle"
    PROVE  Mine(c) \in Monitor
BY MaxCallsAssumption DEF Types, Mine, Monitor

\* What is left of the tasks when the first has ended.
LEMMA TailOfTasks ==
    ASSUME Types, tasks # <<>>
    PROVE  /\ Tail(tasks) \in Seq(Monitor) /\ Loop \in Monitor
           /\ Len(tasks) = 1 => Tail(tasks) = <<>>
           /\ \A i \in DOMAIN Tail(tasks) : i + 1 \in DOMAIN tasks /\ Tail(tasks)[i] = tasks[i + 1]
<1>1. tasks \in Seq(Monitor) /\ Len(tasks) \in Nat /\ DOMAIN tasks = 1 .. Len(tasks)
  BY DEF Types
<1>2. /\ Tail(tasks) \in Seq(Monitor) /\ Head(tasks) \in Monitor
      /\ Len(Tail(tasks)) = Len(tasks) - 1
      /\ \A i \in 1 .. Len(Tail(tasks)) : Tail(tasks)[i] = tasks[i + 1]
  BY <1>1, HeadTailProperties
<1>3. Len(tasks) = 1 => Tail(tasks) = <<>>
  <2>1. Len(tasks) = 1 => Len(Tail(tasks)) = 0
    BY <1>1, <1>2
  <2>2. Tail(tasks) # <<>> => Len(Tail(tasks)) \in Nat \ {0}
    BY <1>2, EmptySeq
  <2> QED
    BY <2>1, <2>2
<1>4. DOMAIN Tail(tasks) = 1 .. Len(Tail(tasks))
  BY <1>2, LenProperties
<1> QED
  BY <1>1, <1>2, <1>3, <1>4 DEF Loop

LEMMA InitInv == Init => EndpointInv /\ FilterInv
<1> SUFFICES ASSUME Init PROVE EndpointInv /\ FilterInv
  OBVIOUS
<1>1. Types
  <2>1. calls \in [Conns -> 0 .. MaxCalls] /\ pc \in [Conns -> CallPC]
    BY MaxCallsAssumption DEF Init, CallPC
  <2>2. \A c \in Conns : pc[c] = "idle"
    BY DEF Init
  <2>3. tasks \in Seq(Monitor)
    BY EmptySeq DEF Init
  <2>5. overlap \in BOOLEAN
    BY DEF Init
  <2>4. /\ cached \in [Endpoints -> Monitor \union {NULL}]
        /\ disposing \in [Threads -> Removal \union {NULL}]
    BY DEF Init
  <2> QED
    BY <2>1, <2>2, <2>3, <2>4, <2>5 DEF Init, Types
<1>2. PoolInv
  BY DEF Init, PoolInv, Threads
<1>3. AloneInv
  BY DEF Init, AloneInv, Alone, Order, Working, Threads
<1>4. FilterInv
  BY DEF Init, FilterInv, FilterBeforeInfo
<1> QED
  BY <1>1, <1>2, <1>3, <1>4 DEF EndpointInv

-----------------------------------------------------------------------------
\* The variables the argument is about.
core == <<endpoint, pool, tasks, cached, disposing, pc, calls>>

\* The steps that leave them alone.
Quiet == UNCHANGED core /\ list' \in [Endpoints -> Lists]
\* The end of a loop, or of the thread.
LoopEnds ==
    /\ UNCHANGED <<endpoint, list, cached, disposing, pc, calls>>
    /\ \/ Running /\ TaskEnds
       \/ pool = "stopping" /\ tasks = <<>> /\ pool' = "stopped" /\ UNCHANGED tasks

\* Every step is one of a call, a disposal, the end of a loop, or quiet.
LEMMA Steps ==
    ASSUME Types, [Next]_vars
    PROVE  \/ \E c \in Conns : Connection(c)
           \/ \E t \in Threads : Disposed(t)
           \/ \E t \in Threads, e \in Endpoints : Dispose(t, e)
           \/ LoopEnds
           \/ Quiet
<1>1. CASE FreeEnv
  BY <1>1 DEF FreeEnv, Quiet, core, service, monitor, caches, connection, Types
<1>2. CASE PoolThread
  BY <1>2 DEF PoolThread, Test, Fetch, Put, IdleEnds, LoopEnds, Quiet, core, service, monitor,
              caches, connection, Types
<1>3. CASE Environment
  <2>1. ASSUME NEW e \in Endpoints, Expire(e) \/ InfoExpires(e) PROVE Quiet
    BY <2>1 DEF Expire, InfoExpires, Quiet, core, service, monitor, caches, connection, Types
  <2>2. ASSUME NEW e \in Endpoints, NEW l \in Lists, Modify(e, l) PROVE Quiet
    BY <2>2 DEF Modify, Quiet, core, service, monitor, caches, connection, Types
  <2> QED
    BY <1>3, <2>1, <2>2 DEF Environment
<1>4. CASE UNCHANGED vars
  BY <1>4 DEF vars, state, Quiet, core, service, monitor, caches, connection, Types
<1> QED
  BY <1>1, <1>2, <1>3, <1>4 DEF Next, Disposal

\* The types are kept.
LEMMA TypesStep == Types /\ [Next]_vars => Types'
<1> SUFFICES ASSUME Types, [Next]_vars PROVE Types'
  OBVIOUS
<1>0. overlap' \in BOOLEAN
  BY DEF Next, vars, Types
<1> USE <1>0
<1>1. ASSUME NEW c \in Conns, Call(c) PROVE Types'
  BY <1>1, MaxCallsAssumption DEF Call, Goto, Types, CallPC, service, monitor, caches
<1>2. ASSUME NEW c \in Conns, Create(c) \/ Wait(c) PROVE Types'
  BY <1>2 DEF Create, Wait, Goto, Types, CallPC, service, monitor, caches
<1>3. ASSUME NEW c \in Conns, Start(c) PROVE Types'
  <2>1. tasks' \in Seq(Monitor)
    BY <1>3, MineIsMonitor, AppendProperties DEF Start, Types
  <2> QED
    BY <1>3, <2>1 DEF Start, Goto, Types, CallPC, service, caches
<1>4. ASSUME NEW c \in Conns, Emplace(c) PROVE Types'
  <2>1. Mine(c) \in Monitor
    BY <1>4, MineIsMonitor DEF Emplace
  <2> QED
    BY <1>4, <2>1 DEF Emplace, Goto, Types, CallPC, service, monitor
<1>5. ASSUME NEW t \in Threads, NEW e \in Endpoints, Dispose(t, e) PROVE Types'
  <2>1. cached[e] \in Monitor
    BY <1>5 DEF Dispose, May, Types
  <2>2. [of |-> e, item |-> cached[e], join |-> pool \in {"empty", "one"}] \in Removal
    BY <2>1 DEF Removal
  <2>3. pool' \in {"empty", "one", "stopping", "stopped"}
    BY <1>5 DEF Dispose, Types
  <2> QED
    BY <1>5, <2>2, <2>3 DEF Dispose, Types, service, caches, connection
<1>6. ASSUME NEW t \in Threads, Disposed(t) PROVE Types'
  BY <1>6 DEF Disposed, Types, service, monitor, connection
<1>7. CASE LoopEnds
  <2>1. CASE Running /\ TaskEnds
    BY <1>7, <2>1, TailOfTasks DEF LoopEnds, TaskEnds, Running, Types
  <2>2. CASE ~(Running /\ TaskEnds)
    BY <1>7, <2>2 DEF LoopEnds, Types
  <2> QED
    BY <2>1, <2>2
<1>8. CASE Quiet
  BY <1>8 DEF Quiet, core, Types
<1> QED
  BY <1>1, <1>2, <1>3, <1>4, <1>5, <1>6, <1>7, <1>8, Steps DEF Connection

\* The pool behaves.
LEMMA PoolStep == Types /\ PoolInv /\ [Next]_vars => PoolInv'
<1> SUFFICES ASSUME Types, PoolInv, [Next]_vars PROVE PoolInv'
  OBVIOUS
<1>0. Conns \subseteq Threads
  BY DEF Threads
<1> USE <1>0
<1>1. ASSUME NEW c \in Conns, Call(c) \/ Create(c) \/ Wait(c) PROVE PoolInv'
  BY <1>1 DEF Call, Create, Wait, Goto, Types, PoolInv, service, monitor, caches
<1>2. ASSUME NEW c \in Conns, Start(c) PROVE PoolInv'
  BY <1>2 DEF Start, Goto, Types, PoolInv, service, caches
<1>3. ASSUME NEW c \in Conns, Emplace(c) PROVE PoolInv'
  BY <1>3 DEF Emplace, Goto, Types, PoolInv, service, monitor
<1>4. ASSUME NEW t \in Threads, NEW e \in Endpoints, Dispose(t, e) PROVE PoolInv'
  <2> DEFINE r == [of |-> e, item |-> cached[e], join |-> pool \in {"empty", "one"}]
  <2>1. cached[e] \in Monitor /\ pool # "empty"
    BY <1>4 DEF Dispose, May, Types, PoolInv
  <2>2. r \in Removal /\ r # NULL
    <3>1. r \in Removal
      BY <2>1 DEF Removal
    <3> QED
      BY <3>1, NullAssumption
  <2>3. /\ disposing' = [disposing EXCEPT ![t] = r]
        /\ pool' = (IF pool = "one" THEN "stopping" ELSE pool)
        /\ UNCHANGED <<tasks, cached, pc>>
        /\ t \in Conns => pc[t] = "create"
    <3>1. t \in Conns => t \notin {"cleaner", "env"}
      BY ConnsAssumption
    <3> QED
      BY <1>4, <2>1, <3>1 DEF Dispose, May, Types, caches, connection
  <2>4. pool' = "stopping" => \E u \in Threads : disposing'[u] # NULL /\ disposing'[u].join
    <3>1. CASE pool = "one"
      BY <2>2, <2>3, <3>1 DEF Types
    <3>2. CASE pool # "one"
      BY <1>4, <2>3, <3>2 DEF Types, PoolInv, Dispose, May
    <3> QED
      BY <3>1, <3>2
  <2> QED
    BY <2>1, <2>3, <2>4 DEF Types, PoolInv
<1>5. ASSUME NEW t \in Threads, Disposed(t) PROVE PoolInv'
  BY <1>5 DEF Disposed, Types, PoolInv, service, monitor, connection
<1>6. CASE LoopEnds
  <2>1. CASE Running /\ TaskEnds
    BY <1>6, <2>1, TailOfTasks DEF LoopEnds, TaskEnds, Running, Types, PoolInv
  <2>2. CASE ~(Running /\ TaskEnds)
    BY <1>6, <2>2 DEF LoopEnds, Types, PoolInv
  <2> QED
    BY <2>1, <2>2
<1>7. CASE Quiet
  BY <1>7 DEF Quiet, core, PoolInv
<1> QED
  BY <1>1, <1>2, <1>3, <1>4, <1>5, <1>6, <1>7, Steps DEF Connection

\* As long as no two threads work on the cache, the loops are those of monitors
\* that are kept.
LEMMA AloneInvStep == EndpointInv /\ [Next]_vars => AloneInv'
<1> SUFFICES ASSUME Types, PoolInv, AloneInv, [Next]_vars, ~overlap' PROVE Alone' /\ Order'
  BY DEF EndpointInv, AloneInv
<1>1. ~overlap /\ Alone'
  <2>1. CASE Next
    BY <2>1, AloneStep DEF Next, Types
  <2>2. CASE UNCHANGED vars
    <3>1. ~overlap /\ UNCHANGED <<pc, disposing>>
      BY <2>2 DEF vars, state, connection
    <3> QED
      BY <3>1 DEF AloneInv, Alone, Working
  <2> QED
    BY <2>1, <2>2
<1>2. Alone /\ Order /\ Conns \subseteq Threads
  BY <1>1 DEF AloneInv, Threads
<1>3. ASSUME NEW c \in Conns, Call(c) \/ Create(c) \/ Wait(c) PROVE Order'
  <2>1. /\ UNCHANGED <<endpoint, pool, tasks, cached, disposing>>
        /\ pc[c] # "emplace" /\ \A d \in Conns \ {c} : pc'[d] = pc[d] /\ calls'[d] = calls[d]
        /\ pc'[c] = "start" => pool \in {"empty", "stopped"}
    BY <1>3 DEF Call, Create, Wait, Goto, Types, service, monitor, caches
  <2>2. ASSUME NEW m, Kept(m) PROVE Kept(m)'
    BY <2>1, <2>2 DEF Kept, Mine, Host, Owner
  <2> QED
    BY <1>2, <2>1, <2>2 DEF Order
<1>4. ASSUME NEW c \in Conns, Start(c) PROVE Order'
  <2>1. \A t \in Threads : disposing[t] = NULL
    <3>1. c \in Working /\ disposing[c] = NULL
      BY <1>2, <1>4 DEF Start, Working, PoolInv
    <3>2. \A t \in Threads : disposing[t] # NULL => t \in Working
      BY DEF Working
    <3> QED
      BY <1>2, <3>1, <3>2 DEF Alone
  <2>2. \A d \in Conns \ {c} : pc[d] \notin {"start", "emplace"}
    BY <1>2, <1>4 DEF Start, Working, Alone
  <2>3. /\ UNCHANGED <<endpoint, cached, disposing, calls>> /\ pc' = [pc EXCEPT ![c] = "emplace"]
        /\ pool \in {"empty", "stopped"} /\ tasks = <<>>
    BY <1>2, <1>4 DEF Start, Goto, Order, PoolInv, service, caches
  <2>4. CASE pool = "stopped"
    BY <1>4, <2>1, <2>2, <2>3, <2>4 DEF Start, Order, Types
  <2>5. CASE pool = "empty"
    <3>1. tasks' = Append(<<>>, Mine(c)) /\ Mine(c)' = Mine(c)
      BY <1>4, <2>3, <2>5 DEF Start, Mine
    <3>2. \A i \in DOMAIN tasks' : tasks'[i] = Mine(c)
      BY <3>1
    <3>3. Kept(Mine(c))'
      BY <2>3, <2>5, <3>1 DEF Kept, Mine, Types, PoolInv
    <3> QED
      BY <2>1, <2>2, <2>3, <3>1, <3>2, <3>3 DEF Order, Types
  <2> QED
    BY <2>3, <2>4, <2>5
<1>5. ASSUME NEW c \in Conns, Emplace(c) PROVE Order'
  <2>1. /\ UNCHANGED <<endpoint, pool, tasks, disposing, calls>>
        /\ pc[c] = "emplace" /\ pc' = [pc EXCEPT ![c] = "wait"]
        /\ cached' = [cached EXCEPT ![endpoint[c]] = IF @ = NULL THEN Mine(c) ELSE @]
    BY <1>5 DEF Emplace, Goto, service, monitor
  <2>2. \A d \in Conns \ {c} : pc[d] # "emplace"
    BY <1>2, <2>1 DEF Working, Alone
  <2>3. ASSUME NEW m \in Monitor, Kept(m) PROVE Kept(m)'
    <3>1. CASE cached[Host(m)] = m
      <4>1. m # NULL /\ Host(m) \in Endpoints
        BY NullAssumption DEF Types, Monitor, Host, Owner
      <4>2. cached'[Host(m)] = m
        BY <2>1, <3>1, <4>1 DEF Types
      <4>3. Host(m)' = Host(m)
        BY <2>1 DEF Host
      <4> QED
        BY <4>2, <4>3 DEF Kept
    <3>2. CASE m = Mine(c) /\ cached[endpoint[c]] = NULL
      <4>1. Host(m) = endpoint[c] /\ Host(m)' = endpoint[c]
        BY <2>1, <3>2 DEF Host, Owner, Mine
      <4>2. cached'[endpoint[c]] = m
        BY <2>1, <3>2 DEF Types
      <4> QED
        BY <4>1, <4>2 DEF Kept
    <3> QED
      BY <2>2, <2>3, <3>1, <3>2 DEF Kept
  <2>4. \A i \in DOMAIN tasks : tasks[i] \in Monitor
    BY DEF Types
  <2> QED
    BY <1>2, <2>1, <2>3, <2>4 DEF Order, Types
<1>6. ASSUME NEW t \in Threads, NEW e \in Endpoints, Dispose(t, e) PROVE Order'
  <2> DEFINE r == [of |-> e, item |-> cached[e], join |-> pool \in {"empty", "one"}]
  <2>1. /\ disposing' = [disposing EXCEPT ![t] = r] /\ disposing[t] = NULL /\ r # NULL
        /\ UNCHANGED <<endpoint, tasks, cached, pc, calls>>
        /\ t \in Conns => pc[t] = "create"
    <3>1. t \in Conns => t \notin {"cleaner", "env"}
      BY ConnsAssumption
    <3>2. cached[e] \in Monitor
      BY <1>6 DEF Dispose, May, Types
    <3>3. r \in Removal
      BY <3>2 DEF Removal
    <3>4. r # NULL
      BY <3>3, NullAssumption
    <3> QED
      BY <1>6, <3>1, <3>4 DEF Dispose, May, service, caches, connection
  <2> HIDE DEF r
  <2>2. t \in Working'
    BY <2>1 DEF Working, Types
  <2>3. \A c \in Conns : pc'[c] # "start"
    BY <1>1, <2>1, <2>2 DEF Working, Alone
  <2>4. \A u \in Threads \ {t} : disposing[u] = NULL /\ disposing'[u] = NULL
    BY <1>1, <2>1, <2>2 DEF Working, Alone, Types
  <2>5. pool # "stopping"
    BY <2>1, <2>4 DEF PoolInv
  <2>6. ~r.join => pool' = "stopped"
    BY <1>6, <2>5 DEF r, Dispose, Types
  <2>7. (\A i \in DOMAIN tasks : Kept(tasks[i]))'
    BY <1>2, <2>1 DEF Order, Kept, Host, Owner, Mine
  <2>8. \A u \in Threads : disposing'[u] # NULL /\ ~disposing'[u].join => pool' = "stopped"
    BY <2>1, <2>4, <2>6 DEF Types
  <2> QED
    BY <2>3, <2>7, <2>8 DEF Order
<1>7. ASSUME NEW t \in Threads, Disposed(t) PROVE Order'
  <2>1. pool = "stopped" /\ tasks = <<>>
    BY <1>2, <1>7 DEF Disposed, Order, PoolInv
  <2>2. UNCHANGED <<pool, tasks, pc>> /\ disposing' = [disposing EXCEPT ![t] = NULL]
    BY <1>7 DEF Disposed, monitor, connection
  <2> QED
    BY <2>1, <2>2 DEF Order, Types
<1>8. CASE LoopEnds
  <2>1. pool' = pool \/ pool' = "stopped"
    BY <1>8 DEF LoopEnds, TaskEnds
  <2>2. \A i \in DOMAIN tasks' : \E j \in DOMAIN tasks : tasks'[i] = tasks[j]
    <3>1. CASE Running /\ TaskEnds
      BY <3>1, TailOfTasks DEF Running, TaskEnds
    <3>2. CASE UNCHANGED tasks
      BY <3>2
    <3> QED
      BY <1>8, <3>1, <3>2 DEF LoopEnds
  <2>3. (\A i \in DOMAIN tasks : Kept(tasks[i]))'
    BY <1>2, <1>8, <2>2 DEF Order, LoopEnds, Kept, Mine, Host, Owner
  <2> QED
    BY <1>1, <1>2, <1>8, <2>1, <2>3 DEF Order, LoopEnds
<1>9. CASE Quiet
  BY <1>1, <1>2, <1>9 DEF Quiet, core, Order, Kept, Mine, Host, Owner
<1> QED
  BY <1>1, <1>3, <1>4, <1>5, <1>6, <1>7, <1>8, <1>9, Steps DEF Connection

-----------------------------------------------------------------------------
\* The whole invariant, of every reachable state.
LEMMA Invariance == Spec => []EndpointInv
<1>1. Init => EndpointInv
  BY InitInv
<1>2. EndpointInv /\ [Next]_vars => EndpointInv'
  BY TypesStep, PoolStep, AloneInvStep DEF EndpointInv
<1> QED
  BY <1>1, <1>2, PTL DEF Spec

\* The loop that runs, and those that wait for the thread of the pool, are those of
\* monitors that somebody holds, as long as no two threads have worked on the
\* cache of monitors at once.
THEOREM LoopsAreHeld == Spec => []LoopMonitorHeld
<1>1. EndpointInv => LoopMonitorHeld
  <2> SUFFICES ASSUME EndpointInv, ~overlap, NEW i \in DOMAIN tasks PROVE tasks[i] \in Held
    BY DEF LoopMonitorHeld
  <2>1. Kept(tasks[i]) /\ tasks[i] \in Monitor
    BY DEF EndpointInv, AloneInv, Order, Types
  <2>2. Host(tasks[i]) \in Endpoints
    BY <2>1 DEF EndpointInv, Types, Monitor, Host, Owner
  <2> QED
    BY <2>1, <2>2 DEF Kept, Held
<1> QED
  BY <1>1, Invariance, PTL

\* The task at the head stays there when another one is pushed.
LEMMA LoopKept ==
    ASSUME Types, tasks # <<>>, NEW m \in Monitor, tasks' = Append(tasks, m)
    PROVE  Loop' = Loop /\ tasks' # <<>>
BY DEF Types, Loop

\* What has been fetched is published by the loop that has set the filter.
LEMMA FilterStep == Types /\ FilterInv /\ [Next]_vars => FilterInv'
<1> SUFFICES ASSUME Types, FilterInv, [Next]_vars PROVE FilterInv'
  OBVIOUS
<1>1. ASSUME UNCHANGED <<filter, endpoint>>, DOMAIN info' = Endpoints,
             \A e \in Endpoints : info'[e] \in {info[e], NULL},
             phase' = "put" => phase = "put" /\ Loop' = Loop /\ tasks' # <<>>
      PROVE  FilterInv'
  BY <1>1 DEF FilterInv, FilterBeforeInfo
<1>2. ASSUME UNCHANGED <<filter, endpoint, info>>, phase' = "test" PROVE FilterInv'
  BY <1>1, <1>2 DEF FilterInv
<1>3. ASSUME UNCHANGED <<filter, endpoint, phase, tasks>>, DOMAIN info' = Endpoints,
             \A e \in Endpoints : info'[e] \in {info[e], NULL}
      PROVE  FilterInv'
  BY <1>1, <1>3 DEF FilterInv, Loop
<1>4. CASE Test
  BY <1>1, <1>4 DEF Test, TaskEnds, service, caches, connection, FilterInv
<1>5. CASE Fetch
  <2>1. CASE UNCHANGED filter /\ phase' = "test"
    BY <1>2, <1>5, <2>1 DEF Fetch, service, caches
  <2>2. CASE /\ filter' = [filter EXCEPT ![Owner(Loop)] = AllowedAndBlocked(list[Host(Loop)])]
             /\ UNCHANGED tasks
    <3>1. Loop \in Monitor /\ tasks # <<>>
      BY <1>5, TailOfTasks DEF Fetch, Running
    <3>2. Owner(Loop) \in Conns /\ list[Host(Loop)] \in Info
      BY <3>1, ListsAssumption DEF Monitor, Owner, Host, Types
    <3>3. AllowedAndBlocked(list[Host(Loop)]) \in Filter
      BY <3>2 DEF AllowedAndBlocked, Info, Filter
    <3>4. /\ filter' \in [Conns -> Filter \union {NULL}] /\ filter'[Owner(Loop)] # NULL
          /\ \A c \in Conns : filter[c] # NULL => filter'[c] # NULL
      BY <2>2, <3>2, <3>3, NullAssumption DEF FilterInv
    <3>5. UNCHANGED <<info, endpoint>>
      BY <1>5 DEF Fetch, service, caches
    <3> QED
      BY <2>2, <3>1, <3>4, <3>5 DEF FilterInv, FilterBeforeInfo, Loop
  <2> QED
    BY <1>5, <2>1, <2>2 DEF Fetch, TaskEnds
<1>6. CASE Put
  <2>1. Loop \in Monitor /\ filter[Owner(Loop)] # NULL
    BY <1>6, TailOfTasks DEF Put, Running, FilterInv
  <2>2. Owner(Loop) \in Conns /\ Host(Loop) = endpoint[Owner(Loop)]
    BY <2>1 DEF Monitor, Owner, Host
  <2>3. \A e \in Endpoints : info'[e] = info[e] \/ e = Host(Loop)
    BY <1>6 DEF Put, FilterInv
  <2>4. /\ UNCHANGED <<filter, endpoint>> /\ phase' = "test"
        /\ DOMAIN info' = Endpoints
    BY <1>6 DEF Put, service, connection, FilterInv
  <2> QED
    BY <2>1, <2>2, <2>3, <2>4 DEF FilterInv, FilterBeforeInfo
<1>7. CASE IdleEnds \/ FreeEnv
  BY <1>3, <1>7 DEF IdleEnds, FreeEnv, service, monitor, caches, connection, FilterInv
<1>8. CASE Environment
  BY <1>3, <1>8 DEF Environment, Expire, InfoExpires, Modify, service, monitor, connection, caches,
     FilterInv
<1>9. CASE Disposal
  BY <1>3, <1>9 DEF Disposal, Disposed, Dispose, service, monitor, connection, caches, FilterInv
<1>10. ASSUME NEW c \in Conns, Connection(c) PROVE FilterInv'
  <2>1. CASE Start(c)
    <3>1. Mine(c) \in Monitor
      BY <2>1, MineIsMonitor DEF Start
    <3>2. phase = "put" => Loop' = Loop /\ tasks' # <<>>
      BY <2>1, <3>1, LoopKept DEF Start, FilterInv, Loop
    <3> QED
      BY <1>1, <2>1, <3>2 DEF Start, service, caches, FilterInv
  <2>2. CASE Call(c) \/ Create(c) \/ Emplace(c) \/ Wait(c)
    BY <1>3, <2>2 DEF Call, Create, Emplace, Wait, service, monitor, caches, FilterInv
  <2> QED
    BY <1>10, <2>1, <2>2 DEF Connection
<1>11. CASE UNCHANGED vars
  BY <1>3, <1>11 DEF vars, state, service, monitor, caches, connection, FilterInv
<1> QED
  BY <1>4, <1>5, <1>6, <1>7, <1>8, <1>9, <1>10, <1>11 DEF Next, PoolThread

\* For any connections and endpoints, the members of an endpoint are published only
\* after a connection to it has got its filter.
THEOREM FiltersComeFirst == Spec => []FilterBeforeInfo
<1>1. FilterInv => FilterBeforeInfo
  BY DEF FilterInv
<1>2. Init => Types /\ FilterInv
  BY InitInv DEF EndpointInv
<1>3. Types /\ FilterInv /\ [Next]_vars => (Types /\ FilterInv)'
  BY TypesStep, FilterStep
<1> QED
  BY <1>1, <1>2, <1>3, PTL DEF Spec
=============================================================================
