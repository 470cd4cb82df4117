------------------------- MODULE HostMonitorProofs -------------------------
(***************************************************************************)
(* Proofs about HostMonitor, for any number of connections, monitors,      *)
(* threads and hosts.                                                      *)
(*                                                                         *)
(* Types is TypeOK with what a connection has that is under way; it is     *)
(* inductive, and so are, with it, ActiveInv, ListedInv and LoopInv.       *)
(* These hold with failover and disposal.  Without them, and only then,    *)
(* SteadyInv is inductive too: a connection finds the same monitor when it *)
(* stops as when it started, because entries of the map are never changed  *)
(* (MapInv) and monitors that have a thread keep it (RunningInv); so the   *)
(* lists have exactly the contexts of the calls that are registered        *)
(* (RegisteredInv), and a monitor that calls use keeps their interval      *)
(* unless a call that ends overwrites it (IntervalInv).                    *)
(***************************************************************************)
EXTENDS HostMonitor, SequenceTheorems, TLAPS

\* Where a connection uses the monitor it has been given.
HasMonitor == {"push", "task", "call", "invalidate", "remove", "shortest", "assign",
               "clear", "max", "unmap", "release"}

(* TypeOK by groups of variables, and what a connection has that is not    *)
(* idle: a context, and a monitor where it uses one.                       *)
NetType ==
    /\ up \subseteq Instances /\ changes \in 0 .. Crashes
    /\ server \in [Conns -> Hosts] /\ node_keys \in [Conns -> SUBSET Keys]
    /\ sock \in [Conns -> BOOLEAN]
AppType ==
    /\ pc \in [Conns -> AppPC] /\ calls \in [Conns -> 0 .. MaxCalls]
    /\ node \in [Conns -> Keys \union {NULL}]
    /\ mon \in [Conns -> Monitors \union {NULL}]
    /\ shortest \in [Conns -> {"short", "max"}]
    /\ \A c \in Conns : /\ pc[c] # "idle" => calls[c] > 0
                        /\ pc[c] \in HasMonitor => mon[c] # NULL
CtxType == active \subseteq Contexts /\ unhealthy \subseteq Contexts
MonType ==
    /\ host \in [Monitors -> Hosts \union {NULL}]
    /\ contexts \in [Monitors -> SUBSET Contexts]
    /\ stopped \in [Monitors -> BOOLEAN] /\ expired \in [Monitors -> BOOLEAN]
    /\ interval \in [Monitors -> {"short", "max"}]
    /\ lock \in [Monitors -> Threads \union {NULL}]
BoxType ==
    /\ monitor_map \in [Keys -> Monitors \union {NULL, "absent"}]
    /\ task_map \subseteq Monitors
    /\ available \in Seq(Monitors)
    /\ owner \in Conns \union {NULL}
RunType ==
    /\ tpc \in [Threads -> RunPC]
    /\ tmon \in [Threads -> Monitors \union {NULL}]
    /\ valid \in [Threads -> BOOLEAN] /\ todo \in [Threads -> SUBSET Contexts]
    /\ cur \in [Threads -> Contexts \union {NULL}]
    /\ \A t \in Threads : tpc[t] = "free" \/ tmon[t] # NULL
Types == NetType /\ AppType /\ CtxType /\ MonType /\ BoxType /\ RunType /\ pcF \in {"no", "join", "done"}

LEMMA GroupsUnchanged ==
    /\ NetType /\ UNCHANGED netVars => NetType'
    /\ AppType /\ UNCHANGED appVars => AppType'
    /\ CtxType /\ UNCHANGED ctxVars => CtxType'
    /\ MonType /\ UNCHANGED monVars => MonType'
    /\ BoxType /\ UNCHANGED boxVars => BoxType'
    /\ RunType /\ UNCHANGED runVars => RunType'
<1>1. NetType /\ UNCHANGED netVars => NetType'
  BY DEF NetType, netVars
<1>2. AppType /\ UNCHANGED appVars => AppType'
  BY DEF AppType, appVars
<1>3. CtxType /\ UNCHANGED ctxVars => CtxType'
  BY DEF CtxType, ctxVars
<1>4. MonType /\ UNCHANGED monVars => MonType'
  BY DEF MonType, monVars
<1>5. BoxType /\ UNCHANGED boxVars => BoxType'
  BY DEF BoxType, boxVars
<1>6. RunType /\ UNCHANGED runVars => RunType'
  BY DEF RunType, runVars
<1> QED
  BY <1>1, <1>2, <1>3, <1>4, <1>5, <1>6

-----------------------------------------------------------------------------
(* A step of a connection                                                  *)

\* The context of a connection that is not idle.
LEMMA ContextType ==
    ASSUME AppType, NEW c \in Conns, pc[c] # "idle"
    PROVE  Context(c) \in Contexts
<1>1. calls[c] \in 1 .. MaxCalls
  BY BoundAssumption DEF AppType
<1> QED
  BY <1>1 DEF Context, Contexts

\* A connection that moves on, keeping its calls: it has a monitor where it needs one.
LEMMA GotoType ==
    ASSUME AppType, NEW c \in Conns, NEW l \in AppPC, Goto(c, l), UNCHANGED <<calls, node, mon, shortest>>,
           pc[c] # "idle", l \in HasMonitor => mon[c] # NULL
    PROVE  AppType'
BY DEF AppType, Goto

LEMMA StartType == ASSUME Types, NEW c \in Conns, Start(c) PROVE Types'
<1>1. NetType' /\ CtxType' /\ MonType' /\ RunType'
  BY GroupsUnchanged DEF Types, Start
<1>2. AppType'
  <2>1. calls[c] + 1 \in 0 .. MaxCalls /\ calls[c] + 1 > 0
    BY BoundAssumption DEF Types, AppType, Start
  <2>2. node' \in [Conns -> Keys \union {NULL}]
    BY DEF Types, AppType, NetType, Start, Mapped
  <2> QED
    BY <2>1, <2>2 DEF Types, AppType, Start, Goto, AppPC, HasMonitor
<1>3. BoxType'
  BY DEF Types, BoxType, Start
<1> QED
  BY <1>1, <1>2, <1>3 DEF Types, Start

LEMMA FetchType == ASSUME Types, NEW c \in Conns, Fetch(c) PROVE Types'
<1>1. NetType' /\ CtxType' /\ MonType' /\ RunType'
  BY GroupsUnchanged DEF Types, Fetch
<1>2. node[c] \in Keys
  BY DEF Types, AppType, Fetch
<1>3. monitor_map'[node[c]] \in Monitors \union {NULL}
  BY <1>2 DEF Types, BoxType, Fetch
<1>4. AppType'
  BY <1>3 DEF Types, AppType, Fetch, Goto, AppPC, HasMonitor
<1>5. BoxType'
  BY <1>2 DEF Types, BoxType, Fetch
<1> QED
  BY <1>1, <1>4, <1>5 DEF Types, Fetch

LEMMA GetOrCreateType == ASSUME Types, NEW c \in Conns, GetOrCreate(c) PROVE Types'
<1>1. NetType' /\ CtxType' /\ RunType'
  BY GroupsUnchanged DEF Types, GetOrCreate
<1>2. available # <<>> => Head(available) \in Monitors /\ Tail(available) \in Seq(Monitors)
  BY HeadTailProperties DEF Types, BoxType
<1>3. PICK m \in Monitors : mon' = [mon EXCEPT ![c] = m]
  BY <1>2 DEF GetOrCreate
<1>4. AppType'
  BY <1>3 DEF Types, AppType, GetOrCreate, Goto, AppPC, HasMonitor
<1>5. MonType'
  <2>1. server[c] \in Hosts
    BY DEF Types, NetType
  <2> QED
    BY <2>1 DEF Types, MonType, GetOrCreate
<1>6. BoxType'
  BY <1>2 DEF Types, BoxType, GetOrCreate
<1> QED
  BY <1>1, <1>4, <1>5, <1>6 DEF Types, GetOrCreate

LEMMA PopulateType == ASSUME Types, NEW c \in Conns, Populate(c) PROVE Types'
<1>1. NetType' /\ CtxType' /\ MonType' /\ RunType'
  BY GroupsUnchanged DEF Types, Populate
<1>2. AppType'
  BY GotoType DEF Types, Populate, AppPC, HasMonitor
<1>3. BoxType'
  BY DEF Types, BoxType, AppType, Populate
<1> QED
  BY <1>1, <1>2, <1>3 DEF Types, Populate

LEMMA CompareType == ASSUME Types, NEW c \in Conns, Compare(c) PROVE Types'
<1>1. NetType' /\ BoxType' /\ RunType'
  BY GroupsUnchanged DEF Types, Compare
<1>2. AppType'
  BY GotoType DEF Types, Compare, AppPC, HasMonitor
<1>3. CtxType'
  BY ContextType DEF Types, CtxType, Compare
<1>4. MonType'
  BY DEF Types, MonType, Compare
<1> QED
  BY <1>1, <1>2, <1>3, <1>4 DEF Types, Compare

LEMMA AddTaskType == ASSUME Types, NEW c \in Conns, AddTask(c) PROVE Types'
<1>1. NetType' /\ CtxType' /\ MonType'
  BY GroupsUnchanged DEF Types, AddTask
<1>2. AppType'
  BY GotoType DEF Types, AppType, AddTask, AppPC, HasMonitor
<1>3. mon[c] \in Monitors
  BY DEF Types, AppType, AddTask, HasMonitor
<1>4. BoxType'
  BY <1>3 DEF Types, BoxType, AddTask
<1>5. RunType'
  BY <1>3, NullAssumption DEF Types, RunType, AddTask, RunPC
<1> QED
  BY <1>1, <1>2, <1>4, <1>5 DEF Types, AddTask

LEMMA FindType == ASSUME Types, NEW c \in Conns, Find(c) PROVE Types'
<1>1. NetType' /\ CtxType' /\ MonType' /\ BoxType' /\ RunType'
  BY GroupsUnchanged DEF Types, Find
<1>2. AppType'
  <2>1. CASE UNCHANGED mon /\ Goto(c, "close")
    BY <2>1, GotoType DEF Types, Find, AppPC, HasMonitor
  <2>2. ASSUME NEW k \in Mapped(node_keys[c]), monitor_map[k] # NULL, Goto(c, "remove"),
               mon' = [mon EXCEPT ![c] = monitor_map[k]]
        PROVE  AppType'
    <3>1. monitor_map[k] \in Monitors
      BY <2>2 DEF Types, NetType, BoxType, Mapped
    <3> QED
      BY <2>2, <3>1, NullAssumption DEF Types, AppType, Find, Goto, AppPC, HasMonitor
  <2> QED
    BY <2>1, <2>2 DEF Find
<1> QED
  BY <1>1, <1>2 DEF Types, Find

\* The other steps of a monitored call.
LEMMA CallType ==
    ASSUME Types, NEW c \in Conns,
           CompareNull(c) \/ Push(c) \/ EndCall(c) \/ Invalidate(c) \/ Remove(c) \/ FindShortest(c)
           \/ Assign(c) \/ Close(c)
    PROVE  Types'
<1>1. CASE CompareNull(c) \/ EndCall(c)
  <2>1. NetType' /\ CtxType' /\ MonType' /\ BoxType' /\ RunType'
    BY <1>1, GroupsUnchanged DEF Types, CompareNull, EndCall
  <2>2. AppType'
    BY <1>1 DEF Types, AppType, Goto, CompareNull, EndCall, AppPC, HasMonitor
  <2> QED
    BY <1>1, <2>1, <2>2 DEF Types, CompareNull, EndCall
<1>2. CASE Push(c) \/ Remove(c)
  <2>1. NetType' /\ CtxType' /\ BoxType' /\ RunType'
    BY <1>2, GroupsUnchanged DEF Types, Push, Remove
  <2>2. AppType'
    BY <1>2 DEF Types, AppType, Goto, Push, Remove, AppPC, HasMonitor
  <2>3. Context(c) \in Contexts
    BY <1>2, ContextType DEF Types, Push, Remove
  <2>4. MonType'
    BY <1>2, <2>3 DEF Types, MonType, Push, Remove
  <2> QED
    BY <1>2, <2>1, <2>2, <2>4 DEF Types, Push, Remove
<1>3. CASE Invalidate(c)
  <2>1. NetType' /\ MonType' /\ BoxType' /\ RunType'
    BY <1>3, GroupsUnchanged DEF Types, Invalidate
  <2>2. AppType' /\ CtxType'
    BY <1>3 DEF Types, AppType, CtxType, Goto, Invalidate, AppPC, HasMonitor
  <2> QED
    BY <1>3, <2>1, <2>2 DEF Types, Invalidate
<1>4. CASE FindShortest(c)
  <2>1. NetType' /\ CtxType' /\ MonType' /\ BoxType' /\ RunType'
    BY <1>4, GroupsUnchanged DEF Types, FindShortest
  <2>2. AppType'
    BY <1>4 DEF Types, AppType, Goto, FindShortest, AppPC, HasMonitor
  <2> QED
    BY <1>4, <2>1, <2>2 DEF Types, FindShortest
<1>5. CASE Assign(c)
  <2>1. NetType' /\ CtxType' /\ BoxType' /\ RunType'
    BY <1>5, GroupsUnchanged DEF Types, Assign
  <2>2. AppType' /\ MonType'
    BY <1>5 DEF Types, AppType, MonType, Goto, Assign, SetInterval, AppPC, HasMonitor
  <2> QED
    BY <1>5, <2>1, <2>2 DEF Types, Assign
<1>6. CASE Close(c)
  <2>1. CtxType' /\ MonType' /\ BoxType' /\ RunType'
    BY <1>6, GroupsUnchanged DEF Types, Close
  <2>2. AppType' /\ NetType'
    BY <1>6 DEF Types, AppType, NetType, Goto, Close, AppPC, HasMonitor
  <2> QED
    BY <1>6, <2>1, <2>2 DEF Types, Close
<1> QED
  BY <1>1, <1>2, <1>3, <1>4, <1>5, <1>6

\* A failover.  A connection that settles on a host has keys of that host.
LEMMA FailOverType == ASSUME Types, NEW c \in Conns, FailOver(c) PROVE Types'
<1> DEFINE keys(s) == {s[c]} \union (IF IsUp(s[c]) THEN {InstanceOf[s[c]]} ELSE {})
<1>1. ASSUME NEW s \in [Conns -> Hosts] PROVE keys(s) \subseteq Keys
  BY <1>1, HostAssumption DEF Keys, Instances
<1>2. CASE SetConnection(c)
  <2>1. CtxType' /\ MonType' /\ BoxType' /\ RunType'
    BY <1>2, GroupsUnchanged DEF Types, SetConnection
  <2>2. server' \in [Conns -> Hosts] /\ sock' \in [Conns -> BOOLEAN]
    BY <1>2 DEF Types, NetType, SetConnection
  <2>3. pc[c] = "idle" /\ calls[c] > 0 /\ UNCHANGED <<up, changes, calls, node, shortest, pcF>>
    BY <1>2, BoundAssumption DEF Types, AppType, SetConnection
  <2>4. CASE Settle(c) /\ UNCHANGED mon
    <3>1. node_keys' = [node_keys EXCEPT ![c] = keys(server')] /\ Goto(c, "idle")
      BY <2>3, <2>4 DEF Settle, IsUp
    <3>2. NetType'
      BY <1>1, <2>2, <2>3, <3>1 DEF Types, NetType
    <3>3. AppType'
      BY <2>3, <2>4, <3>1 DEF Types, AppType, Goto, AppPC, HasMonitor
    <3> QED
      BY <2>1, <2>3, <3>2, <3>3 DEF Types
  <2>5. ASSUME NEW k \in Mapped(node_keys[c]), monitor_map[k] # NULL,
               mon' = [mon EXCEPT ![c] = monitor_map[k]], Goto(c, "clear"), UNCHANGED node_keys
        PROVE  Types'
    <3>1. monitor_map[k] \in Monitors
      BY <2>5 DEF Types, NetType, BoxType, Mapped
    <3>2. NetType'
      BY <2>2, <2>3, <2>5 DEF Types, NetType
    <3>3. AppType'
      BY <2>3, <2>5, <3>1, NullAssumption DEF Types, AppType, Goto, AppPC, HasMonitor
    <3> QED
      BY <2>1, <2>3, <3>2, <3>3 DEF Types
  <2> QED
    BY <1>2, <2>4, <2>5 DEF SetConnection
<1>3. CASE ClearContexts(c) \/ ResetInterval(c)
  <2>1. NetType' /\ CtxType' /\ BoxType' /\ RunType'
    BY <1>3, GroupsUnchanged DEF Types, ClearContexts, ResetInterval
  <2>2. AppType' /\ MonType'
    BY <1>3 DEF Types, AppType, MonType, Goto, ClearContexts, ResetInterval, SetInterval, AppPC, HasMonitor
  <2> QED
    BY <1>3, <2>1, <2>2 DEF Types, ClearContexts, ResetInterval
<1>4. CASE ResetUnmap(c)
  <2>1. NetType' /\ CtxType' /\ MonType' /\ RunType'
    BY <1>4, GroupsUnchanged DEF Types, ResetUnmap
  <2>2. AppType' /\ BoxType'
    BY <1>4 DEF Types, AppType, BoxType, Goto, ResetUnmap, RemoveMapping, AppPC, HasMonitor
  <2> QED
    BY <1>4, <2>1, <2>2 DEF Types, ResetUnmap
<1>5. CASE ResetRelease(c)
  <2>1. CtxType' /\ MonType' /\ RunType'
    BY <1>5, GroupsUnchanged DEF Types, ResetRelease
  <2>2. UNCHANGED <<up, changes, server, sock>> /\ node_keys' = [node_keys EXCEPT ![c] = keys(server)]
    BY <1>5 DEF ResetRelease, Settle, IsUp
  <2>3. NetType'
    BY <1>1, <2>2 DEF Types, NetType
  <2>4. AppType'
    BY <1>5 DEF Types, AppType, Goto, ResetRelease, Settle, AppPC, HasMonitor
  <2>5. BoxType'
    <3>1. mon[c] \in Monitors
      BY <1>5 DEF Types, AppType, ResetRelease, HasMonitor
    <3> QED
      BY <1>5, <3>1, AppendProperties DEF Types, BoxType, ResetRelease
  <2> QED
    BY <1>5, <2>1, <2>3, <2>4, <2>5 DEF Types, ResetRelease
<1> QED
  BY <1>2, <1>3, <1>4, <1>5 DEF FailOver

LEMMA MonitoredType == ASSUME Types, NEW c \in Conns, Monitored(c) \/ EndCall(c) PROVE Types'
BY StartType, FetchType, GetOrCreateType, PopulateType, CompareType, AddTaskType, FindType, CallType
   DEF Monitored

-----------------------------------------------------------------------------
(* A step of a monitor                                                     *)

LEMMA RunStepType == ASSUME Types, NEW t \in Threads, Run(t) PROVE Types'
<1>1. AppType'
  BY GroupsUnchanged DEF Types, Run, RunStart, RunLoop, Ping, LockContexts, Update, Abort, Shut, Unlock,
     Sleep, Idle, Unused, EraseTask, RunEnd
<1>2. ASSUME NEW l \in RunPC, Step(t, l), UNCHANGED <<tmon, valid, todo, cur>>, tpc[t] # "free"
      PROVE  RunType'
  BY <1>2 DEF Types, RunType, Step
<1> USE DEF RunPC
<1>3. CASE RunStart(t) \/ Ping(t)
  <2>1. NetType' /\ CtxType' /\ BoxType'
    BY <1>3, GroupsUnchanged DEF Types, RunStart, Ping
  <2>2. MonType' /\ pcF' = pcF
    BY <1>3 DEF Types, MonType, RunStart, Ping
  <2>3. CASE RunStart(t)
    BY <1>1, <1>2, <2>1, <2>2, <2>3 DEF Types, RunStart
  <2>4. CASE Ping(t)
    <3>1. valid' \in [Threads -> BOOLEAN]
      BY <2>4 DEF Types, RunType, Ping, IsUp
    <3>2. RunType'
      BY <2>4, <3>1 DEF Types, RunType, Ping, Step
    <3> QED
      BY <1>1, <2>1, <2>2, <3>2 DEF Types
  <2> QED
    BY <1>3, <2>3, <2>4
<1>4. CASE RunLoop(t) \/ Abort(t) \/ Sleep(t) \/ Idle(t)
  <2>1. NetType' /\ CtxType' /\ BoxType' /\ MonType' /\ pcF' = pcF
    BY <1>4, GroupsUnchanged DEF Types, RunLoop, Abort, Sleep, Idle
  <2>2. RunType'
    BY <1>2, <1>4 DEF RunLoop, Abort, Sleep, Idle
  <2> QED
    BY <1>1, <2>1, <2>2 DEF Types
<1>5. CASE LockContexts(t) \/ Unlock(t)
  <2>1. NetType' /\ CtxType' /\ BoxType' /\ pcF' = pcF
    BY <1>5, GroupsUnchanged DEF Types, LockContexts, Unlock
  <2>2. MonType'
    BY <1>5 DEF Types, MonType, LockContexts, Unlock
  <2>3. tmon[t] \in Monitors
    BY <1>5 DEF Types, RunType, LockContexts, Unlock
  <2>4. contexts[tmon[t]] \subseteq Contexts
    BY <2>3 DEF Types, MonType
  <2>5. RunType'
    BY <1>5, <2>4 DEF Types, RunType, LockContexts, Unlock, Step
  <2> QED
    BY <1>1, <2>1, <2>2, <2>5 DEF Types
<1>6. CASE Update(t)
  <2>1. NetType' /\ MonType' /\ BoxType' /\ pcF' = pcF
    BY <1>6, GroupsUnchanged DEF Types, Update
  <2>2. PICK x \in todo[t] : (Skip(t, x) \/ Alive(t, x) \/ Dead(t, x)) /\ todo' = [todo EXCEPT ![t] = @ \ {x}]
    BY <1>6 DEF Update
  <2>3. x \in Contexts
    BY DEF Types, RunType
  <2>4. CtxType'
    BY <2>2, <2>3 DEF Types, CtxType, Skip, Alive, Dead, ctxVars
  <2>5. tpc[t] = "update" /\ UNCHANGED <<tmon, valid>>
    BY <1>6 DEF Update
  <2>6. \/ UNCHANGED <<tpc, cur>>
        \/ tpc' = [tpc EXCEPT ![t] = "abort"] /\ cur' = [cur EXCEPT ![t] = x]
    BY <2>2 DEF Skip, Alive, Dead, Step
  <2>7. RunType'
    BY <2>2, <2>3, <2>5, <2>6 DEF Types, RunType
  <2> QED
    BY <1>1, <2>1, <2>4, <2>7 DEF Types
<1>7. CASE Shut(t)
  <2>1. CtxType' /\ MonType' /\ BoxType' /\ pcF' = pcF
    BY <1>7, GroupsUnchanged DEF Types, Shut
  <2>2. NetType'
    BY <1>7 DEF Types, NetType, Shut
  <2>3. RunType'
    BY <1>2, <1>7 DEF Shut
  <2> QED
    BY <1>1, <2>1, <2>2, <2>3 DEF Types
<1>8. CASE Unused(t) \/ EraseTask(t)
  <2>1. NetType' /\ CtxType' /\ MonType' /\ pcF' = pcF
    BY <1>8, GroupsUnchanged DEF Types, Unused, EraseTask
  <2>2. BoxType'
    BY <1>8 DEF Types, BoxType, Unused, EraseTask, RemoveMapping
  <2>3. RunType'
    BY <1>2, <1>8 DEF Unused, EraseTask
  <2> QED
    BY <1>1, <2>1, <2>2, <2>3 DEF Types
<1>9. CASE RunEnd(t)
  <2>1. NetType' /\ CtxType' /\ BoxType' /\ pcF' = pcF
    BY <1>9, GroupsUnchanged DEF Types, RunEnd
  <2>2. MonType'
    BY <1>9 DEF Types, MonType, RunEnd
  <2>3. RunType'
    BY <1>9 DEF Types, RunType, RunEnd, Step
  <2> QED
    BY <1>1, <2>1, <2>2, <2>3 DEF Types
<1> QED
  BY <1>3, <1>4, <1>5, <1>6, <1>7, <1>8, <1>9 DEF Run

-----------------------------------------------------------------------------
(* The other steps, and the invariance of the types                        *)

LEMMA EnvironmentType ==
    ASSUME Types,
           FreeEnv \/ Joined \/ (\E m \in Monitors : Expire(m)) \/ (\E i \in Instances : Change(i))
           \/ UNCHANGED vars
    PROVE  Types'
<1>1. CASE FreeEnv
  <2>1. NetType' /\ AppType' /\ CtxType' /\ BoxType' /\ RunType'
    BY <1>1, GroupsUnchanged DEF Types, FreeEnv
  <2> QED
    BY <1>1, <2>1 DEF Types, MonType, FreeEnv
<1>2. CASE Joined
  <2>1. NetType' /\ AppType' /\ CtxType' /\ MonType' /\ RunType'
    BY <1>2, GroupsUnchanged DEF Types, Joined
  <2> QED
    BY <1>2, <2>1, EmptySeq DEF Types, BoxType, Joined
<1>3. ASSUME NEW m \in Monitors, Expire(m) PROVE Types'
  <2>1. NetType' /\ AppType' /\ CtxType' /\ BoxType' /\ RunType'
    BY <1>3, GroupsUnchanged DEF Types, Expire
  <2> QED
    BY <1>3, <2>1 DEF Types, MonType, Expire
<1>4. ASSUME NEW i \in Instances, Change(i) PROVE Types'
  <2>1. AppType' /\ CtxType' /\ MonType' /\ BoxType' /\ RunType'
    BY <1>4, GroupsUnchanged DEF Types, Change
  <2> QED
    BY <1>4, <2>1, BoundAssumption DEF Types, NetType, Change
<1>5. CASE UNCHANGED vars
  BY <1>5, GroupsUnchanged DEF Types, vars
<1> QED
  BY <1>1, <1>2, <1>3, <1>4, <1>5

LEMMA TypesNext == Types /\ [Next]_vars => Types'
BY MonitoredType, FailOverType, RunStepType, EnvironmentType DEF Next

LEMMA TypesInit == Init => Types
<1> SUFFICES ASSUME Init PROVE Types
  OBVIOUS
<1>1. \A h \in Hosts : h \in Keys /\ InstanceOf[h] \in Keys
  BY HostAssumption DEF Keys
<1>2. NetType
  BY <1>1, BoundAssumption DEF Init, NetType
<1>3. AppType
  BY BoundAssumption DEF Init, AppType, AppPC, HasMonitor
<1>4. CtxType /\ MonType /\ BoxType /\ RunType
  BY EmptySeq DEF Init, CtxType, MonType, BoxType, RunType, RunPC
<1> QED
  BY <1>2, <1>3, <1>4 DEF Init, Types

\* The history of overwritten intervals is one of monitors: only SetInterval adds to it.
LEMMA OverwrittenStep ==
    Types /\ overwritten \subseteq Monitors /\ [Next]_vars => (overwritten \subseteq Monitors)'
<1> SUFFICES ASSUME Types, overwritten \subseteq Monitors, [Next]_vars PROVE overwritten' \subseteq Monitors
  OBVIOUS
<1>1. ASSUME NEW c \in Conns, Assign(c) \/ ResetInterval(c) PROVE overwritten' \subseteq Monitors
  <2>1. mon[c] \in Monitors
    BY <1>1 DEF Types, AppType, Assign, ResetInterval, HasMonitor
  <2> QED
    BY <1>1, <2>1 DEF Assign, ResetInterval, SetInterval
<1>2. ASSUME NEW c \in Conns, Monitored(c) \/ EndCall(c) \/ FailOver(c), ~(Assign(c) \/ ResetInterval(c))
      PROVE  overwritten' = overwritten
  BY <1>2 DEF Monitored, Start, Fetch, GetOrCreate, Populate, Compare, CompareNull, Push, AddTask, EndCall,
              Invalidate, Find, Remove, FindShortest, Close, FailOver, SetConnection, ClearContexts,
              ResetUnmap, ResetRelease
<1>3. ASSUME NEW t \in Threads, Run(t) PROVE overwritten' = overwritten
  BY <1>3 DEF Run, RunStart, RunLoop, Ping, LockContexts, Update, Abort, Shut, Unlock, Sleep, Idle, Unused,
              EraseTask, RunEnd
<1> QED
  BY <1>1, <1>2, <1>3 DEF Next, FreeEnv, Joined, Expire, Change, vars

\* The state of the monitors, of the container and of the threads keeps its type,
\* and every thread that runs has a monitor.
THEOREM TypeCorrect == Spec => []TypeOK
<1>1. Types /\ overwritten \subseteq Monitors => TypeOK
  BY DEF Types, NetType, AppType, CtxType, MonType, BoxType, RunType, TypeOK
<1>2. Init => overwritten \subseteq Monitors
  BY DEF Init
<1> QED
  BY <1>1, <1>2, TypesInit, TypesNext, OverwrittenStep, PTL DEF Spec

-----------------------------------------------------------------------------
(* Contexts and their calls                                                *)

\* An active context is that of a call that has not been stopped, and no list has the
\* context of a call that has not been entered in one.
ActiveInv == \A x \in active : x[2] = calls[x[1]] /\ pc[x[1]] \in {"push", "task", "call", "invalidate"}
ListedInv ==
    \A m \in Monitors : \A x \in contexts[m] :
        /\ x[2] <= calls[x[1]]
        /\ x[2] = calls[x[1]] => pc[x[1]] \notin {"fetch", "populate", "compare", "push"}

\* A thread in the loop over the contexts of its monitor has the monitor's lock, and
\* the contexts it goes through are in the list.
LoopInv ==
    \A t \in Threads :
        /\ tpc[t] \in {"update", "abort", "shut"} => lock[tmon[t]] = t /\ todo[t] \subseteq contexts[tmon[t]]
        /\ tpc[t] \in {"abort", "shut"} => cur[t] \in contexts[tmon[t]]

-----------------------------------------------------------------------------
(* Without failover and disposal, until the environment is freed           *)

\* Nothing has been given back or has expired, and connections keep their keys.
KeptInv ==
    /\ available = <<>> /\ \A m \in Monitors : ~expired[m]
    /\ \A c \in Conns : /\ node_keys[c] = {server[c], InstanceOf[server[c]]}
                        /\ pc[c] \notin {"clear", "max", "unmap", "release"}
    /\ pcF # "no" => \A c \in Conns : pc[c] = "idle"

\* The monitors that have been given a thread run.
RunningInv ==
    /\ \A t \in Threads : /\ tpc[t] \notin {"unused", "erase", "end"}
                          /\ tpc[t] \notin {"free", "start"} => ~stopped[tmon[t]]
    /\ \A m \in task_map : Running(m) # {}

\* The map has one monitor for the names of an instance; it is changed by the
\* connection that owns the container, and has the monitor of every call under way.
MapInv ==
    /\ \A k \in Keys : monitor_map[k] # NULL
    /\ \A h \in Hosts : monitor_map[h] \in Monitors => monitor_map[InstanceOf[h]] = monitor_map[h]
    /\ \A c \in Conns :
         /\ pc[c] \in {"fetch", "populate"} => owner = c
         /\ pc[c] = "fetch" => IF node[c] = NULL THEN Mapped(node_keys[c]) = {}
                               ELSE node[c] \in Mapped(node_keys[c])
         /\ pc[c] = "populate" => /\ mon[c] \in Monitors
                                  /\ \A k \in node_keys[c] : monitor_map[k] \in {mon[c], "absent"}
         /\ pc[c] \in {"compare", "push"} \union Registered =>
              mon[c] \in Monitors /\ \A k \in node_keys[c] : monitor_map[k] = mon[c]

\* The calls that are registered and the contexts in the lists are the same.
RegisteredInv ==
    /\ \A c \in Conns : /\ pc[c] \in Registered => Context(c) \in contexts[mon[c]]
                        /\ pc[c] = "call" => mon[c] \in task_map
    /\ \A m \in Monitors : \A x \in contexts[m] : Ongoing(x) /\ mon[x[1]] = m

\* Unless it was overwritten, the interval of a monitor that a call uses is the one
\* the call asked for, and the monitor does not fall into the endless sleep.
IntervalInv ==
    /\ \A c \in Conns : InUse(c) => mon[c] \in overwritten \/ interval[mon[c]] = "short"
    /\ \A t \in Threads : tpc[t] = "asleep" => tmon[t] \in overwritten

SteadyInv == KeptInv /\ RegisteredInv /\ (pcF = "no" => RunningInv /\ MapInv)

\* The steps of a connection that leave its calls and the active contexts alone.
Moves(c) == \/ Fetch(c) \/ GetOrCreate(c) \/ Populate(c) \/ CompareNull(c) \/ Push(c) \/ AddTask(c)
            \/ EndCall(c) \/ Find(c) \/ Remove(c) \/ FindShortest(c) \/ Assign(c) \/ Close(c)
            \/ FailOver(c)

\* The steps of the monitors and of their environment.
Others == \/ \E t \in Threads : Run(t)
          \/ FreeEnv \/ Joined
          \/ \E m \in Monitors : Expire(m)
          \/ \E i \in Instances : Change(i)
          \/ UNCHANGED vars

LEMMA NextCases == [Next]_vars => (\E c \in Conns : Start(c) \/ Compare(c) \/ Invalidate(c) \/ Moves(c)) \/ Others
BY DEF Next, Monitored, Moves, Others

\* What the monitors and the environment leave alone.
LEMMA OthersEffect ==
    ASSUME Others
    PROVE  UNCHANGED <<appVars, active, contexts, server, node_keys>>
<1>1. ASSUME NEW t \in Threads, Run(t) PROVE UNCHANGED <<appVars, active, contexts, server, node_keys>>
  <2>1. CASE Update(t)
    BY <2>1 DEF Update, Skip, Alive, Dead, monVars, ctxVars, netVars
  <2>2. CASE ~Update(t)
    BY <1>1, <2>2 DEF Run, RunStart, RunLoop, Ping, LockContexts, Abort, Shut, Unlock, Sleep, Idle, Unused,
                  EraseTask, RunEnd, monVars, ctxVars, netVars
  <2> QED
    BY <2>1, <2>2
<1> QED
  BY <1>1 DEF Others, FreeEnv, Joined, Expire, Change, vars, monVars, ctxVars, netVars

\* What a connection that moves does to the state that contexts are about: it goes on
\* in the order of the code.
LEMMA MovesEffect ==
    ASSUME Types, NEW c \in Conns, Moves(c)
    PROVE  /\ UNCHANGED <<calls, active>>
           /\ \E l \in AppPC :
                /\ pc' = [pc EXCEPT ![c] = l]
                /\ l \in {"task", "call", "invalidate"}
                   \/ pc[c] \notin {"push", "task", "call", "invalidate"}
                /\ \/ pc[c] \in {"fetch", "populate", "compare"} /\ UNCHANGED contexts
                   \/ l \notin {"fetch", "populate", "compare", "push"} /\ UNCHANGED contexts
                   \/ /\ l \notin {"fetch", "populate", "compare", "push"} /\ lock[mon[c]] = NULL
                      /\ \E S : /\ contexts' = [contexts EXCEPT ![mon[c]] = S]
                                /\ S \subseteq contexts[mon[c]] \union {Context(c)}
<1> USE DEF Goto, AppPC
<1>1. UNCHANGED <<calls, active>>
  <2>1. CASE FailOver(c)
    BY <2>1 DEF FailOver, SetConnection, ClearContexts, ResetInterval, ResetUnmap, ResetRelease, ctxVars
  <2> QED
    BY <2>1 DEF Moves, Fetch, GetOrCreate, Populate, CompareNull, Push, AddTask, EndCall, Find, Remove,
                FindShortest, Assign, Close, ctxVars
<1>2. CASE Fetch(c) \/ GetOrCreate(c) \/ Populate(c) \/ CompareNull(c)
  <2>1. pc[c] \in {"fetch", "populate", "compare"} /\ UNCHANGED contexts
    BY <1>2 DEF Fetch, GetOrCreate, Populate, CompareNull, monVars
  <2>2. PICK l \in {"populate", "compare", "crash"} : pc' = [pc EXCEPT ![c] = l]
    BY <1>2 DEF Fetch, GetOrCreate, Populate, CompareNull
  <2> QED
    BY <1>1, <2>1, <2>2
<1>3. CASE AddTask(c) \/ EndCall(c)
  <2>1. PICK l \in {"call", "invalidate"} : pc' = [pc EXCEPT ![c] = l]
    BY <1>3 DEF AddTask, EndCall
  <2>2. UNCHANGED contexts
    BY <1>3 DEF AddTask, EndCall, monVars
  <2> QED
    BY <1>1, <2>1, <2>2
<1>4. CASE Find(c) \/ FindShortest(c) \/ Assign(c) \/ Close(c)
  <2>1. PICK l \in {"remove", "close", "assign", "idle"} : pc' = [pc EXCEPT ![c] = l]
    BY <1>4 DEF Find, FindShortest, Assign, Close
  <2>2. UNCHANGED contexts /\ pc[c] \in {"find", "shortest", "assign", "close"}
    BY <1>4 DEF Find, FindShortest, Assign, Close, monVars
  <2> QED
    BY <1>1, <2>1, <2>2
<1>5. CASE Push(c) \/ Remove(c) \/ ClearContexts(c)
  <2>1. PICK S : /\ contexts' = [contexts EXCEPT ![mon[c]] = S]
                 /\ S \subseteq contexts[mon[c]] \union {Context(c)}
    <3>1. CASE Push(c)
      <4> WITNESS contexts[mon[c]] \union {Context(c)}
      <4> QED
        BY <3>1 DEF Push
    <3>2. CASE Remove(c)
      <4> WITNESS contexts[mon[c]] \ {Context(c)}
      <4> QED
        BY <3>2 DEF Remove
    <3>3. CASE ClearContexts(c)
      <4> DEFINE E == contexts[mon[c]] \ contexts[mon[c]]
      <4>1. E = {}
        OBVIOUS
      <4>2. contexts' = [contexts EXCEPT ![mon[c]] = E] /\ E \subseteq contexts[mon[c]] \union {Context(c)}
        BY <3>3, <4>1 DEF ClearContexts
      <4> HIDE DEF E
      <4> QED
        BY <4>2
    <3> QED
      BY <1>5, <3>1, <3>2, <3>3
  <2>2. lock[mon[c]] = NULL
    BY <1>5 DEF Push, Remove, ClearContexts
  <2>3. PICK l \in {"task", "shortest", "max"} :
          pc' = [pc EXCEPT ![c] = l] /\ (l = "task" \/ pc[c] \in {"remove", "clear"})
    BY <1>5 DEF Push, Remove, ClearContexts
  <2> QED
    BY <1>1, <2>1, <2>2, <2>3
<1>6. CASE FailOver(c) /\ ~ClearContexts(c)
  <2>1. PICK l \in {"idle", "clear", "unmap", "release"} : pc' = [pc EXCEPT ![c] = l]
    BY <1>6 DEF FailOver, SetConnection, ResetInterval, ResetUnmap, ResetRelease, Settle
  <2>2. UNCHANGED contexts /\ pc[c] \in {"idle", "max", "unmap", "release"}
    BY <1>6 DEF FailOver, SetConnection, ResetInterval, ResetUnmap, ResetRelease, monVars
  <2> QED
    BY <1>1, <2>1, <2>2
<1> QED
  BY <1>2, <1>3, <1>4, <1>5, <1>6 DEF Moves

LEMMA ActiveStep == Types /\ ActiveInv /\ [Next]_vars => ActiveInv'
<1> SUFFICES ASSUME Types, ActiveInv, [Next]_vars PROVE ActiveInv'
  OBVIOUS
<1>1. pc \in [Conns -> AppPC] /\ calls \in [Conns -> 0 .. MaxCalls]
  BY DEF Types, AppType
<1>2. \A x \in active : x \in Contexts /\ x[1] \in Conns /\ x = <<x[1], x[2]>>
  BY DEF Types, CtxType, Contexts
<1>3. CASE Others
  BY <1>3, OthersEffect DEF appVars, ActiveInv
<1>4. ASSUME NEW c \in Conns, Start(c) PROVE ActiveInv'
  <2>1. pc[c] = "idle" /\ active' = active
    BY <1>4 DEF Start, ctxVars
  <2>2. \A x \in active : x[1] # c
    BY <2>1 DEF ActiveInv
  <2>3. \A d \in Conns : d # c => pc'[d] = pc[d] /\ calls'[d] = calls[d]
    BY <1>1, <1>4 DEF Start, Goto
  <2> QED
    BY <1>2, <2>1, <2>2, <2>3 DEF ActiveInv
<1>5. ASSUME NEW c \in Conns, Compare(c) PROVE ActiveInv'
  <2>1. pc[c] = "compare" /\ active' = active \union {<<c, calls[c]>>} /\ calls' = calls
        /\ pc' = [pc EXCEPT ![c] = "push"]
    BY <1>5 DEF Compare, Goto, Context
  <2>2. \A x \in active : x[1] # c
    BY <2>1 DEF ActiveInv
  <2> QED
    BY <1>1, <1>2, <2>1, <2>2 DEF ActiveInv
<1>6. ASSUME NEW c \in Conns, Invalidate(c) PROVE ActiveInv'
  <2>1. active' = active \ {<<c, calls[c]>>} /\ calls' = calls /\ pc' = [pc EXCEPT ![c] = "find"]
    BY <1>6 DEF Invalidate, Goto, Context
  <2>2. \A x \in active' : x \in active /\ x[1] # c
    BY <1>2, <2>1 DEF ActiveInv
  <2> QED
    BY <1>1, <1>2, <2>1, <2>2 DEF ActiveInv
<1>7. ASSUME NEW c \in Conns, Moves(c) PROVE ActiveInv'
  <2>1. PICK l \in AppPC : /\ pc' = [pc EXCEPT ![c] = l]
                           /\ l \in {"task", "call", "invalidate"}
                              \/ pc[c] \notin {"push", "task", "call", "invalidate"}
    BY <1>7, MovesEffect
  <2>2. UNCHANGED <<calls, active>>
    BY <1>7, MovesEffect
  <2> QED
    BY <1>1, <1>2, <2>1, <2>2 DEF ActiveInv
<1> QED
  BY <1>3, <1>4, <1>5, <1>6, <1>7, NextCases

LEMMA ListedStep == Types /\ ListedInv /\ [Next]_vars => ListedInv'
<1> SUFFICES ASSUME Types, ListedInv, [Next]_vars, NEW m \in Monitors, NEW x \in contexts'[m]
             PROVE  /\ x[2] <= calls'[x[1]]
                    /\ x[2] = calls'[x[1]] => pc'[x[1]] \notin {"fetch", "populate", "compare", "push"}
  BY DEF ListedInv
<1>1. pc \in [Conns -> AppPC] /\ calls \in [Conns -> 0 .. MaxCalls] /\ contexts \in [Monitors -> SUBSET Contexts]
  BY DEF Types, AppType, MonType
<1>2. x \in contexts[m] => /\ x[1] \in Conns /\ x[2] \in Nat /\ x[2] <= calls[x[1]]
                           /\ x[2] = calls[x[1]] => pc[x[1]] \notin {"fetch", "populate", "compare", "push"}
  BY <1>1 DEF ListedInv, Contexts
<1>3. CASE Others
  BY <1>2, <1>3, OthersEffect DEF appVars
<1>4. ASSUME NEW c \in Conns, Start(c)
      PROVE  /\ x[2] <= calls'[x[1]]
             /\ x[2] = calls'[x[1]] => pc'[x[1]] \notin {"fetch", "populate", "compare", "push"}
  <2>1. contexts' = contexts /\ calls' = [calls EXCEPT ![c] = @ + 1] /\ pc' = [pc EXCEPT ![c] = "fetch"]
    BY <1>4 DEF Start, Goto, monVars
  <2>2. \A d \in Conns : calls[d] \in Nat
    BY <1>1
  <2> QED
    BY <1>1, <1>2, <2>1, <2>2
<1>5. ASSUME NEW c \in Conns, Compare(c) \/ Invalidate(c)
      PROVE  /\ x[2] <= calls'[x[1]]
             /\ x[2] = calls'[x[1]] => pc'[x[1]] \notin {"fetch", "populate", "compare", "push"}
  <2>1. /\ contexts' = contexts /\ calls' = calls
        /\ pc' = [pc EXCEPT ![c] = "find"] \/ (pc[c] = "compare" /\ pc' = [pc EXCEPT ![c] = "push"])
    BY <1>5 DEF Compare, Invalidate, Goto, monVars
  <2> QED
    BY <1>1, <1>2, <2>1
<1>6. ASSUME NEW c \in Conns, Moves(c)
      PROVE  /\ x[2] <= calls'[x[1]]
             /\ x[2] = calls'[x[1]] => pc'[x[1]] \notin {"fetch", "populate", "compare", "push"}
  <2>1. calls' = calls
    BY <1>6, MovesEffect
  <2>2. PICK l \in AppPC :
          /\ pc' = [pc EXCEPT ![c] = l]
          /\ \/ pc[c] \in {"fetch", "populate", "compare"} /\ UNCHANGED contexts
             \/ l \notin {"fetch", "populate", "compare", "push"} /\ UNCHANGED contexts
             \/ /\ l \notin {"fetch", "populate", "compare", "push"}
                /\ \E S : /\ contexts' = [contexts EXCEPT ![mon[c]] = S]
                          /\ S \subseteq contexts[mon[c]] \union {Context(c)}
    BY <1>6, MovesEffect
  <2>3. CASE UNCHANGED contexts
    BY <1>1, <1>2, <2>1, <2>2, <2>3
  <2>4. CASE ~UNCHANGED contexts
    <3>1. l \notin {"fetch", "populate", "compare", "push"}
      BY <2>2, <2>4
    <3>2. x \in contexts[m] \/ x = <<c, calls[c]>>
      <4>1. PICK S : /\ contexts' = [contexts EXCEPT ![mon[c]] = S]
                     /\ S \subseteq contexts[mon[c]] \union {Context(c)}
        BY <2>2, <2>4
      <4> QED
        BY <1>1, <4>1 DEF Context
    <3>3. calls[c] \in Nat
      BY <1>1
    <3> QED
      BY <1>1, <1>2, <2>1, <2>2, <3>1, <3>2, <3>3
  <2> QED
    BY <2>3, <2>4
<1> QED
  BY <1>3, <1>4, <1>5, <1>6, NextCases

\* Whatever becomes of the monitors, also with failover and disposal, a context that is
\* still in a list after its call has ended is inactive: no monitor finds its connection
\* dead.
THEOREM EndedContextsAreInactive == Spec => []EndedContextsInactive
<1>1. Init => ActiveInv /\ ListedInv
  BY DEF Init, ActiveInv, ListedInv
<1>2. Types /\ ActiveInv /\ ListedInv => EndedContextsInactive
  BY DEF ActiveInv, ListedInv, EndedContextsInactive, Ongoing, Registered
<1> QED
  BY <1>1, <1>2, TypesInit, TypesNext, ActiveStep, ListedStep, PTL DEF Spec

-----------------------------------------------------------------------------
(* The loop over the contexts                                              *)

InLoop == {"update", "abort", "shut"}
LoopOf(t) ==
    /\ tpc[t] \in InLoop => lock[tmon[t]] = t /\ todo[t] \subseteq contexts[tmon[t]]
    /\ tpc[t] \in {"abort", "shut"} => cur[t] \in contexts[tmon[t]]

\* The list of a monitor does not change while a thread goes through it, whatever the
\* connections do.
LEMMA LoopCallerStep ==
    ASSUME Types, LoopInv, NEW c \in Conns, Start(c) \/ Compare(c) \/ Invalidate(c) \/ Moves(c)
    PROVE  LoopInv'
<1> SUFFICES ASSUME NEW t \in Threads PROVE LoopOf(t)'
  BY DEF LoopInv, LoopOf, InLoop
<1>1. /\ LoopOf(t) /\ tmon[t] \in Monitors \union {NULL} /\ contexts \in [Monitors -> SUBSET Contexts]
      /\ tpc[t] # "free" => tmon[t] # NULL
  BY DEF LoopInv, LoopOf, InLoop, Types, RunType, MonType
<1>2. CASE AddTask(c)
  <2>1. UNCHANGED <<lock, contexts, todo, cur>>
    BY <1>2 DEF AddTask, monVars
  <2>2. (tpc'[t] = tpc[t] /\ tmon'[t] = tmon[t]) \/ tpc'[t] = "start"
    BY <1>2 DEF AddTask, Types, RunType
  <2> QED
    BY <1>1, <2>1, <2>2 DEF LoopOf, InLoop
<1>3. CASE ~AddTask(c)
  <2>1. UNCHANGED <<runVars, lock>>
    <3>1. CASE FailOver(c)
      BY <3>1 DEF FailOver, SetConnection, ClearContexts, ResetInterval, ResetUnmap, ResetRelease, monVars
    <3> QED
      BY <1>3, <3>1 DEF Moves, Start, Compare, Invalidate, Fetch, GetOrCreate, Populate, CompareNull, Push,
                        EndCall, Find, Remove, FindShortest, Assign, Close, monVars
  <2>2. \/ UNCHANGED contexts
        \/ /\ lock[mon[c]] = NULL
           /\ \E S : contexts' = [contexts EXCEPT ![mon[c]] = S]
    <3>1. CASE Moves(c)
      BY <3>1, MovesEffect
    <3>2. CASE Start(c) \/ Compare(c) \/ Invalidate(c)
      BY <3>2 DEF Start, Compare, Invalidate, monVars
    <3> QED
      BY <3>1, <3>2
  <2>3. tpc[t] \in InLoop => contexts'[tmon[t]] = contexts[tmon[t]]
    <3> SUFFICES ASSUME tpc[t] \in InLoop PROVE contexts'[tmon[t]] = contexts[tmon[t]]
      OBVIOUS
    <3>1. lock[tmon[t]] # NULL /\ tmon[t] \in Monitors
      BY <1>1, NullAssumption DEF LoopOf, InLoop
    <3> QED
      BY <1>1, <2>2, <3>1
  <2> QED
    BY <1>1, <2>1, <2>3 DEF LoopOf, InLoop, runVars
<1> QED
  BY <1>2, <1>3

\* Only the thread that has the lock of a monitor takes a step in its loop.
LEMMA LoopRunStep ==
    ASSUME Types, LoopInv, NEW u \in Threads, Run(u)
    PROVE  LoopInv'
<1> SUFFICES ASSUME NEW t \in Threads PROVE LoopOf(t)'
  BY DEF LoopInv, LoopOf, InLoop
<1>1. /\ LoopOf(t) /\ LoopOf(u) /\ tmon[t] \in Monitors \union {NULL} /\ lock \in [Monitors -> Threads \union {NULL}]
      /\ tpc[t] # "free" => tmon[t] # NULL
      /\ tpc[u] # "free" => tmon[u] # NULL
      /\ tmon \in [Threads -> Monitors \union {NULL}] /\ tpc \in [Threads -> RunPC]
      /\ todo \in [Threads -> SUBSET Contexts] /\ cur \in [Threads -> Contexts \union {NULL}]
  BY DEF LoopInv, LoopOf, InLoop, Types, RunType, MonType
<1>2. UNCHANGED contexts
  BY OthersEffect DEF Others
<1>3. CASE LockContexts(u)
  <2>1. /\ lock[tmon[u]] = NULL /\ lock' = [lock EXCEPT ![tmon[u]] = u] /\ UNCHANGED <<tmon, cur>>
        /\ todo' = [todo EXCEPT ![u] = contexts[tmon[u]]] /\ tpc' = [tpc EXCEPT ![u] = "update"]
        /\ tpc[u] = "status"
    BY <1>3 DEF LockContexts, Step
  <2>2. tmon[u] \in Monitors
    BY <1>1, <2>1
  <2>3. t # u /\ tpc[t] \in InLoop => tmon[t] # tmon[u]
    BY <1>1, <2>1, NullAssumption DEF LoopOf, InLoop
  <2> QED
    BY <1>1, <1>2, <2>1, <2>2, <2>3 DEF LoopOf, InLoop
<1>4. CASE Unlock(u)
  <2>1. /\ lock' = [lock EXCEPT ![tmon[u]] = NULL] /\ UNCHANGED <<tmon, cur, todo>>
        /\ tpc' = [tpc EXCEPT ![u] = "interval"] /\ tpc[u] = "update"
    BY <1>4 DEF Unlock, Step
  <2>2. t # u /\ tpc[t] \in InLoop => tmon[t] # tmon[u]
    BY <1>1, <2>1 DEF LoopOf, InLoop
  <2> QED
    BY <1>1, <1>2, <2>1, <2>2 DEF LoopOf, InLoop
<1>5. CASE Update(u)
  <2>1. PICK x \in todo[u] : /\ Skip(u, x) \/ Alive(u, x) \/ Dead(u, x)
                             /\ todo' = [todo EXCEPT ![u] = @ \ {x}]
    BY <1>5 DEF Update
  <2>2. UNCHANGED <<tmon, lock>> /\ tpc[u] = "update"
    BY <1>5 DEF Update, monVars
  <2>3. \/ UNCHANGED <<tpc, cur>>
        \/ tpc' = [tpc EXCEPT ![u] = "abort"] /\ cur' = [cur EXCEPT ![u] = x]
    BY <2>1 DEF Skip, Alive, Dead, Step
  <2>4. x \in contexts[tmon[u]]
    BY <1>1, <2>1, <2>2 DEF LoopOf, InLoop
  <2> QED
    BY <1>1, <1>2, <2>1, <2>2, <2>3, <2>4 DEF LoopOf, InLoop
<1>6. CASE Abort(u) \/ Shut(u)
  <2>1. PICK l \in {"shut", "update"} : tpc' = [tpc EXCEPT ![u] = l]
    BY <1>6 DEF Abort, Shut, Step
  <2>2. tpc[u] \in {"abort", "shut"} /\ UNCHANGED <<tmon, todo, cur, lock>>
    BY <1>6 DEF Abort, Shut, monVars
  <2> QED
    BY <1>1, <1>2, <2>1, <2>2 DEF LoopOf, InLoop
<1>7. CASE RunStart(u) \/ RunLoop(u) \/ Ping(u) \/ Sleep(u) \/ Idle(u) \/ Unused(u) \/ EraseTask(u)
  <2>1. PICK l \in RunPC \ InLoop : tpc' = [tpc EXCEPT ![u] = l]
    BY <1>7 DEF RunStart, RunLoop, Ping, Sleep, Idle, Unused, EraseTask, Step, RunPC, InLoop
  <2>2. UNCHANGED <<tmon, todo, cur, lock>>
    BY <1>7 DEF RunStart, RunLoop, Ping, Sleep, Idle, Unused, EraseTask, monVars
  <2> QED
    BY <1>1, <1>2, <2>1, <2>2 DEF LoopOf, InLoop
<1>8. CASE RunEnd(u)
  <2>1. /\ tpc' = [tpc EXCEPT ![u] = "free"] /\ tmon' = [tmon EXCEPT ![u] = NULL]
        /\ cur' = [cur EXCEPT ![u] = NULL] /\ UNCHANGED <<todo, lock>>
    BY <1>8 DEF RunEnd, Step
  <2> QED
    BY <1>1, <1>2, <2>1 DEF LoopOf, InLoop
<1> QED
  BY <1>3, <1>4, <1>5, <1>6, <1>7, <1>8 DEF Run

LEMMA LoopStep == Types /\ LoopInv /\ [Next]_vars => LoopInv'
<1> SUFFICES ASSUME Types, LoopInv, [Next]_vars PROVE LoopInv'
  OBVIOUS
<1>1. ASSUME FreeEnv \/ Joined \/ (\E m \in Monitors : Expire(m)) \/ (\E i \in Instances : Change(i))
             \/ UNCHANGED vars
      PROVE  LoopInv'
  <2>1. UNCHANGED <<lock, contexts, tpc, tmon, todo, cur>>
    BY <1>1 DEF FreeEnv, Joined, Expire, Change, vars, monVars, runVars
  <2> QED
    BY <2>1 DEF LoopInv
<1> QED
  BY <1>1, LoopCallerStep, LoopRunStep, NextCases DEF Others

-----------------------------------------------------------------------------
(* Without failover and disposal                                           *)

\* A step of a monitored call is taken before the environment is freed, and changes
\* nothing of another connection.
LEMMA CallEffect ==
    ASSUME Types, KeptInv, NEW c \in Conns, Monitored(c) \/ EndCall(c)
    PROVE  /\ pcF = "no" /\ UNCHANGED <<pcF, up, changes, server, node_keys, stopped>>
           /\ \A d \in Conns : d # c => /\ pc'[d] = pc[d] /\ calls'[d] = calls[d]
                                        /\ mon'[d] = mon[d] /\ node'[d] = node[d]
<1>1. pc \in [Conns -> AppPC] /\ calls \in [Conns -> 0 .. MaxCalls] /\ mon \in [Conns -> Monitors \union {NULL}]
      /\ node \in [Conns -> Keys \union {NULL}]
  BY DEF Types, AppType
<1>2. UNCHANGED <<pcF, up, changes, server, node_keys, stopped>>
  BY DEF Monitored, Start, Fetch, GetOrCreate, Populate, Compare, CompareNull, Push, AddTask, EndCall,
         Invalidate, Find, Remove, FindShortest, Assign, Close, netVars, monVars
<1>3. pcF = "no"
  <2>1. Start(c) \/ pc[c] # "idle"
    BY DEF Monitored, Fetch, GetOrCreate, Populate, Compare, CompareNull, Push, AddTask, EndCall,
           Invalidate, Find, Remove, FindShortest, Assign, Close
  <2> QED
    BY <2>1 DEF KeptInv, Start
<1>4. ASSUME NEW d \in Conns, d # c
      PROVE  pc'[d] = pc[d] /\ calls'[d] = calls[d] /\ mon'[d] = mon[d] /\ node'[d] = node[d]
  <2> USE <1>1, <1>4 DEF Goto
  <2>1. CASE Start(c) \/ Fetch(c) \/ GetOrCreate(c) \/ Populate(c)
    BY <2>1 DEF Start, Fetch, GetOrCreate, Populate
  <2>2. CASE Compare(c) \/ CompareNull(c) \/ Push(c) \/ AddTask(c) \/ EndCall(c) \/ Invalidate(c)
    BY <2>2 DEF Compare, CompareNull, Push, AddTask, EndCall, Invalidate
  <2>3. CASE Find(c) \/ Remove(c) \/ FindShortest(c) \/ Assign(c) \/ Close(c)
    BY <2>3 DEF Find, Remove, FindShortest, Assign, Close
  <2> QED
    BY <2>1, <2>2, <2>3 DEF Monitored
<1> QED
  BY <1>2, <1>3, <1>4

LEMMA KeptStep == ~Failover /\ ~Disposal /\ Types /\ KeptInv /\ [Next]_vars => KeptInv'
<1> SUFFICES ASSUME ~Failover, ~Disposal, Types, KeptInv, [Next]_vars PROVE KeptInv'
  OBVIOUS
<1>1. expired \in [Monitors -> BOOLEAN] /\ pc \in [Conns -> AppPC]
  BY DEF Types, MonType, AppType
<1>2. ASSUME NEW c \in Conns, FailOver(c) PROVE FALSE
  BY <1>2 DEF FailOver, SetConnection, ClearContexts, ResetInterval, ResetUnmap, ResetRelease, KeptInv
<1>3. ASSUME NEW c \in Conns, Monitored(c) \/ EndCall(c) PROVE KeptInv'
  <2>1. available' = available
    BY <1>3 DEF Monitored, Start, Fetch, GetOrCreate, Populate, Compare, CompareNull, Push, AddTask, EndCall,
                Invalidate, Find, Remove, FindShortest, Assign, Close, boxVars, KeptInv
  <2>2. expired' = expired \/ \E m : expired' = [expired EXCEPT ![m] = FALSE]
    BY <1>3 DEF Monitored, Start, Fetch, GetOrCreate, Populate, Compare, CompareNull, Push, AddTask, EndCall,
                Invalidate, Find, Remove, FindShortest, Assign, Close, monVars
  <2>3. \A m \in Monitors : ~expired'[m]
    BY <1>1, <2>2 DEF KeptInv
  <2>4. pc'[c] \notin {"clear", "max", "unmap", "release"}
    BY <1>1, <1>3 DEF Monitored, Start, Fetch, GetOrCreate, Populate, Compare, CompareNull, Push, AddTask, EndCall,
                Invalidate, Find, Remove, FindShortest, Assign, Close, Goto
  <2>5. pcF' = "no" /\ UNCHANGED <<server, node_keys>> /\ \A d \in Conns : d # c => pc'[d] = pc[d]
    BY <1>3, CallEffect
  <2> QED
    BY <2>1, <2>3, <2>4, <2>5 DEF KeptInv
<1>4. CASE Others
  <2>1. UNCHANGED <<pc, server, node_keys>>
    BY <1>4, OthersEffect DEF appVars
  <2>2. available' \in {available, <<>>} /\ (expired' = expired \/ \E m : expired' = [expired EXCEPT ![m] = FALSE])
    <3>1. ASSUME NEW t \in Threads, Run(t)
          PROVE  available' = available /\ (expired' = expired \/ \E m : expired' = [expired EXCEPT ![m] = FALSE])
      BY <3>1 DEF Run, RunStart, RunLoop, Ping, LockContexts, Update, Abort, Shut, Unlock, Sleep, Idle, Unused,
                  EraseTask, RunEnd, boxVars, monVars
    <3>2. ~\E m \in Monitors : Expire(m)
      BY DEF Expire
    <3> QED
      BY <1>4, <3>1, <3>2 DEF Others, FreeEnv, Joined, Change, vars, boxVars, monVars
  <2>3. \A m \in Monitors : ~expired'[m]
    BY <1>1, <2>2 DEF KeptInv
  <2>4. pcF' = pcF \/ \A c \in Conns : pc[c] = "idle"
    <3>1. ASSUME NEW t \in Threads, Run(t) PROVE pcF' = pcF
      BY <3>1 DEF Run, RunStart, RunLoop, Ping, LockContexts, Update, Abort, Shut, Unlock, Sleep, Idle, Unused,
                  EraseTask, RunEnd
    <3> QED
      BY <1>4, <3>1 DEF Others, FreeEnv, Joined, Expire, Change, vars, KeptInv
  <2> QED
    BY <2>1, <2>2, <2>3, <2>4 DEF KeptInv
<1> QED
  BY <1>2, <1>3, <1>4 DEF Next, Others

\* A monitor that has been given a thread keeps it: nobody stops it and it does not
\* become unused.
LEMMA RunningStep ==
    ASSUME ~Failover, ~Disposal, Types, KeptInv, RunningInv, [Next]_vars, pcF = "no", pcF' = "no"
    PROVE  RunningInv'
<1>1. /\ tpc \in [Threads -> RunPC] /\ tmon \in [Threads -> Monitors \union {NULL}] /\ stopped \in [Monitors -> BOOLEAN]
      /\ task_map \subseteq Monitors
      /\ \A t \in Threads : tpc[t] # "free" => tmon[t] \in Monitors
  BY DEF Types, RunType, MonType, BoxType
<1> DEFINE Past == {"unused", "erase", "end"}
<1>2. ASSUME NEW c \in Conns, FailOver(c) PROVE FALSE
  BY <1>2 DEF FailOver, SetConnection, ClearContexts, ResetInterval, ResetUnmap, ResetRelease, KeptInv
<1>3. ASSUME UNCHANGED <<tpc, tmon, stopped, task_map>> PROVE RunningInv'
  BY <1>3 DEF RunningInv, Running
<1>4. ASSUME NEW c \in Conns, AddTask(c) PROVE RunningInv'
  <2>1. UNCHANGED stopped /\ mon[c] \in Monitors
    BY <1>4 DEF AddTask, monVars, Types, AppType, HasMonitor
  <2>2. CASE UNCHANGED <<task_map, tpc, tmon>>
    BY <1>3, <2>1, <2>2
  <2>3. ASSUME NEW u \in Threads, tpc[u] = "free", tpc' = [tpc EXCEPT ![u] = "start"],
               tmon' = [tmon EXCEPT ![u] = mon[c]], task_map' = task_map \union {mon[c]}
        PROVE  RunningInv'
    <3>1. ASSUME NEW t \in Threads
          PROVE  tpc'[t] \notin Past /\ (tpc'[t] \notin {"free", "start"} => ~stopped'[tmon'[t]])
      BY <1>1, <2>1, <2>3 DEF RunningInv
    <3>2. ASSUME NEW m \in task_map' PROVE \E t \in Threads : tmon'[t] = m /\ tpc'[t] \notin {"free"} \union Past
      <4>1. CASE m = mon[c]
        BY <1>1, <2>3, <4>1
      <4>2. CASE m # mon[c]
        <5>1. PICK t \in Threads : tmon[t] = m /\ tpc[t] \notin {"free"} \union Past
          BY <2>3, <3>2, <4>2 DEF RunningInv, Running
        <5> QED
          BY <1>1, <2>3, <5>1
      <4> QED
        BY <4>1, <4>2
    <3> QED
      BY <3>1, <3>2 DEF RunningInv, Running
  <2> QED
    BY <1>4, <2>2, <2>3 DEF AddTask
<1>5. ASSUME NEW c \in Conns, Monitored(c) \/ EndCall(c), ~AddTask(c) PROVE RunningInv'
  <2>1. UNCHANGED <<tpc, tmon, stopped>>
    BY <1>5 DEF Monitored, Start, Fetch, GetOrCreate, Populate, Compare, CompareNull, Push, EndCall,
                Invalidate, Find, Remove, FindShortest, Assign, Close, runVars, monVars
  <2>2. UNCHANGED task_map
    BY <1>5 DEF Monitored, Start, Fetch, GetOrCreate, Populate, Compare, CompareNull, Push, EndCall,
                Invalidate, Find, Remove, FindShortest, Assign, Close, boxVars, KeptInv
  <2> QED
    BY <1>3, <2>1, <2>2
<1>6. ASSUME NEW u \in Threads, Run(u) PROVE RunningInv'
  <2>1. tpc[u] \notin Past
    BY DEF RunningInv
  <2>2. UNCHANGED <<tmon, task_map>>
    BY <1>6, <2>1 DEF Run, RunStart, RunLoop, Ping, LockContexts, Update, Abort, Shut, Unlock, Sleep, Idle,
                      Unused, EraseTask, RunEnd, boxVars
  <2>3. tpc' = tpc \/ \E l \in RunPC \ ({"free", "start"} \union Past) : tpc' = [tpc EXCEPT ![u] = l]
    <3>1. CASE RunLoop(u)
      BY <3>1 DEF RunLoop, Step, RunningInv, RunPC
    <3>2. CASE Idle(u)
      <4>1. ~expired[tmon[u]]
        BY <1>1, <3>2 DEF Idle, KeptInv
      <4> QED
        BY <3>2, <4>1 DEF Idle, Step, RunPC
    <3>3. CASE Update(u)
      BY <3>3 DEF Update, Skip, Alive, Dead, Step, RunPC
    <3> QED
      BY <1>6, <2>1, <3>1, <3>2, <3>3
         DEF Run, RunStart, Ping, LockContexts, Abort, Shut, Unlock, Sleep, Unused, EraseTask, RunEnd, Step, RunPC
  <2>4. \/ tpc[u] \notin {"free", "start"} /\ stopped' = stopped
        \/ tpc[u] = "start" /\ stopped' = [stopped EXCEPT ![tmon[u]] = FALSE]
    BY <1>6, <2>1 DEF Run, RunStart, RunLoop, Ping, LockContexts, Update, Abort, Shut, Unlock, Sleep, Idle,
                      Unused, EraseTask, RunEnd, monVars
  <2>5. ASSUME NEW t \in Threads
        PROVE  tpc'[t] \notin Past /\ (tpc'[t] \notin {"free", "start"} => ~stopped'[tmon'[t]])
    <3>1. tpc[t] \notin Past /\ (tpc[t] \notin {"free", "start"} => ~stopped[tmon[t]])
      BY DEF RunningInv
    <3> QED
      BY <1>1, <2>2, <2>3, <2>4, <3>1
  <2>6. ASSUME NEW m \in task_map' PROVE \E t \in Threads : tmon'[t] = m /\ tpc'[t] \notin {"free"} \union Past
    <3>1. PICK t \in Threads : tmon[t] = m /\ tpc[t] \notin {"free"} \union Past
      BY <2>2, <2>6 DEF RunningInv, Running
    <3> QED
      BY <1>1, <2>2, <2>3, <3>1
  <2> QED
    BY <2>5, <2>6 DEF RunningInv, Running
<1>7. CASE FreeEnv \/ Joined \/ (\E m \in Monitors : Expire(m)) \/ (\E i \in Instances : Change(i))
           \/ UNCHANGED vars
  <2>1. UNCHANGED <<tpc, tmon, stopped, task_map>>
    BY <1>7 DEF FreeEnv, Joined, Expire, Change, vars, monVars, runVars, boxVars
  <2> QED
    BY <1>3, <2>1
<1> QED
  BY <1>2, <1>4, <1>5, <1>6, <1>7 DEF Next

\* What MapInv says of one connection.
Using == {"compare", "push"} \union Registered
EntryOf(c) ==
    /\ pc[c] \in {"fetch", "populate"} => owner = c
    /\ pc[c] = "fetch" => IF node[c] = NULL THEN Mapped(node_keys[c]) = {} ELSE node[c] \in Mapped(node_keys[c])
    /\ pc[c] = "populate" => /\ mon[c] \in Monitors
                             /\ \A k \in node_keys[c] : monitor_map[k] \in {mon[c], "absent"}
    /\ pc[c] \in Using => mon[c] \in Monitors /\ \A k \in node_keys[c] : monitor_map[k] = mon[c]

\* The names of a connection's host are keys, and share an entry.
LEMMA SharedEntry ==
    ASSUME Types, KeptInv, MapInv, NEW c \in Conns
    PROVE  /\ server[c] \in Hosts /\ server[c] \in Keys /\ InstanceOf[server[c]] \in Keys
           /\ \A k \in node_keys[c] : k \in {server[c], InstanceOf[server[c]]}
           /\ monitor_map[server[c]] # "absent" => monitor_map[InstanceOf[server[c]]] = monitor_map[server[c]]
<1>1. server[c] \in Hosts /\ server[c] \in Keys /\ InstanceOf[server[c]] \in Keys
  BY HostAssumption DEF Types, NetType, Keys, Instances
<1>2. monitor_map[server[c]] # "absent" => monitor_map[server[c]] \in Monitors
  BY <1>1 DEF Types, BoxType, MapInv
<1> QED
  BY <1>1, <1>2 DEF KeptInv, MapInv

\* The connection that owns the container finds the monitor of its host, or enters a
\* new one if there is none; an entry that is there is never changed.
LEMMA MapStep ==
    ASSUME ~Failover, ~Disposal, Types, KeptInv, RunningInv, MapInv, [Next]_vars, pcF = "no", pcF' = "no"
    PROVE  MapInv'
<1>1. /\ pc \in [Conns -> AppPC] /\ mon \in [Conns -> Monitors \union {NULL}]
      /\ node \in [Conns -> Keys \union {NULL}]
      /\ monitor_map \in [Keys -> Monitors \union {NULL, "absent"}]
  BY DEF Types, AppType, BoxType
<1>2. \A d \in Conns : EntryOf(d) /\ node_keys[d] = {server[d], InstanceOf[server[d]]} /\ node_keys[d] \subseteq Keys
  BY DEF MapInv, EntryOf, Using, KeptInv, Types, NetType
<1>3. ASSUME UNCHANGED <<monitor_map, node_keys>>, \A d \in Conns : EntryOf(d)' PROVE MapInv'
  BY <1>3 DEF MapInv, EntryOf, Using
<1>4. CASE Others
  <2>1. UNCHANGED <<pc, node, mon, node_keys>>
    BY <1>4, OthersEffect DEF appVars
  <2>2. UNCHANGED <<monitor_map, owner>>
    <3>1. ASSUME NEW t \in Threads, Run(t) PROVE UNCHANGED <<monitor_map, owner>>
      <4>1. tpc[t] # "unused"
        BY DEF RunningInv
      <4> QED
        BY <3>1, <4>1 DEF Run, RunStart, RunLoop, Ping, LockContexts, Update, Abort, Shut, Unlock, Sleep, Idle,
                          Unused, EraseTask, RunEnd, boxVars
    <3> QED
      BY <1>4, <3>1 DEF Others, FreeEnv, Joined, Expire, Change, vars, boxVars
  <2>3. ASSUME NEW d \in Conns PROVE EntryOf(d)'
    BY <1>2, <2>1, <2>2 DEF EntryOf, Mapped
  <2> QED
    BY <1>3, <2>1, <2>2, <2>3
<1>5. ASSUME NEW c \in Conns, FailOver(c) PROVE FALSE
  BY <1>5 DEF FailOver, SetConnection, ClearContexts, ResetInterval, ResetUnmap, ResetRelease, KeptInv
<1>6. ASSUME NEW c \in Conns, Start(c) PROVE MapInv'
  <2>1. /\ owner = NULL /\ owner' = c /\ pc' = [pc EXCEPT ![c] = "fetch"] /\ UNCHANGED <<monitor_map, node_keys, mon>>
        /\ pc[c] = "idle"
    BY <1>6 DEF Start, Goto, netVars
  <2>2. \/ Mapped(node_keys[c]) = {} /\ node' = [node EXCEPT ![c] = NULL]
        \/ \E k \in Mapped(node_keys[c]) : node' = [node EXCEPT ![c] = k]
    BY <1>6 DEF Start
  <2>3. EntryOf(c)'
    <3>1. IF node'[c] = NULL THEN Mapped(node_keys[c]) = {} ELSE node'[c] \in Mapped(node_keys[c])
      <4>1. NULL \notin Mapped(node_keys[c])
        BY <1>2, NullAssumption DEF Mapped
      <4> QED
        BY <1>1, <2>2, <4>1
    <3>2. Mapped(node_keys[c])' = Mapped(node_keys[c])
      BY <2>1 DEF Mapped
    <3> QED
      BY <1>1, <2>1, <3>1, <3>2 DEF EntryOf, Using, Registered
  <2>4. ASSUME NEW d \in Conns, d # c PROVE EntryOf(d)'
    <3>1. pc[d] \notin {"fetch", "populate"}
      BY <1>2, <2>1, NullAssumption DEF EntryOf
    <3> QED
      BY <1>1, <1>2, <2>1, <2>4, <3>1 DEF EntryOf
  <2> QED
    BY <1>3, <2>1, <2>3, <2>4
<1>7. ASSUME NEW c \in Conns, Fetch(c) \/ GetOrCreate(c) PROVE MapInv'
  <2>1. pc[c] = "fetch" /\ pc' = [pc EXCEPT ![c] = "populate"] /\ UNCHANGED <<node, node_keys, owner>>
    BY <1>7 DEF Fetch, GetOrCreate, Goto, netVars
  <2>2. owner = c /\ IF node[c] = NULL THEN Mapped(node_keys[c]) = {} ELSE node[c] \in Mapped(node_keys[c])
    BY <1>2, <2>1 DEF EntryOf
  <2>3. UNCHANGED monitor_map
    BY <1>1, <1>2, <1>7, <2>2 DEF Fetch, GetOrCreate, Mapped
  <2>4. mon'[c] \in Monitors /\ \A k \in node_keys[c] : monitor_map[k] \in {mon'[c], "absent"}
    <3>1. CASE Fetch(c)
      <4>1. node[c] \in node_keys[c] /\ monitor_map[node[c]] # "absent" /\ mon'[c] = monitor_map[node[c]]
        BY <1>1, <2>2, <2>3, <3>1 DEF Fetch, Mapped
      <4>2. mon'[c] \in Monitors
        BY <1>1, <1>2, <4>1 DEF MapInv
      <4> QED
        BY <1>2, <4>1, <4>2, SharedEntry
    <3>2. CASE GetOrCreate(c)
      <4>1. PICK m \in Monitors : mon' = [mon EXCEPT ![c] = m]
        BY <3>2 DEF GetOrCreate, KeptInv
      <4>2. Mapped(node_keys[c]) = {}
        BY <2>2, <3>2 DEF GetOrCreate
      <4> QED
        BY <1>1, <4>1, <4>2 DEF Mapped
    <3> QED
      BY <1>7, <3>1, <3>2
  <2>5. EntryOf(c)'
    BY <1>1, <2>1, <2>2, <2>3, <2>4 DEF EntryOf, Using, Registered
  <2>6. ASSUME NEW d \in Conns, d # c PROVE EntryOf(d)'
    <3>1. pc'[d] = pc[d] /\ mon'[d] = mon[d]
      BY <1>7, <2>6, CallEffect DEF Monitored
    <3> QED
      BY <1>2, <2>1, <2>3, <3>1 DEF EntryOf, Mapped
  <2> QED
    BY <1>3, <2>1, <2>3, <2>5, <2>6
<1>8. ASSUME NEW c \in Conns, Populate(c) PROVE MapInv'
  <2>1. /\ pc[c] = "populate" /\ pc' = [pc EXCEPT ![c] = "compare"] /\ UNCHANGED <<node, node_keys, mon>>
        /\ monitor_map' = [k \in Keys |-> IF k \in node_keys[c] THEN mon[c] ELSE monitor_map[k]]
    BY <1>8 DEF Populate, Goto, netVars
  <2>2. /\ owner = c /\ mon[c] \in Monitors
        /\ \A k \in node_keys[c] : monitor_map[k] \in {mon[c], "absent"}
    BY <1>2, <2>1 DEF EntryOf
  <2>3. \A k \in Keys : monitor_map[k] # "absent" => monitor_map'[k] = monitor_map[k]
    BY <2>1, <2>2
  <2>4. \A k \in Keys : monitor_map'[k] # NULL
    BY <2>1, <2>2, NullAssumption DEF MapInv
  <2>5. ASSUME NEW h \in Hosts, monitor_map'[h] \in Monitors
        PROVE  monitor_map'[InstanceOf[h]] = monitor_map'[h]
    <3>1. h \in Keys /\ InstanceOf[h] \in Keys
      BY HostAssumption DEF Keys
    <3>2. CASE h = server[c]
      BY <1>2, <2>1, <3>1, <3>2
    <3>3. CASE h = InstanceOf[server[c]]
      <4>1. server[c] \in Hosts
        BY DEF Types, NetType
      <4> QED
        BY <3>3, <4>1, InstanceAssumption
    <3>4. CASE h \notin node_keys[c]
      <4>1. monitor_map[h] \in Monitors
        BY <2>1, <2>5, <3>1, <3>4
      <4>2. monitor_map[InstanceOf[h]] = monitor_map[h] /\ monitor_map[h] # "absent"
        BY <4>1, NullAssumption DEF MapInv
      <4> QED
        BY <2>3, <3>1, <4>2
    <3> QED
      BY <1>2, <3>2, <3>3, <3>4
  <2>6. EntryOf(c)'
    BY <1>1, <1>2, <2>1, <2>2 DEF EntryOf
  <2>7. ASSUME NEW d \in Conns, d # c PROVE EntryOf(d)'
    <3>1. pc'[d] = pc[d] /\ pc[d] \notin {"fetch", "populate"}
      BY <1>1, <1>2, <2>1, <2>2, <2>7 DEF EntryOf
    <3>2. ASSUME pc[d] \in Using, NEW k \in node_keys[d] PROVE monitor_map'[k] = mon[d]
      <4>1. k \in Keys /\ monitor_map[k] = mon[d] /\ mon[d] \in Monitors
        BY <1>2, <3>2 DEF EntryOf
      <4>2. monitor_map[k] # "absent"
        BY <4>1, NullAssumption
      <4> QED
        BY <2>3, <4>1, <4>2
    <3> QED
      BY <1>2, <2>1, <3>1, <3>2 DEF EntryOf
  <2> QED
    BY <2>4, <2>5, <2>6, <2>7 DEF MapInv, EntryOf, Using
<1>9. ASSUME NEW c \in Conns, Compare(c) \/ Push(c) \/ AddTask(c) \/ EndCall(c) \/ Invalidate(c)
      PROVE  MapInv'
  <2>1. pc[c] \in Using /\ UNCHANGED <<mon, node, node_keys, monitor_map, owner>>
    BY <1>9 DEF Compare, Push, AddTask, EndCall, Invalidate, boxVars, netVars, Using, Registered
  <2>2. PICK l \in Using : pc' = [pc EXCEPT ![c] = l]
    BY <1>9 DEF Compare, Push, AddTask, EndCall, Invalidate, Goto, Using, Registered
  <2>3. l \notin {"fetch", "populate"}
    BY <2>2 DEF Using, Registered
  <2>4. ASSUME NEW d \in Conns PROVE EntryOf(d)'
    BY <1>1, <1>2, <2>1, <2>2, <2>3 DEF EntryOf, Mapped
  <2> QED
    BY <1>3, <2>1, <2>4
<1>10. ASSUME NEW c \in Conns, CompareNull(c) \/ Find(c) \/ Remove(c) \/ FindShortest(c) \/ Assign(c) \/ Close(c)
      PROVE  MapInv'
  <2>1. UNCHANGED <<node, node_keys, monitor_map, owner>>
    BY <1>10 DEF CompareNull, Find, Remove, FindShortest, Assign, Close, boxVars, netVars
  <2>2. PICK l \in {"crash", "remove", "close", "shortest", "assign", "idle"} :
          pc' = [pc EXCEPT ![c] = l] /\ (l = "remove" => Find(c))
    BY <1>10 DEF CompareNull, Find, Remove, FindShortest, Assign, Close, Goto
  <2>3. l = "remove" => mon' = mon /\ pc[c] \in Using
    <3> SUFFICES ASSUME l = "remove" PROVE mon' = mon /\ pc[c] \in Using
      OBVIOUS
    <3>1. pc[c] = "find"
      BY <2>2 DEF Find
    <3>2. pc[c] \in Using /\ \A k \in node_keys[c] : monitor_map[k] = mon[c]
      BY <1>2, <3>1 DEF EntryOf, Using, Registered
    <3>3. pc'[c] = "remove"
      BY <1>1, <2>2
    <3>4. PICK k \in Mapped(node_keys[c]) : mon' = [mon EXCEPT ![c] = monitor_map[k]]
      BY <1>1, <2>2, <3>3 DEF Find, Goto
    <3> QED
      BY <1>1, <3>2, <3>4 DEF Mapped
  <2>4. EntryOf(c)'
    BY <1>1, <1>2, <2>1, <2>2, <2>3 DEF EntryOf, Using, Registered
  <2>5. ASSUME NEW d \in Conns, d # c PROVE EntryOf(d)'
    <3>1. pc'[d] = pc[d] /\ mon'[d] = mon[d]
      BY <1>10, <2>5, CallEffect DEF Monitored
    <3> QED
      BY <1>2, <2>1, <3>1 DEF EntryOf, Mapped
  <2> QED
    BY <1>3, <2>1, <2>4, <2>5
<1> QED
  BY <1>4, <1>5, <1>6, <1>7, <1>8, <1>9, <1>10 DEF Next, Monitored, Others

\* stop_monitoring finds the monitor that start_monitoring registered the context with.
LEMMA RegisteredStep ==
    ASSUME ~Failover, ~Disposal, Types, SteadyInv, [Next]_vars
    PROVE  RegisteredInv'
<1>1. /\ pc \in [Conns -> AppPC] /\ mon \in [Conns -> Monitors \union {NULL}]
      /\ calls \in [Conns -> 0 .. MaxCalls] /\ contexts \in [Monitors -> SUBSET Contexts]
  BY DEF Types, AppType, MonType
<1>2. KeptInv /\ RegisteredInv /\ (pcF = "no" => RunningInv /\ MapInv)
  BY DEF SteadyInv
<1>3. \A m \in Monitors : \A x \in contexts[m] :
        /\ x[1] \in Conns /\ x = <<x[1], x[2]>> /\ x[2] = calls[x[1]] /\ pc[x[1]] \in Registered /\ mon[x[1]] = m
  <2>1. \A x \in Contexts : x[1] \in Conns /\ x = <<x[1], x[2]>>
    BY DEF Contexts
  <2> QED
    BY <1>1, <1>2, <2>1 DEF RegisteredInv, Ongoing
<1>4. CASE Others
  <2>1. UNCHANGED <<pc, mon, calls, contexts>>
    BY <1>4, OthersEffect DEF appVars
  <2>2. (\E c \in Conns : pc[c] = "call") => task_map' = task_map
    <3> SUFFICES ASSUME NEW c \in Conns, pc[c] = "call" PROVE task_map' = task_map
      OBVIOUS
    <3>1. pcF = "no" /\ RunningInv
      BY <1>2 DEF KeptInv
    <3>2. ASSUME NEW t \in Threads, Run(t) PROVE task_map' = task_map
      <4>1. tpc[t] # "erase"
        BY <3>1 DEF RunningInv
      <4> QED
        BY <3>2, <4>1 DEF Run, RunStart, RunLoop, Ping, LockContexts, Update, Abort, Shut, Unlock, Sleep, Idle,
                          Unused, EraseTask, RunEnd, boxVars
    <3> QED
      BY <1>4, <3>1, <3>2 DEF Others, FreeEnv, Joined, Expire, Change, vars, boxVars
  <2> QED
    BY <1>2, <2>1, <2>2 DEF RegisteredInv, Ongoing, Context
<1>5. ASSUME NEW c \in Conns, FailOver(c) PROVE FALSE
  BY <1>2, <1>5 DEF FailOver, SetConnection, ClearContexts, ResetInterval, ResetUnmap, ResetRelease, KeptInv
<1>6. ASSUME NEW c \in Conns, Monitored(c) \/ EndCall(c) PROVE RegisteredInv'
  <2>1. /\ pcF = "no" /\ RunningInv /\ MapInv
        /\ \A d \in Conns : d # c => pc'[d] = pc[d] /\ calls'[d] = calls[d] /\ mon'[d] = mon[d]
    BY <1>2, <1>6, CallEffect
  <2>2. task_map \subseteq task_map'
    BY <1>2, <1>6 DEF Monitored, Start, Fetch, GetOrCreate, Populate, Compare, CompareNull, Push, AddTask, EndCall,
                Invalidate, Find, Remove, FindShortest, Assign, Close, boxVars, KeptInv
  (* A step that leaves the lists alone: only the connection itself matters. *)
  <2>3. ASSUME UNCHANGED contexts,
               \/ pc[c] \notin Registered /\ pc'[c] \notin Registered
               \/ /\ pc[c] \in Registered /\ pc'[c] \in Registered /\ calls'[c] = calls[c] /\ mon'[c] = mon[c]
                  /\ pc'[c] = "call" => mon'[c] \in task_map'
        PROVE  RegisteredInv'
    <3>1. ASSUME NEW d \in Conns
          PROVE  /\ pc'[d] \in Registered => Context(d)' \in contexts'[mon'[d]]
                 /\ pc'[d] = "call" => mon'[d] \in task_map'
      BY <1>2, <2>1, <2>2, <2>3 DEF RegisteredInv, Context, Registered
    <3>2. ASSUME NEW m \in Monitors, NEW x \in contexts'[m] PROVE Ongoing(x)' /\ mon'[x[1]] = m
      BY <1>3, <2>1, <2>3 DEF Ongoing
    <3> QED
      BY <3>1, <3>2 DEF RegisteredInv
  <2> USE DEF Goto, Registered
  <2>4. CASE Start(c) \/ Fetch(c) \/ GetOrCreate(c) \/ Populate(c) \/ Compare(c) \/ CompareNull(c)
             \/ FindShortest(c) \/ Assign(c) \/ Close(c)
    <3>1. UNCHANGED contexts
      BY <2>4 DEF Start, Fetch, GetOrCreate, Populate, Compare, CompareNull, FindShortest, Assign, Close, monVars
    <3>2. pc[c] \notin Registered /\ pc'[c] \notin Registered
      BY <1>1, <2>4 DEF Start, Fetch, GetOrCreate, Populate, Compare, CompareNull, FindShortest, Assign, Close
    <3> QED
      BY <2>3, <3>1, <3>2
  <2>5. CASE AddTask(c) \/ EndCall(c) \/ Invalidate(c)
    <3>1. UNCHANGED <<contexts, calls, mon>>
      BY <2>5 DEF AddTask, EndCall, Invalidate, monVars
    <3>2. pc[c] \in Registered /\ pc'[c] \in Registered /\ (pc'[c] = "call" => mon[c] \in task_map')
      BY <1>1, <2>5 DEF AddTask, EndCall, Invalidate
    <3> QED
      BY <2>3, <3>1, <3>2
  <2>6. CASE Find(c)
    <3>1. UNCHANGED <<contexts, calls>> /\ pc[c] = "find"
      BY <2>6 DEF Find, monVars
    <3>2. \A k \in node_keys[c] : monitor_map[k] = mon[c] /\ mon[c] \in Monitors
      BY <2>1, <3>1 DEF MapInv
    <3>3. server[c] \in Mapped(node_keys[c]) /\ mon[c] # NULL
      <4>1. server[c] \in node_keys[c]
        BY <1>2 DEF KeptInv
      <4> QED
        BY <3>2, <4>1, NullAssumption DEF Mapped
    <3>4. pc' = [pc EXCEPT ![c] = "remove"] /\ \E k \in Mapped(node_keys[c]) : mon' = [mon EXCEPT ![c] = monitor_map[k]]
      BY <2>6, <3>2, <3>3 DEF Find, Mapped
    <3>5. mon' = mon
      BY <1>1, <3>2, <3>4 DEF Mapped
    <3> QED
      BY <1>1, <2>3, <3>1, <3>4, <3>5
  <2>7. CASE Push(c)
    <3>1. /\ UNCHANGED <<calls, mon>> /\ pc[c] = "push" /\ pc' = [pc EXCEPT ![c] = "task"]
          /\ contexts' = [contexts EXCEPT ![mon[c]] = @ \union {Context(c)}]
      BY <2>7 DEF Push
    <3>2. mon[c] \in Monitors
      BY <2>1, <3>1 DEF MapInv
    <3>3. ASSUME NEW d \in Conns
          PROVE  /\ pc'[d] \in Registered => Context(d)' \in contexts'[mon'[d]]
                 /\ pc'[d] = "call" => mon'[d] \in task_map'
      <4>1. CASE d = c
        BY <1>1, <3>1, <3>2, <4>1 DEF Context
      <4>2. CASE d # c
        <5>1. pc'[d] \in Registered => Context(d) \in contexts[mon[d]] /\ mon[d] \in Monitors
          BY <1>2, <2>1, <4>2 DEF RegisteredInv, MapInv
        <5>2. pc'[d] = "call" => mon[d] \in task_map
          BY <1>2, <2>1, <4>2 DEF RegisteredInv
        <5> QED
          BY <1>1, <2>1, <2>2, <3>1, <4>2, <5>1, <5>2 DEF Context
      <4> QED
        BY <4>1, <4>2
    <3>4. ASSUME NEW m \in Monitors, NEW x \in contexts'[m] PROVE Ongoing(x)' /\ mon'[x[1]] = m
      <4>1. x \in contexts[m] \/ (x = <<c, calls[c]>> /\ m = mon[c])
        BY <1>1, <3>1, <3>2 DEF Context
      <4> QED
        BY <1>1, <1>3, <2>1, <3>1, <4>1 DEF Ongoing
    <3> QED
      BY <3>3, <3>4 DEF RegisteredInv
  <2>8. CASE Remove(c)
    <3>1. /\ UNCHANGED <<calls, mon>> /\ pc[c] = "remove" /\ pc' = [pc EXCEPT ![c] = "shortest"]
          /\ contexts' = [contexts EXCEPT ![mon[c]] = @ \ {Context(c)}]
      BY <2>8 DEF Remove
    <3>2. ASSUME NEW d \in Conns
          PROVE  /\ pc'[d] \in Registered => Context(d)' \in contexts'[mon'[d]]
                 /\ pc'[d] = "call" => mon'[d] \in task_map'
      <4>1. CASE d = c
        BY <1>1, <3>1, <4>1
      <4>2. CASE d # c
        <5>1. pc'[d] \in Registered => Context(d) \in contexts[mon[d]] /\ mon[d] \in Monitors
          BY <1>2, <2>1, <4>2 DEF RegisteredInv, MapInv
        <5>2. pc'[d] = "call" => mon[d] \in task_map
          BY <1>2, <2>1, <4>2 DEF RegisteredInv
        <5> QED
          BY <1>1, <2>1, <2>2, <3>1, <4>2, <5>1, <5>2 DEF Context
      <4> QED
        BY <4>1, <4>2
    <3>3. ASSUME NEW m \in Monitors, NEW x \in contexts'[m] PROVE Ongoing(x)' /\ mon'[x[1]] = m
      <4>1. x \in contexts[m]
        BY <1>1, <3>1
      <4>2. x[1] # c
        <5> SUFFICES ASSUME x[1] = c PROVE FALSE
          OBVIOUS
        <5>1. x = <<c, calls[c]>> /\ m = mon[c]
          BY <1>3, <4>1
        <5> QED
          BY <1>1, <3>1, <5>1 DEF Context
      <4> QED
        BY <1>3, <2>1, <4>1, <4>2 DEF Ongoing
    <3> QED
      BY <3>2, <3>3 DEF RegisteredInv
  <2> QED
    BY <1>6, <2>4, <2>5, <2>6, <2>7, <2>8 DEF Monitored
<1> QED
  BY <1>4, <1>5, <1>6 DEF Next, Others

\* The interval is changed by calls only; a call that ends its monitoring sets it to the
\* longest one when no other call uses the monitor, and overwrites it otherwise.
LEMMA IntervalStep ==
    ASSUME ~Failover, ~Disposal, Types, SteadyInv, IntervalInv, [Next]_vars
    PROVE  IntervalInv'
<1>1. /\ pc \in [Conns -> AppPC] /\ mon \in [Conns -> Monitors \union {NULL}]
      /\ interval \in [Monitors -> {"short", "max"}] /\ tpc \in [Threads -> RunPC]
      /\ tmon \in [Threads -> Monitors \union {NULL}] /\ shortest \in [Conns -> {"short", "max"}]
      /\ contexts \in [Monitors -> SUBSET Contexts]
      /\ \A t \in Threads : tpc[t] = "free" \/ tmon[t] \in Monitors
      /\ \A c \in Conns : InUse(c) \/ pc[c] = "assign" => mon[c] \in Monitors
  <2>1. \A c \in Conns : InUse(c) \/ pc[c] = "assign" => mon[c] # NULL
    <3>1. ASSUME NEW c \in Conns, pc[c] = "find" PROVE mon[c] \in Monitors
      <4>1. pcF = "no" /\ MapInv
        BY <3>1 DEF SteadyInv, KeptInv
      <4> QED
        BY <3>1, <4>1 DEF MapInv, Registered
    <3> QED
      BY <3>1, NullAssumption DEF Types, AppType, HasMonitor, InUse, Registered
  <2> QED
    BY <2>1 DEF Types, AppType, MonType, RunType
<1>2. RegisteredInv /\ KeptInv
  BY DEF SteadyInv
\* steps that leave alone what the invariant is about
<1>3. ASSUME UNCHANGED <<interval, overwritten>>,
             \A d \in Conns : InUse(d)' => InUse(d) /\ mon'[d] = mon[d],
             \A t \in Threads : tpc'[t] = "asleep" => tpc[t] = "asleep" /\ tmon'[t] = tmon[t]
      PROVE  IntervalInv'
  BY <1>3 DEF IntervalInv
<1>4. ASSUME NEW c \in Conns, FailOver(c) PROVE FALSE
  BY <1>2, <1>4 DEF FailOver, SetConnection, ClearContexts, ResetInterval, ResetUnmap, ResetRelease, KeptInv
<1>5. ASSUME NEW t \in Threads, Run(t) PROVE IntervalInv'
  <2>1. UNCHANGED <<pc, mon, interval, overwritten>>
    BY <1>5 DEF Run, RunStart, RunLoop, Ping, LockContexts, Update, Abort, Shut, Unlock, Sleep, Idle, Unused,
                EraseTask, RunEnd, appVars, monVars
  <2>2. \A u \in Threads : u # t => tpc'[u] = tpc[u] /\ tmon'[u] = tmon[u]
    <3> USE <1>1 DEF Step
    <3>1. CASE Update(t)
      BY <3>1 DEF Update, Skip, Alive, Dead
    <3>2. CASE ~Update(t)
      BY <1>5, <3>2 DEF Run, RunStart, RunLoop, Ping, LockContexts, Abort, Shut, Unlock, Sleep, Idle, Unused,
                        EraseTask, RunEnd
    <3> QED
      BY <3>1, <3>2
  <2>3. ASSUME tpc'[t] = "asleep" PROVE tmon'[t] \in overwritten
    <3>1. Sleep(t)
      <4> USE <1>1 DEF Step
      <4>1. CASE Update(t)
        BY <2>3, <4>1 DEF Update, Skip, Alive, Dead
      <4>2. CASE ~Update(t)
        BY <1>5, <2>3, <4>2 DEF Run, RunStart, RunLoop, Ping, LockContexts, Abort, Shut, Unlock, Idle, Unused,
                          EraseTask, RunEnd
      <4> QED
        BY <4>1, <4>2
    <3>2. tmon' = tmon /\ tmon[t] \in Monitors /\ contexts[tmon[t]] # {} /\ interval[tmon[t]] # "short"
      BY <1>1, <2>3, <3>1 DEF Sleep, Step
    <3>3. PICK x \in contexts[tmon[t]] : x[1] \in Conns /\ pc[x[1]] \in Registered /\ mon[x[1]] = tmon[t]
      <4>1. PICK x \in contexts[tmon[t]] : TRUE
        BY <3>2
      <4>2. x \in Contexts
        BY <1>1, <3>2
      <4> QED
        BY <1>2, <3>2, <4>1, <4>2 DEF RegisteredInv, Ongoing, Contexts
    <3> QED
      BY <3>2, <3>3 DEF IntervalInv, InUse
  <2>4. ASSUME NEW u \in Threads, tpc'[u] = "asleep" PROVE tmon'[u] \in overwritten'
    BY <2>1, <2>2, <2>3, <2>4 DEF IntervalInv
  <2> QED
    BY <2>1, <2>4 DEF IntervalInv, InUse
<1>6. ASSUME NEW c \in Conns, Monitored(c) \/ EndCall(c) PROVE IntervalInv'
  <2>1. \A d \in Conns : d # c => pc'[d] = pc[d] /\ mon'[d] = mon[d]
    BY <1>2, <1>6, CallEffect
  <2>2. \A t \in Threads : tpc'[t] = "asleep" => tpc[t] = "asleep" /\ tmon'[t] = tmon[t]
    <3>1. CASE AddTask(c)
      BY <1>1, <3>1 DEF AddTask
    <3>2. CASE ~AddTask(c)
      BY <1>6, <3>2 DEF Monitored, Start, Fetch, GetOrCreate, Populate, Compare, CompareNull, Push, EndCall,
                        Invalidate, Find, Remove, FindShortest, Assign, Close, runVars
    <3> QED
      BY <3>1, <3>2
  <2>3. CASE Compare(c)
    <3>1. /\ mon[c] \in Monitors /\ interval' = [interval EXCEPT ![mon[c]] = "short"]
          /\ UNCHANGED <<mon, overwritten>>
      BY <1>1, <2>3 DEF Compare
    <3>2. ASSUME NEW d \in Conns, InUse(d)' PROVE mon'[d] \in overwritten' \/ interval'[mon'[d]] = "short"
      <4>1. CASE d = c
        BY <1>1, <3>1, <4>1
      <4>2. CASE d # c
        <5>1. InUse(d) /\ mon[d] \in Monitors
          BY <1>1, <2>1, <3>2, <4>2 DEF InUse
        <5> QED
          BY <1>1, <3>1, <5>1 DEF IntervalInv
      <4> QED
        BY <4>1, <4>2
    <3> QED
      BY <2>2, <3>1, <3>2 DEF IntervalInv
  <2>4. CASE Assign(c)
    <3>1. /\ mon[c] \in Monitors /\ UNCHANGED mon /\ SetInterval(c, shortest[c]) /\ pc[c] = "assign"
          /\ pc'[c] = "close"
      BY <1>1, <2>4 DEF Assign, Goto
    <3>2. interval' = [interval EXCEPT ![mon[c]] = shortest[c]] /\ overwritten \subseteq overwritten'
      BY <3>1 DEF SetInterval
    <3>3. ASSUME NEW d \in Conns, InUse(d)' PROVE mon'[d] \in overwritten' \/ interval'[mon'[d]] = "short"
      <4>1. d # c
        BY <3>1, <3>3 DEF InUse, Registered
      <4>2. InUse(d) /\ mon[d] \in Monitors
        BY <1>1, <2>1, <3>3, <4>1 DEF InUse
      <4>3. CASE mon[d] # mon[c]
        BY <1>1, <3>1, <3>2, <4>2, <4>3 DEF IntervalInv
      <4>4. CASE mon[d] = mon[c] /\ shortest[c] = "short"
        BY <1>1, <3>1, <3>2, <4>2, <4>4
      <4>5. CASE mon[d] = mon[c] /\ shortest[c] = "max"
        BY <3>1, <4>1, <4>2, <4>5 DEF SetInterval
      <4> QED
        BY <1>1, <4>3, <4>4, <4>5
    <3> QED
      BY <2>2, <3>2, <3>3 DEF IntervalInv
  <2>5. CASE ~Compare(c) /\ ~Assign(c)
    <3>1. UNCHANGED <<interval, overwritten>>
      BY <1>6, <2>5 DEF Monitored, Start, Fetch, GetOrCreate, Populate, CompareNull, Push, AddTask, EndCall,
                        Invalidate, Find, Remove, FindShortest, Close, monVars
    <3>2. InUse(c)' => InUse(c) /\ mon'[c] = mon[c]
      <4>1. CASE Find(c)
        <5> SUFFICES ASSUME InUse(c)' PROVE mon'[c] = mon[c] /\ InUse(c)
          OBVIOUS
        <5>1. pc[c] = "find" /\ pc'[c] # "close"
          BY <4>1 DEF Find, InUse, Registered
        <5>2. PICK k \in Mapped(node_keys[c]) : mon' = [mon EXCEPT ![c] = monitor_map[k]]
          BY <1>1, <4>1, <5>1 DEF Find, Goto
        <5>3. \A l \in node_keys[c] : monitor_map[l] = mon[c]
          <6>1. pcF = "no" /\ MapInv
            BY <5>1 DEF SteadyInv, KeptInv
          <6> QED
            BY <5>1, <6>1 DEF MapInv, Registered
        <5> QED
          BY <1>1, <5>1, <5>2, <5>3 DEF Mapped, InUse, Registered
      <4>2. CASE ~Find(c)
        BY <1>1, <1>6, <2>5, <4>2
           DEF Monitored, Start, Fetch, GetOrCreate, Populate, CompareNull, Push, AddTask, EndCall,
               Invalidate, Remove, FindShortest, Close, Goto, InUse, Registered
      <4> QED
        BY <4>1, <4>2
    <3>3. \A d \in Conns : InUse(d)' => InUse(d) /\ mon'[d] = mon[d]
      BY <2>1, <3>2 DEF InUse
    <3> QED
      BY <1>3, <2>2, <3>1, <3>3
  <2> QED
    BY <2>3, <2>4, <2>5
<1>7. CASE FreeEnv \/ Joined \/ (\E m \in Monitors : Expire(m)) \/ (\E i \in Instances : Change(i)) \/ UNCHANGED vars
  <2>1. UNCHANGED <<pc, mon, interval, overwritten, tpc, tmon>>
    BY <1>7 DEF FreeEnv, Joined, Expire, Change, vars, appVars, monVars, runVars
  <2> QED
    BY <1>3, <2>1 DEF InUse
<1> QED
  BY <1>4, <1>5, <1>6, <1>7 DEF Next

LEMMA SteadyInit == Init => SteadyInv /\ LoopInv
<1> SUFFICES ASSUME Init PROVE SteadyInv /\ LoopInv
  OBVIOUS
<1>1. KeptInv /\ RegisteredInv /\ LoopInv
  BY DEF Init, KeptInv, RegisteredInv, LoopInv, Registered
<1>2. RunningInv
  BY DEF Init, RunningInv
<1>3. MapInv
  <2>1. \A k \in Keys : monitor_map[k] = "absent"
    BY DEF Init
  <2>2. \A h \in Hosts : h \in Keys
    BY DEF Keys
  <2> QED
    BY <2>1, <2>2, NullAssumption DEF Init, MapInv, Registered
<1> QED
  BY <1>1, <1>2, <1>3 DEF SteadyInv

\* The environment is freed once.
LEMMA SteadyStep == ~Failover /\ ~Disposal /\ Types /\ SteadyInv /\ [Next]_vars => SteadyInv'
<1> SUFFICES ASSUME ~Failover, ~Disposal, Types, SteadyInv, [Next]_vars PROVE SteadyInv'
  OBVIOUS
<1>1. KeptInv' /\ RegisteredInv'
  BY KeptStep, RegisteredStep DEF SteadyInv
<1>2. pcF' = "no" => pcF = "no"
  <2>1. ASSUME NEW c \in Conns, Monitored(c) \/ EndCall(c) PROVE pcF = "no"
    BY <2>1, CallEffect DEF SteadyInv
  <2>2. ASSUME NEW c \in Conns, FailOver(c) PROVE pcF' = pcF
    BY <2>2 DEF FailOver, SetConnection, ClearContexts, ResetInterval, ResetUnmap, ResetRelease
  <2>3. ASSUME NEW t \in Threads, Run(t) PROVE pcF' = pcF
    BY <2>3 DEF Run, RunStart, RunLoop, Ping, LockContexts, Update, Abort, Shut, Unlock, Sleep, Idle, Unused,
                EraseTask, RunEnd
  <2> QED
    BY <2>1, <2>2, <2>3 DEF Next, FreeEnv, Joined, Expire, Change, vars
<1>3. pcF' = "no" => RunningInv' /\ MapInv'
  BY <1>2, RunningStep, MapStep DEF SteadyInv
<1> QED
  BY <1>1, <1>3 DEF SteadyInv

LEMMA SteadyInvariance ==
    ASSUME ~Failover, ~Disposal
    PROVE  Spec => [](Types /\ SteadyInv /\ LoopInv /\ IntervalInv)
<1>1. Types /\ SteadyInv /\ LoopInv /\ IntervalInv /\ [Next]_vars
        => (Types /\ SteadyInv /\ LoopInv /\ IntervalInv)'
  BY TypesNext, SteadyStep, LoopStep, IntervalStep
<1>2. Init => IntervalInv
  BY DEF Init, IntervalInv, InUse, Registered
<1> QED
  BY <1>1, <1>2, TypesInit, SteadyInit, PTL DEF Spec

\* As long as no connection fails over and no monitor becomes unused, stop_monitoring
\* takes the context out of the list it was entered in.
THEOREM NoContextIsStale ==
    ASSUME ~Failover, ~Disposal
    PROVE  Spec => []NoStaleContext
<1>1. SteadyInv => NoStaleContext
  BY DEF SteadyInv, RegisteredInv, NoStaleContext
<1> QED
  BY <1>1, SteadyInvariance, PTL

\* Under the same conditions, a socket is shut down only while the call that its
\* connection is monitored for has not been stopped.
THEOREM AbortsOnlyDuringCalls ==
    ASSUME ~Failover, ~Disposal
    PROVE  Spec => []AbortOnlyDuringCall
<1>1. Types /\ SteadyInv /\ LoopInv => AbortOnlyDuringCall
  <2> SUFFICES ASSUME Types, SteadyInv, LoopInv, NEW t \in Threads, tpc[t] = "shut" PROVE Ongoing(cur[t])
    BY DEF AbortOnlyDuringCall
  <2>1. cur[t] \in contexts[tmon[t]] /\ tmon[t] \in Monitors
    BY DEF LoopInv, Types, RunType
  <2> QED
    BY <2>1 DEF SteadyInv, RegisteredInv
<1> QED
  BY <1>1, SteadyInvariance, PTL

\* Under the same conditions, a call that is under way is in the list of a monitor that
\* a thread runs; the monitor checks at the interval of a call and never oversleeps,
\* unless stop_monitoring of another connection overwrote the interval.
THEOREM CallsAreMonitored ==
    ASSUME ~Failover, ~Disposal
    PROVE  Spec => []CallMonitored
<1>1. Types /\ SteadyInv /\ IntervalInv => CallMonitored
  <2> SUFFICES ASSUME Types, SteadyInv, IntervalInv, NEW c \in Conns, pc[c] = "call"
               PROVE  /\ mon[c] \in Monitors /\ Context(c) \in contexts[mon[c]] /\ Running(mon[c]) # {}
                      /\ mon[c] \in overwritten \/ (interval[mon[c]] = "short" /\ ~Overslept(mon[c]))
    BY DEF CallMonitored
  <2>1. Context(c) \in contexts[mon[c]] /\ mon[c] \in task_map
    BY DEF SteadyInv, RegisteredInv, Registered
  <2>2. pcF = "no"
    BY DEF SteadyInv, KeptInv
  <2>3. mon[c] \in overwritten \/ (interval[mon[c]] = "short" /\ ~Overslept(mon[c]))
    BY DEF IntervalInv, InUse, Registered, Overslept
  <2> QED
    BY <2>1, <2>2, <2>3 DEF SteadyInv, RunningInv, Types, BoxType
<1> QED
  BY <1>1, SteadyInvariance, PTL

\* Under the same conditions, calls to one instance are in the list of one monitor,
\* whatever names their connections were opened with.
THEOREM InstancesShareMonitors ==
    ASSUME ~Failover, ~Disposal
    PROVE  Spec => []OneMonitorPerInstance
<1>1. Types /\ SteadyInv => OneMonitorPerInstance
  <2> SUFFICES ASSUME Types, SteadyInv, NEW c \in Conns, NEW d \in Conns, {pc[c], pc[d]} \subseteq {"task", "call"},
                      InstanceOf[server[c]] = InstanceOf[server[d]]
               PROVE  mon[c] \in Monitors /\ {Context(c), Context(d)} \subseteq contexts[mon[c]]
    BY DEF OneMonitorPerInstance
  <2>1. KeptInv /\ RegisteredInv /\ MapInv
    BY DEF SteadyInv, KeptInv
  <2>2. InstanceOf[server[c]] \in node_keys[c] /\ InstanceOf[server[c]] \in node_keys[d]
    BY <2>1 DEF KeptInv
  <2>3. pc[c] \in Registered /\ pc[d] \in Registered
    BY DEF Registered
  <2>4. mon[c] = mon[d] /\ mon[c] \in Monitors
    BY <2>1, <2>2, <2>3 DEF MapInv
  <2> QED
    BY <2>1, <2>3, <2>4 DEF RegisteredInv
<1> QED
  BY <1>1, SteadyInvariance, PTL
=============================================================================
