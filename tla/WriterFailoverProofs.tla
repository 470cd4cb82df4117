------------------------ MODULE WriterFailoverProofs ------------------------
(***************************************************************************)
(* Theorems about WriterFailover, for every set of hosts, connections and  *)
(* topologies.                                                             *)
(***************************************************************************)
EXTENDS WriterFailover, TLAPS

\* A topology that is not null is a record with a writer (or NULL) and readers.
LEMMA TopologyFields ==
    ASSUME NEW t \in Topology \union {NULL}, t # NULL
    PROVE  t \in Topology /\ t.writer \in Hosts \union {NULL} /\ t.readers \subseteq Hosts
BY DEF Topology

\* The result a task starts with is a result without a connection.
LEMMA NotConnectedType == NotConnected \in Result /\ ~NotConnected.connected
BY DEF NotConnected, Result

\* failover() starts with its variables well typed.
LEMMA InitTypeOK == Init => TypeOK
<1> SUFFICES ASSUME Init PROVE TypeOK
  OBVIOUS
<1>1. cache \in Topology \union {NULL} /\ arg \in Topology \union {NULL}
  BY ViewsAssumption DEF Init
<1>2. resA \in Result /\ resB \in Result /\ ret \in Result
  BY NotConnectedType DEF Init
<1>3. expired \in BOOLEAN /\ futA \in BOOLEAN /\ futB \in BOOLEAN
  BY DEF Init
<1>4. num_tasks \in 0 .. 2
  BY DEF Init
<1> QED
  BY <1>1, <1>2, <1>3, <1>4 DEF Init, TypeOK, PointerOrNull

\* Every action keeps the types.
LEMMA NextTypeOK == TypeOK /\ [Next]_vars => TypeOK'
<1> SUFFICES ASSUME TypeOK, [Next]_vars PROVE TypeOK'
  OBVIOUS
<1> USE NullAssumption, ViewsAssumption, NotConnectedType
        DEF AtA, AtB, AtM
<1>1. CASE RefuseTopology
  BY <1>1 DEF RefuseTopology, Return, TypeOK, syncVars, connVars, aVars, bVars
<1>2. CASE NoOriginalWriter
  BY <1>2 DEF NoOriginalWriter, Return, TypeOK, syncVars, connVars, aVars, bVars
<1>3. CASE StartTasks
  BY <1>3 DEF StartTasks, TypeOK, connVars
<1>4. CASE Wait
  BY <1>4 DEF Wait, WaitAndComplete, TypeOK, connVars, aVars, bVars
<1>5. CASE PollA
  <2>1. futA' \in BOOLEAN
    BY <1>5 DEF PollA, TypeOK
  <2>2. ret' \in Result /\ outcome' \in {"none", "connected", "failed", "threw"}
    BY <1>5 DEF PollA, Return, TypeOK
  <2>3. pcM' \in {"pollB", "remaining", "done"}
    BY <1>5 DEF PollA, Return
  <2> QED
    BY <1>5, <2>1, <2>2, <2>3 DEF PollA, TypeOK, syncVars, connVars, aVars, bVars
<1>6. CASE PollB
  <2>1. futB' \in BOOLEAN
    BY <1>6 DEF PollB, TypeOK
  <2>2. ret' \in Result /\ outcome' \in {"none", "connected", "failed", "threw"}
    BY <1>6 DEF PollB, Return, TypeOK
  <2>3. pcM' \in {"pollB", "remaining", "done"}
    BY <1>6 DEF PollB, Return
  <2> QED
    BY <1>6, <2>1, <2>2, <2>3 DEF PollB, TypeOK, syncVars, connVars, aVars, bVars
<1>7. CASE PollAgain
  BY <1>7 DEF PollAgain, Return, TypeOK, syncVars, connVars, aVars, bVars
<1>8. CASE Expire
  BY <1>8 DEF Expire, TypeOK, connVars, aVars, bVars, mVars
<1>9. CASE HeadA
  BY <1>9 DEF HeadA, Delete, PointerOrNull, TypeOK, syncVars, connVars, bVars, mVars
<1>10. CASE ConnectA
  BY <1>10, TopologyFields DEF ConnectA, Allocate, OriginalWriter, PointerOrNull, TypeOK, syncVars, connVars, bVars, mVars
<1>11. CASE CachedA
  BY <1>11 DEF CachedA, TypeOK, syncVars, connVars, bVars, mVars
<1>12. CASE QueryA
  BY <1>12 DEF QueryA, QueryFails, TypeOK, syncVars, connVars, bVars, mVars
<1>13. CASE ResetA
  BY <1>13 DEF ResetA, TypeOK, syncVars, connVars, bVars, mVars
<1>14. CASE PutA
  BY <1>14 DEF PutA, TypeOK, syncVars, connVars, bVars, mVars
<1>15. CASE JudgeA
  BY <1>15 DEF JudgeA, Delete, PointerOrNull, TypeOK, syncVars, connVars, bVars, mVars
<1>16. CASE CheckA
  BY <1>16 DEF CheckA, Delete, PointerOrNull, TypeOK, syncVars, connVars, bVars, mVars
<1>17. CASE PublishA
  BY <1>17 DEF PublishA, MarkAsCompleteCancel, Result, PointerOrNull, TypeOK, connVars, bVars, mVars
<1>18. CASE ReturnA
  BY <1>18 DEF ReturnA, TypeOK, syncVars, connVars, bVars, mVars
<1>19. CASE HeadB
  BY <1>19 DEF HeadB, Delete, PointerOrNull, TypeOK, syncVars, connVars, aVars, mVars
<1>20. CASE ConnectToReaderB
  BY <1>20, TopologyFields DEF ConnectToReaderB, Allocate, PointerOrNull, TypeOK, syncVars, connVars, aVars, mVars
<1>21. CASE RefreshB
  BY <1>21 DEF RefreshB, TypeOK, syncVars, connVars, aVars, mVars
<1>22. CASE CachedB
  BY <1>22 DEF CachedB, TypeOK, syncVars, connVars, aVars, mVars
<1>23. CASE QueryB
  BY <1>23 DEF QueryB, QueryFails, TypeOK, syncVars, connVars, aVars, mVars
<1>24. CASE ResetB
  BY <1>24 DEF ResetB, TypeOK, syncVars, connVars, aVars, mVars
<1>25. CASE PutB
  BY <1>25 DEF PutB, TypeOK, syncVars, connVars, aVars, mVars
<1>26. CASE JudgeB
  BY <1>26 DEF JudgeB, TypeOK, syncVars, connVars, aVars, mVars
<1>27. CASE ConnectB
  BY <1>27, TopologyFields DEF ConnectB, Allocate, PointerOrNull, TypeOK, syncVars, connVars, aVars, mVars
<1>28. CASE CleanUpB
  BY <1>28 DEF CleanUpB, Delete, PointerOrNull, TypeOK, syncVars, connVars, aVars, mVars
<1>29. CASE PublishB
  BY <1>29 DEF PublishB, MarkAsCompleteCancel, Result, PointerOrNull, TypeOK, connVars, aVars, mVars
<1>30. CASE ReturnB
  BY <1>30 DEF ReturnB, TypeOK, syncVars, connVars, aVars, mVars
<1>31. CASE UNCHANGED vars
  BY <1>31 DEF vars, syncVars, connVars, aVars, bVars, mVars, TypeOK
<1> QED
  BY <1>1, <1>2, <1>3, <1>4, <1>5, <1>6, <1>7, <1>8, <1>9, <1>10, <1>11, <1>12,
     <1>13, <1>14, <1>15, <1>16, <1>17, <1>18, <1>19, <1>20, <1>21, <1>22, <1>23,
     <1>24, <1>25, <1>26, <1>27, <1>28, <1>29, <1>30, <1>31
     DEF Next, Main, TaskA, TaskB, Terminated

\* The variables always have their types, and no task runs without a topology.
THEOREM TypeCorrect == Spec => []TypeOK
<1>1. Init => TypeOK
  BY InitTypeOK
<1>2. TypeOK /\ [Next]_vars => TypeOK'
  BY NextTypeOK
<1> QED
  BY <1>1, <1>2, PTL DEF Spec

-----------------------------------------------------------------------------
(* Writer failover gives up only on timeout.                               *)

\* Before the tasks are started nothing has been published.
LEMMA InitRace == Init => RaceInv /\ FailsOnlyOnTimeout
BY NotConnectedType DEF Init, RaceInv, FailsOnlyOnTimeout, Polling

\* No step of the caller or of a task completes the sync without a result, or
\* uses up the future of a task that has one.
LEMMA NextRace ==
    TypeOK /\ RaceInv /\ FailsOnlyOnTimeout /\ [Next]_vars
        => RaceInv' /\ FailsOnlyOnTimeout'
<1> SUFFICES ASSUME TypeOK, RaceInv, FailsOnlyOnTimeout, [Next]_vars
             PROVE  RaceInv' /\ FailsOnlyOnTimeout'
  OBVIOUS
<1> USE NotConnectedType DEF AtA, AtB, AtM, RaceInv, FailsOnlyOnTimeout, Polling, IsCompleted
<1>1. CASE RefuseTopology
  BY <1>1 DEF RefuseTopology, syncVars, aVars, bVars, Return
<1>2. CASE NoOriginalWriter
  BY <1>2 DEF NoOriginalWriter, syncVars, aVars, bVars, Return
<1>3. CASE StartTasks
  BY <1>3 DEF StartTasks
<1>4. CASE Wait
  BY <1>4 DEF Wait, aVars, bVars, WaitEnds, WaitAndComplete
<1>5. CASE PollA
  BY <1>5 DEF PollA, syncVars, aVars, bVars, Return, EndedA, EndedPC
<1>6. CASE PollB
  BY <1>6 DEF PollB, syncVars, aVars, bVars, Return, EndedB, EndedPC
<1>7. CASE PollAgain
  BY <1>7 DEF PollAgain, syncVars, aVars, bVars, Return
<1>8. CASE Expire
  BY <1>8 DEF Expire, aVars, bVars, mVars
<1>9. CASE HeadA
  BY <1>9 DEF HeadA, syncVars, mVars, bVars
<1>10. CASE ConnectA
  BY <1>10 DEF ConnectA, syncVars, mVars, bVars
<1>11. CASE CachedA
  BY <1>11 DEF CachedA, syncVars, mVars, bVars
<1>12. CASE QueryA
  BY <1>12 DEF QueryA, syncVars, mVars, bVars
<1>13. CASE ResetA
  BY <1>13 DEF ResetA, syncVars, mVars, bVars
<1>14. CASE PutA
  BY <1>14 DEF PutA, syncVars, mVars, bVars
<1>15. CASE JudgeA
  BY <1>15 DEF JudgeA, syncVars, mVars, bVars
<1>16. CASE CheckA
  BY <1>16 DEF CheckA, syncVars, mVars, bVars
<1>17. CASE PublishA
  BY <1>17 DEF PublishA, mVars, MarkAsCompleteCancel, bVars
<1>18. CASE ReturnA
  BY <1>18 DEF ReturnA, syncVars, mVars, bVars
<1>19. CASE HeadB
  BY <1>19 DEF HeadB, syncVars, mVars, aVars
<1>20. CASE ConnectToReaderB
  BY <1>20 DEF ConnectToReaderB, syncVars, mVars, aVars
<1>21. CASE RefreshB
  BY <1>21 DEF RefreshB, syncVars, mVars, aVars
<1>22. CASE CachedB
  BY <1>22 DEF CachedB, syncVars, mVars, aVars
<1>23. CASE QueryB
  BY <1>23 DEF QueryB, syncVars, mVars, aVars
<1>24. CASE ResetB
  BY <1>24 DEF ResetB, syncVars, mVars, aVars
<1>25. CASE PutB
  BY <1>25 DEF PutB, syncVars, mVars, aVars
<1>26. CASE JudgeB
  BY <1>26 DEF JudgeB, syncVars, mVars, aVars
<1>27. CASE ConnectB
  BY <1>27 DEF ConnectB, syncVars, mVars, aVars
<1>28. CASE CleanUpB
  BY <1>28 DEF CleanUpB, syncVars, mVars, aVars
<1>29. CASE PublishB
  BY <1>29 DEF PublishB, mVars, MarkAsCompleteCancel, aVars
<1>30. CASE ReturnB
  BY <1>30 DEF ReturnB, syncVars, mVars, aVars
<1>31. CASE UNCHANGED vars
  BY <1>31 DEF vars, syncVars, aVars, bVars, mVars
<1> QED
  BY <1>1, <1>2, <1>3, <1>4, <1>5, <1>6, <1>7, <1>8, <1>9, <1>10, <1>11,
     <1>12, <1>13, <1>14, <1>15, <1>16, <1>17, <1>18, <1>19, <1>20, <1>21,
     <1>22, <1>23, <1>24, <1>25, <1>26, <1>27, <1>28, <1>29, <1>30, <1>31
     DEF Next, Main, TaskA, TaskB, Terminated

\* FAILOVER_WRITER_HANDLER::failover reports failure only after FAILOVER_TIMEOUT
\* has passed, or when it was called with a null or empty topology.
THEOREM GivesUpOnlyOnTimeout == Spec => []FailsOnlyOnTimeout
<1>1. Init => TypeOK /\ RaceInv /\ FailsOnlyOnTimeout
  BY InitTypeOK, InitRace
<1>2. TypeOK /\ RaceInv /\ FailsOnlyOnTimeout /\ [Next]_vars
        => (TypeOK /\ RaceInv /\ FailsOnlyOnTimeout)'
  BY NextTypeOK, NextRace
<1> QED
  BY <1>1, <1>2, PTL DEF Spec

-----------------------------------------------------------------------------
(* Who owns which connection.                                              *)

\* At the start no task holds a connection.
LEMMA InitOwnership == Init => OwnershipInv
BY NotConnectedType DEF Init, OwnershipInv, OwnA, OwnB, Apart, OwnResults, RunsA, RunsB

\* A step that deletes a connection is the only one to point at it.
LEMMA NextOwnership == TypeOK /\ RaceInv /\ OwnershipInv /\ [Next]_vars => OwnershipInv'
<1> SUFFICES ASSUME TypeOK, RaceInv, OwnershipInv, [Next]_vars
             PROVE  OwnA' /\ OwnB' /\ Apart' /\ OwnResults'
  BY DEF OwnershipInv
<1>a. /\ link \in [Conns -> {"none", "open", "lost"}]
      /\ peer \in [Conns -> Hosts \union {NULL}]
      /\ newA \in Conns \union {NULL} /\ newB \in Conns \union {NULL}
      /\ readerB \in Conns \union {NULL}
      /\ pcB # "idle" => topoB # NULL
      /\ resA \in Result /\ resB \in Result
      /\ pcM = "start" => pcA = "idle" /\ pcB = "idle"
  BY DEF TypeOK, RaceInv, PointerOrNull
<1> USE <1>a, NullAssumption, NotConnectedType
        DEF AtA, AtB, AtM, OwnershipInv, OwnA, OwnB, Apart, OwnResults, RunsA, RunsB,
            EndedA, EndedB, EndedPC, OriginalWriter,
            syncVars, connVars, aVars, bVars, mVars
<1>1. CASE RefuseTopology
  BY <1>1 DEF RefuseTopology, Return
<1>2. CASE NoOriginalWriter
  BY <1>2 DEF NoOriginalWriter, Return
<1>3. CASE StartTasks
  <2>1. OwnA'
    BY <1>3 DEF StartTasks
  <2>2. OwnB'
    BY <1>3 DEF StartTasks
  <2>3. Apart'
    BY <1>3 DEF StartTasks
  <2>4. OwnResults'
    BY <1>3 DEF StartTasks
  <2> QED
    BY <2>1, <2>2, <2>3, <2>4
<1>4. CASE Wait
  BY <1>4 DEF Wait
<1>5. CASE PollA
  <2>1. OwnA'
    BY <1>5 DEF PollA, Return
  <2>2. OwnB'
    BY <1>5 DEF PollA, Return
  <2>3. Apart'
    BY <1>5 DEF PollA, Return
  <2>4. OwnResults'
    BY <1>5 DEF PollA, Return
  <2> QED
    BY <2>1, <2>2, <2>3, <2>4
<1>6. CASE PollB
  <2>1. OwnA'
    BY <1>6 DEF PollB, Return
  <2>2. OwnB'
    BY <1>6 DEF PollB, Return
  <2>3. Apart'
    BY <1>6 DEF PollB, Return
  <2>4. OwnResults'
    BY <1>6 DEF PollB, Return
  <2> QED
    BY <2>1, <2>2, <2>3, <2>4
<1>7. CASE PollAgain
  BY <1>7 DEF PollAgain, Return
<1>8. CASE Expire
  BY <1>8 DEF Expire
<1>9. CASE HeadA
  <2>1. OwnA'
    BY <1>9 DEF HeadA, Delete
  <2>2. OwnB'
    BY <1>9 DEF HeadA, Delete
  <2>3. Apart'
    BY <1>9 DEF HeadA, Delete
  <2>4. OwnResults'
    BY <1>9 DEF HeadA, Delete
  <2> QED
    BY <2>1, <2>2, <2>3, <2>4
<1>10. CASE ConnectA
  <2>1. OwnA'
    BY <1>10 DEF ConnectA, Allocate
  <2>2. OwnB'
    BY <1>10 DEF ConnectA, Allocate
  <2>3. Apart'
    BY <1>10 DEF ConnectA, Allocate
  <2>4. OwnResults'
    BY <1>10 DEF ConnectA, Allocate
  <2> QED
    BY <2>1, <2>2, <2>3, <2>4
<1>11. CASE CachedA
  BY <1>11 DEF CachedA
<1>12. CASE QueryA
  <2>1. OwnA'
    BY <1>12 DEF QueryA, QueryFails
  <2>2. OwnB'
    BY <1>12 DEF QueryA, QueryFails
  <2>3. Apart'
    BY <1>12 DEF QueryA, QueryFails
  <2>4. OwnResults'
    BY <1>12 DEF QueryA, QueryFails
  <2> QED
    BY <2>1, <2>2, <2>3, <2>4
<1>13. CASE ResetA
  BY <1>13 DEF ResetA
<1>14. CASE PutA
  BY <1>14 DEF PutA
<1>15. CASE JudgeA
  <2>1. OwnA'
    BY <1>15 DEF JudgeA, Delete
  <2>2. OwnB'
    BY <1>15 DEF JudgeA, Delete
  <2>3. Apart'
    BY <1>15 DEF JudgeA, Delete
  <2>4. OwnResults'
    BY <1>15 DEF JudgeA, Delete
  <2> QED
    BY <2>1, <2>2, <2>3, <2>4
<1>16. CASE CheckA
  <2>1. OwnA'
    BY <1>16 DEF CheckA, Delete
  <2>2. OwnB'
    BY <1>16 DEF CheckA, Delete
  <2>3. Apart'
    BY <1>16 DEF CheckA, Delete
  <2>4. OwnResults'
    BY <1>16 DEF CheckA, Delete
  <2> QED
    BY <2>1, <2>2, <2>3, <2>4
<1>17. CASE PublishA
  <2>1. OwnA'
    BY <1>17 DEF PublishA
  <2>2. OwnB'
    BY <1>17 DEF PublishA
  <2>3. Apart'
    BY <1>17 DEF PublishA
  <2>4. OwnResults'
    BY <1>17 DEF PublishA
  <2> QED
    BY <2>1, <2>2, <2>3, <2>4
<1>18. CASE ReturnA
  BY <1>18 DEF ReturnA
<1>19. CASE HeadB
  <2>1. OwnA'
    BY <1>19 DEF HeadB, Delete, ReaderToCleanUp, IsConnected
  <2>2. OwnB'
    BY <1>19 DEF HeadB, Delete, ReaderToCleanUp, IsConnected
  <2>3. Apart'
    BY <1>19 DEF HeadB, Delete, ReaderToCleanUp, IsConnected
  <2>4. OwnResults'
    BY <1>19 DEF HeadB, Delete, ReaderToCleanUp, IsConnected
  <2> QED
    BY <2>1, <2>2, <2>3, <2>4
<1>20. CASE ConnectToReaderB
  <2>1. OwnA'
    BY <1>20 DEF ConnectToReaderB, Allocate
  <2>2. OwnB'
    BY <1>20 DEF ConnectToReaderB, Allocate
  <2>3. Apart'
    BY <1>20 DEF ConnectToReaderB, Allocate
  <2>4. OwnResults'
    BY <1>20 DEF ConnectToReaderB, Allocate
  <2> QED
    BY <2>1, <2>2, <2>3, <2>4
<1>21. CASE RefreshB
  BY <1>21 DEF RefreshB
<1>22. CASE CachedB
  BY <1>22 DEF CachedB
<1>23. CASE QueryB
  <2>1. OwnA'
    BY <1>23 DEF QueryB, QueryFails
  <2>2. OwnB'
    BY <1>23 DEF QueryB, QueryFails
  <2>3. Apart'
    BY <1>23 DEF QueryB, QueryFails
  <2>4. OwnResults'
    BY <1>23 DEF QueryB, QueryFails
  <2> QED
    BY <2>1, <2>2, <2>3, <2>4
<1>24. CASE ResetB
  BY <1>24 DEF ResetB
<1>25. CASE PutB
  BY <1>25 DEF PutB
<1>26. CASE JudgeB
  <2>1. OwnA'
    BY <1>26 DEF JudgeB
  <2>2. OwnB'
    BY <1>26 DEF JudgeB
  <2>3. Apart'
    BY <1>26 DEF JudgeB
  <2>4. OwnResults'
    BY <1>26 DEF JudgeB
  <2> QED
    BY <2>1, <2>2, <2>3, <2>4
<1>27. CASE ConnectB
  <2>1. OwnA'
    BY <1>27 DEF ConnectB, Allocate
  <2>2. OwnB'
    BY <1>27 DEF ConnectB, Allocate
  <2>3. Apart'
    BY <1>27 DEF ConnectB, Allocate
  <2>4. OwnResults'
    BY <1>27 DEF ConnectB, Allocate
  <2> QED
    BY <2>1, <2>2, <2>3, <2>4
<1>28. CASE CleanUpB
  <2>1. OwnA'
    BY <1>28 DEF CleanUpB, Delete, ReaderToCleanUp
  <2>2. OwnB'
    BY <1>28 DEF CleanUpB, Delete, ReaderToCleanUp
  <2>3. Apart'
    BY <1>28 DEF CleanUpB, Delete, ReaderToCleanUp
  <2>4. OwnResults'
    BY <1>28 DEF CleanUpB, Delete, ReaderToCleanUp
  <2> QED
    BY <2>1, <2>2, <2>3, <2>4
<1>29. CASE PublishB
  <2>1. OwnA'
    BY <1>29 DEF PublishB
  <2>2. OwnB'
    BY <1>29 DEF PublishB
  <2>3. Apart'
    BY <1>29 DEF PublishB
  <2>4. OwnResults'
    BY <1>29 DEF PublishB
  <2> QED
    BY <2>1, <2>2, <2>3, <2>4
<1>30. CASE ReturnB
  BY <1>30 DEF ReturnB
<1>31. CASE UNCHANGED vars
  BY <1>31 DEF vars
<1> QED
  BY <1>1, <1>2, <1>3, <1>4, <1>5, <1>6, <1>7, <1>8, <1>9, <1>10, <1>11,
     <1>12, <1>13, <1>14, <1>15, <1>16, <1>17, <1>18, <1>19, <1>20, <1>21,
     <1>22, <1>23, <1>24, <1>25, <1>26, <1>27, <1>28, <1>29, <1>30, <1>31
     DEF Next, Main, TaskA, TaskB, Terminated

\* No step of either task, of the caller or of their races makes the code use
\* or delete a connection that is gone already.
THEOREM ConnectionsNeverDangle == Spec => []NoDanglingConnection
<1>1. Init => TypeOK /\ RaceInv /\ FailsOnlyOnTimeout /\ OwnershipInv
  BY InitTypeOK, InitRace, InitOwnership
<1>2. TypeOK /\ RaceInv /\ FailsOnlyOnTimeout /\ OwnershipInv /\ [Next]_vars
        => (TypeOK /\ RaceInv /\ FailsOnlyOnTimeout /\ OwnershipInv)'
  BY NextTypeOK, NextRace, NextOwnership
<1>3. TypeOK /\ OwnershipInv => NoDanglingConnection
  BY DEF TypeOK, OwnershipInv, OwnA, OwnB, OwnResults, NoDanglingConnection,
         HeldA, HeldB, RunsA, RunsB, PointerOrNull
<1> QED
  BY <1>1, <1>2, <1>3, PTL DEF Spec

\* What failover() returns is consistent: connection, topology and is_new_host
\* tell the same story, whichever task won.
THEOREM ReturnedResultIsConsistent == Spec => []ResultNamesItsHost
<1>1. Init => TypeOK /\ RaceInv /\ FailsOnlyOnTimeout /\ OwnershipInv
  BY InitTypeOK, InitRace, InitOwnership
<1>2. TypeOK /\ RaceInv /\ FailsOnlyOnTimeout /\ OwnershipInv /\ [Next]_vars
        => (TypeOK /\ RaceInv /\ FailsOnlyOnTimeout /\ OwnershipInv)'
  BY NextTypeOK, NextRace, NextOwnership
<1>3. OwnershipInv => ResultNamesItsHost
  BY DEF OwnershipInv, OwnResults, ResultNamesItsHost
<1> QED
  BY <1>1, <1>2, <1>3, PTL DEF Spec

\* No two parties that both delete a connection hold the same one: follows from
\* who owns what.
THEOREM OwnersAreExclusive == Spec => []ExclusiveConnections
<1>1. Init => TypeOK /\ RaceInv /\ FailsOnlyOnTimeout /\ OwnershipInv
  BY InitTypeOK, InitRace, InitOwnership
<1>2. TypeOK /\ RaceInv /\ FailsOnlyOnTimeout /\ OwnershipInv /\ [Next]_vars
        => (TypeOK /\ RaceInv /\ FailsOnlyOnTimeout /\ OwnershipInv)'
  BY NextTypeOK, NextRace, NextOwnership
<1>3. OwnershipInv => ExclusiveConnections
  BY NullAssumption
     DEF OwnershipInv, OwnA, OwnB, Apart, OwnResults, ExclusiveConnections,
         HeldA, HeldB, RunsA, RunsB, EndedA, EndedB, EndedPC
<1> QED
  BY <1>1, <1>2, <1>3, PTL DEF Spec

-----------------------------------------------------------------------------
(* The cache                                                               *)

\* Why CacheNotLost holds: between reset() and the assignment a task has a
\* topology to assign, so whichever of two such tasks is first leaves one.
CacheInv ==
    /\ CacheNotLost
    /\ pcA \in {"reset", "put"} => latestA # NULL
    /\ pcB \in {"reset", "put"} => latestB # NULL

\* Every step keeps the cache, or is the reset() of a task with a topology.
LEMMA NextCache == RaceInv /\ CacheInv /\ [Next]_vars => CacheInv'
<1> SUFFICES ASSUME RaceInv, CacheInv, [Next]_vars PROVE CacheInv'
  OBVIOUS
<1>a. pcM = "start" => pcA = "idle" /\ pcB = "idle"
  BY DEF RaceInv
<1> USE NullAssumption, ViewsAssumption DEF CacheInv, CacheNotLost, AtA, AtB, AtM
<1>1. CASE Main \/ Expire
  BY <1>1, <1>a DEF Main, RefuseTopology, NoOriginalWriter, StartTasks, Wait, PollA, PollB,
              PollAgain, Expire, aVars, bVars
<1>2. CASE HeadA \/ ConnectA \/ CachedA \/ JudgeA \/ CheckA \/ PublishA \/ ReturnA
  BY <1>2 DEF HeadA, ConnectA, CachedA, JudgeA, CheckA, PublishA, ReturnA, bVars
<1>3. CASE QueryA \/ ResetA \/ PutA
  BY <1>3 DEF QueryA, ResetA, PutA, bVars
<1>4. CASE HeadB \/ ConnectToReaderB \/ RefreshB \/ CachedB \/ JudgeB \/ ConnectB \/ CleanUpB
           \/ PublishB \/ ReturnB
  BY <1>4 DEF HeadB, ConnectToReaderB, RefreshB, CachedB, JudgeB, ConnectB, CleanUpB,
              PublishB, ReturnB, aVars
<1>5. CASE QueryB \/ ResetB \/ PutB
  BY <1>5 DEF QueryB, ResetB, PutB, aVars
<1>6. CASE UNCHANGED vars
  BY <1>6 DEF vars, aVars, bVars
<1> QED
  BY <1>1, <1>2, <1>3, <1>4, <1>5, <1>6 DEF Next, TaskA, TaskB, Terminated

\* put_to_cache of the two tasks, interleaved in any way, never leaves the
\* cluster without a topology.
THEOREM CacheIsNotLost == Spec => []CacheNotLost
<1>1. Init => TypeOK /\ RaceInv /\ FailsOnlyOnTimeout /\ CacheInv
  <2>1. Init => CacheInv
    BY NullAssumption, ViewsAssumption DEF Init, CacheInv, CacheNotLost
  <2> QED
    BY <2>1, InitTypeOK, InitRace
<1>2. TypeOK /\ RaceInv /\ FailsOnlyOnTimeout /\ CacheInv /\ [Next]_vars
        => (TypeOK /\ RaceInv /\ FailsOnlyOnTimeout /\ CacheInv)'
  BY NextTypeOK, NextRace, NextCache
<1>3. CacheInv => CacheNotLost
  BY DEF CacheInv
<1> QED
  BY <1>1, <1>2, <1>3, PTL DEF Spec

-----------------------------------------------------------------------------
(* Leaks                                                                   *)

\* Every connection that works is pointed at, by a task or by a result, ...
Reachable == \A c \in Conns : link[c] = "open" =>
                 c \in {newA, newB, readerB, resA.connection, resB.connection}
\* ... a task that has not published has an empty result, ...
ResultsEmpty == /\ ~resA.connected => resA = NotConnected
                /\ ~resB.connected => resB = NotConnected
\* ... one that has ended points at what it published or at nothing, and TaskB
\* keeps the connection of a reader, outside of a round, only as its new one.
NothingKept ==
    /\ pcA = "return" => newA = resA.connection
    /\ pcA = "done" => newA \in {NULL, resA.connection}
    /\ pcB = "return" => newB = resB.connection
    /\ pcB = "done" => newB \in {NULL, resB.connection}
    /\ pcB \in {"idle", "head", "reader", "publish", "return", "done"} => readerB \in {NULL, newB}
\* A connection that exists is to a host.
PeersKnown == \A c \in Conns : link[c] # "none" => peer[c] \in Hosts
LeakInv == Reachable /\ ResultsEmpty /\ NothingKept /\ PeersKnown

\* At the start there are no connections.
LEMMA InitLeak == Init => LeakInv
BY DEF Init, LeakInv, Reachable, ResultsEmpty, NothingKept, PeersKnown

\* No step lets go of a connection that works.
LEMMA NextLeak == TypeOK /\ RaceInv /\ OwnershipInv /\ LeakInv /\ [Next]_vars => LeakInv'
<1> SUFFICES ASSUME TypeOK, RaceInv, OwnershipInv, LeakInv, [Next]_vars
             PROVE  Reachable' /\ ResultsEmpty' /\ NothingKept' /\ PeersKnown'
  BY DEF LeakInv
<1>a. /\ link \in [Conns -> {"none", "open", "lost"}]
      /\ peer \in [Conns -> Hosts \union {NULL}]
      /\ newA \in Conns \union {NULL} /\ newB \in Conns \union {NULL}
      /\ readerB \in Conns \union {NULL}
      /\ resA.connection \in Conns \union {NULL} /\ resB.connection \in Conns \union {NULL}
      /\ pcA # "idle" => arg.writer \in Hosts
      /\ pcB # "idle" => topoB.readers \subseteq Hosts /\ topoB.writer \in Hosts \union {NULL}
  BY TopologyFields DEF TypeOK, PointerOrNull, Result
<1>b. /\ pcA \in {"idle", "head", "connect"} => newA = NULL
      /\ pcB \in {"reader", "refresh", "cached", "query", "reset", "put", "judge", "connect"} =>
             (newB # NULL => link[newB] = "lost")
      /\ pcB = "connect" => topoB.writer # NULL
      /\ resA.connected => pcA \in {"return", "done"}
      /\ resB.connected => pcB \in {"return", "done"}
      /\ pcM = "start" => pcA = "idle" /\ pcB = "idle"
      /\ pcA = "query" => link[newA] # "none"
      /\ pcB = "query" /\ readerB # NULL => link[readerB] # "none"
      /\ NotConnected.connection = NULL /\ NotConnected.connected = FALSE
  BY DEF RaceInv, OwnershipInv, OwnA, OwnB, OwnResults, RunsA, RunsB, EndedA, EndedB, EndedPC,
         NotConnected
<1>c. Reachable /\ ResultsEmpty /\ NothingKept /\ PeersKnown
  BY DEF LeakInv
<1> USE <1>a, <1>b, <1>c, NullAssumption
        DEF AtA, AtB, AtM, syncVars, connVars, aVars, bVars, mVars
<1>1. CASE RefuseTopology \/ NoOriginalWriter \/ Wait \/ PollA \/ PollB \/ PollAgain \/ Expire
  <2>1. Reachable'
    BY <1>1 DEF Reachable, ResultsEmpty, NothingKept, RefuseTopology, NoOriginalWriter, Wait, PollA, PollB, PollAgain, Expire
  <2>2. ResultsEmpty'
    BY <1>1 DEF ResultsEmpty, RefuseTopology, NoOriginalWriter, Wait, PollA, PollB, PollAgain, Expire
  <2>3. NothingKept'
    BY <1>1 DEF NothingKept, RefuseTopology, NoOriginalWriter, Wait, PollA, PollB, PollAgain, Expire
  <2>4. PeersKnown'
    BY <1>1 DEF PeersKnown, RefuseTopology, NoOriginalWriter, Wait, PollA, PollB, PollAgain, Expire
  <2> QED
    BY <2>1, <2>2, <2>3, <2>4
<1>2. CASE StartTasks
  <2>1. Reachable'
    BY <1>2 DEF Reachable, ResultsEmpty, NothingKept, StartTasks
  <2>2. ResultsEmpty'
    BY <1>2 DEF ResultsEmpty, StartTasks
  <2>3. NothingKept'
    BY <1>2 DEF NothingKept, StartTasks
  <2>4. PeersKnown'
    BY <1>2 DEF PeersKnown, StartTasks
  <2> QED
    BY <2>1, <2>2, <2>3, <2>4
<1>3. CASE HeadA
  <2>1. Reachable'
    BY <1>3 DEF Reachable, ResultsEmpty, NothingKept, HeadA, Delete
  <2>2. ResultsEmpty'
    BY <1>3 DEF ResultsEmpty, HeadA, Delete
  <2>3. NothingKept'
    BY <1>3 DEF NothingKept, HeadA, Delete
  <2>4. PeersKnown'
    BY <1>3 DEF PeersKnown, HeadA, Delete
  <2> QED
    BY <2>1, <2>2, <2>3, <2>4
<1>4. CASE ConnectA
  <2>1. Reachable'
    BY <1>4 DEF Reachable, ResultsEmpty, NothingKept, ConnectA, Allocate, OriginalWriter
  <2>2. ResultsEmpty'
    BY <1>4 DEF ResultsEmpty, ConnectA, Allocate, OriginalWriter
  <2>3. NothingKept'
    BY <1>4 DEF NothingKept, ConnectA, Allocate, OriginalWriter
  <2>4. PeersKnown'
    BY <1>4 DEF PeersKnown, ConnectA, Allocate, OriginalWriter
  <2> QED
    BY <2>1, <2>2, <2>3, <2>4
<1>5. CASE CachedA \/ ResetA \/ PutA
  <2>1. Reachable'
    BY <1>5 DEF Reachable, ResultsEmpty, NothingKept, CachedA, ResetA, PutA
  <2>2. ResultsEmpty'
    BY <1>5 DEF ResultsEmpty, CachedA, ResetA, PutA
  <2>3. NothingKept'
    BY <1>5 DEF NothingKept, CachedA, ResetA, PutA
  <2>4. PeersKnown'
    BY <1>5 DEF PeersKnown, CachedA, ResetA, PutA
  <2> QED
    BY <2>1, <2>2, <2>3, <2>4
<1>6. CASE QueryA
  <2>1. Reachable'
    BY <1>6 DEF Reachable, ResultsEmpty, NothingKept, QueryA, QueryFails
  <2>2. ResultsEmpty'
    BY <1>6 DEF ResultsEmpty, QueryA, QueryFails
  <2>3. NothingKept'
    BY <1>6 DEF NothingKept, QueryA, QueryFails
  <2>4. PeersKnown'
    BY <1>6 DEF PeersKnown, QueryA, QueryFails
  <2> QED
    BY <2>1, <2>2, <2>3, <2>4
<1>7. CASE JudgeA
  <2>1. Reachable'
    BY <1>7 DEF Reachable, ResultsEmpty, NothingKept, JudgeA, Delete
  <2>2. ResultsEmpty'
    BY <1>7 DEF ResultsEmpty, JudgeA, Delete
  <2>3. NothingKept'
    BY <1>7 DEF NothingKept, JudgeA, Delete
  <2>4. PeersKnown'
    BY <1>7 DEF PeersKnown, JudgeA, Delete
  <2> QED
    BY <2>1, <2>2, <2>3, <2>4
<1>8. CASE CheckA
  <2>1. Reachable'
    BY <1>8 DEF Reachable, ResultsEmpty, NothingKept, CheckA, Delete
  <2>2. ResultsEmpty'
    BY <1>8 DEF ResultsEmpty, CheckA, Delete
  <2>3. NothingKept'
    BY <1>8 DEF NothingKept, CheckA, Delete
  <2>4. PeersKnown'
    BY <1>8 DEF PeersKnown, CheckA, Delete
  <2> QED
    BY <2>1, <2>2, <2>3, <2>4
<1>9. CASE PublishA
  <2>1. Reachable'
    BY <1>9 DEF Reachable, ResultsEmpty, NothingKept, PublishA
  <2>2. ResultsEmpty'
    BY <1>9 DEF ResultsEmpty, PublishA
  <2>3. NothingKept'
    BY <1>9 DEF NothingKept, PublishA
  <2>4. PeersKnown'
    BY <1>9 DEF PeersKnown, PublishA
  <2> QED
    BY <2>1, <2>2, <2>3, <2>4
<1>10. CASE ReturnA
  <2>1. Reachable'
    BY <1>10 DEF Reachable, ResultsEmpty, NothingKept, ReturnA
  <2>2. ResultsEmpty'
    BY <1>10 DEF ResultsEmpty, ReturnA
  <2>3. NothingKept'
    BY <1>10 DEF NothingKept, ReturnA
  <2>4. PeersKnown'
    BY <1>10 DEF PeersKnown, ReturnA
  <2> QED
    BY <2>1, <2>2, <2>3, <2>4
<1>11. CASE HeadB
  <2>1. Reachable'
    BY <1>11 DEF Reachable, ResultsEmpty, NothingKept, HeadB, Delete, ReaderToCleanUp
  <2>2. ResultsEmpty'
    BY <1>11 DEF ResultsEmpty, HeadB, Delete, ReaderToCleanUp
  <2>3. NothingKept'
    BY <1>11 DEF NothingKept, HeadB, Delete, ReaderToCleanUp
  <2>4. PeersKnown'
    BY <1>11 DEF PeersKnown, HeadB, Delete, ReaderToCleanUp
  <2> QED
    BY <2>1, <2>2, <2>3, <2>4
<1>12. CASE ConnectToReaderB
  <2>1. Reachable'
    BY <1>12 DEF Reachable, ResultsEmpty, NothingKept, ConnectToReaderB, Allocate
  <2>2. ResultsEmpty'
    BY <1>12 DEF ResultsEmpty, ConnectToReaderB, Allocate
  <2>3. NothingKept'
    BY <1>12 DEF NothingKept, ConnectToReaderB, Allocate
  <2>4. PeersKnown'
    BY <1>12 DEF PeersKnown, ConnectToReaderB, Allocate
  <2> QED
    BY <2>1, <2>2, <2>3, <2>4
<1>13. CASE RefreshB \/ CachedB \/ ResetB \/ PutB \/ JudgeB
  <2>1. Reachable'
    BY <1>13 DEF Reachable, ResultsEmpty, NothingKept, RefreshB, CachedB, ResetB, PutB, JudgeB
  <2>2. ResultsEmpty'
    BY <1>13 DEF ResultsEmpty, RefreshB, CachedB, ResetB, PutB, JudgeB
  <2>3. NothingKept'
    BY <1>13 DEF NothingKept, RefreshB, CachedB, ResetB, PutB, JudgeB
  <2>4. PeersKnown'
    BY <1>13 DEF PeersKnown, RefreshB, CachedB, ResetB, PutB, JudgeB
  <2> QED
    BY <2>1, <2>2, <2>3, <2>4
<1>14. CASE QueryB
  <2>1. Reachable'
    BY <1>14 DEF Reachable, ResultsEmpty, NothingKept, QueryB, QueryFails
  <2>2. ResultsEmpty'
    BY <1>14 DEF ResultsEmpty, QueryB, QueryFails
  <2>3. NothingKept'
    BY <1>14 DEF NothingKept, QueryB, QueryFails
  <2>4. PeersKnown'
    BY <1>14 DEF PeersKnown, QueryB, QueryFails
  <2> QED
    BY <2>1, <2>2, <2>3, <2>4
<1>15. CASE ConnectB
  <2>1. Reachable'
    BY <1>15 DEF Reachable, ResultsEmpty, NothingKept, ConnectB, Allocate
  <2>2. ResultsEmpty'
    BY <1>15 DEF ResultsEmpty, ConnectB, Allocate
  <2>3. NothingKept'
    BY <1>15 DEF NothingKept, ConnectB, Allocate
  <2>4. PeersKnown'
    BY <1>15 DEF PeersKnown, ConnectB, Allocate
  <2> QED
    BY <2>1, <2>2, <2>3, <2>4
<1>16. CASE CleanUpB
  <2>1. Reachable'
    BY <1>16 DEF Reachable, ResultsEmpty, NothingKept, CleanUpB, Delete, ReaderToCleanUp
  <2>2. ResultsEmpty'
    BY <1>16 DEF ResultsEmpty, CleanUpB, Delete, ReaderToCleanUp
  <2>3. NothingKept'
    BY <1>16 DEF NothingKept, CleanUpB, Delete, ReaderToCleanUp
  <2>4. PeersKnown'
    BY <1>16 DEF PeersKnown, CleanUpB, Delete, ReaderToCleanUp
  <2> QED
    BY <2>1, <2>2, <2>3, <2>4
<1>17. CASE PublishB
  <2>1. Reachable'
    BY <1>17 DEF Reachable, ResultsEmpty, NothingKept, PublishB
  <2>2. ResultsEmpty'
    BY <1>17 DEF ResultsEmpty, PublishB
  <2>3. NothingKept'
    BY <1>17 DEF NothingKept, PublishB
  <2>4. PeersKnown'
    BY <1>17 DEF PeersKnown, PublishB
  <2> QED
    BY <2>1, <2>2, <2>3, <2>4
<1>18. CASE ReturnB
  <2>1. Reachable'
    BY <1>18 DEF Reachable, ResultsEmpty, NothingKept, ReturnB
  <2>2. ResultsEmpty'
    BY <1>18 DEF ResultsEmpty, ReturnB
  <2>3. NothingKept'
    BY <1>18 DEF NothingKept, ReturnB
  <2>4. PeersKnown'
    BY <1>18 DEF PeersKnown, ReturnB
  <2> QED
    BY <2>1, <2>2, <2>3, <2>4
<1>19. CASE UNCHANGED vars
  <2>1. Reachable'
    BY <1>19 DEF Reachable, ResultsEmpty, NothingKept, vars
  <2>2. ResultsEmpty'
    BY <1>19 DEF ResultsEmpty, vars
  <2>3. NothingKept'
    BY <1>19 DEF NothingKept, vars
  <2>4. PeersKnown'
    BY <1>19 DEF PeersKnown, vars
  <2> QED
    BY <2>1, <2>2, <2>3, <2>4
<1> QED
  BY <1>1, <1>2, <1>3, <1>4, <1>5, <1>6, <1>7, <1>8, <1>9, <1>10, <1>11, <1>12, <1>13, <1>14, <1>15, <1>16, <1>17, <1>18, <1>19
     DEF Next, Main, TaskA, TaskB, Terminated

\* Once all has ended, a connection that is still open belongs to a published
\* result or to a task that threw.
THEOREM OnlyLosersLeakConnections == Spec => []OnlyLosersLeak
<1>1. Init => TypeOK /\ RaceInv /\ FailsOnlyOnTimeout /\ OwnershipInv /\ LeakInv
  BY InitTypeOK, InitRace, InitOwnership, InitLeak
<1>2. TypeOK /\ RaceInv /\ FailsOnlyOnTimeout /\ OwnershipInv /\ LeakInv /\ [Next]_vars
        => (TypeOK /\ RaceInv /\ FailsOnlyOnTimeout /\ OwnershipInv /\ LeakInv)'
  BY NextTypeOK, NextRace, NextOwnership, NextLeak
<1>3. OwnershipInv /\ LeakInv => OnlyLosersLeak
  BY NullAssumption
     DEF OwnershipInv, OwnA, OwnB, LeakInv, Reachable, NothingKept, OnlyLosersLeak, Ended, EndedPC
<1> QED
  BY <1>1, <1>2, <1>3, PTL DEF Spec

-----------------------------------------------------------------------------
(* failover() implements FailoverCall (its safety part).                   *)

\* How the call ends: once, with a connection or without.
ReturnInv ==
    /\ pcM # "done" => outcome = "none" /\ ret = NotConnected
    /\ pcM = "done" => outcome \in {"connected", "failed", "threw"}
    /\ pcM = "done" => (outcome = "connected" <=> ret.connected)

\* What a step may do to the caller: nothing, apart from bringing the process
\* down; go on; or return.
LEMMA CallerSteps ==
    ASSUME TypeOK, ReturnInv, [Next]_vars
    PROVE  \/ UNCHANGED <<pcM, outcome, ret>> /\ (Crashed => Crashed')
           \/ pcM # "done" /\ pcM' # "done" /\ ~Crashed /\ ~Crashed' /\ UNCHANGED <<outcome, ret>>
           \/ /\ pcM # "done" /\ pcM' = "done" /\ ~Crashed /\ ~Crashed'
              /\ \/ outcome' = "connected" /\ ret'.connected
                 \/ outcome' \in {"failed", "threw"} /\ ret' = NotConnected
<1> USE DEF AtA, AtB, AtM
<1>1. CASE RefuseTopology \/ NoOriginalWriter \/ PollAgain
  BY <1>1 DEF RefuseTopology, NoOriginalWriter, PollAgain, Return, Crashed, aVars, bVars
<1>2. CASE StartTasks \/ Wait
  BY <1>2 DEF StartTasks, Wait, Crashed, aVars, bVars
<1>3. CASE PollA \/ PollB
  BY <1>3 DEF PollA, PollB, Return, Crashed, aVars, bVars
<1>4. CASE Expire
  BY <1>4 DEF Expire, Crashed, aVars, bVars, mVars
<1>5. CASE TaskA
  BY <1>5 DEF TaskA, HeadA, ConnectA, CachedA, QueryA, ResetA, PutA, JudgeA, CheckA,
              PublishA, ReturnA, mVars
<1>6. CASE TaskB
  BY <1>6 DEF TaskB, HeadB, ConnectToReaderB, RefreshB, CachedB, QueryB, ResetB, PutB, JudgeB,
              ConnectB, CleanUpB, PublishB, ReturnB, mVars
<1>7. CASE UNCHANGED vars
  BY <1>7 DEF vars, aVars, bVars, mVars, Crashed
<1> QED
  BY <1>1, <1>2, <1>3, <1>4, <1>5, <1>6, <1>7 DEF Next, Main, Terminated

LEMMA NextReturn == TypeOK /\ ReturnInv /\ [Next]_vars => ReturnInv'
BY CallerSteps, NotConnectedType DEF ReturnInv

\* What the mapping to FailoverCall needs of a state.
MappingInv ==
    /\ TypeOK /\ RaceInv /\ FailsOnlyOnTimeout /\ OwnershipInv /\ LeakInv /\ ReturnInv

\* The connection of a returned result exists, and is to the writer of its topology.
LEMMA ReturnedConnection ==
    ASSUME MappingInv, ret.connected
    PROVE  /\ link[ret.connection] # "none"
           /\ peer[ret.connection] = ret.topology.writer
           /\ peer[ret.connection] \in Hosts
BY DEF MappingInv, OwnershipInv, OwnResults, LeakInv, PeersKnown

\* failover() returns once, in one of the ways of FailoverCall, with a connection
\* to a host; neither the outcome nor that connection changes afterwards, whatever
\* the tasks that are still running do, unless one of them brings the process down.
THEOREM ImplementsFailoverCall == Spec => FC!Init /\ [][FC!Next]_(FC!vars)
<1>1. Init => MappingInv
  <2>1. Init => ReturnInv
    BY DEF Init, ReturnInv
  <2> QED
    BY <2>1, InitTypeOK, InitRace, InitOwnership, InitLeak DEF MappingInv
<1>2. MappingInv /\ [Next]_vars => MappingInv'
  BY NextTypeOK, NextRace, NextOwnership, NextLeak, NextReturn DEF MappingInv
<1>3. Init => FC!Init
  BY NotConnectedType DEF Init, FC!Init, Crashed
<1>4. MappingInv /\ MappingInv' /\ [Next]_vars => [FC!Next]_(FC!vars)
  <2> SUFFICES ASSUME MappingInv, MappingInv', [Next]_vars
               PROVE  FC!Next \/ UNCHANGED FC!vars
    OBVIOUS
  <2>1. ret.connected => /\ link[ret.connection] # "none"
                         /\ peer[ret.connection] = ret.topology.writer
    BY ReturnedConnection
  <2>2. ret'.connected => /\ link'[ret'.connection] # "none"
                          /\ peer'[ret'.connection] = ret'.topology.writer
                          /\ peer'[ret'.connection] \in Hosts
    BY DEF MappingInv, OwnershipInv, OwnResults, LeakInv, PeersKnown
  <2>3. TypeOK /\ ReturnInv /\ ReturnInv'
    BY DEF MappingInv
  <2>4. CASE UNCHANGED <<pcM, outcome, ret>> /\ (Crashed => Crashed')
    BY <2>1, <2>2, <2>3, <2>4 DEF ReturnInv, FC!Next, FC!Crash, FC!vars
  <2>5. CASE pcM # "done" /\ pcM' # "done" /\ ~Crashed /\ ~Crashed' /\ UNCHANGED <<outcome, ret>>
    BY <2>1, <2>2, <2>3, <2>5, NotConnectedType DEF ReturnInv, FC!vars
  <2>6. CASE /\ pcM # "done" /\ pcM' = "done" /\ ~Crashed /\ ~Crashed'
             /\ outcome' = "connected" /\ ret'.connected
    BY <2>1, <2>2, <2>3, <2>6, NotConnectedType DEF ReturnInv, FC!Next, FC!Succeed
  <2>7. CASE /\ pcM # "done" /\ pcM' = "done" /\ ~Crashed /\ ~Crashed'
             /\ outcome' \in {"failed", "threw"} /\ ret' = NotConnected
    BY <2>1, <2>2, <2>3, <2>7, NotConnectedType DEF ReturnInv, FC!Next, FC!GiveUp
  <2> QED
    BY <2>3, <2>4, <2>5, <2>6, <2>7, CallerSteps
<1> QED
  BY <1>1, <1>2, <1>3, <1>4, PTL DEF Spec
=============================================================================
