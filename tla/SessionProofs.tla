---------------------------- MODULE SessionProofs ----------------------------
(***************************************************************************)
(* Proofs about Session, for any cluster, any limits and any statements.   *)
(*                                                                         *)
(* SessionInv is inductive: the driver knows of every visible transaction  *)
(* of its session (TransactionKnown) because every step that can make one  *)
(* open sets transaction_open or needs autocommit off, and every step that *)
(* resets transaction_open leaves a session without a transaction.         *)
(* ChangeReported needs MovedInv, which says at which labels a call can    *)
(* already have another connection than it started with.                   *)
(*                                                                         *)
(* LostTransactionReported holds as long as SQL_ATTR_MAX_ROWS is not used: *)
(* the first statement sets the limit, before there is a transaction, and  *)
(* no later one sets it, so that no failover happens there (LostInv).      *)
(***************************************************************************)
EXTENDS Session, TLAPS

Changed == {"08S02", "08007"}

\* The arguments of a call, and the calls that reach a label.
CallInv ==
    /\ call \in {"end dbc", "end env"} => text \in {"commit", "rollback"}
    /\ call \in {"direct", "ssps"} => text \in Texts
    /\ call = "ssps" => text # "begin"
    /\ pc = "limit" => call \in {"direct", "ssps", "catalog", "prepare"}
    /\ pc \in {"alive", "result", "exit"} => call \in {"direct", "ssps"}
    /\ pc = "prepare" => call = "prepare"

\* Before a call ends, only set_sql_select_limit can have replaced the connection.
MovedInv ==
    pc # "idle" /\ moved => pc = "prepare" \/ (pc = "exit" /\ sqlstate \in Changed)

SessionInv == TypeOK /\ CallInv /\ TransactionKnown /\ MovedInv /\ ChangeReported

\* What a failover leaves: a new session or the old one, closed if it was lost,
\* and an error of class 08 when the connection changed.
TriggerResult(e) ==
    /\ conn' \in Connection /\ current_topology' \in Hosts
    /\ moved' \in BOOLEAN /\ lost' \in BOOLEAN
    /\ searching' \in BOOLEAN /\ filtered' \subseteq Hosts
    /\ sqlstate' \in {"08S01", e} \union Changed
    /\ conn' = Dropped(conn) \/ (\E h \in Hosts : conn' = Fresh(h))
    /\ moved' => moved \/ sqlstate' \in Changed
    /\ lost' => lost \/ Visible(conn)
    /\ in_transaction /\ sqlstate' = "08S02" => e = "08S02" /\ ~enabled
    /\ ~enabled => sqlstate' = e

\* trigger_failover_if_needed leaves nothing else, whichever failover it runs.
LEMMA TriggerEffect ==
    ASSUME TypeOK, NEW e \in SqlStates, TriggerFailover(e)
    PROVE TriggerResult(e)
<1> USE DEF TypeOK, SettingsOK, LinkOK, Changed, TriggerResult
<1>1. ASSUME NEW h \in Hosts, UpdateConnection(h)
      PROVE /\ conn' \in Connection /\ moved' \in BOOLEAN /\ lost' \in BOOLEAN
            /\ sqlstate' \in Changed /\ conn' = Fresh(h)
            /\ lost' => lost \/ Visible(conn)
            /\ in_transaction => sqlstate' = "08007"
  BY <1>1 DEF UpdateConnection, Fresh, Connection
<1>2. ASSUME NEW x, Keep(x)
      PROVE /\ conn' \in Connection /\ moved' = moved /\ lost' \in BOOLEAN
            /\ sqlstate' = x /\ conn' = Dropped(conn)
            /\ lost' => lost \/ Visible(conn)
  BY <1>2 DEF Keep, Dropped, Connection
<1>3. CASE ~enabled
  BY <1>2, <1>3 DEF TriggerFailover, search
<1>4. CASE enabled /\ FailoverToReader
  <2>1. searching' \in BOOLEAN /\ filtered' \subseteq Hosts /\ UNCHANGED current_topology
    BY <1>4 DEF FailoverToReader
  <2>2. ASSUME NEW h \in Hosts, UpdateConnection(h)
        PROVE TriggerResult(e)
    BY <1>4, <1>1, <2>1, <2>2
  <2>3. CASE Keep("08S01")
    BY <1>4, <1>2, <2>1, <2>3
  <2> QED
    BY <1>4, <2>2, <2>3 DEF FailoverToReader
<1>5. CASE enabled /\ FailoverToWriter
  <2>0. searching' \in BOOLEAN /\ filtered' \subseteq Hosts
    BY <1>5 DEF FailoverToWriter, search
  <2>1. CASE Keep("08S01") /\ UNCHANGED current_topology
    BY <1>5, <1>2, <2>0, <2>1
  <2>2. CASE UpdateConnection(current_topology) /\ UNCHANGED current_topology
    BY <1>5, <1>1, <2>0, <2>2
  <2>3. CASE Keep(IF in_transaction THEN "08007" ELSE "08S02") /\ UNCHANGED current_topology
    BY <1>5, <1>2, <2>0, <2>3
  <2>4. ASSUME NEW h \in Hosts, current_topology' = h,
               UpdateConnection(h) \/ Keep("08S01")
        PROVE TriggerResult(e)
    BY <1>5, <1>1, <1>2, <2>0, <2>4
  <2> QED
    BY <1>5, <2>1, <2>2, <2>3, <2>4 DEF FailoverToWriter
<1> QED
  BY <1>3, <1>4, <1>5 DEF TriggerFailover

\* A call that execute_query ends: what it leaves is that of a failover, or nothing
\* has changed because the connection was closed.
LEMMA ExecuteFailsEffect ==
    ASSUME TypeOK, NEW e \in SqlStates, ExecuteFails(e)
    PROVE /\ LinkOK' /\ transaction_open' \in BOOLEAN
          /\ sqlstate' \in {"08S01", e} \union Changed
          /\ TransactionKnown => TransactionKnown'
          /\ moved' => moved \/ sqlstate' \in Changed
          /\ lost' => lost \/ Visible(conn)
          /\ in_transaction /\ sqlstate' = "08S02" => e = "08S02"
          /\ ~enabled => sqlstate' \in {"08S01", e}
          /\ conn'.trx => conn.trx
<1>1. CASE ~conn.open /\ sqlstate' = "08S01" /\ UNCHANGED <<link, transaction_open>>
  BY <1>1 DEF link, TypeOK, LinkOK, DbcOK, TransactionKnown
<1>2. CASE conn.open /\ ~conn.alive /\ TriggerFailover(e) /\ transaction_open' = FALSE
  <2>1. TriggerResult(e)
    BY <1>2, TriggerEffect
  <2>2. ~conn'.trx
    <3>1. CASE conn' = Dropped(conn)
      <4>1. conn' = [conn EXCEPT !.open = FALSE, !.trx = FALSE, !.unseen = FALSE]
        BY <1>2, <3>1 DEF Dropped
      <4> QED
        BY <4>1 DEF TypeOK, LinkOK, Connection
    <3>2. CASE \E h \in Hosts : conn' = Fresh(h)
      BY <3>2 DEF Fresh
    <3> QED
      BY <2>1, <3>1, <3>2 DEF TriggerResult
  <2> QED
    BY <1>2, <2>1, <2>2 DEF TriggerResult, LinkOK, TransactionKnown, Visible
<1> QED
  BY <1>1, <1>2 DEF ExecuteFails

\* A failover that leaves transaction_open alone does not open a transaction.
LEMMA TriggerKeepsKnown ==
    ASSUME TypeOK, NEW e \in SqlStates, TriggerFailover(e),
           UNCHANGED transaction_open
    PROVE TransactionKnown => TransactionKnown'
<1>1. TriggerResult(e)
  BY TriggerEffect
<1>2. CASE conn' = Dropped(conn)
  BY <1>2 DEF Dropped, TransactionKnown, Visible, TypeOK, LinkOK, Connection
<1>3. CASE \E h \in Hosts : conn' = Fresh(h)
  BY <1>3 DEF Fresh, TransactionKnown, Visible
<1> QED
  BY <1>1, <1>2, <1>3 DEF TriggerResult

\* A step that leaves the connection alone, or closes it, opens no transaction.
LEMMA KeepKeepsKnown ==
    ASSUME TypeOK, NEW x, Keep(x), UNCHANGED <<transaction_open, current_topology, search>>
    PROVE LinkOK' /\ (TransactionKnown => TransactionKnown')
BY DEF Keep, Dropped, TypeOK, LinkOK, Connection, TransactionKnown, Visible, search

\* A connection that has just been opened satisfies the invariant.
LEMMA SessionInvInit == Init => SessionInv
<1> SUFFICES ASSUME Init PROVE SessionInv
  OBVIOUS
<1> USE DEF Init
<1>1. PICK h \in Hosts : conn = Fresh(h)
  OBVIOUS
<1>2. conn \in Connection /\ ~conn.trx
  BY <1>1 DEF Fresh, Connection
<1>3. TypeOK
  BY <1>2 DEF TypeOK, SettingsOK, LinkOK, DbcOK, CallOK, ErrorOK, Calls, Kinds, SqlStates
<1> QED
  BY <1>2, <1>3 DEF SessionInv, CallInv, TransactionKnown, Visible, MovedInv, ChangeReported

\* Every step of a call, of the application and of the cluster keeps the invariant.
LEMMA SessionInvNext ==
    ASSUME SessionInv, [Next]_vars
    PROVE SessionInv'
<1>1. /\ TypeOK /\ SettingsOK /\ LinkOK /\ DbcOK /\ CallOK /\ ErrorOK
      /\ CallInv /\ TransactionKnown /\ MovedInv /\ ChangeReported
  BY DEF SessionInv, TypeOK
<1>2. CASE UNCHANGED vars
  <2>1. TypeOK'
    BY <1>1, <1>2 DEF vars, settings, lists, search, args, TypeOK, SettingsOK, LinkOK, DbcOK, CallOK, ErrorOK
  <2>2. CallInv' /\ TransactionKnown' /\ MovedInv' /\ ChangeReported'
    BY <1>1, <1>2 DEF vars, args, CallInv, TransactionKnown, MovedInv, ChangeReported
  <2> QED
    BY <2>1, <2>2 DEF SessionInv
<1>3. CASE Application
  <2>1. PICK c \in Calls, t \in Kinds \union {"on", "off"}, n \in MaxRows \union {0} :
          /\ Start(c, t, n)
          /\ c \in {"direct", "ssps"} => t \in Texts
          /\ c \in {"end dbc", "end env"} => t \in {"commit", "rollback"}
          /\ c = "ssps" => t # "begin"
    BY <1>3, TextsAssumption DEF Application, Calls, Kinds
  <2>2. SettingsOK' /\ LinkOK' /\ DbcOK' /\ ErrorOK'
    BY <1>1, <2>1 DEF Start, settings, lists, search, SettingsOK, LinkOK, DbcOK, ErrorOK, SqlStates
  <2>3. CallOK'
    BY <1>1, <2>1 DEF Start, CallOK
  <2>4. CallInv'
    BY <1>1, <2>1 DEF Start, CallInv
  <2>5. TransactionKnown' /\ MovedInv' /\ ChangeReported'
    BY <1>1, <2>1 DEF Start, TransactionKnown, MovedInv, ChangeReported
  <2> QED
    BY <2>2, <2>3, <2>4, <2>5 DEF SessionInv, TypeOK
<1>4. CASE LimitKnown
  <2>1. SettingsOK' /\ DbcOK'
    BY <1>1, <1>4 DEF LimitKnown, settings, lists, SettingsOK, DbcOK
  <2>2. LinkOK'
    BY <1>1, <1>4 DEF LimitKnown, link, LinkOK
  <2>3. CallOK' /\ ErrorOK'
    BY <1>1, <1>4 DEF LimitKnown, AfterLimit, Goto, link, args, CallInv, CallOK, ErrorOK, SqlStates
  <2>4. CallInv' /\ MovedInv' /\ ChangeReported'
    BY <1>1, <1>4 DEF LimitKnown, AfterLimit, Goto, link, args, CallInv, MovedInv,
       ChangeReported
  <2>5. TransactionKnown'
    BY <1>1, <1>4 DEF TransactionKnown, LimitKnown, link
  <2> QED
    BY <2>1, <2>2, <2>3, <2>4, <2>5 DEF SessionInv, TypeOK
<1>5. CASE LimitSet
  <2>1. SettingsOK' /\ DbcOK'
    BY <1>1, <1>5 DEF LimitSet, settings, lists, SettingsOK, DbcOK, Limit, CallOK
  <2>2. LinkOK'
    BY <1>1, <1>5 DEF LimitSet, Limit, CallOK, LinkOK, Connection, search
  <2>3. CallOK' /\ ErrorOK'
    BY <1>1, <1>5 DEF LimitSet, AfterLimit, Goto, args, CallInv, CallOK, ErrorOK, SqlStates
  <2>4. CallInv' /\ MovedInv' /\ ChangeReported'
    BY <1>1, <1>5 DEF LimitSet, AfterLimit, Goto, args, CallInv, MovedInv, ChangeReported
  <2>5. TransactionKnown'
    BY <1>1, <1>5 DEF TransactionKnown, LimitSet, LinkOK, Connection, Visible, search
  <2> QED
    BY <2>1, <2>2, <2>3, <2>4, <2>5 DEF SessionInv, TypeOK
<1>6. CASE LimitFails
  <2>1. SettingsOK' /\ DbcOK'
    BY <1>1, <1>6, ExecuteFailsEffect DEF LimitFails, settings, lists, SettingsOK, DbcOK, SqlStates
  <2>2. LinkOK'
    BY <1>1, <1>6, ExecuteFailsEffect DEF LimitFails, SqlStates
  <2>3. CallOK' /\ ErrorOK'
    BY <1>1, <1>6, ExecuteFailsEffect DEF LimitFails, Goto, Return, Changed, args, CallInv, CallOK,
       ErrorOK, SqlStates
  <2>4. CallInv' /\ MovedInv' /\ ChangeReported'
    BY <1>1, <1>6, ExecuteFailsEffect DEF LimitFails, Goto, Return, Changed, args, CallInv,
       MovedInv, ChangeReported, SqlStates
  <2>5. TransactionKnown'
    BY <1>1, <1>6, ExecuteFailsEffect DEF TransactionKnown, LimitFails, SqlStates
  <2> QED
    BY <2>1, <2>2, <2>3, <2>4, <2>5 DEF SessionInv, TypeOK
<1>7. CASE Alive
  <2>1. SettingsOK' /\ DbcOK'
    BY <1>1, <1>7 DEF Alive, settings, lists, SettingsOK, DbcOK
  <2>2. LinkOK'
    BY <1>1, <1>7 DEF Alive, link, LinkOK
  <2>3. CallOK' /\ ErrorOK'
    BY <1>1, <1>7 DEF Alive, Goto, link, args, CallOK, ErrorOK, SqlStates
  <2>4. CallInv' /\ MovedInv' /\ ChangeReported'
    BY <1>1, <1>7 DEF Alive, Goto, link, args, CallInv, MovedInv, ChangeReported
  <2>5. TransactionKnown'
    BY <1>1, <1>7 DEF TransactionKnown, Alive, link
  <2> QED
    BY <2>1, <2>2, <2>3, <2>4, <2>5 DEF SessionInv, TypeOK
<1>8. CASE ExecuteStatement
  <2>1. SettingsOK' /\ DbcOK'
    BY <1>1, <1>8 DEF ExecuteStatement, settings, lists, SettingsOK, DbcOK, TransactionOpen
  <2>2. LinkOK'
    BY <1>1, <1>8, TextsAssumption DEF ExecuteStatement, Execute, search, CallInv, Kinds, LinkOK,
       Connection
  <2>3. CallOK' /\ ErrorOK'
    BY <1>1, <1>8 DEF ExecuteStatement, Goto, Return, args, CallOK, ErrorOK, SqlStates
  <2>4. CallInv' /\ MovedInv' /\ ChangeReported'
    BY <1>1, <1>8 DEF ExecuteStatement, Goto, Return, args, CallInv, MovedInv, ChangeReported
  <2>5. TransactionKnown'
    <3>1. TransactionKnown /\ text \in Kinds /\ (call = "ssps" => text # "begin")
      BY <1>1, <1>8, TextsAssumption DEF ExecuteStatement, CallInv
    <3>2. CASE UNCHANGED <<conn, transaction_open>>
      BY <3>1, <3>2 DEF TransactionKnown
    <3>3. CASE /\ conn' = Execute(conn, text)
               /\ transaction_open' = IF call = "direct" THEN TransactionOpen ELSE transaction_open
      <4>1. conn'.autocommit = conn.autocommit
        BY <1>1, <3>3 DEF Execute, LinkOK, Connection
      <4>2. CASE text = "begin"
        BY <1>8, <3>1, <3>3, <4>2 DEF ExecuteStatement, TransactionOpen, TransactionKnown
      <4>3. CASE text \in {"commit", "rollback", "ddl"}
        BY <1>1, <3>3, <4>3 DEF Execute, LinkOK, Connection, TransactionKnown, Visible
      <4>4. CASE text = "dml"
        <5>1. conn'.trx = (conn.trx \/ ~conn.autocommit) /\ conn'.unseen = conn.unseen
          BY <1>1, <3>3, <4>4 DEF Execute, LinkOK, Connection
        <5>2. transaction_open' = transaction_open
          BY <3>3, <4>4 DEF TransactionOpen
        <5> QED
          BY <3>1, <4>1, <5>1, <5>2 DEF TransactionKnown, Visible
      <4>5. CASE text = "begin work"
        <5>1. conn'.unseen = conn.autocommit
          BY <1>1, <3>3, <4>5 DEF Execute, LinkOK, Connection
        <5> QED
          BY <4>1, <5>1 DEF TransactionKnown, Visible
      <4> QED
        BY <3>1, <4>2, <4>3, <4>4, <4>5 DEF Kinds
    <3> QED
      BY <1>8, <3>2, <3>3 DEF ExecuteStatement
  <2> QED
    BY <2>1, <2>2, <2>3, <2>4, <2>5 DEF SessionInv, TypeOK
<1>9. CASE ExecuteDirectFails
  <2>1. SettingsOK' /\ DbcOK'
    BY <1>1, <1>9, ExecuteFailsEffect DEF ExecuteDirectFails, settings, lists, SettingsOK, DbcOK,
       SqlStates
  <2>2. LinkOK'
    BY <1>1, <1>9, ExecuteFailsEffect DEF ExecuteDirectFails, SqlStates
  <2>3. CallOK' /\ ErrorOK'
    BY <1>1, <1>9, ExecuteFailsEffect DEF ExecuteDirectFails, Return, Changed, args, CallOK,
       ErrorOK, SqlStates
  <2>4. CallInv' /\ MovedInv' /\ ChangeReported'
    BY <1>1, <1>9, ExecuteFailsEffect DEF ExecuteDirectFails, Return, Changed, args, CallInv,
       MovedInv, ChangeReported, SqlStates
  <2>5. TransactionKnown'
    BY <1>1, <1>9, ExecuteFailsEffect DEF TransactionKnown, ExecuteDirectFails, SqlStates
  <2> QED
    BY <2>1, <2>2, <2>3, <2>4, <2>5 DEF SessionInv, TypeOK
<1>10. CASE ExecuteSspsFails
  <2>1. SettingsOK' /\ DbcOK'
    BY <1>1, <1>10 DEF ExecuteSspsFails, settings, lists, SettingsOK, DbcOK
  <2>2. LinkOK'
    BY <1>1, <1>10 DEF ExecuteSspsFails, link, LinkOK
  <2>3. CallOK' /\ ErrorOK'
    BY <1>1, <1>10 DEF ExecuteSspsFails, Goto, link, args, CallOK, ErrorOK, SqlStates
  <2>4. CallInv' /\ MovedInv' /\ ChangeReported'
    BY <1>1, <1>10 DEF ExecuteSspsFails, Goto, link, args, CallInv, MovedInv, ChangeReported
  <2>5. TransactionKnown'
    BY <1>1, <1>10 DEF TransactionKnown, ExecuteSspsFails, link
  <2> QED
    BY <2>1, <2>2, <2>3, <2>4, <2>5 DEF SessionInv, TypeOK
<1>11. CASE Result
  <2>1. SettingsOK' /\ DbcOK'
    BY <1>1, <1>11 DEF Result, settings, lists, SettingsOK, DbcOK
  <2>2. LinkOK'
    BY <1>1, <1>11, KeepKeepsKnown DEF Result, link, LinkOK
  <2>3. CallOK' /\ ErrorOK'
    BY <1>1, <1>11 DEF Result, Return, Keep, link, LinkOK, args, CallOK, ErrorOK, SqlStates
  <2>4. CallInv' /\ MovedInv' /\ ChangeReported'
    BY <1>1, <1>11 DEF Result, Return, Keep, link, LinkOK, args, CallInv, MovedInv,
       ChangeReported
  <2>5. TransactionKnown'
    BY <1>1, <1>11, KeepKeepsKnown DEF TransactionKnown, Result, link
  <2> QED
    BY <2>1, <2>2, <2>3, <2>4, <2>5 DEF SessionInv, TypeOK
<1>12. CASE Exit
  <2>1. SettingsOK' /\ DbcOK'
    BY <1>1, <1>12 DEF Exit, settings, lists, SettingsOK, DbcOK
  <2>2. LinkOK'
    BY <1>1, <1>12, TriggerEffect DEF Exit, link, LinkOK, TriggerResult, SqlStates
  <2>3. CallOK' /\ ErrorOK'
    BY <1>1, <1>12, TriggerEffect DEF Exit, Return, link, TriggerResult, Changed, args,
       CallOK, ErrorOK, SqlStates
  <2>4. CallInv' /\ MovedInv' /\ ChangeReported'
    BY <1>1, <1>12, TriggerEffect DEF Exit, Return, link, TriggerResult, Changed, args,
       CallInv, MovedInv, ChangeReported, SqlStates
  <2>5. TransactionKnown'
    BY <1>1, <1>12, TriggerKeepsKnown DEF TransactionKnown, Exit, link, SqlStates
  <2> QED
    BY <2>1, <2>2, <2>3, <2>4, <2>5 DEF SessionInv, TypeOK
<1>13. CASE ExecuteCatalog
  <2>1. SettingsOK' /\ DbcOK'
    BY <1>1, <1>13, ExecuteFailsEffect DEF ExecuteCatalog, settings, lists, SettingsOK, DbcOK,
       SqlStates
  <2>2. LinkOK'
    BY <1>1, <1>13, ExecuteFailsEffect DEF ExecuteCatalog, link, LinkOK, SqlStates
  <2>3. CallOK' /\ ErrorOK'
    BY <1>1, <1>13, ExecuteFailsEffect DEF ExecuteCatalog, Return, link, Changed, args,
       CallOK, ErrorOK, SqlStates
  <2>4. CallInv' /\ MovedInv' /\ ChangeReported'
    BY <1>1, <1>13, ExecuteFailsEffect DEF ExecuteCatalog, Return, link, Changed, args,
       CallInv, MovedInv, ChangeReported, SqlStates
  <2>5. TransactionKnown'
    BY <1>1, <1>13, ExecuteFailsEffect DEF TransactionKnown, ExecuteCatalog, link, SqlStates
  <2> QED
    BY <2>1, <2>2, <2>3, <2>4, <2>5 DEF SessionInv, TypeOK
<1>14. CASE Prepare
  <2>1. SettingsOK' /\ DbcOK'
    BY <1>1, <1>14 DEF Prepare, settings, lists, SettingsOK, DbcOK
  <2>2. LinkOK'
    BY <1>1, <1>14, KeepKeepsKnown DEF Prepare, link, LinkOK
  <2>3. CallOK' /\ ErrorOK'
    BY <1>1, <1>14 DEF Prepare, Return, Keep, link, LinkOK, args, CallOK, ErrorOK, SqlStates
  <2>4. CallInv' /\ MovedInv' /\ ChangeReported'
    BY <1>1, <1>14 DEF Prepare, Return, Keep, link, LinkOK, args, CallInv, MovedInv,
       ChangeReported
  <2>5. TransactionKnown'
    BY <1>1, <1>14, KeepKeepsKnown DEF TransactionKnown, Prepare, link
  <2> QED
    BY <2>1, <2>2, <2>3, <2>4, <2>5 DEF SessionInv, TypeOK
<1>15. CASE EndTran
  <2>1. SettingsOK' /\ DbcOK'
    BY <1>1, <1>15, ExecuteFailsEffect DEF EndTran, settings, lists, SettingsOK, DbcOK, SqlStates
  <2>2. LinkOK'
    BY <1>1, <1>15, ExecuteFailsEffect DEF EndTran, search, Execute, CallInv, LinkOK, Connection,
       SqlStates
  <2>3. CallOK' /\ ErrorOK'
    BY <1>1, <1>15, ExecuteFailsEffect DEF EndTran, Return, Changed, args, CallOK, ErrorOK,
       SqlStates
  <2>4. CallInv' /\ MovedInv' /\ ChangeReported'
    BY <1>1, <1>15, ExecuteFailsEffect DEF EndTran, Return, Changed, args, CallInv, MovedInv,
       ChangeReported, SqlStates
  <2>5. TransactionKnown'
    BY <1>1, <1>15, ExecuteFailsEffect DEF TransactionKnown, EndTran, Visible, search, Execute, CallInv, LinkOK, Connection,
       TransactionKnown, SqlStates
  <2> QED
    BY <2>1, <2>2, <2>3, <2>4, <2>5 DEF SessionInv, TypeOK
<1>16. CASE Autocommit
  <2>1. SettingsOK' /\ DbcOK'
    BY <1>1, <1>16, ExecuteFailsEffect DEF Autocommit, settings, lists, SettingsOK, DbcOK, SqlStates
  <2>2. LinkOK'
    BY <1>1, <1>16, ExecuteFailsEffect DEF Autocommit, SetAutocommit, search, link, LinkOK,
       Connection, SqlStates
  <2>3. CallOK' /\ ErrorOK'
    BY <1>1, <1>16, ExecuteFailsEffect DEF Autocommit, Return, link, Changed, args, CallOK,
       ErrorOK, SqlStates
  <2>4. CallInv' /\ MovedInv' /\ ChangeReported'
    BY <1>1, <1>16, ExecuteFailsEffect DEF Autocommit, Return, link, Changed, args, CallInv,
       MovedInv, ChangeReported, SqlStates
  <2>5. TransactionKnown'
    BY <1>1, <1>16, ExecuteFailsEffect DEF TransactionKnown, Autocommit, SetAutocommit, Visible, search, link, LinkOK,
       Connection, SqlStates
  <2> QED
    BY <2>1, <2>2, <2>3, <2>4, <2>5 DEF SessionInv, TypeOK
<1>17. CASE MoreResults
  <2>1. SettingsOK' /\ DbcOK'
    BY <1>1, <1>17 DEF MoreResults, settings, lists, SettingsOK, DbcOK
  <2>2. LinkOK'
    BY <1>1, <1>17, TriggerEffect DEF MoreResults, link, LinkOK, TriggerResult, SqlStates
  <2>3. CallOK' /\ ErrorOK'
    BY <1>1, <1>17, TriggerEffect DEF MoreResults, Return, link, TriggerResult, Changed, args,
       CallOK, ErrorOK, SqlStates
  <2>4. CallInv' /\ MovedInv' /\ ChangeReported'
    BY <1>1, <1>17, TriggerEffect DEF MoreResults, Return, link, TriggerResult, Changed, args,
       CallInv, MovedInv, ChangeReported, SqlStates
  <2>5. TransactionKnown'
    BY <1>1, <1>17, TriggerKeepsKnown DEF TransactionKnown, MoreResults, link, SqlStates
  <2> QED
    BY <2>1, <2>2, <2>3, <2>4, <2>5 DEF SessionInv, TypeOK
<1>18. CASE Lose
  <2>1. SettingsOK' /\ DbcOK'
    BY <1>1, <1>18 DEF Lose, settings, lists, SettingsOK, DbcOK
  <2>2. LinkOK'
    BY <1>1, <1>18 DEF Lose, LinkOK, Connection, search
  <2>3. CallOK' /\ ErrorOK'
    BY <1>1, <1>18 DEF Lose, args, CallOK, ErrorOK, SqlStates
  <2>4. CallInv' /\ MovedInv' /\ ChangeReported'
    BY <1>1, <1>18 DEF Lose, args, CallInv, MovedInv, ChangeReported
  <2>5. TransactionKnown'
    BY <1>1, <1>18 DEF TransactionKnown, Lose, LinkOK, Connection, Visible, search
  <2> QED
    BY <2>1, <2>2, <2>3, <2>4, <2>5 DEF SessionInv, TypeOK
<1>19. CASE SetAllowed
  <2>1. SettingsOK' /\ DbcOK'
    BY <1>1, <1>19 DEF SetAllowed, settings, lists, SettingsOK, DbcOK
  <2>2. LinkOK'
    BY <1>1, <1>19 DEF SetAllowed, link, LinkOK
  <2>3. CallOK' /\ ErrorOK'
    BY <1>1, <1>19 DEF SetAllowed, link, args, CallOK, ErrorOK, SqlStates
  <2>4. CallInv' /\ MovedInv' /\ ChangeReported'
    BY <1>1, <1>19 DEF SetAllowed, link, args, CallInv, MovedInv, ChangeReported
  <2>5. TransactionKnown'
    BY <1>1, <1>19 DEF TransactionKnown, SetAllowed, link
  <2> QED
    BY <2>1, <2>2, <2>3, <2>4, <2>5 DEF SessionInv, TypeOK
<1>20. CASE StartSearch
  <2>1. SettingsOK' /\ DbcOK'
    BY <1>1, <1>20 DEF StartSearch, settings, lists, SettingsOK, DbcOK
  <2>2. LinkOK'
    BY <1>1, <1>20 DEF StartSearch, LinkOK, SettingsOK
  <2>3. CallOK' /\ ErrorOK'
    BY <1>1, <1>20 DEF StartSearch, args, CallOK, ErrorOK
  <2>4. CallInv' /\ MovedInv' /\ ChangeReported'
    BY <1>1, <1>20 DEF StartSearch, args, CallInv, MovedInv, ChangeReported
  <2>5. TransactionKnown'
    BY <1>1, <1>20 DEF StartSearch, TransactionKnown, Visible
  <2> QED
    BY <2>1, <2>2, <2>3, <2>4, <2>5 DEF SessionInv, TypeOK
<1> QED
  BY <1>2, <1>3, <1>4, <1>5, <1>6, <1>7, <1>8, <1>9, <1>10, <1>11, <1>12, <1>13, <1>14, <1>15,
     <1>16, <1>17, <1>18, <1>19, <1>20 DEF Next, Call

\* Every variable of a session keeps its type, whatever the calls and the failovers.
THEOREM TypeCorrect == Spec => []TypeOK
<1>1. SessionInv => TypeOK
  BY DEF SessionInv
<1> QED
  BY <1>1, SessionInvInit, SessionInvNext, PTL DEF Spec

\* transaction_open and the status of the session miss no transaction, whatever the
\* application executes, but one that an unrecognised spelling began.
THEOREM TransactionsAreKnown == Spec => []TransactionKnown
<1>1. SessionInv => TransactionKnown
  BY DEF SessionInv
<1> QED
  BY <1>1, SessionInvInit, SessionInvNext, PTL DEF Spec

\* No call other than SQLPrepare, a catalog function or SQLEndTran on an environment
\* replaces the connection without an error of class 08.
THEOREM ChangesAreReported == Spec => []ChangeReported
<1>1. SessionInv => ChangeReported
  BY DEF SessionInv
<1> QED
  BY <1>1, SessionInvInit, SessionInvNext, PTL DEF Spec

-----------------------------------------------------------------------------
\* With no limit on the rows, no statement of a transaction is preceded by one that
\* sets the limit; no call has lost a transaction before its last step; and 08S02
\* comes from a failover only.
LostInv ==
    /\ sql_select_limit # 0 =>
           ~conn.trx /\ pc # "alive" /\ (pc = "execute" => call \notin {"direct", "ssps"})
    /\ pc # "idle" => ~lost
    /\ ~enabled => sqlstate \notin Changed
    /\ LostTransactionReported

\* A new session has no transaction.
LEMMA FreshHasNone == \A h \in Hosts : Fresh(h).trx = FALSE
BY DEF Fresh

\* Every step keeps it.
LEMMA LostInvNext ==
    ASSUME MaxRows \subseteq {0}, SessionInv, LostInv, [Next]_vars
    PROVE  LostInv'
<1> DEFINE A == /\ sql_select_limit' # 0 => ~conn'.trx
                /\ sql_select_limit' # 0 => pc' # "alive"
                /\ sql_select_limit' # 0 /\ pc' = "execute" => call' \notin {"direct", "ssps"}
           B == /\ pc' # "idle" => ~lost'
                /\ ~enabled' => sqlstate' \notin Changed
                /\ pc' = "idle" /\ lost' /\ call' # "end env" => error' \notin {"00000", "08S02"}
<1> SUFFICES A /\ B
  BY DEF LostInv, LostTransactionReported
<1>1. /\ TypeOK /\ LinkOK /\ CallOK /\ CallInv /\ TransactionKnown
      /\ sql_select_limit # 0 => ~conn.trx
      /\ sql_select_limit # 0 => pc # "alive" /\ (pc = "execute" => call \notin {"direct", "ssps"})
      /\ pc # "idle" => ~lost
      /\ ~enabled => sqlstate \notin Changed
      /\ pc = "idle" /\ lost /\ call # "end env" => error \notin {"00000", "08S02"}
  BY DEF SessionInv, TransactionKnown, TypeOK, LostInv, LostTransactionReported
<1>2. (Visible(conn) => in_transaction) /\ (Visible(conn) => conn.trx)
  BY <1>1 DEF TransactionKnown, in_transaction, Visible
<1>3. Limit = 0
  BY <1>1 DEF Limit, CallOK
<1>4. CASE UNCHANGED vars
  BY <1>1, <1>4 DEF vars, settings, args
<1>5. CASE Application
  <2>1. PICK c, t, n : Start(c, t, n)
    BY <1>5 DEF Application
  <2> QED
    BY <1>1, <2>1 DEF Start, settings, Changed
<1>6. CASE LimitKnown \/ LimitSet
  <2>1. CASE LimitKnown
    BY <1>1, <1>3, <2>1 DEF LimitKnown, AfterLimit, Goto, CallInv, settings, link, args
  <2>2. CASE LimitSet
    BY <1>1, <1>3, <2>2 DEF LimitSet, AfterLimit, Goto, CallInv, settings, args
  <2> QED
    BY <1>6, <2>1, <2>2
<1>7. CASE LimitFails
  <2>1. /\ sqlstate' \in {"08S01", "HY000"} \union Changed
        /\ lost' => lost \/ Visible(conn)
        /\ ~enabled => sqlstate' \in {"08S01", "HY000"}
        /\ conn'.trx => conn.trx
    BY <1>1, <1>7, ExecuteFailsEffect DEF LimitFails, SqlStates
  <2>2. pc = "limit" /\ sql_select_limit # 0 /\ pc' \notin {"alive", "execute"}
    BY <1>1, <1>3, <1>7 DEF LimitFails, Goto, Return, CallInv
  <2>3. ~lost' /\ ~conn'.trx
    BY <1>1, <1>2, <2>1, <2>2
  <2> QED
    BY <1>1, <1>7, <2>1, <2>2, <2>3 DEF LimitFails, Changed, settings
<1>8. CASE Alive \/ ExecuteSspsFails
  <2>1. CASE Alive
    BY <1>1, <2>1 DEF Alive, Goto, settings, link, args, Changed
  <2>2. CASE ExecuteSspsFails
    BY <1>1, <2>2 DEF ExecuteSspsFails, Goto, settings, link, args, Changed
  <2> QED
    BY <1>8, <2>1, <2>2
<1>9. CASE ExecuteStatement
  BY <1>1, <1>9 DEF ExecuteStatement, Goto, Return, settings, args
<1>10. CASE ExecuteDirectFails
  <2>1. /\ sqlstate' \in {"08S01"} \union Changed
        /\ lost' => lost \/ Visible(conn)
        /\ in_transaction => sqlstate' # "08S02"
        /\ ~enabled => sqlstate' = "08S01"
        /\ conn'.trx => conn.trx
    BY <1>1, <1>10, ExecuteFailsEffect DEF ExecuteDirectFails, SqlStates
  <2> QED
    BY <1>1, <1>2, <1>10, <2>1 DEF ExecuteDirectFails, Return, settings, args, Changed
<1>11. CASE Result \/ Prepare
  <2>1. conn'.trx => conn.trx
    BY <1>1, <1>11 DEF Result, Prepare, Keep, Dropped, link, LinkOK, Connection
  <2> QED
    BY <1>1, <1>11, <2>1 DEF Result, Prepare, Keep, Return, settings, link, args, Changed
<1>12. CASE Exit \/ MoreResults
  <2>1. ASSUME NEW e \in {"08S01", "08S02", "08007"}, TriggerFailover(e), ~enabled => e \notin Changed,
               pc \in {"exit", "results"}, Return(sqlstate'),
               UNCHANGED <<settings, lists, transaction_open, sql_select_limit, args>>
        PROVE  A /\ B
    <3>1. TriggerResult(e)
      BY <1>1, <2>1, TriggerEffect DEF SqlStates
    <3>2. conn'.trx => conn.trx
      <4>1. CASE conn' = Dropped(conn)
        BY <1>1, <4>1 DEF Dropped, LinkOK, Connection
      <4>2. CASE \E h \in Hosts : conn' = Fresh(h)
        <5>1. ~conn'.trx
          BY <4>2, FreshHasNone
        <5> QED
          BY <5>1
      <4> QED
        BY <3>1, <4>1, <4>2 DEF TriggerResult
    <3>3. /\ lost' => sqlstate' \notin {"00000", "08S02"}
          /\ ~enabled => sqlstate' \notin Changed
      BY <1>1, <1>2, <2>1, <3>1 DEF TriggerResult, Changed
    <3> QED
      BY <1>1, <2>1, <3>2, <3>3 DEF Return, settings, args
  <2>2. ASSUME UNCHANGED link, pc \in {"exit", "results"}, pc' = "idle",
               ~enabled => sqlstate' \notin Changed,
               UNCHANGED <<settings, lists, transaction_open, sql_select_limit, args>>
        PROVE  A /\ B
    BY <1>1, <2>2 DEF settings, link, args
  <2>3. CASE Exit
    BY <1>1, <2>1, <2>2, <2>3 DEF Exit, Return
  <2>4. CASE MoreResults
    <3>1. CASE Reached
      BY <1>1, <2>2, <2>4, <3>1 DEF MoreResults, Return
    <3>2. CASE ~Reached
      BY <2>1, <2>4, <3>2 DEF MoreResults, Changed
    <3> QED
      BY <3>1, <3>2
  <2> QED
    BY <1>12, <2>3, <2>4
<1>13. CASE ExecuteCatalog \/ EndTran \/ Autocommit
  <2>0. pc = "execute" /\ pc' = "idle" /\ UNCHANGED <<settings, sql_select_limit, args>>
    BY <1>13 DEF ExecuteCatalog, EndTran, Autocommit, Return
  <2>1. CASE ExecuteFails("HY000") /\ error' \in {sqlstate', IF call = "end env" THEN "00000" ELSE sqlstate'}
    <3>1. /\ sqlstate' \in {"08S01", "HY000"} \union Changed
          /\ lost' => lost \/ Visible(conn)
          /\ in_transaction => sqlstate' # "08S02"
          /\ ~enabled => sqlstate' \in {"08S01", "HY000"}
          /\ conn'.trx => conn.trx
      BY <1>1, <2>1, ExecuteFailsEffect DEF SqlStates
    <3> QED
      BY <1>1, <1>2, <2>0, <2>1, <3>1 DEF settings, args, Changed
  <2>2. CASE UNCHANGED <<lost, sqlstate>> /\ (conn'.trx => conn.trx)
    BY <1>1, <2>0, <2>2 DEF settings, args
  <2>3. CASE ExecuteCatalog
    BY <2>1, <2>2, <2>3 DEF ExecuteCatalog, Return, link
  <2>4. CASE EndTran
    <3>1. Execute(conn, text).trx = FALSE
      BY <1>1, <2>4 DEF EndTran, CallInv, Execute, LinkOK, Connection
    <3> QED
      BY <2>1, <2>2, <2>4, <3>1 DEF EndTran, Return
  <2>5. CASE Autocommit
    <3>1. SetAutocommit(conn, text = "on").trx => conn.trx
      BY <1>1 DEF SetAutocommit, LinkOK, Connection
    <3> QED
      BY <2>1, <2>2, <2>5, <3>1 DEF Autocommit, Return, link
  <2> QED
    BY <1>13, <2>3, <2>4, <2>5
<1>14. CASE Lose \/ SetAllowed \/ StartSearch
  <2>1. conn'.trx => conn.trx
    BY <1>1, <1>14 DEF Lose, SetAllowed, StartSearch, link, LinkOK, Connection
  <2>2. UNCHANGED <<sql_select_limit, pc, call, enabled, sqlstate, error, lost>>
    BY <1>14 DEF Lose, SetAllowed, StartSearch, settings, link, args
  <2> QED
    BY <1>1, <2>1, <2>2
<1> QED
  BY <1>4, <1>5, <1>6, <1>7, <1>8, <1>9, <1>10, <1>11, <1>12, <1>13, <1>14 DEF Next, Call

\* An application that leaves SQL_ATTR_MAX_ROWS alone is told of every visible
\* transaction that a call has lost.
THEOREM LostTransactionsAreReported ==
    ASSUME MaxRows \subseteq {0}
    PROVE  Spec => []LostTransactionReported
<1>1. Init => SessionInv /\ LostInv
  <2>1. ASSUME Init PROVE LostInv
    <3>1. ~conn.trx
      BY <2>1, FreshHasNone DEF Init
    <3> QED
      BY <2>1, <3>1 DEF Init, LostInv, LostTransactionReported, Changed
  <2> QED
    BY <2>1, SessionInvInit
<1>2. SessionInv /\ LostInv /\ [Next]_vars => (SessionInv /\ LostInv)'
  BY SessionInvNext, LostInvNext
<1>3. LostInv => LostTransactionReported
  BY DEF LostInv
<1> QED
  BY <1>1, <1>2, <1>3, PTL DEF Spec

-----------------------------------------------------------------------------
\* Where a step may have taken the connection.
HostKept == conn'.host = conn.host /\ (moved' => moved)
HostChosen ==
    /\ IF ReaderFailoverUsed THEN searching /\ conn'.host \in filtered ELSE conn'.host \in allowed
    /\ mode = "strict writer" => conn'.host = current_topology'

\* A failover keeps the host or takes one of the search's, or one that is allowed, in
\* mode "strict writer" the one it remembers as the writer.
LEMMA TriggerHost ==
    ASSUME TypeOK, NEW e, TriggerFailover(e)
    PROVE  HostKept \/ HostChosen
<1>1. ASSUME NEW x, Keep(x) PROVE HostKept
  BY <1>1 DEF Keep, Dropped, HostKept, TypeOK, LinkOK, Connection
<1>2. ASSUME NEW h, UpdateConnection(h) PROVE conn'.host = h
  BY <1>2 DEF UpdateConnection, Fresh
<1>3. CASE FailoverToReader /\ ReaderFailoverUsed
  BY <1>1, <1>2, <1>3 DEF FailoverToReader, HostChosen, ReaderFailoverUsed
<1>4. CASE FailoverToWriter /\ ~ReaderFailoverUsed
  <2>1. ASSUME NEW h \in Hosts, current_topology' = h,
               IF h \in allowed THEN UpdateConnection(h) ELSE Keep("08S01")
        PROVE  HostKept \/ HostChosen
    BY <1>1, <1>2, <1>4, <2>1 DEF HostChosen
  <2>2. CASE /\ current_topology \in allowed /\ UNCHANGED current_topology
             /\ UpdateConnection(current_topology)
    BY <1>2, <1>4, <2>2 DEF HostChosen
  <2> QED
    BY <1>1, <1>4, <2>1, <2>2 DEF FailoverToWriter
<1> QED
  BY <1>1, <1>3, <1>4 DEF TriggerFailover

\* So does every step.
LEMMA HostStep ==
    ASSUME TypeOK, [Next]_vars
    PROVE  HostKept \/ HostChosen
<1> USE DEF TypeOK, LinkOK, Connection
<1>1. ASSUME UNCHANGED <<conn, moved>> PROVE HostKept
  BY <1>1 DEF HostKept
<1>2. ASSUME NEW e, ExecuteFails(e) PROVE HostKept \/ HostChosen
  BY <1>1, <1>2, TriggerHost DEF ExecuteFails, link
<1>3. ASSUME NEW x, Keep(x) PROVE HostKept
  BY <1>3 DEF Keep, Dropped, HostKept
<1>4. CASE Application
  <2>1. PICK c, t, n : Start(c, t, n)
    BY <1>4 DEF Application
  <2> QED
    BY <2>1 DEF Start, HostKept
<1>5. CASE LimitKnown \/ Alive \/ ExecuteSspsFails \/ SetAllowed
  BY <1>1, <1>5 DEF LimitKnown, Alive, ExecuteSspsFails, SetAllowed, link
<1>6. CASE LimitSet \/ Lose \/ StartSearch
  BY <1>6 DEF LimitSet, Lose, StartSearch, HostKept
<1>7. CASE LimitFails \/ ExecuteDirectFails
  BY <1>2, <1>7 DEF LimitFails, ExecuteDirectFails
<1>8. CASE ExecuteStatement
  BY <1>8 DEF ExecuteStatement, Execute, HostKept
<1>9. CASE Result \/ Prepare
  BY <1>1, <1>3, <1>9 DEF Result, Prepare, link
<1>10. CASE Exit \/ MoreResults
  BY <1>1, <1>10, TriggerHost DEF Exit, MoreResults, link
<1>11. CASE ExecuteCatalog
  BY <1>1, <1>2, <1>11 DEF ExecuteCatalog, link
<1>12. CASE EndTran
  <2>1. CASE Reached
    BY <1>12, <2>1 DEF EndTran, Execute, HostKept
  <2> QED
    BY <1>2, <1>12, <2>1 DEF EndTran
<1>13. CASE Autocommit
  <2>1. CASE conn' = SetAutocommit(conn, text = "on") /\ UNCHANGED moved
    BY <2>1 DEF SetAutocommit, HostKept
  <2> QED
    BY <1>1, <1>2, <1>13, <2>1 DEF Autocommit, link
<1>14. CASE UNCHANGED vars
  BY <1>1, <1>14 DEF vars
<1> QED
  BY <1>4, <1>5, <1>6, <1>7, <1>8, <1>9, <1>10, <1>11, <1>12, <1>13, <1>14 DEF Next, Call

\* The hosts of a search were allowed during this call: the search belongs to the step
\* the call is at, and no call begins before the search of the last one has ended.
SearchInv ==
    /\ searching => /\ FailoverDue /\ enabled /\ ReaderFailoverUsed
                    /\ filtered \subseteq admitted
    /\ pc # "idle" => allowed \subseteq admitted

\* Every step keeps it: the only steps enabled where a failover is due end the search.
LEMMA SearchStep ==
    ASSUME TypeOK, SearchInv, [Next]_vars
    PROVE  SearchInv'
<1>1. ASSUME pc # "idle", ~searching', UNCHANGED lists PROVE SearchInv'
  BY <1>1 DEF SearchInv, lists
<1>2. ASSUME pc # "idle", ~FailoverDue, UNCHANGED <<lists, search>> PROVE SearchInv'
  BY <1>2 DEF SearchInv, lists, search
<1>3. ASSUME NEW e, TriggerFailover(e) PROVE ~searching'
  BY <1>3 DEF TriggerFailover, FailoverToReader, FailoverToWriter, SearchInv, search
<1>4. CASE Application
  <2>1. PICK c, t, n : Start(c, t, n)
    BY <1>4 DEF Application
  <2>2. ~searching
    BY <2>1 DEF Start, SearchInv, FailoverDue
  <2> QED
    BY <2>1, <2>2 DEF Start, SearchInv, search
<1>5. CASE LimitKnown \/ LimitSet \/ Alive
  BY <1>2, <1>5 DEF LimitKnown, LimitSet, Alive, Reached, FailoverDue, link, search
<1>6. CASE ExecuteStatement \/ ExecuteSspsFails
  BY <1>2, <1>6 DEF ExecuteStatement, ExecuteSspsFails, Reached, FailoverDue, link, search
<1>7. CASE Result \/ Prepare
  BY <1>2, <1>7 DEF Result, Prepare, FailoverDue, link, search
<1>8. CASE LimitFails \/ ExecuteDirectFails
  BY <1>1, <1>2, <1>3, <1>8 DEF LimitFails, ExecuteDirectFails, ExecuteFails, FailoverDue, link, search
<1>9. CASE Exit \/ MoreResults
  BY <1>1, <1>2, <1>3, <1>9 DEF Exit, MoreResults, FailoverDue, link, search
<1>10. CASE ExecuteCatalog \/ EndTran
  BY <1>1, <1>2, <1>3, <1>10 DEF ExecuteCatalog, EndTran, ExecuteFails, Reached, FailoverDue, link, search
<1>11. CASE Autocommit
  BY <1>1, <1>2, <1>3, <1>11 DEF Autocommit, ExecuteFails, Reached, FailoverDue, link, search
<1>12. CASE Lose
  <2>1. FailoverDue => FailoverDue'
    BY <1>12 DEF Lose, FailoverDue, Limit, Reached, args, TypeOK, LinkOK, Connection
  <2> QED
    BY <1>12, <2>1 DEF Lose, SearchInv, ReaderFailoverUsed, settings, lists, search
<1>13. CASE SetAllowed
  <2>1. FailoverDue => FailoverDue' /\ pc # "idle"
    BY <1>13 DEF SetAllowed, FailoverDue, Limit, Reached, link, args
  <2> QED
    BY <1>13, <2>1 DEF SetAllowed, SearchInv, ReaderFailoverUsed, settings, link
<1>14. CASE StartSearch
  <2>1. FailoverDue' /\ pc # "idle"
    BY <1>14 DEF StartSearch, FailoverDue, Limit, Reached, args
  <2> QED
    BY <1>14, <2>1 DEF StartSearch, SearchInv, ReaderFailoverUsed, settings, lists
<1>15. CASE UNCHANGED vars
  <2>1. FailoverDue => FailoverDue'
    BY <1>15 DEF vars, FailoverDue, Limit, Reached, args
  <2> QED
    BY <1>15, <2>1 DEF vars, SearchInv, ReaderFailoverUsed, settings, lists, search
<1> QED
  BY <1>4, <1>5, <1>6, <1>7, <1>8, <1>9, <1>10, <1>11, <1>12, <1>13, <1>14, <1>15 DEF Next, Call

\* A writer failover ends on a host that is allowed at that time, a reader failover on
\* one that was allowed during the call, whatever the custom endpoint does meanwhile.
THEOREM FailoversAreAllowed == Spec => FailoverAllowed
<1>1. Init => SearchInv
  BY DEF Init, SearchInv
<1>2. TypeOK /\ SearchInv /\ [Next]_vars => SearchInv'
  BY SearchStep
<1>3. TypeOK /\ SearchInv /\ [Next]_vars
        => [moved' /\ (~moved \/ conn'.host # conn.host)
              => conn'.host \in IF ReaderFailoverUsed THEN admitted ELSE allowed]_vars
  BY HostStep DEF HostKept, HostChosen, SearchInv
<1> QED
  BY <1>1, <1>2, <1>3, TypeCorrect, PTL DEF Spec, FailoverAllowed

\* In mode "strict writer" a connection made by a failover is to the writer that the
\* handler remembers.
THEOREM WritersAreRemembered == Spec => WriterRemembered
<1>1. TypeOK /\ [Next]_vars => [mode = "strict writer" /\ moved' /\ ~moved => conn'.host = current_topology']_vars
  BY HostStep DEF HostKept, HostChosen
<1> QED
  BY <1>1, TypeCorrect, PTL DEF Spec, WriterRemembered
=============================================================================
