------------------------------- MODULE Session -------------------------------
(***************************************************************************)
(* What one connection tells the application when it is lost: the calls    *)
(* that reach the server (do_query, DBC::execute_query, prepare, the       *)
(* catalog functions, SQLEndTran, SQL_ATTR_AUTOCOMMIT, SQLMoreResults) and *)
(* FAILOVER_HANDLER::trigger_failover_if_needed, which replaces the        *)
(* connection and chooses the SQLSTATE: 08S01 (lost), 08S02 (changed) or   *)
(* 08007 (changed, and a transaction was lost).                            *)
(*                                                                         *)
(* One step per exchange with the server; the connection may be lost       *)
(* between any two.  WriterFailover and ReaderFailover model the search    *)
(* for a host, here one step with any of their results; a reader failover  *)
(* filters its hosts in a step before it, and the custom endpoint may      *)
(* change meanwhile.  The hosts of the cluster are fixed, so a topology is *)
(* its writer.                                                             *)
(***************************************************************************)
EXTENDS Naturals, FiniteSets

CONSTANTS
    Hosts,      \* instances of the cluster
    Texts,      \* kinds of statements the application executes
    MaxRows,    \* values of SQL_ATTR_MAX_ROWS the application uses, 0: no limit
    Unset       \* sql_select_limit before it has been set: (SQLULEN) -1

\* "begin" and "begin work" start a transaction; do_query knows the first only
\* (START TRANSACTION and BEGIN, alone).  "ddl" commits implicitly.
Kinds == {"begin", "begin work", "commit", "rollback", "dml", "ddl"}
Modes == {"strict writer", "strict reader", "reader or writer"}
Calls == {"direct", "ssps", "catalog", "prepare", "end dbc", "end env", "autocommit", "results"}

ASSUME HostsAssumption == Hosts # {} /\ IsFiniteSet(Hosts)
ASSUME TextsAssumption == Texts \subseteq Kinds
ASSUME MaxRowsAssumption == MaxRows \subseteq Nat /\ Unset \notin Nat

VARIABLES
    enabled, mode,              \* is_failover_enabled, FAILOVER_MODE
    allowed,                    \* hosts the allowed and blocked lists let through
    searching, filtered,        \* a reader failover is under way, with these hosts
    conn,                       \* the connection and the server's session behind it
    transaction_open, sql_select_limit,     \* fields of DBC
    current_topology,           \* the writer of FAILOVER_HANDLER::current_topology
    pc, call, text, max_rows,   \* the call under way
    sqlstate,                   \* the error a step of the call has set in DBC or STMT
    error,                      \* what the last call reported, "00000" if it succeeded
    moved, lost,                \* whether that call changed the connection, lost a transaction
    admitted                    \* hosts that were allowed at some time during that call

settings == <<enabled, mode>>
lists == <<allowed, admitted>>
search == <<searching, filtered>>
link == <<conn, moved, lost, current_topology, searching, filtered>>
args == <<call, text, max_rows>>
vars == <<settings, lists, search, conn, transaction_open, sql_select_limit, current_topology, pc,
          args, sqlstate, error, moved, lost>>

\* open: net.vio is set; alive: the server still answers on it.  A new session has
\* the server's defaults.  unseen: the transaction the server holds was begun, with
\* autocommit on, by a statement do_query does not know.
Connection == [host : Hosts, open : BOOLEAN, alive : BOOLEAN, autocommit : BOOLEAN,
               trx : BOOLEAN, unseen : BOOLEAN, limit : MaxRows \union {0}]
Fresh(h) == [host |-> h, open |-> TRUE, alive |-> TRUE, autocommit |-> TRUE,
             trx |-> FALSE, unseen |-> FALSE, limit |-> 0]
\* The client library closes a connection on which an exchange has failed.
Dropped(c) == IF c.alive THEN c ELSE [c EXCEPT !.open = FALSE, !.trx = FALSE, !.unseen = FALSE]
\* What the server does with a statement.
Execute(c, kind) ==
    [c EXCEPT !.trx = CASE kind \in {"begin", "begin work"} -> TRUE
                        [] kind \in {"commit", "rollback", "ddl"} -> FALSE
                        [] kind = "dml" -> @ \/ ~c.autocommit,
              !.unseen = CASE kind = "begin work" -> c.autocommit
                           [] kind = "dml" -> @
                           [] OTHER -> FALSE]
SetAutocommit(c, on) == [c EXCEPT !.autocommit = on, !.trx = @ /\ ~on, !.unseen = @ /\ ~on]

\* The session is in a transaction whose beginning the driver can have noticed.
Visible(c) == c.trx /\ ~c.unseen

Reached == conn.open /\ conn.alive

-----------------------------------------------------------------------------
(* FAILOVER_HANDLER                                                        *)

in_transaction == ~conn.autocommit \/ transaction_open

\* Mutant: in_transaction is evaluated on the connection that was taken over.
UpdateConnectionLate(h) ==
    /\ conn' = Fresh(h)
    /\ moved' = TRUE /\ lost' = (lost \/ Visible(conn))
    /\ sqlstate' = IF transaction_open THEN "08007" ELSE "08S02"

\* update_connection, and the error code of a failover that succeeded.
UpdateConnection(h) ==
    /\ conn' = Fresh(h)
    /\ moved' = TRUE /\ lost' = (lost \/ Visible(conn))
    /\ sqlstate' = IF in_transaction THEN "08007" ELSE "08S02"

Keep(e) ==
    /\ conn' = Dropped(conn)
    /\ lost' = (lost \/ (Visible(conn) /\ ~conn.alive))
    /\ sqlstate' = e
    /\ UNCHANGED moved

ReaderFailoverUsed == Cardinality(Hosts) > 1 /\ mode # "strict writer"

\* Mutant: reader failover tries the hosts of current_topology, unfiltered.
FailoverToReaderUnfiltered ==
    /\ searching
    /\ \/ \E h \in Hosts :
            /\ mode = "strict reader" => h # current_topology
            /\ UpdateConnection(h)
       \/ Keep("08S01")
    /\ searching' = FALSE /\ filtered' = {}
    /\ UNCHANGED current_topology

\* Reader failover tries the hosts get_filtered_topology(current_topology) returned
\* when it began; what it ends on is not looked up again.
FailoverToReader ==
    /\ searching
    /\ \/ \E h \in filtered :
            /\ mode = "strict reader" => h # current_topology
            /\ UpdateConnection(h)
       \/ Keep("08S01")
    /\ searching' = FALSE /\ filtered' = {}
    /\ UNCHANGED current_topology

\* Mutant: the new writer is not remembered.
FailoverToWriterForgets ==
    /\ \/ Keep("08S01")
       \/ \E h \in allowed : UpdateConnection(h)
    /\ UNCHANGED <<current_topology, search>>

\* Writer failover reconnects to the writer it knows (whose connection may be lost
\* again, in which case update_connection does nothing) or connects to a new one,
\* which it remembers before it looks whether that host is allowed.
FailoverToWriter ==
    /\ \/ Keep("08S01") /\ UNCHANGED current_topology
       \/ /\ current_topology \in allowed
          /\ \/ UpdateConnection(current_topology)
             \/ Keep(IF in_transaction THEN "08007" ELSE "08S02")
          /\ UNCHANGED current_topology
       \/ \E h \in Hosts \ {current_topology} :
            /\ current_topology' = h
            /\ IF h \in allowed THEN UpdateConnection(h) ELSE Keep("08S01")
    /\ UNCHANGED search

\* trigger_failover_if_needed for an error of class 08; without failover the
\* caller reports e.
TriggerFailover(e) ==
    \/ ~enabled /\ Keep(e) /\ UNCHANGED <<current_topology, search>>
    \/ enabled /\ IF ReaderFailoverUsed THEN FailoverToReader ELSE FailoverToWriter

-----------------------------------------------------------------------------
(* DBC::execute_query and its callers                                      *)

Goto(label) == pc' = label /\ UNCHANGED error
Return(e) == pc' = "idle" /\ error' = e

\* execute_query on a connection that is closed, or found lost by it: the ROLLBACK
\* it sends is lost too, and after the failover no transaction is open.
ExecuteFails(e) ==
    \/ /\ ~conn.open
       /\ sqlstate' = "08S01"
       /\ UNCHANGED <<link, transaction_open>>
    \/ /\ conn.open /\ ~conn.alive
       /\ TriggerFailover(e)
       /\ transaction_open' = FALSE

\* set_sql_select_limit: a statement's limit is set before it is executed, prepare
\* sets none.
Limit == IF call = "prepare" THEN 0 ELSE max_rows
AfterLimit == CASE call \in {"direct", "ssps"} -> "alive"
                [] call = "catalog" -> "execute"
                [] call = "prepare" -> "prepare"

LimitKnown ==
    /\ pc = "limit" /\ sql_select_limit = Limit
    /\ Goto(AfterLimit)
    /\ UNCHANGED <<settings, lists, link, transaction_open, sql_select_limit, args, sqlstate>>

LimitSet ==
    /\ pc = "limit" /\ sql_select_limit # Limit /\ Reached
    /\ conn' = [conn EXCEPT !.limit = Limit]
    /\ sql_select_limit' = Limit
    /\ Goto(AfterLimit)
    /\ UNCHANGED <<settings, lists, search, moved, lost, transaction_open, current_topology, args,
                   sqlstate>>

\* do_query goes to its exit with the error of the DBC, ODBC_CATALOG::execute
\* throws HY000 instead, and prepare goes on.
LimitFails ==
    /\ pc = "limit" /\ sql_select_limit # Limit /\ ~Reached
    /\ ExecuteFails("HY000")
    /\ CASE call \in {"direct", "ssps"} -> Goto("exit")
         [] call = "catalog" -> Return("HY000")
         [] call = "prepare" -> Goto("prepare")
    /\ UNCHANGED <<settings, lists, sql_select_limit, args>>

\* is_server_alive in do_query pings a connection that has been idle for long.
Alive ==
    /\ pc = "alive"
    /\ \/ Goto("execute") /\ UNCHANGED sqlstate
       \/ ~Reached /\ sqlstate' = "08S01" /\ Goto("exit")
    /\ UNCHANGED <<settings, lists, link, transaction_open, sql_select_limit, args>>

\* Mutant: any statement but BEGIN is taken to end the transaction.
TransactionOpenOnlyBegin == text = "begin"

\* The text of a statement executed directly tells whether a transaction is open.
TransactionOpen ==
    CASE text = "begin" -> TRUE
      [] text \in {"commit", "rollback"} -> FALSE
      [] OTHER -> transaction_open

\* execute_query, or mysql_stmt_execute, of the statement.
ExecuteStatement ==
    /\ pc = "execute" /\ call \in {"direct", "ssps"} /\ Reached
    /\ \/ /\ conn' = Execute(conn, text)
          /\ transaction_open' = IF call = "direct" THEN TransactionOpen ELSE transaction_open
          /\ Goto("result")
       \/ Return("HY000") /\ UNCHANGED <<conn, transaction_open>>
    /\ UNCHANGED <<settings, lists, search, moved, lost, current_topology, sql_select_limit, args,
                   sqlstate>>

\* Mutant: the statement reports the first error, not that of the failover.
ExecuteDirectFailsHidden ==
    /\ pc = "execute" /\ call = "direct" /\ ~Reached
    /\ ExecuteFails("08S01")
    /\ Return("HY000")
    /\ UNCHANGED <<settings, lists, sql_select_limit, args>>

ExecuteDirectFails ==
    /\ pc = "execute" /\ call = "direct" /\ ~Reached
    /\ ExecuteFails("08S01")
    /\ Return(sqlstate')
    /\ UNCHANGED <<settings, lists, sql_select_limit, args>>

ExecuteSspsFails ==
    /\ pc = "execute" /\ call = "ssps" /\ ~Reached
    /\ sqlstate' = "08S01"
    /\ Goto("exit")
    /\ UNCHANGED <<settings, lists, link, transaction_open, sql_select_limit, args>>

\* get_result_metadata and get_result: an error here is HY000 whatever its cause.
Result ==
    /\ pc = "result"
    /\ IF Reached THEN Return("00000") /\ UNCHANGED <<link, sqlstate>>
       ELSE Keep("HY000") /\ Return("HY000") /\ UNCHANGED <<current_topology, search>>
    /\ UNCHANGED <<settings, lists, transaction_open, sql_select_limit, args>>

\* exit: in do_query, reached with an error that execute_query has not handled, or
\* that comes from set_sql_select_limit, where it has.
Exit ==
    /\ pc = "exit"
    /\ IF sqlstate \in {"08S01", "08S02", "08007"} THEN TriggerFailover(sqlstate)
       ELSE UNCHANGED <<link, sqlstate>>
    /\ Return(sqlstate')
    /\ UNCHANGED <<settings, lists, transaction_open, sql_select_limit, args>>

ExecuteCatalog ==
    /\ pc = "execute" /\ call = "catalog"
    /\ IF Reached
       THEN Return("00000") /\ UNCHANGED <<link, transaction_open, sqlstate>>
       ELSE ExecuteFails("HY000") /\ Return(sqlstate')
    /\ UNCHANGED <<settings, lists, sql_select_limit, args>>

\* mysql_stmt_prepare: the MYSQL_STMT was made for the connection before a failover.
Prepare ==
    /\ pc = "prepare"
    /\ IF Reached
       THEN Return(IF moved THEN "HY000" ELSE "00000") /\ UNCHANGED <<link, sqlstate>>
       ELSE Keep("08S01") /\ Return("08S01") /\ UNCHANGED <<current_topology, search>>
    /\ UNCHANGED <<settings, lists, transaction_open, sql_select_limit, args>>

\* SQLEndTran: my_transact, whose result is ignored for an environment.
EndTran ==
    /\ pc = "execute" /\ call \in {"end dbc", "end env"}
    /\ IF Reached
       THEN /\ conn' = Execute(conn, text) /\ transaction_open' = FALSE
            /\ Return("00000")
            /\ UNCHANGED <<moved, lost, current_topology, search, sqlstate>>
       ELSE /\ ExecuteFails("HY000")
            /\ Return(IF call = "end dbc" THEN sqlstate' ELSE "00000")
    /\ UNCHANGED <<settings, lists, sql_select_limit, args>>

\* SQL_ATTR_AUTOCOMMIT, sent when it differs from the session's status; on a
\* connection that is not open the value is only noted.
Autocommit ==
    /\ pc = "execute" /\ call = "autocommit"
    /\ \/ /\ ~conn.open \/ conn.autocommit = (text = "on")
          /\ Return("00000")
          /\ UNCHANGED <<link, transaction_open, sqlstate>>
       \/ /\ conn.open /\ conn.autocommit # (text = "on")
          /\ IF Reached
             THEN /\ conn' = SetAutocommit(conn, text = "on")
                  /\ Return("00000")
                  /\ UNCHANGED <<moved, lost, current_topology, search, transaction_open, sqlstate>>
             ELSE ExecuteFails("HY000") /\ Return(sqlstate')
    /\ UNCHANGED <<settings, lists, sql_select_limit, args>>

\* SQLMoreResults, SQLPutData and handle_connection_error.
MoreResults ==
    /\ pc = "results"
    /\ IF Reached THEN Return("00000") /\ UNCHANGED <<link, sqlstate>>
       ELSE TriggerFailover("08S01") /\ Return(sqlstate')
    /\ UNCHANGED <<settings, lists, transaction_open, sql_select_limit, args>>

-----------------------------------------------------------------------------
(* The application and the cluster                                         *)

Start(c, t, n) ==
    /\ pc = "idle"
    /\ pc' = CASE c \in {"direct", "ssps", "catalog", "prepare"} -> "limit"
               [] c = "results" -> "results"
               [] OTHER -> "execute"
    /\ call' = c /\ text' = t /\ max_rows' = n
    /\ sqlstate' = "00000" /\ error' = "00000"
    /\ moved' = FALSE /\ lost' = FALSE /\ admitted' = allowed
    /\ UNCHANGED <<settings, allowed, search, conn, transaction_open, sql_select_limit,
                   current_topology>>

Application ==
    \/ \E t \in Texts, n \in MaxRows : Start("direct", t, n)
    \/ \E t \in Texts \ {"begin", "begin work"}, n \in MaxRows : Start("ssps", t, n)
    \/ \E n \in MaxRows : Start("catalog", "dml", n) \/ Start("prepare", "dml", n)
    \/ \E t \in {"commit", "rollback"} : Start("end dbc", t, 0) \/ Start("end env", t, 0)
    \/ \E t \in {"on", "off"} : Start("autocommit", t, 0)
    \/ Start("results", "dml", 0)

\* The steps that call trigger_failover_if_needed with an error of class 08.
FailoverDue ==
    \/ pc = "limit" /\ sql_select_limit # Limit /\ conn.open /\ ~conn.alive
    \/ /\ pc = "execute" /\ call # "ssps" /\ conn.open /\ ~conn.alive
       /\ call = "autocommit" => conn.autocommit # (text = "on")
    \/ pc = "exit" /\ sqlstate \in {"08S01", "08S02", "08007"}
    \/ pc = "results" /\ ~Reached

\* failover_to_reader filters the hosts it hands to the search.
StartSearch ==
    /\ FailoverDue /\ enabled /\ ReaderFailoverUsed /\ ~searching
    /\ searching' = TRUE /\ filtered' = allowed
    /\ UNCHANGED <<settings, lists, conn, moved, lost, current_topology, transaction_open,
                   sql_select_limit, pc, args, sqlstate, error>>

Call == LimitKnown \/ LimitSet \/ LimitFails \/ Alive \/ ExecuteStatement \/ ExecuteDirectFails
        \/ ExecuteSspsFails \/ Result \/ Exit \/ ExecuteCatalog \/ Prepare \/ EndTran
        \/ Autocommit \/ MoreResults \/ StartSearch

\* The server, or the network, fails; its transaction is rolled back.
Lose ==
    /\ conn.alive
    /\ conn' = [conn EXCEPT !.alive = FALSE]
    /\ UNCHANGED <<settings, lists, search, transaction_open, sql_select_limit, current_topology,
                   pc, args, sqlstate, error, moved, lost>>

\* The monitor of a custom endpoint changes the lists of hosts.
SetAllowed ==
    /\ allowed' \in SUBSET Hosts
    /\ admitted' = IF pc = "idle" THEN admitted ELSE admitted \union allowed'
    /\ UNCHANGED <<settings, link, transaction_open, sql_select_limit, pc, args, sqlstate, error>>

Init ==
    /\ enabled \in BOOLEAN /\ mode \in Modes
    /\ allowed = Hosts /\ admitted = Hosts
    /\ searching = FALSE /\ filtered = {}
    /\ \E h \in Hosts : conn = Fresh(h)
    /\ transaction_open = FALSE /\ sql_select_limit = Unset
    /\ current_topology \in Hosts
    /\ pc = "idle" /\ call = "results" /\ text = "dml" /\ max_rows = 0
    /\ sqlstate = "00000" /\ error = "00000"
    /\ moved = FALSE /\ lost = FALSE

Next == Application \/ Call \/ Lose \/ SetAllowed

Spec == Init /\ [][Next]_vars

-----------------------------------------------------------------------------
(* Properties                                                              *)

SqlStates == {"00000", "HY000", "08S01", "08S02", "08007"}
SettingsOK ==
    /\ enabled \in BOOLEAN /\ mode \in Modes
    /\ allowed \subseteq Hosts /\ admitted \subseteq Hosts
LinkOK ==
    /\ conn \in Connection /\ current_topology \in Hosts
    /\ moved \in BOOLEAN /\ lost \in BOOLEAN
    /\ searching \in BOOLEAN /\ filtered \subseteq Hosts
DbcOK == transaction_open \in BOOLEAN /\ sql_select_limit \in MaxRows \union {0, Unset}
CallOK ==
    /\ pc \in {"idle", "limit", "alive", "execute", "result", "exit", "prepare", "results"}
    /\ call \in Calls /\ text \in Kinds \union {"on", "off"} /\ max_rows \in MaxRows \union {0}
ErrorOK == sqlstate \in SqlStates /\ error \in SqlStates

\* The session, the DBC, the handler and the call under way have their types; the
\* limits set are those that were asked for.
TypeOK == SettingsOK /\ LinkOK /\ DbcOK /\ CallOK /\ ErrorOK

\* The driver knows, through transaction_open or the status of the session, of every
\* transaction the server holds for it, except one that an unrecognised spelling began
\* with autocommit on: do_query compares with "BEGIN" and "START TRANSACTION" exactly.
TransactionKnown == Visible(conn) => transaction_open \/ ~conn.autocommit

\* A call that lost such a transaction does not report success, nor 08S02, which
\* promises that no transaction was lost.
LostTransactionReported ==
    pc = "idle" /\ lost /\ call # "end env" => error \notin {"00000", "08S02"}

\* A call that replaced the connection says so.  (SQLPrepare and the catalog
\* functions hide a failover in set_sql_select_limit, SQLEndTran on an environment
\* hides every one.)
ChangeReported ==
    pc = "idle" /\ moved /\ call \notin {"prepare", "catalog", "end env"}
        => error \in {"08S01", "08S02", "08007"}

\* A writer failover ends on a host the custom endpoint allows at that time; a reader
\* failover on one it allowed at some time during the call that failed over, however
\* often the lists have changed since an earlier call or an earlier failover.
FailoverAllowed ==
    [][moved' /\ (~moved \/ conn'.host # conn.host)
        => conn'.host \in IF ReaderFailoverUsed THEN admitted ELSE allowed]_vars

\* In mode "strict writer" the connection a failover made is to the writer of
\* current_topology, from which the next failover starts.
WriterRemembered == [][mode = "strict writer" /\ moved' /\ ~moved => conn'.host = current_topology']_vars
=============================================================================
