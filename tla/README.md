# Formal model of the AWS ODBC driver for MySQL

TLA+ specifications of the parts of this driver that go beyond an ordinary ODBC
driver: failover to another instance of an Aurora cluster, monitoring of the
nodes that calls are blocked on, what the application is told when its
connection is lost, how a connection is made and checked against the topology,
custom endpoints, and the caches of credentials. TLC checks the modules on small
instances; TLAPS proves the theorems of the `*Proofs` modules for all values of the
constants.

Paths below are relative to `src/driver/` unless they start with `src/`.
`PROJECT.json` maps every definition to the lines it models.

## 1. The system

### Components

| Component | State it keeps | Operations | Depends on |
|---|---|---|---|
| Statement execution, transactions (`execute.cc`, `transact.cc`, `my_stmt.cc`, `options.cc`, `catalog.cc`, `results.cc`, `DBC::execute_query` in `connect.cc`) | `DBC`: `transaction_open`, `sql_select_limit`, the proxy chain; diagnostics of `DBC` and `STMT` | `do_query`, `prepare`, `ODBC_CATALOG::execute`, `SQLEndTran`, autocommit, `SQLMoreResults` | failover handler, connection proxy |
| Failover handler (`failover_handler.cc`) | `current_topology`, `current_host`, cluster flags | connect-time decisions; `trigger_failover_if_needed`, `failover_to_reader`, `failover_to_writer` | the two failover procedures, topology service, connection handler |
| Writer failover (`failover_writer_handler.cc`, `failover.h`) | one `FAILOVER_SYNC`, two futures and two results per call; raw connection pointers in the tasks | `failover`, the tasks `RECONNECT_TO_WRITER_HANDLER` and `WAIT_NEW_WRITER_HANDLER` | thread pool, topology service, reader search |
| Reader failover (`failover_reader_handler.cc`) | a global sync, a local sync per pair of hosts, up/down marks | `failover`, `get_reader_connection`, the task `CONNECT_TO_READER_HANDLER` | thread pool, topology service |
| Topology service (`topology_service.cc`, `cluster_topology_info.cc`, `host_info.cc`) | process-wide cache of topologies; allowed and blocked hosts | `get_topology`, `get_filtered_topology`, `mark_host_*` | a connection to query through |
| Enhanced failure monitoring (`efm_proxy.cc`, `monitor_service.cc`, `monitor_thread_container.cc`, `monitor.cc`) | `monitor_map`, `task_map`, queue of available monitors; per monitor its contexts, interval and stop flag | start and stop of monitoring around every network call; `MONITOR::run`; disposal; release at `SQLFreeEnv` | one thread per monitor |
| Monitor connection context (`monitor_connection_context.cc`) | failure count, time of the first failed check, active and unhealthy flags | `update_connection_status`, `abort_connection` | the monitor's mutex |
| Custom endpoints (`custom_endpoint_*.cc`, `cache_map.cc`, `sliding_expiration_cache*.cc`) | cached endpoint information, cache of monitors with expiry | refresh thread, waiting for the first information, clean-up thread | topology service (allowed hosts) |
| Authentication (`iam_proxy.cc`, `auth_util.cc`, `okta_proxy.cc`, `adfs_proxy.cc`, `saml_*.cc`, `secrets_manager_proxy.cc`) | token and secret caches | connect with a cached credential, refresh and retry | AWS SDK, HTTP |
| Handles, results, cursors, catalog, parsing, conversion | ODBC handles and result sets | the ODBC API | client library |
| Metrics, telemetry, logging; set-up dialogs, installers; vendored libraries | – | – | – |

A call of the application goes through the proxy chain. `EFM_PROXY` registers a
context with the node's monitor; if the node dies, the monitor closes the socket
and the call returns an error. Statement execution recognises that the
connection is lost and calls `trigger_failover_if_needed`, which runs one of the
two failover procedures on the thread pool of the environment, installs the new
connection and chooses the SQLSTATE: `08S01` (lost), `08S02` (changed) or
`08007` (changed, and a transaction was lost).

### What is hard

- **Races of tasks for one result.** Writer and reader failover both run two
  tasks that share a counter and publish connections through raw pointers. Who
  closes which connection depends on the order of their last steps.
- **Late tasks.** A time limit ends a wait, never a task: tasks outlive the call
  or the pair they were started for.
- **Monitors shared by connections.** The life of a monitor is decided in several
  critical sections of three mutexes, by application threads and by the monitor.
- **A state kept twice.** `transaction_open` and `sql_select_limit` mirror the
  server's session, which a failover replaces.
- **Stale topology.** The cache is shared by all connections of the process, read
  and replaced by concurrent tasks, and returned when a query fails; a connection
  that is being made compares it with a name service that lags behind.
- **Caches without locks.** Monitors of custom endpoints are kept in a map that
  calls, a clean-up thread and `SQLFreeEnv` change at the same time, while the one
  thread of their pool runs a loop on one of them.
- **Cached credentials.** Tokens expire and secrets are rotated while connections
  that share a cache entry log in, fail, renew and try again.
- **Time.** Grace periods, intervals and limits decide between live and dead.

The `hazards` of `PROJECT.json` list these at their lines, with the property that
covers each or the reason why none does.

## 2. The modules

| Module | Models | Extends |
|---|---|---|
| `FailoverSync` | `FAILOVER_SYNC`: counter of tasks, completion, the exception of a late `mark_as_complete` | – |
| `FailoverCall` | abstract specification of a failover procedure | – |
| `WriterFailover`, `MCWriterFailover`, `WriterFailoverProofs` | writer failover | `FailoverSync`; implements `FailoverCall` |
| `ReaderFailover`, `MCReaderFailover`, `ReaderFailoverProofs` | reader failover and `get_reader_connection` | `FailoverSync`; implements `FailoverCall` |
| `HostMonitor`, `MCHostMonitor`, `HostMonitorProofs` | enhanced failure monitoring | – |
| `ConnectionContext`, `ConnectionContextProofs` | the verdict on a node, in time | – |
| `Session`, `MCSession`, `SessionProofs` | the connection as the application sees it | – |
| `TopologyQuery` | from the rows of the status table to a topology, and what the rows say | – |
| `Connect`, `MCConnect`, `ConnectProofs` | making a connection: login, topology, writer check, reconnect | `TopologyQuery` |
| `CustomEndpoint`, `MCCustomEndpoint`, `CustomEndpointProofs` | custom endpoints: calls, monitors, their cache and their thread | – |
| `Credentials`, `CredentialsProofs` | login with cached tokens and secrets | – |

**FailoverSync** is the counter `num_tasks`: complete means zero. `mark_as_complete(true)`
sets it to zero; `mark_as_complete(false)` counts down and throws when the counter
is zero already; the wait ends on completion or on time, and completes the sync.

**WriterFailover.** The state has the sync, the shared topology cache, for every
connection object whether it is allocated and alive and which host it is to, the
program counters and members of both tasks, and the caller with its two futures. One step per access to what
threads share: a test of `is_completed`, a connection attempt, the look-up, the
query, the reset and the assignment of the cache, the publication of a result,
the mark, and each poll. `link` makes ownership explicit: `"none"` is a deleted
object, `"open"` and `"lost"` are allocated ones. The reader search called by the waiting task
is one step that returns any reader or is cancelled.

**ReaderFailover.** Host lists in every order that the shuffle may give; pairs of
tasks in a bounded number of slots, with at most `MaxTasks` tasks at a time; `late` is the time limit of a pair, `expired`
that of the call. Each task makes at most one connection, so a task stands for it.
`failover` (both modes) and `get_reader_connection` are the three kinds of calls.

**HostMonitor.** One step per critical section, and per access to shared state
outside of one. A connection's thread goes through `get_or_create_monitor`,
`start_monitoring`, `add_task`, the call, and `stop_monitoring`. A pool thread
goes through `MONITOR::run`. The check interval is "short" or `milliseconds::max()`.
`Failover` and `Disposal` switch behaviours on; a connection may be opened under
several names of one instance. The history variable `overwritten` remembers the monitors whose interval was set to
`milliseconds::max()` although a call was registered with them
(`monitor.cc:119`, section 5): `CallMonitored` asks that the monitor of a call runs, has
its context and, unless it is one of those, has a short interval and is not asleep
without limit; `CallEnds` that the call ends. `NoEndlessWait` asks it without the
exception, and is violated.

**ConnectionContext.** A clock in ticks of any grain; each check begins and ends at any
time after the one before it, since neither the sleep of the monitor nor its connection
attempt has a bound that the context knows. `hurried` remembers whether two checks
began less than an interval apart.

**Session.** One step per exchange with the server, with the connection lost
between any two. A failover procedure is one step with any of the results that
`WriterFailover` and `ReaderFailover` allow; before a reader failover, `StartSearch`
takes the filtered list of hosts, and the custom endpoint may change until the search
ends. `admitted` remembers the hosts that were allowed at some time of the call.
Abstractions: a topology is its
writer, since the hosts are fixed; a server that is reached refuses only
statements of the application (not `COMMIT`, `SET` or catalog queries);
connections have transactions enabled (`NO_TRANSACTIONS` is off); a statement is
its kind, and "begin work" stands for every way to start a transaction that
`do_query` does not recognise. The field `unseen` of the connection marks such a
transaction, begun with autocommit on; the properties about transactions are about the
others (`Visible`).

**TopologyQuery** goes over the rows in the order of the query, newest first, the way
the loop of `query_for_topology` does (`TakeRows`, a recursive function). `Faithful` says, without an order, what a
topology made of a set of rows must be.

**Connect.** `SQLConnect` from the new failover handler to its return, again after
`SQLDisconnect`, with one step per login, query, name resolution and access to the
cache. A server name and a pattern are what the predicates of `rds_utils.cc` tell
apart (`Kind`, `Pattern`); an address is the instance that has it. Around the
connection another instance is promoted, the writer endpoint follows later, old
records leave the status table, the cached topology ages, and other connections
with the same cluster id refresh it. An exception that leaves `SQLConnect` and a
null pointer end the process (`"threw"`, `"crashed"`). `calm` remembers whether
anything has changed or failed around the connection since it began; what an entry
of the cache says does not count.

**CustomEndpoint.** A monitor is named by the call that made it. The map of
monitors is changed in separate steps by calls, the clean-up thread and
`SQLFreeEnv`; the loop of the running monitor tests, fetches and stores. The thread
pool is the external `ctpl` class: tasks run in order, `stop(true)` waits for them,
and a stopped pool accepts tasks but runs none. `overlap` remembers whether two threads
have been in `compute_if_absent` or a disposal at once; that includes two first calls
that both find the pool empty, which is an ordinary race and needs no torn access.

**Credentials.** One cache entry and the connections that share its key, by one of
the three methods. A token is the time it was signed and whether the AWS
credentials were valid; a secret is its version. The cache's mutex is held during the
request to the service, so that is one step; a login is another. `calm` remembers
whether the AWS credentials or the secret have been bad since the login began.

**FailoverCall** states what the failover handler relies on: the call ends in one
way, a returned connection is usable, and what was returned is not taken back by
tasks that still run. Both procedures are shown to implement it.

## 3. The runs

| Run | Question | Bounds |
|---|---|---|
| `writer_failover` | can any interleaving use a deleted connection, share one between owners, return an inconsistent result, lose the cache, give up early, or leak more than the loser's connection? Do the tasks end, and is it a `FailoverCall`, which returns? | 3 hosts, 3 connections, 4 topologies |
| `reader_failover` | the same questions for the reader search, over odd and even lists, with tasks of pairs that timed out | 3 hosts, 2 slots, 2 tasks at a time |
| `reader_failover_throws` | *violated*: a search ends by an exception (finding) | 3 hosts, 2 slots, 4 tasks |
| `host_monitor` | are calls monitored by one monitor per instance that keeps checking, sockets closed only during their calls, and do calls on a dead node end? | 2 connections with a call each, 2 names of one instance, 2 monitors, 1 pool thread |
| `host_monitor_lifecycle` | the same container under disposal, failover and `SQLFreeEnv`: what still holds, and what makes progress | 1 connection, 2 calls, 2 instances, 2 monitors |
| `host_monitor_sleep` | *violated*: a call waits for a monitor that sleeps without limit (finding) | as `host_monitor`, 1 monitor |
| `connection_context_count` | *violated*: a node that failed as many checks as the count is not dead (finding) | detection time 4, interval 3, count 3, 24 ticks |
| `session` | are lost transactions and changed connections reported, and do failovers end on hosts that are, or were during the call, allowed? | 3 hosts, all kinds of statements, no `SQL_ATTR_MAX_ROWS` |
| `session_transaction` | *violated*: with `SQL_ATTR_MAX_ROWS`, a statement may fail over twice and report `08S02` for a lost transaction (finding) | limits 0 and 1 |
| `connect` | is a connection that may fail over prepared for it; is a wrong writer corrected; is the topology what the rows say; where are null pointers met? | 2 instances, all kinds of names and patterns, 2 promotions |
| `custom_endpoint` | does a running loop use a monitor that exists; is a filter set before waiting calls go on; when does stopping a monitor return? | 2 connections with a call each, 2 endpoints, 2 hosts |
| `credentials` | can an old cached credential make a login fail, or be put back? | 2 connections, 3 methods, 4 ticks, 2 rotations |

**Why the bounds are enough.** Writer failover compares hosts only with the lost
writer, the reader it is connected to and the new writer: three hosts give every
equality pattern. The waiting task holds at most two connections and the
reconnecting one holds one, so three connections let no step wait for an object. A list of two readers and a writer
is odd, one reader and a writer is even, and no reader is empty. A late pair
overlaps with the next one in two slots: one of its two tasks still runs when the
odd host at the end of the list, or the first of the next round, is tried. More late pairs repeat the situation, since they share nothing but the marks of hosts. Two connections with a call
each let one connection's start meet the other's stop, in each order and in the
middle of both. In `host_monitor_lifecycle` one connection fails over between two
instances, which gives two monitors under disposal; a second connection there
exceeds what TLC finishes. Of the verdict on a node TLC checks the violated run only;
the rest is proved. The sessions are not bounded in length. Two promotions give rows of
three times, with an instance that has been the writer twice and one whose old record
is newer than another's; a connection may be made any number of times between them.
Two instances are enough for `Connect`, which compares them only with each other and
with the writer. Two endpoints and two connections give every way to share the pool
and the map; a third call would repeat the second. A token's life and its time in the cache are equal
in `credentials`, so that each may end first by a tick; the theorems lift all its bounds.

Symmetry is used for instances in `connect` and for hosts in `session` and
`session_transaction`, runs without liveness properties, where no definition names
one of them. Which free object an allocation takes has no consequence; `WriterFailover`
and `ReaderFailover` always take the same one.

**Fairness.** Threads of the caller, of tasks and of monitors are scheduled (weak
fairness): each of their steps is a bounded computation, a connection attempt
limited by `CONNECT_TIMEOUT`, or a sleep. Time limits pass (weak fairness of
`Expire` and `PairLate`). In `HostMonitor` an application thread that waits for
a mutex that the monitor takes again and again gets it in the end (strong
fairness): the monitor sleeps without it between rounds. A node that fails every check
is found dead in the end (strong fairness of that outcome), which
`CountIsEnough` justifies: a bounded number of failed checks at the context's interval
is enough, and a monitor that checks more often needs more of them, but no more time. In `CustomEndpoint` the thread of the pool and a
thread that has disposed of a monitor go on (weak fairness).
That every task of a failover starts in the end rests on the thread pool: each push
is preceded by a resize if the pool shows too few idle threads, every wait for
another task has a time limit, and the pool never has less than one thread, so the
queue is always served. Nothing obliges the application to make a
call, a node to fail or recover, or `SQLFreeEnv` to be called.

**Deadlock** is checked where the specification has an explicit step for the end
(`WriterFailover`, `ReaderFailover`) or none (`Session`, `Credentials`). `HostMonitor`,
`CustomEndpoint` and `ConnectionContext` stop when their bounded calls, or the bounded
time, are over, and `Connect` when the process has ended.

Every property of a passing run has a mutant in `PROJECT.json`: a definition
changed the way a mistake in that code would change it (`Mutant:` comments in the
modules), which violates the property.

## 4. The proofs

Every safety property that a passing run checks is a theorem, for every value of the
constants: any number of hosts, connections, topologies, pairs, monitors and calls.

| Theorem | States | Property |
|---|---|---|
| `WriterFailoverProofs!TypeCorrect` | type correctness of writer failover | `TypeOK` |
| `GivesUpOnlyOnTimeout` | it reports failure only after its time limit or for an empty topology | `FailsOnlyOnTimeout` |
| `ConnectionsNeverDangle` | no connection is used or deleted after deletion | `NoDanglingConnection` |
| `ReturnedResultIsConsistent` | connection, topology and `is_new_host` of the result agree | `ResultNamesItsHost` |
| `OwnersAreExclusive` | no two that delete a connection hold the same one | `ExclusiveConnections` |
| `CacheIsNotLost` | the cached topology is null only between a reset and its assignment | `CacheNotLost` |
| `OnlyLosersLeakConnections` | what is open at the end was published, or its task threw | `OnlyLosersLeak` |
| `ImplementsFailoverCall` | every step is one of `FailoverCall` or stutters | safety half of `IsFailoverCall` |
| `ReaderFailoverProofs!TypeCorrect` | type correctness of reader failover | `TypeOK` |
| `ResultsAreUsable` | a returned connection is open, and to a host the call allows | `ResultUsable` |
| `NoHostIsSkipped` | a search that reaches the end of its list has tried all of it | `NoHostSkipped` |
| `GivesUpOnlyOnTimeout` | it reports failure only after its time limit or for an invalid topology | `FailsOnlyOnTimeout` |
| `SyncsCountWorkers` | the sync of a pair counts no more tasks than are at work | `SyncCountsWorkers` |
| `ImplementsFailoverCall` | every step is one of `FailoverCall` or stutters | safety half of `IsFailoverCall` |
| `HostMonitorProofs!TypeCorrect` | type correctness of monitoring | `TypeOK` |
| `EndedContextsAreInactive` | a context left in a list after its call is inactive | `EndedContextsInactive` |
| `NoContextIsStale` (*) | `stop_monitoring` removes the context | `NoStaleContext` |
| `AbortsOnlyDuringCalls` (*) | a socket is closed only during its call | `AbortOnlyDuringCall` |
| `CallsAreMonitored` (*) | a call is in the list of a monitor that runs and does not sleep without limit, unless its interval was overwritten | `CallMonitored` |
| `InstancesShareMonitors` (*) | calls to one instance share a monitor | `OneMonitorPerInstance` |
| `ConnectionContextProofs!AbortedOnlyAfterSilence` | a connection is aborted only after checks failed for interval × count | – |
| `CountIsEnough` | checks at least an interval apart need no more failures than the count, and one, for the verdict | – |
| `SessionProofs!TypeCorrect` | type correctness of a session | – |
| `TransactionsAreKnown` | the driver misses no open transaction but those an unrecognised spelling began | `TransactionKnown` |
| `LostTransactionsAreReported` | nor a lost one, if `SQL_ATTR_MAX_ROWS` is not used | `LostTransactionReported` |
| `ChangesAreReported` | a replaced connection is reported with class 08 | `ChangeReported` |
| `FailoversAreAllowed` | a failover ends on a host that is allowed (writer), or was during the call (reader) | `FailoverAllowed` |
| `WritersAreRemembered` | and, in mode strict writer, on the writer the handler remembers | `WriterRemembered` |
| `ConnectProofs!FailoverIsPrepared` | a connection that may fail over has a template and the right timeouts | `ReadyForFailover` |
| `NullOnlyWhenBlind` | null pointers are met in two cases only | `CrashesOnlyBlind` |
| `WrongWritersAreCorrected` | a writer endpoint that lags behind is corrected | `WrongWriterCorrected` |
| `TopologiesAreFaithful` | the topology says what the rows say | `TopologyFaithful` |
| `CustomEndpointProofs!LoopsAreHeld` | loops belong to monitors that somebody holds | `LoopMonitorHeld` |
| `FiltersComeFirst` | members are published after a connection to the endpoint has its filter | `FilterBeforeInfo` |
| `CredentialsProofs!TypeCorrect` | type correctness of the logins; who logs in has a credential | – |
| `CacheNeverAtFault` | a login is refused only if something was wrong while it was tried | `RefusedOnlyForCause` |
| `CachesMoveForward` | a cached credential is never replaced by an older one | `CacheNeverOlder` |

(*) if no connection fails over and no monitor is disposed of, see below.

- *Writer failover* assumes only that `NULL` is not a host, connection or
  topology, and that nodes report topologies. `RaceInv` says why the call does
  not give up early: the sync completes before the time limit only for a result that is
  published, and a future is used up only when its task ended without one.
  `OwnershipInv` has four parts: what each task holds in each step (`OwnA`,
  `OwnB`), that no two hold the same (`Apart`), and that a published result keeps
  its connection (`OwnResults`). Neither property is inductive by itself, as a
  step that deletes a connection is safe only because nobody else points at it.
  `LeakInv` follows the connections the other way round: an allocated one is always
  within reach of a task or of a result (`Reachable`), and a task that has ended
  without publishing has kept nothing (`NothingKept`). `CacheInv` says that a task
  which is about to reset the cache has a topology to assign. The refinement needs all
  of these (`MappingInv`) and how the call ends (`ReturnInv`): the connection of a
  returned result exists, and no step of a task that still runs changes it.
- *Reader failover* assumes finitely many hosts and at least two tasks at a time.
  `SearchInv` has the phases of the caller and the search, what each task is connected
  to, and that the list is one of all wanted hosts, which rests on lemmas about the
  orderings that `build_hosts_list` may give. `TriedInv` (the hosts before `next` have
  been tried), `CancelInv` (only the time limit cancels a search that has found
  nothing) and `CountInv` (no sync counts more than its tasks at work) are inductive
  beside it.
- *Host monitoring* assumes that an instance's own name leads to that instance.
  `Types`, `ActiveInv`, `ListedInv` and `LoopInv` are inductive whatever happens;
  they give the theorems that hold under failover and disposal. The four theorems
  marked (*) assume `~Failover` and `~Disposal`, as the run `host_monitor` does, and
  both are needed: with either one alone TLC finds each of the four properties
  violated, by the behaviours that section 5 lists for `monitor_service.cc` and
  `monitor_thread_container.cc`. Without them `SteadyInv` is inductive: entries of
  `monitor_map` never change once made (`MapInv`), a monitor with a thread keeps it
  (`RunningInv`), and so a connection that stops finds the monitor it started with
  (`KeptInv`, `RegisteredInv`). `IntervalInv` says why a monitor with a call keeps
  checking: an interval is set to `milliseconds::max()` only when no call is registered,
  or by the overwriting that `overwritten` records.
- *Connection context* assumes natural parameters with a positive interval and
  any integer as count (`Parameters`), and nothing about the time between two checks.
  `SilenceInv` relates the measured duration to the true silence and, while the checks
  are an interval apart, to their number.
- *Session* assumes a finite non-empty cluster. `SessionInv` adds to the goals
  which calls can be at which step, and that an error already set is of class 08
  once the connection has moved.
  `LostTransactionsAreReported` has the hypothesis under which the run `session`
  checks it, that `SQL_ATTR_MAX_ROWS` is not used; without it the property is false, as
  `session_transaction` shows. `LostInv` says why it is enough: the limit is sent before there is a transaction
  and never again, so no failover happens between that and a statement of a transaction. 
  `SearchInv` says that a search belongs to the step the call is at, so that no filter of
  an earlier call or failover is left, and its hosts were allowed during this call;
  `FailoversAreAllowed` needs it.
- *Connect* assumes that the options are of the kinds the model knows and that the
  cluster is finite. None of the properties is inductive: `ConnectInv` adds where `init_cluster_info` has completed
  (`Phase`), which template the options call for and that failover is not available to
  an address or a domain without a pattern (`TemplateKnown`), that the timeouts
  have been looked at before the last login (`TimeoutsKnown`), and that only a writer
  endpoint gets to the comparison of addresses (`WriterOnly`). `RouteInv` follows a
  connection from a stale name to the writer. `TopologiesAreFaithful` is the
  correctness of a loop for tables of any length: `Taken` is the invariant of the loop,
  `RowTaken` shows that a round keeps it, and a table for which it failed would have a
  first row at which it failed (`LeastNumber`, from the well-foundedness of the
  numbers). In the same way `LoopRuns` shows that the recursive function `TakeRows`
  is defined.
- *Custom endpoints* assumes finitely many connections. `EndpointInv` relates the pool,
  the cache and the loop: a loop is pushed only while the pool is empty, when no monitor has been cached,
  and its monitor leaves the cache only when the pool has stopped; both need that no
  other thread works on the cache meanwhile (`AloneInv`). `FilterInv` says that the loop
  about to publish is the one that has set a filter, although other loops are pushed
  and monitors are disposed of in between; it holds with overlap too.
- *Credentials* assumes that a token lives for at least one tick. `FreshInv` is
  the reason for `CacheNeverAtFault`: while all is well around a login, a credential
  that was fetched for it is good, and the second login always has such a one.
  That other connections replace the cache entry meanwhile does not matter, since a
  connection holds its own copy.

The inductive invariants were checked by TLC on the instances of the runs before they
were proved.

Only model-checked: liveness, since fairness and `ENABLED` are beyond the prover. That is
`TasksEnd` of both failover procedures, `StopReturns` of `HostMonitor` and of
`CustomEndpoint`, `CallEnds`, and the fairness half of the two refinements of
`FailoverCall` (that the call returns).

## 5. Behaviours a maintainer should know of

The four violated runs are the findings of `PROJECT.json`. The models contain
the others of this list as well, and the properties are stated so that they hold in
spite of them:

- Both writer tasks may publish; the connection of the one not chosen is never
  closed (`failover_writer_handler.cc:138`; the comment at line 98 says it is).
- The reconnecting task may return a connection that was lost again, because
  `get_topology` answers with the cached topology when its query fails
  (`topology_service.cc:182`).
- `put_to_cache` resets and assigns the cached pointer without the mutex
  (`topology_service.cc:241`); the other task may read a null topology and dereference it.
- In mode "reader or writer" the writer races against the last reader when the
  number of readers is odd (`failover_reader_handler.cc:208`), although
  `src/docs/using-the-aws-driver/UsingTheAwsDriver.md:35` gives readers priority.
- With disposal of monitors: `monitor_map[node]` may be null
  (`monitor_thread_container.cc:90`); a monitor of another host may be reused
  (line 93); a monitor may end while a call registers with it (`monitor.cc:173`); a
  context may be left behind (`monitor_service.cc:106`).
- A failover of one connection clears the contexts of the others
  (`monitor_service.cc:132`).
- `run` resets `stopped` (`monitor.cc:141`), so `SQLFreeEnv` may wait for a
  monitor that was told to stop before it started.
- A node is dead by duration, not by the number of failed checks
  (`monitor_connection_context.cc:167`; `src/docs/using-the-aws-driver/HostMonitoring.md:34`
  speaks of the number of failed checks): run `connection_context_count`.
- `stop_monitoring` computes the shortest interval under the mutex and assigns it
  after releasing it (`monitor.cc:119`). If another connection starts a call in
  between, its interval is overwritten by `milliseconds::max()` and the monitor sleeps
  while that call needs it; `src/docs/using-the-aws-driver/HostMonitoring.md:6` speaks of
  a periodic check: run `host_monitor_sleep`.
- A reader failover filters its hosts once, before the search
  (`failover_handler.cc:509`), and installs what it finds; a custom endpoint that changes
  meanwhile is not looked at, and the connection may move to a host that is no longer a
  member, although `src/docs/using-the-aws-driver/CustomEndpoint.md:3` includes
  "connections used in failover". A writer failover looks the host up at its end.
- `do_query` recognises `BEGIN` and `START TRANSACTION` alone (`execute.cc:207`): the
  loss of a transaction that `BEGIN WORK` or `START TRANSACTION READ ONLY` began is
  reported as `08S02`.
- Connected to the right writer, `should_connect_to_new_writer` does not force a refresh
  (`failover_handler.cc:331`): a topology that another connection cached before a
  promotion sends the connection to the old writer, although the comment at line 351
  speaks of a name resolved "to a wrong writer".
- `update_connection` installs a new session and leaves `dbc->sql_select_limit` as
  it was (`connection_handler.cc:98`); `set_sql_select_limit` then finds the wanted
  value set (`utility.cc:3156`), and `SQL_ATTR_MAX_ROWS` is not applied after a failover.
- With an address and no `HOST_PATTERN`, the first topology query of an Aurora
  server dereferences a null template (`topology_service.cc:363`); the message at
  `failover_handler.cc:232` is not reached, although
  `src/unit_testing/failover_handler_test.cc:140` expects its exception (with a mocked
  topology service). With the writer endpoint and no topology,
  `should_connect_to_new_writer` dereferences a null topology (`failover_handler.cc:335`).
- The exceptions of `init_cluster_info` are caught by no caller in the driver.
- A topology has no writer when the latest one is also listed as a reader
  (`topology_service.cc:328`).
- Without a cluster id, the id is the time in seconds (`topology_service.cc:41`):
  two connections made in one second share an entry of the cache, whatever they are connected to.
- A secret without a user name or a password is cached (`secrets_manager_proxy.cc:153`)
  and never fetched again, as the test at line 119 comes before the login.
- `OKTA_PROXY` and `ADFS_PROXY` keep tokens for `AUTH_EXPIRATION`
  (`okta_proxy.cc:90`, `adfs_proxy.cc:244`), not for `FED_AUTH_EXPIRATION_TIME`.
- The filter made of an exclusion list has an empty set of allowed hosts
  (`custom_endpoint_monitor.cc:157`) and admits no host at all
  (`topology_service.cc:196`), where `allowed_and_blocked_hosts.h:43` and 54 say that
  all hosts not blocked are allowed then.
- Only the connection whose call made the running monitor gets the filter; another one to the
  same endpoint fails over without one (`custom_endpoint_monitor.cc:161`).
- A second endpoint of an environment gets no loop, since the pool has a thread
  already (`custom_endpoint_monitor.cc:96`); stopping its monitor, in `SQLFreeEnv` too,
  waits for the loop of the first one. After any stop the pool runs no loop again.
- An exception of the service ends the loop for good (`custom_endpoint_monitor.cc:170`,
  whose comment says "continue monitoring"). The comparison at line 140 is one of
  pointers, so every refresh counts as a change. The expiry of a monitor in the cache is never
  extended (`sliding_expiration_cache.cc:75` extends that of a copy).
- `SQLPrepare`, the catalog functions and `SQLEndTran` on an environment hide a
  failover.

## 6. Not modelled, and the plan

Left out for good: conversions between character sets and data types, the text
of catalog queries, metrics, telemetry and logging (nothing depends on them),
HTTP and AWS SDK exchanges, set-up dialogs and installers (I/O), vendored code
(MySQL's string and system libraries, most of the repository's lines).
The thread pool class is not part of the repository. Data races that the code has on
containers (`topology_cache`, the maps of the caches, the pool's vector of threads) are
modelled by the outcomes of their statements in some order; what the memory model adds is not.

Next, in this order:

1. **Proofs**: what `host_monitor_lifecycle` could promise of monitoring under failover
   and disposal beyond `EndedContextsInactive`; that the failover procedures promise what
   `Session` takes of them in one step.
2. **Handles and statements**: life cycle of environments, connections,
   statements and descriptors; cursors and result sets; `SQLParamData`.
3. **Query parsing** as operators checked against a reference definition.
4. **Composition** of `Session` with `CustomEndpoint`, whose filter it takes as free.
