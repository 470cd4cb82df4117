------------------------------ MODULE Connect ------------------------------
(***************************************************************************)
(* SQLConnect of one connection: FAILOVER_HANDLER::init_connection, with   *)
(* DBC::connect, init_cluster_info, should_connect_to_new_writer and       *)
(* reconnect, over the topology cache all connections of the process share.*)
(*                                                                         *)
(* Around it the cluster promotes another instance, the name of the writer *)
(* endpoint follows later, old records stay in the status table for a      *)
(* while, the cached topology ages, and another connection refreshes it.   *)
(* Every query, login and name resolution is a step of its own and may     *)
(* fail.                                                                   *)
(***************************************************************************)
EXTENDS TopologyQuery

CONSTANTS
    Kinds,          \* what the SERVER option may be, a subset of Kind
    Patterns,       \* what the HOST_PATTERN option may be, a subset of Pattern
    MaxEpoch        \* bound of the promotions

\* Endpoints of Aurora (a custom endpoint and an instance differ in nothing
\* here), another domain, an address, and a list of instances with MULTI_HOST.
Kind == {"writer", "reader", "instance", "proxy", "domain", "ip", "list"}
\* No pattern; not one (no "?"); one of a proxy or of a custom endpoint, which
\* are refused; one of instances; one whose hosts are cluster endpoints.
Pattern == {"none", "invalid", "refused", "instances", "cluster"}

Rds == {"writer", "reader", "instance", "proxy", "list"}
\* The id of the topology the server or the pattern gives is one that other
\* connections have too; the default, the time, is not.
KnownId(p) == p.pattern = "cluster" \/ (p.pattern = "none" /\ p.kind \in Rds)

\* The options, where they make a difference: the server, the pattern, whether a
\* cluster id and a failover mode are given, whether failover is enabled and
\* whether its timeouts differ from those of a login.
Parameters ==
    {p \in [kind : Kinds, pattern : Patterns, cluster_id : BOOLEAN, enable : BOOLEAN,
            mode : BOOLEAN, timeouts : BOOLEAN] :
        /\ p.enable \/ (~p.mode /\ ~p.timeouts)
        /\ p.cluster_id => ~KnownId(p) /\ p.pattern \notin {"invalid", "refused"}}

ASSUME KindsAssumption == Kinds \subseteq Kind /\ Patterns \subseteq Pattern
ASSUME MaxEpochAssumption == MaxEpoch \in Nat
ASSUME NullAssumption == NULL \notin Instances /\ NULL \notin Row /\ "given" \notin Instances
ASSUME InstancesAssumption == IsFiniteSet(Instances)

VARIABLES
    par,            \* the data source: what the application set
    \* the cluster
    aurora,         \* the server has the status table
    table,          \* its rows, newest first
    writer,         \* the instance that is the writer
    dns,            \* the instance the writer endpoint resolves to
    epoch,          \* promotions so far
    \* the process
    cache,          \* the entry of topology_cache for the cluster id, or NULL
    old,            \* it is older than TOPOLOGY_REFRESH_RATE
    \* the connection
    pc,
    server,         \* opt_SERVER: "given", or an instance
    hosts,          \* the hosts DBC::connect has yet to try
    node,           \* the instance it is connected to, or NULL
    settings,       \* the timeouts it was made with
    template,       \* cluster_instance_host: "none", or what kind of host it is
    rds_proxy,      \* m_is_rds_proxy
    available,      \* m_is_cluster_topology_available
    initialized,    \* is_cluster_info_initialized
    mode,           \* opt_FAILOVER_MODE
    again,          \* reconnect_with_updated_timeouts
    second,         \* the login is that of reconnect
    host_ip,        \* the instance whose address the server name had
    topology,       \* what get_topology returns
    force,          \* its parameter force_update
    calm            \* history, for the writer endpoint: nothing around the connection
                    \* has changed or failed since it began

cluster == <<aurora, table, writer, dns, epoch>>
handler == <<template, rds_proxy, available, initialized, mode, again, host_ip>>
query == <<topology, force>>
vars == <<par, cluster, cache, old, pc, server, hosts, node, settings, second, handler, query, calm>>

At(label) == pc = label
Goto(label) == pc' = label

-----------------------------------------------------------------------------
(* The cluster and the other connections                                   *)

Fresh(w, time) == {[server |-> i, writer |-> i = w, updated |-> time] : i \in Instances}
NoServer(time) == [server |-> NULL, writer |-> FALSE, updated |-> time]

\* A promotion: every instance has a new record; the old ones are dropped when
\* they are 300 seconds old, the oldest first.
Promote(w) ==
    /\ epoch < MaxEpoch /\ w # writer
    /\ writer' = w /\ epoch' = epoch + 1
    /\ \E new \in SetToSeqs(Fresh(w, epoch + 1)), n \in 0..Len(table) :
         table' = IF aurora THEN new \o SubSeq(table, 1, n) ELSE table
    /\ calm' = FALSE
    /\ UNCHANGED <<par, aurora, dns, cache, old, pc, server, hosts, node, settings, second, handler, query>>

DropRecord ==
    /\ table # <<>> /\ Last(table).updated < epoch
    /\ table' = Front(table) /\ calm' = FALSE
    /\ UNCHANGED <<par, aurora, writer, dns, epoch, cache, old, pc, server, hosts, node, settings,
                   second, handler, query>>

UpdateDns ==
    /\ dns # writer /\ dns' = writer /\ calm' = FALSE
    /\ UNCHANGED <<par, aurora, table, writer, epoch, cache, old, pc, server, hosts, node, settings,
                   second, handler, query>>

Shared == par.cluster_id \/ KnownId(par)

AgeCache ==
    /\ cache # NULL /\ ~old /\ old' = TRUE
    /\ UNCHANGED <<par, cluster, cache, pc, server, hosts, node, settings, second, handler, query, calm>>

OtherRefreshes ==
    /\ Shared /\ aurora /\ cache' = query_for_topology(table) /\ old' = FALSE
    /\ UNCHANGED <<par, cluster, pc, server, hosts, node, settings, second, handler, query, calm>>

-----------------------------------------------------------------------------
(* DBC::connect                                                            *)

\* What a host name leads to.  An instance is reached under its own name.
Reach(h) == IF h # "given" THEN {h} ELSE IF par.kind = "writer" THEN {dns} ELSE Instances

\* SQLConnect, after SQLDisconnect if there was a connection: a new data source,
\* proxies and failover handler.
Begin ==
    /\ pc \in {"idle", "connected", "failed"} /\ node' = NULL
    /\ server' = "given" /\ hosts' = IF par.kind = "list" THEN Instances ELSE {"given"}
    /\ template' = "none" /\ rds_proxy' = FALSE /\ available' = FALSE /\ initialized' = FALSE
    /\ mode' = "unset" /\ again' = FALSE /\ second' = FALSE /\ host_ip' = NULL
    /\ topology' = NULL /\ force' = FALSE
    /\ cache' = (IF Shared THEN cache ELSE NULL) /\ old' = (IF Shared THEN old ELSE FALSE)
    /\ calm' = (par.kind = "writer" /\ aurora /\ query_for_topology(table).writer = writer)
    /\ Goto("login")
    /\ UNCHANGED <<par, cluster, settings>>

Fails == Goto("failed") /\ node' = NULL

\* The hosts are tried in any order; an error that is not of the network is final.
Login ==
    /\ At("login")
    /\ \E h \in hosts :
        \/ \E n \in Reach(h) :
             /\ node' = n /\ server' = h /\ Goto("setup") /\ UNCHANGED <<hosts, calm>>
        \/ /\ hosts' = hosts \ {h} /\ calm' = FALSE /\ UNCHANGED server
           /\ IF hosts = {h} THEN Fails ELSE UNCHANGED <<pc, node>>
        \/ Fails /\ calm' = FALSE /\ UNCHANGED <<hosts, server>>
    /\ UNCHANGED <<par, cluster, cache, old, settings, second, handler, query>>

\* Version, character set, INITSTMT, autocommit and isolation: if one of them
\* fails, dbc_guard closes the connection.  Then init_connection goes on, or
\* reconnect returns.
Setup ==
    /\ At("setup")
    /\ \/ /\ settings' = (IF second /\ again THEN "failover" ELSE "plain") /\ UNCHANGED <<node, calm>>
          /\ Goto(CASE second -> "connected" [] ~second /\ par.enable -> "init" [] OTHER -> "resolve")
       \/ Fails /\ calm' = FALSE /\ UNCHANGED settings
    /\ UNCHANGED <<par, cluster, cache, old, server, hosts, second, handler, query>>

-----------------------------------------------------------------------------
(* init_cluster_info                                                       *)

\* A call of get_topology, by initialize_topology or by should_connect_to_new_writer.
Call(update) == Goto("topology") /\ force' = update /\ UNCHANGED topology
After == IF initialized THEN "compare" ELSE "init_end"

Throws == Goto("threw")

\* Everything up to initialize_topology.
InitClusterInfo ==
    /\ At("init")
    /\ \/ /\ par.pattern = "invalid" /\ Throws
          /\ UNCHANGED <<template, rds_proxy, query>>
       \/ /\ par.pattern = "refused" /\ Throws
          /\ template' = "instances" /\ UNCHANGED <<rds_proxy, query>>
       \/ /\ par.pattern \in {"instances", "cluster"} /\ Call(FALSE)
          /\ template' = par.pattern /\ rds_proxy' = FALSE
       \/ /\ par.pattern = "none" /\ par.kind = "ip" /\ Call(FALSE)
          /\ UNCHANGED <<template, rds_proxy>>
       \/ /\ par.pattern = "none" /\ par.kind = "domain" /\ Call(FALSE)
          /\ template' = "domain" /\ rds_proxy' = FALSE
       \/ /\ par.pattern = "none" /\ par.kind \in Rds /\ Call(FALSE)
          /\ template' = "instances" /\ rds_proxy' = (par.kind = "proxy")
    /\ UNCHANGED <<par, cluster, cache, old, server, hosts, node, settings, second,
                   available, initialized, mode, again, host_ip, calm>>

\* get_topology, up to the answer of the server: a host is made of a row with
\* the template, which may not be there.
GetTopology ==
    /\ At("topology") /\ force' = FALSE
    /\ IF cache # NULL /\ ~force /\ ~old
       THEN topology' = cache /\ Goto(After) /\ UNCHANGED calm
       ELSE \/ topology' = cache /\ Goto(After) /\ calm' = FALSE
            \/ /\ aurora /\ UNCHANGED calm
               /\ IF template = "none" /\ \E r \in ToSet(table) : r.server # NULL
                  THEN Goto("crashed") /\ UNCHANGED topology
                  ELSE topology' = query_for_topology(table) /\ Goto("put")
    /\ UNCHANGED <<par, cluster, cache, old, server, hosts, node, settings, second, handler>>

\* put_to_cache, whatever was put there meanwhile.
PutToCache ==
    /\ At("put")
    /\ cache' = topology /\ old' = FALSE /\ Goto(After)
    /\ UNCHANGED <<par, cluster, server, hosts, node, settings, second, handler, query, calm>>

\* The rest of initialize_topology and of init_cluster_info.  (The size of the
\* thread pool it sets there is left out.)
InitEnd ==
    /\ At("init_end") /\ topology' = NULL
    /\ available' = (IF topology = NULL THEN available ELSE total_hosts(topology) # 0)
    /\ IF available' /\ par.pattern = "none" /\ par.kind \in {"ip", "domain"}
       THEN Throws /\ UNCHANGED initialized
       ELSE initialized' = TRUE /\ Goto(IF par.enable THEN "options" ELSE "probe")
    /\ UNCHANGED <<par, cluster, cache, old, server, hosts, node, settings, second,
                   template, rds_proxy, mode, again, host_ip, force, calm>>

is_failover_enabled == par.enable /\ available /\ ~rds_proxy

\* Mutant: the connection keeps the timeouts it was made with.
OptionsKept ==
    /\ At("options")
    /\ again' = FALSE
    /\ mode' = IF par.mode THEN "given" ELSE IF par.kind = "reader" THEN "reader or writer" ELSE "strict writer"
    /\ Goto("resolve")
    /\ UNCHANGED <<par, cluster, cache, old, server, hosts, node, settings, second,
                   template, rds_proxy, available, initialized, host_ip, query, calm>>

\* init_connection, after init_cluster_info: timeouts and failover mode.
Options ==
    /\ At("options")
    /\ again' = (is_failover_enabled /\ par.timeouts)
    /\ mode' = IF par.mode THEN "given" ELSE IF par.kind = "reader" THEN "reader or writer" ELSE "strict writer"
    /\ Goto("resolve")
    /\ UNCHANGED <<par, cluster, cache, old, server, hosts, node, settings, second,
                   template, rds_proxy, available, initialized, host_ip, query, calm>>

-----------------------------------------------------------------------------
(* should_connect_to_new_writer and reconnect                              *)

\* reconnect closes the connection and calls DBC::connect again.
Reconnect(s) ==
    /\ node' = NULL /\ second' = TRUE /\ server' = s /\ hosts' = {s} /\ Goto("login")
Stay == IF again THEN Reconnect(server)
        ELSE Goto("connected") /\ UNCHANGED <<server, hosts, node, second>>

\* Only a writer endpoint is looked at, and only if its name resolves.
Resolve ==
    /\ At("resolve")
    /\ \/ par.kind # "writer" /\ Stay /\ UNCHANGED <<host_ip, calm>>
       \/ par.kind = "writer" /\ Stay /\ calm' = FALSE /\ UNCHANGED host_ip
       \/ /\ par.kind = "writer" /\ host_ip' = dns
          /\ Goto(IF initialized THEN "probe" ELSE "init")
          /\ UNCHANGED <<server, hosts, node, second, calm>>
    /\ UNCHANGED <<par, cluster, cache, old, settings, template, rds_proxy, available,
                   initialized, mode, again, query>>

\* Mutant: the cached topology is good enough for a reader too.
ProbeCached ==
    /\ At("probe")
    /\ Call(FALSE)
    /\ UNCHANGED <<par, cluster, cache, old, server, hosts, node, settings, second, handler, calm>>

\* is_read_only: a query that fails counts as no.
Probe ==
    /\ At("probe")
    /\ \/ Call(node # writer) /\ UNCHANGED calm
       \/ Call(FALSE) /\ calm' = FALSE
    /\ UNCHANGED <<par, cluster, cache, old, server, hosts, node, settings, second, handler>>

\* Mutant: a topology without a writer is used like any other.
CompareNoWriter ==
    /\ At("compare")
    /\ IF topology = NULL \/ topology.writer = NULL
       THEN Goto("crashed") /\ UNCHANGED <<server, hosts, node, second, calm>>
       ELSE Stay /\ UNCHANGED calm
    /\ UNCHANGED <<par, cluster, cache, old, settings, handler, query>>

\* The address of the writer of the topology against the one the name had.  The
\* topology may be none at all.
Compare ==
    /\ At("compare")
    /\ IF topology = NULL THEN Goto("crashed") /\ UNCHANGED <<server, hosts, node, second, calm>>
       ELSE \/ /\ topology.writer \in {NULL, host_ip} \/ template = "cluster"
               /\ Stay /\ UNCHANGED calm
            \/ /\ topology.writer \notin {NULL, host_ip} /\ template # "cluster"
               /\ \/ Reconnect(topology.writer) /\ UNCHANGED calm
                  \/ Stay /\ calm' = FALSE
    /\ UNCHANGED <<par, cluster, cache, old, settings, handler, query>>

-----------------------------------------------------------------------------
Init ==
    /\ par \in Parameters
    /\ aurora \in BOOLEAN /\ epoch = 0
    /\ writer \in Instances /\ dns = writer
    /\ table \in IF ~aurora THEN {<<>>}
                 ELSE {Append(rows, NoServer(0)) : rows \in SetToSeqs(Fresh(writer, 0))}
    /\ cache = NULL /\ old = FALSE
    /\ pc = "idle" /\ server = "given" /\ hosts = {} /\ node = NULL /\ settings = "plain"
    /\ template = "none" /\ rds_proxy = FALSE /\ available = FALSE /\ initialized = FALSE
    /\ mode = "unset" /\ again = FALSE /\ second = FALSE /\ host_ip = NULL
    /\ topology = NULL /\ force = FALSE /\ calm = FALSE

\* An exception that leaves SQLConnect ends the process, as a null pointer does.
Environment ==
    /\ pc \notin {"threw", "crashed"}
    /\ (\E w \in Instances : Promote(w)) \/ DropRecord \/ UpdateDns \/ AgeCache \/ OtherRefreshes
Connection ==
    \/ Begin \/ Login \/ Setup
    \/ InitClusterInfo \/ GetTopology \/ PutToCache \/ InitEnd \/ Options
    \/ Resolve \/ Probe \/ Compare

Next == Environment \/ Connection

Spec == Init /\ [][Next]_vars

-----------------------------------------------------------------------------
(* Properties                                                              *)

\* An established connection that may fail over can: it has a template to make
\* the names of instances from, and the timeouts of failover if they differ.
ReadyForFailover ==
    pc = "connected" /\ is_failover_enabled =>
        /\ template \in {"instances", "cluster"}
        /\ par.timeouts => settings = "failover"

\* Whatever old records the status table holds besides the new ones, the topology
\* made of its rows is right.
TopologyFaithful ==
    aurora => Faithful(query_for_topology(table), table)

\* If the writer endpoint still leads to an instance that is no longer the
\* writer, a connection that sees no other change or error ends at the writer,
\* whatever topology was cached.
WrongWriterCorrected ==
    /\ pc = "connected" /\ par.kind = "writer" /\ par.pattern # "cluster"
    /\ calm /\ dns # writer
    => node = writer

\* The only null pointers: the template, when an address is given without a
\* pattern, and the topology, when the writer endpoint is given and no topology
\* could be had.
CrashesOnlyBlind ==
    pc = "crashed" =>
        \/ par.kind = "ip" /\ par.pattern = "none"
        \/ par.kind = "writer" /\ topology = NULL
=============================================================================
