--------------------------- MODULE ConnectProofs ---------------------------
(***************************************************************************)
(* ReadyForFailover, CrashesOnlyBlind, WrongWriterCorrected and            *)
(* TopologyFaithful for every cluster, number of promotions and set of     *)
(* options.  The first three rest on what init_cluster_info has            *)
(* established by the time a step is taken: the template is the one the    *)
(* options call for (TemplateKnown), init_connection has looked at the     *)
(* timeouts once it is past init_cluster_info (TimeoutsKnown), and only a  *)
(* writer endpoint gets to the comparison of addresses (WriterOnly).       *)
(*                                                                         *)
(* WrongWriterCorrected follows a connection step by step from the stale   *)
(* name to the writer (RouteInv): it is read-only, so the topology is      *)
(* asked for anew, names another instance than the name did, and the       *)
(* second login goes there.                                                *)
(*                                                                         *)
(* TopologyFaithful is the correctness of the loop over the rows: Taken is *)
(* its invariant, and a least row that broke it would contradict RowTaken. *)
(***************************************************************************)
EXTENDS Connect, FiniteSetTheorems, WellFoundedInduction, TLAPS

\* The template init_cluster_info sets for given options.
TemplateOf(p) ==
    IF p.pattern # "none" THEN p.pattern
    ELSE IF p.kind = "ip" THEN "none" ELSE IF p.kind = "domain" THEN "domain" ELSE "instances"

Flags ==
    /\ par \in Parameters
    /\ second \in BOOLEAN /\ again \in BOOLEAN /\ available \in BOOLEAN
    /\ initialized \in BOOLEAN /\ rds_proxy \in BOOLEAN

\* Where the connection is tells whether init_cluster_info has completed.
Phase ==
    /\ pc \in {"probe", "compare", "options"} => initialized
    /\ pc \in {"init", "init_end"} => ~initialized
    /\ pc \in {"login", "setup"} /\ ~second => ~initialized /\ ~again
    /\ pc \in {"login", "setup", "resolve", "init"} /\ ~initialized => second \/ template = "none"
    /\ second => pc \in {"login", "setup", "connected", "failed"}
    /\ pc \in {"resolve", "connected"} /\ par.enable => initialized
    /\ pc \in {"login", "setup"} /\ second /\ par.enable => initialized

TemplateKnown ==
    /\ initialized \/ pc \in {"topology", "put", "init_end"} =>
           template = TemplateOf(par) /\ par.pattern \in {"none", "instances", "cluster"}
    /\ available => initialized \/ pc = "threw"
    /\ available /\ initialized => par.pattern # "none" \/ par.kind \notin {"ip", "domain"}

TimeoutsKnown ==
    /\ par.enable /\ initialized /\ pc # "options" => again = (is_failover_enabled /\ par.timeouts)
    /\ pc = "connected" /\ again => settings = "failover"

WriterOnly ==
    /\ pc \in {"probe", "compare"} \/ (pc \in {"topology", "put"} /\ initialized) => par.kind = "writer"
    /\ pc \in {"init", "topology", "put", "init_end"} /\ ~par.enable => par.kind = "writer"

ConnectInv == Flags /\ Phase /\ TemplateKnown /\ TimeoutsKnown /\ WriterOnly /\ CrashesOnlyBlind

-----------------------------------------------------------------------------
\* A step that leaves the connection, its options and its handler alone keeps
\* the invariant.
LEMMA Untouched ==
  ASSUME ConnectInv,
         UNCHANGED <<par, pc, second, settings, template, rds_proxy, available, initialized, again>>,
         UNCHANGED topology
  PROVE  ConnectInv'
  BY DEF ConnectInv, Flags, Phase, TemplateKnown, TimeoutsKnown, WriterOnly, CrashesOnlyBlind,
         TemplateOf, is_failover_enabled

\* The options have the kinds and patterns the model knows.
LEMMA OptionTypes ==
  ASSUME par \in Parameters
  PROVE  /\ par.kind \in Kind /\ par.pattern \in Pattern
         /\ par.enable \in BOOLEAN /\ par.timeouts \in BOOLEAN
  BY KindsAssumption DEF Parameters

LEMMA InvInit == Init => ConnectInv
  BY DEF Init, ConnectInv, Flags, Phase, TemplateKnown, TimeoutsKnown, WriterOnly, CrashesOnlyBlind

\* Every step keeps the invariant.
LEMMA InvStep == ConnectInv /\ [Next]_vars => ConnectInv'
  <1> SUFFICES ASSUME ConnectInv, [Next]_vars PROVE ConnectInv'
    OBVIOUS
  <1>0. /\ par.kind \in Kind /\ par.pattern \in Pattern
        /\ par.enable \in BOOLEAN /\ par.timeouts \in BOOLEAN
    BY OptionTypes DEF ConnectInv, Flags
  <1> USE DEF ConnectInv, Flags, Phase, TemplateKnown, TimeoutsKnown, WriterOnly, CrashesOnlyBlind,
              is_failover_enabled, Goto, At
  <1>1. CASE UNCHANGED vars
    BY <1>1, Untouched DEF vars, handler, query
  <1>2. CASE Environment
    BY <1>2, Untouched DEF Environment, Promote, DropRecord, UpdateDns, AgeCache, OtherRefreshes,
                           handler, query
  <1>3. CASE Begin
    <2>1. /\ pc' = "login" /\ ~second' /\ ~again' /\ ~initialized' /\ ~available' /\ ~rds_proxy'
          /\ par' = par /\ template' = "none"
      BY <1>3 DEF Begin
    <2>2. second' \in BOOLEAN /\ again' \in BOOLEAN /\ available' \in BOOLEAN
          /\ initialized' \in BOOLEAN /\ rds_proxy' \in BOOLEAN
      BY <1>3 DEF Begin
    <2>3. QED
      BY <2>1, <2>2
  <1>4. CASE Login
    <2>0. pc' = "setup" \/ pc' = pc \/ pc' = "failed"
      BY <1>4 DEF Login, Fails
    <2>1. CASE pc' = "setup" \/ pc' = pc
      BY <1>4, <2>1 DEF Login, handler, query, TemplateOf
    <2>2. CASE pc' = "failed"
      BY <1>4, <2>2 DEF Login, handler, query, TemplateOf
    <2>3. QED
      BY <2>0, <2>1, <2>2
  <1>5. CASE Setup
    BY <1>0, <1>5 DEF Setup, Fails, handler, query, TemplateOf
  <1>6. CASE InitClusterInfo
    <2>1. /\ ~initialized /\ ~initialized' /\ par' = par /\ second' = second
          /\ available' = available /\ again' = again
      BY <1>6 DEF InitClusterInfo
    <2>2. CASE par.pattern \in {"invalid", "refused"}
      <3>1. pc' = "threw" /\ rds_proxy' = rds_proxy
        BY <1>6, <2>2 DEF InitClusterInfo, Throws
      <3>2. QED
        BY <1>6, <2>1, <3>1 DEF InitClusterInfo, TemplateOf
    <2>3. CASE par.pattern \in {"none", "instances", "cluster"}
      <3>1. /\ pc' = "topology" /\ template' = TemplateOf(par) /\ rds_proxy' \in BOOLEAN
        <4>1. CASE par.pattern \in {"instances", "cluster"}
          BY <1>6, <4>1 DEF InitClusterInfo, Call, TemplateOf
        <4>2. CASE par.pattern = "none" /\ par.kind = "ip"
          <5>1. template = "none" /\ TemplateOf(par) = "none"
            BY <1>6, <4>2 DEF InitClusterInfo, TemplateOf
          <5>2. pc' = "topology" /\ template' = template /\ rds_proxy' = rds_proxy
            BY <1>6, <4>2 DEF InitClusterInfo, Call, Rds
          <5>3. QED
            BY <5>1, <5>2
        <4>3. CASE par.pattern = "none" /\ par.kind = "domain"
          BY <1>6, <4>3 DEF InitClusterInfo, Call, TemplateOf, Rds
        <4>4. CASE par.pattern = "none" /\ par.kind \in Rds
          BY <1>6, <4>4 DEF InitClusterInfo, Call, TemplateOf, Rds
        <4>5. QED
          BY <1>0, <2>3, <4>1, <4>2, <4>3, <4>4 DEF Kind, Rds
      <3>2. QED
        BY <1>6, <2>1, <2>3, <3>1 DEF InitClusterInfo, TemplateOf
    <2>4. QED
      BY <1>0, <2>2, <2>3 DEF Pattern
  <1>7. CASE GetTopology
    BY <1>0, <1>7 DEF GetTopology, After, handler, TemplateOf, Kind, Pattern
  <1>8. CASE PutToCache
    BY <1>8 DEF PutToCache, After, handler, query, TemplateOf
  <1>9. CASE InitEnd
    <2>1. available' \in BOOLEAN
      BY <1>9 DEF InitEnd
    <2>2. QED
      BY <1>0, <1>9, <2>1 DEF InitEnd, Throws, TemplateOf
  <1>10. CASE Options
    BY <1>0, <1>10 DEF Options, query, TemplateOf
  <1>11. CASE Resolve
    <2>1. /\ pc = "resolve" /\ ~second
          /\ UNCHANGED <<par, settings, template, rds_proxy, available, initialized, again, topology>>
      BY <1>11 DEF Resolve, query
    <2>2. CASE again /\ pc' = "login" /\ second'= TRUE
      BY <1>0, <2>1, <2>2 DEF TemplateOf
    <2>3. CASE ~again /\ pc' = "connected" /\ second' = second
      BY <1>0, <2>1, <2>3 DEF TemplateOf
    <2>4. CASE par.kind = "writer" /\ pc' = (IF initialized THEN "probe" ELSE "init") /\ second' = second
      BY <1>0, <2>1, <2>4 DEF TemplateOf
    <2>5. QED
      BY <1>11, <2>2, <2>3, <2>4 DEF Resolve, Stay, Reconnect
  <1>12. CASE Probe
    BY <1>12 DEF Probe, Call, handler, TemplateOf
  <1>13. CASE Compare
    BY <1>0, <1>13 DEF Compare, Stay, Reconnect, handler, query, TemplateOf
  <1>14. QED
    BY <1>1, <1>2, <1>3, <1>4, <1>5, <1>6, <1>7, <1>8, <1>9, <1>10, <1>11, <1>12, <1>13
       DEF Next, Connection

\* For any cluster and options: an established connection that may fail over has
\* a template and the timeouts of failover.
THEOREM FailoverIsPrepared == Spec => []ReadyForFailover
  <1>1. ConnectInv => ReadyForFailover
    BY OptionTypes DEF ConnectInv, Flags, Phase, TemplateKnown, TimeoutsKnown, ReadyForFailover,
                       is_failover_enabled, TemplateOf, Pattern
  <1>2. QED
    BY InvInit, InvStep, <1>1, PTL DEF Spec

\* For any cluster and options: the two null pointers of CrashesOnlyBlind are the
\* only ones.
THEOREM NullOnlyWhenBlind == Spec => []CrashesOnlyBlind
  <1>1. ConnectInv => CrashesOnlyBlind
    BY DEF ConnectInv
  <1>2. QED
    BY InvInit, InvStep, <1>1, PTL DEF Spec

-----------------------------------------------------------------------------
\* Nothing but the name of the writer endpoint is wrong.
Stale == calm /\ dns # writer /\ par.pattern # "cluster"

\* What the table says then, and where the connection is.
CalmTable == calm => par.kind = "writer" /\ aurora /\ query_for_topology(table).writer = writer
NodeInv ==
    Stale =>
        /\ pc = "login" => hosts \subseteq (IF second THEN {writer} ELSE {"given"})
        /\ pc = "setup" => node = (IF second THEN writer ELSE dns)
        /\ pc \in {"init", "topology", "put", "init_end", "options", "resolve", "probe", "compare"} => node = dns
        /\ pc = "connected" => node = writer
\* What it knows of the address and of the writer.
WriterInv ==
    Stale =>
        /\ \/ pc \in {"probe", "compare"}
           \/ pc \in {"topology", "put"} /\ initialized
           \/ pc \in {"init", "topology", "put", "init_end"} /\ ~par.enable
           => host_ip = dns
        /\ pc = "topology" /\ initialized => force
        /\ pc = "compare" \/ (pc = "put" /\ initialized) => topology = NULL \/ topology.writer = writer

RouteInv == writer \in Instances /\ CalmTable /\ NodeInv /\ WriterInv

LEMMA RouteInit == Init => RouteInv
  BY DEF Init, RouteInv, CalmTable, NodeInv, WriterInv, Stale

\* Every step that keeps calm takes the connection on along its route.
LEMMA RouteStep == ConnectInv /\ RouteInv /\ [Next]_vars => RouteInv'
  <1> SUFFICES ASSUME ConnectInv, RouteInv, [Next]_vars PROVE RouteInv'
    OBVIOUS
  <1> USE DEF RouteInv, Goto, At
  <1>1. /\ par \in Parameters /\ Phase /\ second \in BOOLEAN /\ initialized \in BOOLEAN
        /\ par.kind \in Kind /\ par.pattern \in Pattern /\ par.enable \in BOOLEAN
        /\ par.pattern # "cluster" /\ par.kind = "writer" /\ initialized => template # "cluster"
    BY OptionTypes DEF ConnectInv, Flags, TemplateKnown, TemplateOf, Pattern
  <1>2. CASE Environment
    <2>1. CASE (\E w \in Instances : Promote(w)) \/ DropRecord \/ UpdateDns
      <3>1. calm' = FALSE /\ writer' \in Instances
        BY <2>1 DEF Promote, DropRecord, UpdateDns
      <3> QED
        BY <3>1 DEF CalmTable, NodeInv, WriterInv, Stale
    <2>2. CASE AgeCache \/ OtherRefreshes
      BY <2>2 DEF AgeCache, OtherRefreshes, cluster, handler, query, CalmTable, NodeInv, WriterInv, Stale
    <2> QED
      BY <1>2, <2>1, <2>2 DEF Environment
  <1>3. CASE UNCHANGED vars
    BY <1>3 DEF vars, cluster, handler, query, CalmTable, NodeInv, WriterInv, Stale
  <1>4. CASE Begin
    BY <1>4 DEF Begin, cluster, CalmTable, NodeInv, WriterInv, Stale
  <1>5. CASE Connection /\ ~Begin
    <2>1. UNCHANGED <<par, aurora, table, writer, dns>> /\ (calm' => calm)
      BY <1>5 DEF Connection, Login, Setup, InitClusterInfo, GetTopology, PutToCache, InitEnd,
                  Options, Resolve, Probe, Compare, cluster
    <2>2. CalmTable'
      BY <2>1 DEF CalmTable
    <2> SUFFICES ASSUME Stale' PROVE NodeInv' /\ WriterInv'
      BY <2>1, <2>2 DEF NodeInv, WriterInv
    <2>3. Stale /\ par.kind = "writer" /\ aurora /\ query_for_topology(table).writer = writer
      BY <2>1 DEF Stale, CalmTable
    <2>4. calm'
      BY DEF Stale
    <2>5. CASE Login
      <3>1. PICK h \in hosts : node' \in Reach(h) /\ pc' = "setup"
        BY <2>4, <2>5 DEF Login
      <3>2. pc = "login" /\ UNCHANGED <<second, host_ip, topology, initialized, force>>
        BY <2>5 DEF Login, handler, query
      <3>3. node' = (IF second THEN writer ELSE dns)
        BY <1>1, <2>3, <3>1, <3>2, NullAssumption DEF NodeInv, Reach
      <3> QED
        BY <2>1, <3>1, <3>2, <3>3 DEF NodeInv, WriterInv
    <2>6. CASE Setup
      BY <1>1, <2>1, <2>3, <2>4, <2>6 DEF Setup, Fails, handler, query, NodeInv, WriterInv, Phase
    <2>7. CASE InitClusterInfo
      BY <1>1, <2>1, <2>3, <2>7 DEF InitClusterInfo, Throws, Call, Phase, NodeInv, WriterInv
    <2>8. CASE GetTopology
      <3>1. initialized => \/ topology' = query_for_topology(table) /\ pc' = "put"
                           \/ pc' = "crashed"
        BY <2>3, <2>4, <2>8 DEF GetTopology, WriterInv
      <3> QED
        BY <1>1, <2>1, <2>3, <2>8, <3>1 DEF GetTopology, After, handler, NodeInv, WriterInv
    <2>9. CASE PutToCache
      BY <1>1, <2>1, <2>3, <2>9 DEF PutToCache, After, handler, query, NodeInv, WriterInv
    <2>10. CASE InitEnd
      BY <1>1, <2>1, <2>3, <2>10 DEF InitEnd, Throws, Phase, NodeInv, WriterInv
    <2>11. CASE Options
      BY <1>1, <2>1, <2>3, <2>11 DEF Options, query, NodeInv, WriterInv
    <2>12. CASE Resolve
      <3>1. /\ pc' = (IF initialized THEN "probe" ELSE "init") /\ host_ip' = dns
            /\ UNCHANGED <<node, second, initialized>>
        BY <2>3, <2>4, <2>12 DEF Resolve
      <3> QED
        BY <1>1, <2>1, <2>3, <2>12, <3>1 DEF Resolve, Phase, NodeInv, WriterInv
    <2>13. CASE Probe
      <3>1. node # writer
        BY <2>3, <2>13 DEF Probe, NodeInv, Stale
      <3> QED
        BY <1>1, <2>1, <2>3, <2>4, <2>13, <3>1 DEF Probe, Call, handler, NodeInv, WriterInv
    <2>14. CASE Compare
      <3>1. CASE topology = NULL
        BY <2>1, <2>14, <3>1 DEF Compare, NodeInv, WriterInv
      <3>2. CASE topology # NULL
        <4>1. topology.writer \notin {NULL, host_ip} /\ template # "cluster"
          BY <1>1, <2>3, <2>14, <3>2, NullAssumption DEF Compare, Phase, WriterInv, Stale
        <4>2. Reconnect(topology.writer) /\ topology.writer = writer
          BY <2>3, <2>4, <2>14, <3>2, <4>1 DEF Compare, WriterInv
        <4> QED
          BY <2>1, <2>14, <4>2 DEF Reconnect, NodeInv, WriterInv
      <3> QED
        BY <3>1, <3>2
    <2> QED
      BY <1>5, <2>5, <2>6, <2>7, <2>8, <2>9, <2>10, <2>11, <2>12, <2>13, <2>14 DEF Connection
  <1> QED
    BY <1>2, <1>3, <1>4, <1>5 DEF Next

\* For any cluster and options: a connection made through a writer endpoint that still
\* leads to the old writer ends at the new one, whatever topology was cached, if it
\* sees no other change or error.
THEOREM WrongWritersAreCorrected == Spec => []WrongWriterCorrected
  <1>1. RouteInv => WrongWriterCorrected
    BY DEF RouteInv, NodeInv, Stale, WrongWriterCorrected
  <1>2. Init => ConnectInv /\ RouteInv
    BY InvInit, RouteInit
  <1>3. ConnectInv /\ RouteInv /\ [Next]_vars => (ConnectInv /\ RouteInv)'
    BY InvStep, RouteStep
  <1>4. QED
    BY <1>1, <1>2, <1>3, PTL DEF Spec

-----------------------------------------------------------------------------
(* The loop of query_for_topology                                          *)

\* A set of numbers that is not empty has a least one.  It stands in for induction
\* over the rows: a loop that breaks its invariant does so at a first row.
LEMMA LeastNumber ==
  ASSUME NEW S, S \subseteq Nat, S # {}
  PROVE  \E n \in S : \A m \in S : n <= m
  <1> DEFINE R == OpToRel(<, Nat)
  <1>1. IsWellFoundedOn(R, Nat)
    BY NatLessThanWellFounded, Zenon
  <1>2. \A x, y \in Nat : <<x, y>> \in R <=> x < y
    BY DEF OpToRel
  <1> HIDE DEF R
  <1>3. PICK n \in S : \A m \in S : ~(<<m, n>> \in R)
    BY <1>1, WFMin
  <1>4. ASSUME NEW m \in S PROVE n <= m
    <2>1. ~(<<m, n>> \in R)
      BY <1>3
    <2> QED
      BY <1>2, <2>1
  <1> QED
    BY <1>4

\* g is what has been found after each of the first N rows.
Start == [latest |-> NULL, readers |-> <<>>]
Ran(rows, N, g) == g = [n \in 0 .. N |-> IF n = 0 THEN Start ELSE TakeRow(g[n - 1], rows[n])]

\* However many rows there are, the loop goes over all of them.
LEMMA LoopRuns ==
  ASSUME NEW rows, NEW N \in Nat
  PROVE  \E g : Ran(rows, N, g)
  <1> DEFINE Bad == {n \in Nat : ~\E g : Ran(rows, n, g)}
  <1> SUFFICES ASSUME Bad # {} PROVE FALSE
    OBVIOUS
  <1>1. PICK n \in Bad : \A m \in Bad : n <= m
    BY LeastNumber
  <1>2. CASE n = 0
    <2>1. Ran(rows, 0, [k \in 0 .. 0 |-> Start])
      BY DEF Ran
    <2> QED
      BY <1>1, <1>2, <2>1
  <1>3. CASE n # 0
    <2>1. n \in Nat /\ n - 1 \in Nat /\ n - 1 \notin Bad
      BY <1>1, <1>3
    <2>2. PICK g : Ran(rows, n - 1, g)
      BY <2>1
    <2> DEFINE h == [k \in 0 .. n |-> IF k = n THEN TakeRow(g[n - 1], rows[n]) ELSE g[k]]
    <2>3. \A k \in 0 .. n - 1 : g[k] = IF k = 0 THEN Start ELSE TakeRow(g[k - 1], rows[k])
      BY <2>1, <2>2 DEF Ran
    <2>4. ASSUME NEW k \in 0 .. n
          PROVE  h[k] = IF k = 0 THEN Start ELSE TakeRow(h[k - 1], rows[k])
      BY <1>3, <2>1, <2>3
    <2>5. Ran(rows, n, h)
      BY <2>4 DEF Ran
    <2> QED
      BY <1>1, <2>5
  <1> QED
    BY <1>2, <1>3

\* What TakeRows defines is that run of the loop.
LEMMA LoopIsRun ==
  ASSUME NEW rows \in Seq(Row)
  PROVE  Ran(rows, Len(rows), TakeRows(rows))
  <1>1. PICK g : Ran(rows, Len(rows), g)
    BY LoopRuns
  <1> QED
    BY <1>1, Zenon DEF Ran, TakeRows, Start

\* The two kinds of rows that create_host makes a host of.
ReaderRow(row) == row.server # NULL /\ ~row.writer
WriterRow(row) == row.server # NULL /\ row.writer

\* The invariant of the loop: after n rows the readers are those with a reader
\* record among them, each once, and the writer kept aside is the one of the
\* latest writer record among them.
ReadersTaken(found, rows, n) ==
    /\ \A k \in 1 .. n : ReaderRow(rows[k]) => \E i \in 1 .. Len(found.readers) : found.readers[i] = rows[k].server
    /\ \A i \in 1 .. Len(found.readers) : \E k \in 1 .. n : ReaderRow(rows[k]) /\ rows[k].server = found.readers[i]
    /\ \A i, j \in 1 .. Len(found.readers) : found.readers[i] = found.readers[j] => i = j
WriterTaken(found, rows, n) ==
    IF found.latest = NULL THEN \A k \in 1 .. n : ~WriterRow(rows[k])
    ELSE /\ \E k \in 1 .. n : WriterRow(rows[k]) /\ found.latest = rows[k]
         /\ \A k \in 1 .. n : WriterRow(rows[k]) => rows[k].updated <= found.latest.updated
Taken(found, rows, n) ==
    /\ found \in [latest : Row \union {NULL}, readers : Seq(Instances)]
    /\ ReadersTaken(found, rows, n) /\ WriterTaken(found, rows, n)

\* One round of the loop keeps the invariant.
LEMMA RowTaken ==
  ASSUME NEW rows \in Seq(Row), NEW n \in 1 .. Len(rows), NEW found, Taken(found, rows, n - 1)
  PROVE  Taken(TakeRow(found, rows[n]), rows, n)
  <1> DEFINE row == rows[n]
  <1>0. /\ row \in Row /\ n - 1 \in Nat /\ n \in Nat /\ Len(rows) \in Nat
        /\ \A k \in 1 .. n : k = n \/ k \in 1 .. n - 1
        /\ \A k \in 1 .. n - 1 : k \in 1 .. n /\ rows[k] \in Row
    OBVIOUS
  <1>1. row.server \in Instances \union {NULL} /\ row.writer \in BOOLEAN /\ row.updated \in Nat
    BY <1>0 DEF Row
  <1>2. /\ found \in [latest : Row \union {NULL}, readers : Seq(Instances)]
        /\ ReadersTaken(found, rows, n - 1) /\ WriterTaken(found, rows, n - 1)
    BY DEF Taken
  <1>3. CASE row.server = NULL
    <2>1. TakeRow(found, row) = found
      BY <1>3 DEF TakeRow
    <2>2. ReadersTaken(found, rows, n)
      BY <1>0, <1>1, <1>2, <1>3 DEF ReadersTaken, ReaderRow
    <2>3. WriterTaken(found, rows, n)
      BY <1>0, <1>1, <1>2, <1>3 DEF WriterTaken, WriterRow
    <2> QED
      BY <1>2, <2>1, <2>2, <2>3 DEF Taken
  <1>4. CASE row.server # NULL /\ row.writer
    <2> DEFINE new == IF found.latest = NULL \/ row.updated > found.latest.updated
                      THEN [found EXCEPT !.latest = row] ELSE found
    <2>1. TakeRow(found, row) = new
      BY <1>4 DEF TakeRow
    <2>2. /\ new \in [latest : Row \union {NULL}, readers : Seq(Instances)]
          /\ new.readers = found.readers
          /\ new.latest = IF found.latest = NULL \/ row.updated > found.latest.updated THEN row ELSE found.latest
      BY <1>0, <1>1, <1>2
    <2>3. ReadersTaken(new, rows, n)
      BY <1>0, <1>1, <1>2, <1>4, <2>2 DEF ReadersTaken, ReaderRow
    <2>4. row # NULL /\ (found.latest # NULL => found.latest \in Row /\ found.latest.updated \in Nat)
      BY <1>0, <1>1, <1>2, NullAssumption DEF Row
    <2>5. ASSUME NEW k \in 1 .. n - 1 PROVE rows[k].updated \in Nat
      BY <1>0, <1>1 DEF Row
    <2>6. WriterTaken(new, rows, n)
      <3> HIDE DEF new
      <3>1. CASE new.latest = row
        <4>1. ASSUME NEW k \in 1 .. n, WriterRow(rows[k]) PROVE rows[k].updated <= row.updated
          BY <1>0, <1>1, <1>2, <2>2, <2>4, <2>5, <3>1, <4>1 DEF WriterTaken
        <4> QED
          BY <1>0, <1>1, <1>4, <2>4, <3>1, <4>1 DEF WriterTaken, WriterRow
      <3>2. CASE new.latest # row
        <4>1. new.latest = found.latest /\ found.latest # NULL /\ row.updated <= found.latest.updated
          BY <1>0, <1>1, <2>2, <2>4, <3>2
        <4> QED
          BY <1>0, <1>1, <1>2, <4>1 DEF WriterTaken
      <3> QED
        BY <3>1, <3>2
    <2> QED
      BY <2>1, <2>2, <2>3, <2>6 DEF Taken
  <1>5. CASE row.server # NULL /\ ~row.writer
    <2> DEFINE new == IF Seen(found, row.server) THEN found
                      ELSE [found EXCEPT !.readers = Append(@, row.server)]
    <2>1. TakeRow(found, row) = new
      BY <1>5 DEF TakeRow
    <2>2. Seen(found, row.server) <=> \E i \in 1 .. Len(found.readers) : found.readers[i] = row.server
      BY <1>2 DEF Seen, Range
    <2>3. WriterTaken(found, rows, n)
      BY <1>0, <1>1, <1>2, <1>5 DEF WriterTaken, WriterRow
    <2>4. CASE Seen(found, row.server)
      <3>1. ReadersTaken(found, rows, n)
        BY <1>0, <1>1, <1>2, <1>5, <2>2, <2>4 DEF ReadersTaken, ReaderRow
      <3> QED
        BY <1>2, <2>1, <2>3, <2>4, <3>1 DEF Taken
    <2>5. CASE ~Seen(found, row.server)
      <3>1. new = [found EXCEPT !.readers = Append(@, row.server)]
        BY <2>5
      <3>2. /\ new \in [latest : Row \union {NULL}, readers : Seq(Instances)]
            /\ new.latest = found.latest /\ new.readers = Append(found.readers, row.server)
        <4>1. row.server \in Instances /\ found.readers \in Seq(Instances)
          BY <1>0, <1>1, <1>2, <1>5
        <4>2. Append(found.readers, row.server) \in Seq(Instances)
          BY <4>1
        <4> HIDE DEF row, new
        <4> QED
          BY <1>2, <3>1, <4>2
      <3>3. WriterTaken(new, rows, n)
        BY <2>3, <3>2 DEF WriterTaken
      <3> DEFINE L == Len(found.readers)
      <3>4. /\ L \in Nat /\ Len(new.readers) = L + 1 /\ new.readers[L + 1] = row.server
            /\ \A i \in 1 .. L : new.readers[i] = found.readers[i] /\ found.readers[i] # row.server
        BY <1>0, <1>1, <1>2, <2>2, <2>5, <3>2
      <3>5. ReadersTaken(new, rows, n)
        <4> HIDE DEF new
        <4>1. ASSUME NEW k \in 1 .. n, ReaderRow(rows[k])
              PROVE  \E i \in 1 .. L + 1 : new.readers[i] = rows[k].server
          <5>1. CASE k = n
            BY <3>4, <5>1
          <5>2. CASE k \in 1 .. n - 1
            <6>1. PICK i \in 1 .. L : found.readers[i] = rows[k].server
              BY <1>2, <4>1, <5>2 DEF ReadersTaken
            <6> QED
              BY <3>4, <6>1
          <5> QED
            BY <1>0, <1>1, <5>1, <5>2
        <4>2. ASSUME NEW i \in 1 .. L + 1
              PROVE  \E k \in 1 .. n : ReaderRow(rows[k]) /\ rows[k].server = new.readers[i]
          <5>1. CASE i = L + 1
            BY <1>0, <1>1, <1>5, <3>4, <5>1 DEF ReaderRow
          <5>2. CASE i \in 1 .. L
            BY <1>0, <1>1, <1>2, <3>4, <5>2 DEF ReadersTaken
          <5> QED
            BY <3>4, <5>1, <5>2
        <4>3. ASSUME NEW i \in 1 .. L + 1, NEW j \in 1 .. L + 1, new.readers[i] = new.readers[j]
              PROVE  i = j
          BY <1>2, <3>4, <4>3 DEF ReadersTaken
        <4> QED
          BY <3>4, <4>1, <4>2, <4>3 DEF ReadersTaken
      <3> QED
        BY <2>1, <3>2, <3>3, <3>5 DEF Taken
    <2> QED
      BY <2>4, <2>5
  <1> QED
    BY <1>0, <1>1, <1>3, <1>4, <1>5

\* So it holds after the last row.
LEMMA RowsTaken ==
  ASSUME NEW rows \in Seq(Row)
  PROVE  Taken(TakeRows(rows)[Len(rows)], rows, Len(rows))
  <1> DEFINE found == TakeRows(rows)
             Bad == {n \in 0 .. Len(rows) : ~Taken(found[n], rows, n)}
  <1>1. \A n \in 0 .. Len(rows) : found[n] = IF n = 0 THEN Start ELSE TakeRow(found[n - 1], rows[n])
    BY LoopIsRun DEF Ran
  <1> HIDE DEF found
  <1>2. SUFFICES ASSUME Bad # {} PROVE FALSE
    BY DEF found
  <1>3. PICK n \in Bad : \A m \in Bad : n <= m
    <2>1. Bad \subseteq Nat
      OBVIOUS
    <2> HIDE DEF Bad
    <2> QED
      BY <1>2, <2>1, LeastNumber
  <1>4. CASE n = 0
    <2>1. found[0] = Start
      BY <1>1
    <2>2. Taken(Start, rows, 0)
      BY DEF Taken, ReadersTaken, WriterTaken, Start
    <2> QED
      BY <1>3, <1>4, <2>1, <2>2
  <1>5. CASE n # 0
    <2>1. n \in 1 .. Len(rows) /\ n - 1 \in 0 .. Len(rows) /\ n - 1 \notin Bad
      BY <1>3, <1>5
    <2>2. Taken(TakeRow(found[n - 1], rows[n]), rows, n)
      BY <2>1, RowTaken
    <2> QED
      BY <1>1, <1>3, <1>5, <2>2
  <1> QED
    BY <1>4, <1>5

\* Whatever rows the server returns, in whatever order, the topology made of them
\* says what they say.
LEMMA QueryIsFaithful ==
  ASSUME NEW rows \in Seq(Row)
  PROVE  Faithful(query_for_topology(rows), rows)
  <1> DEFINE found == TakeRows(rows)[Len(rows)]
             made == query_for_topology(rows)
  <1>1. /\ found \in [latest : Row \union {NULL}, readers : Seq(Instances)]
        /\ ReadersTaken(found, rows, Len(rows)) /\ WriterTaken(found, rows, Len(rows))
    BY RowsTaken DEF Taken
  <1>2. /\ made.readers = found.readers
        /\ made.writer = IF found.latest = NULL \/ Seen(found, found.latest.server) THEN NULL
                         ELSE found.latest.server
    BY DEF query_for_topology
  <1> HIDE DEF found, made
  <1>3. /\ \A row : row \in ToSet(rows) <=> \E k \in 1 .. Len(rows) : row = rows[k]
        /\ DOMAIN found.readers = 1 .. Len(found.readers)
    BY <1>1 DEF ToSet
  <1>4. \A i : i \in Readers(rows) <=> \E k \in 1 .. Len(rows) : ReaderRow(rows[k]) /\ i = rows[k].server
    BY <1>3 DEF Readers, ReaderRow
  <1>5. \A w : w \in Writers(rows) <=> \E k \in 1 .. Len(rows) : WriterRow(rows[k]) /\ w = rows[k]
    BY <1>3 DEF Writers, WriterRow
  <1>6. ToSet(made.readers) = Readers(rows)
    <2>1. \A i : i \in ToSet(made.readers) <=> \E j \in 1 .. Len(found.readers) : i = found.readers[j]
      BY <1>2, <1>3 DEF ToSet
    <2>2. ReadersTaken(found, rows, Len(rows))
      BY <1>1
    <2>3. ASSUME NEW i \in ToSet(made.readers) PROVE i \in Readers(rows)
      <3>1. PICK j \in 1 .. Len(found.readers) : i = found.readers[j]
        BY <2>1
      <3>2. \E k \in 1 .. Len(rows) : ReaderRow(rows[k]) /\ rows[k].server = found.readers[j]
        BY <2>2 DEF ReadersTaken
      <3> QED
        BY <1>4, <3>1, <3>2
    <2>4. ASSUME NEW i \in Readers(rows) PROVE i \in ToSet(made.readers)
      <3>1. PICK k \in 1 .. Len(rows) : ReaderRow(rows[k]) /\ i = rows[k].server
        BY <1>4
      <3>2. \E j \in 1 .. Len(found.readers) : found.readers[j] = rows[k].server
        BY <2>2, <3>1 DEF ReadersTaken
      <3> QED
        BY <2>1, <3>1, <3>2
    <2> QED
      BY <2>3, <2>4
  <1>7. \A i, j \in DOMAIN made.readers : made.readers[i] = made.readers[j] => i = j
    BY <1>1, <1>2, <1>3 DEF ReadersTaken
  <1>8. CASE found.latest = NULL
    <2>1. Writers(rows) = {}
      BY <1>1, <1>5, <1>8 DEF WriterTaken
    <2> QED
      BY <1>2, <1>6, <1>7, <1>8, <2>1 DEF Faithful, made
  <1>9. CASE found.latest # NULL
    <2>1. found.latest \in Writers(rows) /\ \A w \in Writers(rows) : w.updated <= found.latest.updated
      BY <1>1, <1>5, <1>9 DEF WriterTaken
    <2>2. found.latest.server \in LatestWriters(rows)
      BY <2>1 DEF LatestWriters
    <2>3. Seen(found, found.latest.server) <=> found.latest.server \in Readers(rows)
      BY <1>2, <1>6 DEF Seen, Range, ToSet
    <2> QED
      BY <1>2, <1>6, <1>7, <1>9, <2>2, <2>3 DEF Faithful, made
  <1> QED
    BY <1>8, <1>9

\* The records a promotion writes are rows, finitely many, in any order.
LEMMA FreshRows ==
  ASSUME NEW w, NEW time \in Nat
  PROVE  SetToSeqs(Fresh(w, time)) \subseteq Seq(Row)
  <1> DEFINE S == Fresh(w, time)
             f == [i \in Instances |-> [server |-> i, writer |-> i = w, updated |-> time]]
  <1>1. f \in Surjection(Instances, S)
    BY DEF Surjection, Fresh
  <1>2. S \subseteq Row
    <2>1. ASSUME NEW i \in Instances PROVE [server |-> i, writer |-> i = w, updated |-> time] \in Row
      <3>1. (i = w) \in BOOLEAN
        OBVIOUS
      <3> QED
        BY <3>1 DEF Row
    <2> QED
      BY <2>1 DEF Fresh
  <1> HIDE DEF f, S
  <1>3. Cardinality(S) \in Nat
    BY <1>1, InstancesAssumption, FS_Surjection, FS_CardinalityType
  <1>4. ASSUME NEW s \in SetToSeqs(S) PROVE s \in Seq(Row)
    <2>1. s \in [1 .. Cardinality(S) -> S]
      BY DEF SetToSeqs
    <2>2. s \in [1 .. Cardinality(S) -> Row]
      BY <1>2, <2>1
    <2> QED
      BY <1>3, <2>2
  <1> QED
    BY <1>4 DEF S

\* The status table holds rows, whichever records promotions add and time drops.
TableInv == epoch \in Nat /\ table \in Seq(Row)

LEMMA TableInit == Init => TableInv
  <1> SUFFICES ASSUME Init PROVE TableInv
    OBVIOUS
  <1>1. epoch = 0 /\ NoServer(0) \in Row
    BY DEF Init, NoServer, Row
  <1>2. table = <<>> \/ \E rows \in SetToSeqs(Fresh(writer, 0)) : table = Append(rows, NoServer(0))
    BY DEF Init
  <1>3. SetToSeqs(Fresh(writer, 0)) \subseteq Seq(Row)
    BY FreshRows
  <1>4. table \in Seq(Row)
    <2>1. ASSUME NEW rows \in SetToSeqs(Fresh(writer, 0)) PROVE Append(rows, NoServer(0)) \in Seq(Row)
      BY <1>1, <1>3
    <2>2. <<>> \in Seq(Row)
      OBVIOUS
    <2> QED
      BY <1>2, <2>1, <2>2, Zenon
  <1> QED
    BY <1>1, <1>4 DEF TableInv

LEMMA TableStep == TableInv /\ [Next]_vars => TableInv'
  <1> SUFFICES ASSUME TableInv, [Next]_vars PROVE TableInv'
    OBVIOUS
  <1> USE DEF TableInv
  <1>1. ASSUME NEW w \in Instances, Promote(w) PROVE TableInv'
    <2>1. epoch' = epoch + 1 /\ SetToSeqs(Fresh(w, epoch + 1)) \subseteq Seq(Row)
      BY <1>1, FreshRows DEF Promote
    <2>2. PICK new \in SetToSeqs(Fresh(w, epoch + 1)), n \in 0 .. Len(table) :
              table' = IF aurora THEN new \o SubSeq(table, 1, n) ELSE table
      BY <1>1 DEF Promote
    <2>3. SubSeq(table, 1, n) \in Seq(Row) /\ new \in Seq(Row)
      BY <2>1
    <2>4. new \o SubSeq(table, 1, n) \in Seq(Row)
      BY <2>3
    <2> QED
      BY <2>1, <2>2, <2>4
  <1>2. CASE DropRecord
    BY <1>2 DEF DropRecord, Front
  <1>3. CASE UNCHANGED <<table, epoch>>
    BY <1>3
  <1>4. (\E w \in Instances : Promote(w)) \/ DropRecord \/ UNCHANGED <<table, epoch>>
    BY DEF Next, vars, cluster, Environment, UpdateDns, AgeCache, OtherRefreshes, Connection, Begin,
           Login, Setup, InitClusterInfo, GetTopology, PutToCache, InitEnd, Options, Resolve,
           Probe, Compare
  <1> QED
    BY <1>1, <1>2, <1>3, <1>4

\* For any cluster and any number of promotions: whatever old records the table holds,
\* query_for_topology lists exactly the instances with a reader record as readers, and
\* as the writer the one with the latest writer record that is not also a reader.
THEOREM TopologiesAreFaithful == Spec => []TopologyFaithful
  <1>1. TableInv => TopologyFaithful
    BY QueryIsFaithful DEF TableInv, TopologyFaithful
  <1>2. QED
    BY <1>1, TableInit, TableStep, PTL DEF Spec
=============================================================================
