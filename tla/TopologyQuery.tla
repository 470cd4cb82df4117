--------------------------- MODULE TopologyQuery ---------------------------
(***************************************************************************)
(* How TOPOLOGY_SERVICE makes a topology of the rows the server returns    *)
(* for RETRIEVE_TOPOLOGY_SQL, which are ordered by their time of update,   *)
(* newest first, and may hold records of an earlier role of an instance.   *)
(***************************************************************************)
EXTENDS Naturals, Sequences, SequencesExt

CONSTANTS Instances, NULL

\* SERVER_ID, whether SESSION_ID is MASTER_SESSION_ID, LAST_UPDATE_TIMESTAMP.
Row == [server : Instances \union {NULL}, writer : BOOLEAN, updated : Nat]

\* does_instance_exist, for the readers found so far.
Seen(found, server) == server \in Range(found.readers)

\* Mutant: a reader is added once per record.
TakeRowTwice(found, row) ==
    CASE row.server = NULL -> found
      [] row.server # NULL /\ row.writer ->
            IF found.latest = NULL \/ row.updated > found.latest.updated
            THEN [found EXCEPT !.latest = row] ELSE found
      [] OTHER -> [found EXCEPT !.readers = Append(@, row.server)]

\* One round of the loop: create_host makes no host of a row without a server;
\* the latest writer is kept aside, a reader is added if it is new.
TakeRow(found, row) ==
    CASE row.server = NULL -> found
      [] row.server # NULL /\ row.writer ->
            IF found.latest = NULL \/ row.updated > found.latest.updated
            THEN [found EXCEPT !.latest = row] ELSE found
      [] OTHER -> IF Seen(found, row.server) THEN found
                  ELSE [found EXCEPT !.readers = Append(@, row.server)]

\* The loop over the rows: what has been found after each of them.
TakeRows(rows) ==
    LET found[n \in 0 .. Len(rows)] ==
            IF n = 0 THEN [latest |-> NULL, readers |-> <<>>] ELSE TakeRow(found[n - 1], rows[n])
    IN  found

\* The latest writer comes last, unless the same instance is listed as a reader.
query_for_topology(rows) ==
    LET found == TakeRows(rows)[Len(rows)]
    IN  [readers |-> found.readers,
         writer |-> IF found.latest = NULL \/ Seen(found, found.latest.server) THEN NULL
                    ELSE found.latest.server]

total_hosts(topology) == Len(topology.readers) + (IF topology.writer = NULL THEN 0 ELSE 1)

-----------------------------------------------------------------------------
\* What the rows say, without the order they are read in.
Writers(rows) == {row \in ToSet(rows) : row.server # NULL /\ row.writer}
Readers(rows) == {row.server : row \in {r \in ToSet(rows) : r.server # NULL /\ ~r.writer}}
LatestWriters(rows) ==
    {w.server : w \in {x \in Writers(rows) : \A y \in Writers(rows) : y.updated <= x.updated}}

\* A topology lists every instance with a reader record as a reader, each once,
\* and as its writer an instance with the latest writer record, which is missing
\* only when there is none or when it is listed as a reader.
Faithful(topology, rows) ==
    /\ ToSet(topology.readers) = Readers(rows)
    /\ \A i, j \in DOMAIN topology.readers : topology.readers[i] = topology.readers[j] => i = j
    /\ \/ topology.writer \in LatestWriters(rows) \ Readers(rows)
       \/ topology.writer = NULL /\ (Writers(rows) = {} \/ LatestWriters(rows) \intersect Readers(rows) # {})
=============================================================================
