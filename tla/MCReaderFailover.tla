-------------------------- MODULE MCReaderFailover --------------------------
EXTENDS ReaderFailover
CONSTANTS w, r1, r2

\* Two readers and the writer (an odd list when writers are wanted), one reader
\* (an even one), a cluster without readers, and an empty topology.
MCViews == {[writer |-> w, readers |-> {r1, r2}],
            [writer |-> w, readers |-> {r1}],
            [writer |-> w, readers |-> {}],
            [writer |-> NULL, readers |-> {}]}
=============================================================================
