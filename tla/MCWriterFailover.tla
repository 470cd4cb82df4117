-------------------------- MODULE MCWriterFailover --------------------------
EXTENDS WriterFailover
CONSTANTS h1, h2, h3

\* h1 is lost; the cluster still names it, or names the reader h2, or names h3,
\* which no topology lists as a reader; or a topology lacks a writer.
MCViews == {[writer |-> h1, readers |-> {h2}],
            [writer |-> h2, readers |-> {h1}],
            [writer |-> h3, readers |-> {h2}],
            [writer |-> NULL, readers |-> {h2}]}
=============================================================================
