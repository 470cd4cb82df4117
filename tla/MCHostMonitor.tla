---------------------------- MODULE MCHostMonitor ----------------------------
EXTENDS HostMonitor, TLC
CONSTANTS h1, h2, cluster

\* Two instances under their own names; and one instance that is also reached
\* through the name of the cluster.
TwoInstances == (h1 :> h1) @@ (h2 :> h2)
TwoNames == (h1 :> h1) @@ (cluster :> h1)
=============================================================================
