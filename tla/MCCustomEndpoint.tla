-------------------------- MODULE MCCustomEndpoint --------------------------
(* CustomEndpoint for TLC: a list of static members and one of excluded    *)
(* members.                                                                *)
EXTENDS CustomEndpoint
CONSTANTS h1, h2

MCLists == {[static |-> TRUE, members |-> {h1}], [static |-> FALSE, members |-> {h1}]}
=============================================================================
