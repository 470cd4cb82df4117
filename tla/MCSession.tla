------------------------------ MODULE MCSession ------------------------------
(***************************************************************************)
(* Session for TLC.  No action tells the hosts apart, so they are a        *)
(* symmetry set.                                                           *)
(***************************************************************************)
EXTENDS Session, TLC

HostSymmetry == Permutations(Hosts)
=============================================================================
