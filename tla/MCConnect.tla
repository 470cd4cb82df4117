----------------------------- MODULE MCConnect -----------------------------
(* Connect for TLC: the instances are interchangeable.                     *)
EXTENDS Connect

MCSymmetry == Permutations(Instances)
=============================================================================
