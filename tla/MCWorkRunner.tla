---------------------------- MODULE MCWorkRunner ----------------------------
(* WorkRunner on a few documents and instances, all alike.                 *)
EXTENDS WorkRunner, TLC

Symmetry == Permutations(Jobs \ Poison) \cup Permutations(Instances)
=============================================================================
