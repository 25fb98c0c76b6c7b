----------------------------- MODULE MCGdmaCopy -----------------------------
(* Instances of GdmaCopy for TLC. *)
EXTENDS GdmaCopy, TLC

CONSTANTS t1, t2, t3

Sym == Permutations(Tasks)
=============================================================================
