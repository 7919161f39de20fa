----------------------------- MODULE MCConsumer -----------------------------
(* Small instances of Consumer. *)
EXTENDS Consumer, TLC

Symmetry == Permutations(Records) \cup Permutations(Flushers)
=============================================================================
