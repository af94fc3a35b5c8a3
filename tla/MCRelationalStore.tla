-------------------------- MODULE MCRelationalStore --------------------------
(* RelationalStore on a few runs; those of one command are interchangeable. *)
EXTENDS RelationalStore, TLC

MCSymmetry == Permutations(Syncs) \cup Permutations(Inspections)
=============================================================================
