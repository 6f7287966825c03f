------------------------------- MODULE MC_GC3 -------------------------------
(* Small instances of GC3 for TLC. *)
EXTENDS GC3, TLC

CONSTANTS t1, t2, t3

MCTasks == {t1, t2, t3}

MCTaskSymmetry == Permutations(MCTasks)

=============================================================================
