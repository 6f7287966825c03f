------------------------- MODULE MC_ExcessBranches --------------------------
(* Small instances of ExcessBranches for TLC. *)
EXTENDS ExcessBranches, TLC

CONSTANTS w1, w2

MCWorkers == {w1, w2}

MCOneWorker == {w1}

MCWorkerSymmetry == Permutations(MCWorkers)

=============================================================================
