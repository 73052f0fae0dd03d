----------------------------- MODULE MCAlignedQueue -----------------------------
(* Small instances of AlignedQueue for TLC. *)
EXTENDS AlignedQueue, TLC

CONSTANTS w1, w2

OneWorker  == {w1}
TwoWorkers == {w1, w2}
Pool == Permutations(TwoWorkers)
================================================================================
