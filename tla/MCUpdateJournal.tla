--------------------------- MODULE MCUpdateJournal ---------------------------
(* UpdateJournal on a small instance: two processes, generations 1 to 4.   *)
EXTENDS UpdateJournal, TLC

ProcSymmetry == Permutations(Procs)
=============================================================================
