--------------------------- MODULE MCRestartBatch ---------------------------
(* Instances of RestartBatch for TLC.                                      *)
EXTENDS RestartBatch, TLC
CONSTANTS p1, p2
Symmetric == Permutations(Procs)

(* For liveness the second process runs STAGE alone, any number of times,  *)
(* and need not get through; the first runs every command.                 *)
OnlyStages(p) == pc'[p] \in {"idle", "stage", "holding"}
                   /\ (pc[p] = "idle" => pc'[p] # "holding")
StagerSpec == /\ Init /\ [][Next /\ OnlyStages(p2)]_vars
              /\ WF_vars(Step) /\ SF_vars(Boot) /\ Repeats(p1)
=============================================================================
