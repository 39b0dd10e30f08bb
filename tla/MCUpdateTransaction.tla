------------------------- MODULE MCUpdateTransaction -------------------------
(* Instances of UpdateTransaction for TLC.                                 *)
EXTENDS UpdateTransaction, TLC
CONSTANTS c1, c2
ContentSymmetry == Permutations(Content)

(* For liveness over three updates each package names one path, any path,  *)
(* and of the starts that differ by a swap of c1 and c2 one is enough.     *)
OnePath == \A i, k \in mem'.named : i = k
Starts == Init /\ target[1] # c2 /\ (target[1] = Absent => target[2] # c2)
OnePathSpec == /\ Starts /\ [][Next /\ OnePath]_vars
               /\ WF_vars(Step) /\ WF_vars(Resume \/ BootRecovery)
=============================================================================
