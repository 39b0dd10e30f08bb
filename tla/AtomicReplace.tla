---------------------------- MODULE AtomicReplace ----------------------------
(***************************************************************************)
(* What replaceFileAtomic promises: the staged object takes the target's   *)
(* name and the old target survives under the backup name.  It may stop    *)
(* between the two moves, but an object always has one name, no name ever  *)
(* has two objects, and nothing is put at the target before the old object *)
(* is safe.                                                                *)
(***************************************************************************)
CONSTANTS Target, Stage, Backup

VARIABLE home              \* the name of each object

Taken(n) == \E o \in DOMAIN home : home[o] = n

(* The old target makes room only for a staged object.                     *)
SetAside(o) == /\ home[o] = Target
               /\ Taken(Stage) /\ ~Taken(Backup)
               /\ home' = [home EXCEPT ![o] = Backup]

Install(o) == /\ home[o] = Stage
              /\ ~Taken(Target)
              /\ home' = [home EXCEPT ![o] = Target]

MoveInit == \A o, p \in DOMAIN home : home[o] = home[p] => o = p
MoveNext == \E o \in DOMAIN home : SetAside(o) \/ Install(o)
MoveSpec == MoveInit /\ [][MoveNext]_home
=============================================================================
