------------------------ MODULE PendingRemovalProofs ------------------------
(***************************************************************************)
(* Proofs about PendingRemoval for any number of processes, requests and   *)
(* faults.                                                                 *)
(***************************************************************************)
EXTENDS PendingRemoval, TLAPS

(***************************************************************************)
(* A pending removal and an open update exclude each other.                *)
(*                                                                         *)
(* The invariant says what the second look under the lease buys: as long   *)
(* as the holder works on a removal no journal is open, and as long as it  *)
(* works on an update no removal is pending.                               *)
(***************************************************************************)
Removing == {"execute", "archive", "admit", "prepared", "deleted", "inventory",
             "stage", "replace", "replaced", "inventoryDone", "finish"}

Updating == {"updateRun", "updateWork"}

Excluded == /\ NeverBothPending
            /\ at \in Removing => update = "terminal"
            /\ at \in Updating => ~Pending

(* Whether a removal is pending is a matter of the slots alone.            *)
LEMMA PendingFrame == UNCHANGED slot => (Pending' <=> Pending)
  <1> SUFFICES ASSUME UNCHANGED slot PROVE Pending' <=> Pending
    OBVIOUS
  <1>1. Readable' = Readable
    BY DEF Readable
  <1>2. Newest' = Newest
    BY <1>1 DEF Newest
  <1> QED
    BY <1>1, <1>2 DEF Pending, terminal

LEMMA InitExcluded == Init => Excluded
  <1>1. Init => Readable = {}
    BY DEF Init, Readable
  <1>2. Init => ~Pending
    BY <1>1 DEF Pending
  <1> QED
    BY <1>2 DEF Init, Excluded, NeverBothPending, Removing, Updating

(* A step that changes neither a record nor the update's journal, and      *)
(* after which the holder is where it was, or nowhere, or about to look.   *)
Waiting == {"none", "recheck", "updateRecheck"}

LEMMA QuietStep ==
  ASSUME Excluded, UNCHANGED <<slot, update>>, at' = at \/ at' \in Waiting
  PROVE  Excluded'
  <1>1. Pending' <=> Pending
    BY PendingFrame
  <1> QED
    BY <1>1 DEF Excluded, NeverBothPending, Waiting, Removing, Updating

(* A step of a removal leaves the update's journal alone; where it goes on *)
(* it is still the removal.                                                *)
LEMMA RemovalStep ==
  ASSUME Excluded, at \in Removing, UNCHANGED update, at' \in Removing \cup {"none"}
  PROVE  Excluded'
  <1>1. update' = "terminal"
    BY DEF Excluded
  <1>2. at' \notin Updating
    BY DEF Removing, Updating
  <1> QED
    BY <1>1, <1>2 DEF Excluded, NeverBothPending

(* A step of an update leaves the records alone.                           *)
LEMMA UpdateStep ==
  ASSUME Excluded, at \in Updating, UNCHANGED slot, at' \in Updating \cup {"none"}
  PROVE  Excluded'
  <1>1. ~Pending'
    BY PendingFrame DEF Excluded
  <1>2. at' \notin Removing
    BY DEF Removing, Updating
  <1> QED
    BY <1>1, <1>2 DEF Excluded, NeverBothPending

(* Where the ways to end a step leave the holder.                          *)
LEMMA Endings ==
  /\ \A label : Goto(label) => at' = label
  /\ \A result : Done(result) => at' = "none"
  /\ Refuse => at' = "none"
  /\ Fail => at' = "none"
  BY DEF Goto, Done, Refuse, Fail

LEMMA Persisting ==
  /\ \A j, label : Persist(j, label) => at' \in {label, "none"} /\ UNCHANGED update
  /\ \A j, result : PersistLast(j, result) => at' = "none" /\ UNCHANGED update
  <1>1. \A j, label : Persist(j, label) => at' \in {label, "none"} /\ UNCHANGED update
    BY Endings DEF Persist
  <1>2. \A j, result : PersistLast(j, result) => at' = "none" /\ UNCHANGED update
    BY Endings DEF PersistLast
  <1> QED
    BY <1>1, <1>2

LEMMA RemovalActions ==
  ASSUME Excluded, Removal
  PROVE  Excluded'
  <1>1. CASE RemoveRecheck
    <2>1. UNCHANGED <<slot, update>>
      BY <1>1 DEF RemoveRecheck, journals
    <2>2. CASE update = "terminal"
      <3>1. at' = "execute"
        BY <1>1, <2>2 DEF RemoveRecheck, Goto
      <3> QED
        BY <2>1, <2>2, <3>1, PendingFrame DEF Excluded, NeverBothPending, Updating
    <2>3. CASE update # "terminal"
      <3>1. at' = "none"
        BY <1>1, <2>3 DEF RemoveRecheck, Refuse, Done
      <3> QED
        BY <2>1, <3>1, QuietStep DEF Waiting
    <2> QED
      BY <2>2, <2>3
  <1>2. CASE Execute
    <2>1. at \in Removing /\ UNCHANGED update
      BY <1>2 DEF Execute, Removing, journals
    <2>2. \A phase : Answer(phase) => at' = "none"
      BY Endings DEF Answer
    <2>3. at' \in Removing \cup {"none"}
      BY <1>2, <2>2, Endings DEF Execute, Removing
    <2> QED
      BY <2>1, <2>3, RemovalStep
  <1>3. CASE Archive
    <2>1. at \in Removing /\ UNCHANGED update
      BY <1>3 DEF Archive, Removing
    <2>2. at' \in Removing \cup {"none"}
      BY <1>3, Endings DEF Archive, Removing
    <2> QED
      BY <2>1, <2>2, RemovalStep
  <1>4. CASE Admit
    <2>1. at \in Removing /\ UNCHANGED update /\ at' \in Removing \cup {"none"}
      BY <1>4, Endings, Persisting DEF Admit, Removing, journals
    <2> QED
      BY <2>1, RemovalStep
  <1>5. CASE Cancel
    <2>1. at \in Removing /\ UNCHANGED update /\ at' \in Removing \cup {"none"}
      BY <1>5, Persisting DEF Cancel, Removing
    <2> QED
      BY <2>1, RemovalStep
  <1>6. CASE Wait
    <2>1. at \in Removing /\ UNCHANGED update /\ at' \in Removing \cup {"none"}
      BY <1>6, Endings DEF Wait, Removing, journals
    <2> QED
      BY <2>1, RemovalStep
  <1>7. CASE Delete
    <2>1. at \in Removing /\ UNCHANGED update
      BY <1>7 DEF Delete, Removing, journals
    <2>2. at' \in Removing \cup {"none"}
      BY <1>7, Endings DEF Delete, Removing
    <2> QED
      BY <2>1, <2>2, RemovalStep
  <1>8. CASE AlreadyGone
    <2>1. at \in Removing /\ UNCHANGED update /\ at' \in Removing \cup {"none"}
      BY <1>8, Endings DEF AlreadyGone, Removing, journals
    <2> QED
      BY <2>1, RemovalStep
  <1>9. CASE Deleted
    <2>1. at \in Removing /\ UNCHANGED update /\ at' \in Removing \cup {"none"}
      BY <1>9, Persisting DEF Deleted, Removing
    <2> QED
      BY <2>1, RemovalStep
  <1>10. CASE Inventories
    <2>1. at \in Removing
      BY <1>10 DEF Inventories, Removing
    <2>2. UNCHANGED update /\ at' \in Removing \cup {"none"}
      BY <1>10, Endings, Persisting DEF Inventories, Removing, journals
    <2> QED
      BY <2>1, <2>2, RemovalStep
  <1>11. CASE Staging
    <2>1. at \in Removing /\ UNCHANGED update /\ at' \in Removing \cup {"none"}
      BY <1>11, Endings DEF Staging, Removing, journals
    <2> QED
      BY <2>1, RemovalStep
  <1>12. CASE Replace
    <2>1. at \in Removing /\ UNCHANGED update /\ at' \in Removing \cup {"none"}
      BY <1>12, Endings DEF Replace, Removing, journals
    <2> QED
      BY <2>1, RemovalStep
  <1>13. CASE Replaced
    <2>1. at \in Removing /\ UNCHANGED update /\ at' \in Removing \cup {"none"}
      BY <1>13, Endings DEF Replaced, Removing, journals
    <2> QED
      BY <2>1, RemovalStep
  <1>14. CASE InventoryDone
    <2>1. at \in Removing /\ UNCHANGED update /\ at' \in Removing \cup {"none"}
      BY <1>14, Persisting DEF InventoryDone, Removing
    <2> QED
      BY <2>1, RemovalStep
  <1>15. CASE Finish
    <2>1. at \in Removing /\ UNCHANGED update /\ at' \in Removing \cup {"none"}
      BY <1>15, Endings, Persisting DEF Finish, Removing, journals
    <2> QED
      BY <2>1, RemovalStep
  <1> QED
    BY <1>1, <1>2, <1>3, <1>4, <1>5, <1>6, <1>7, <1>8, <1>9, <1>10, <1>11, <1>12,
       <1>13, <1>14, <1>15 DEF Removal

LEMMA UpdateActions ==
  ASSUME Excluded, Update
  PROVE  Excluded'
  <1>1. CASE UpdateRecheck
    <2>1. UNCHANGED <<slot, update>>
      BY <1>1 DEF UpdateRecheck, journals
    <2>2. CASE LoadFails \/ Pending
      <3>1. at' = "none"
        BY <1>1, <2>2, Endings DEF UpdateRecheck
      <3> QED
        BY <2>1, <3>1, QuietStep DEF Waiting
    <2>3. CASE ~(LoadFails \/ Pending)
      <3>1. at' = "updateRun"
        BY <1>1, <2>3, Endings DEF UpdateRecheck
      <3> QED
        BY <2>1, <2>3, <3>1, PendingFrame DEF Excluded, NeverBothPending, Removing
    <2> QED
      BY <2>2, <2>3
  <1>2. CASE UpdateRun
    <2>1. at \in Updating /\ UNCHANGED slot /\ at' \in Updating \cup {"none"}
      BY <1>2, Endings DEF UpdateRun, Updating
    <2> QED
      BY <2>1, UpdateStep
  <1>3. CASE UpdateInstall
    <2>1. at \in Updating /\ UNCHANGED slot /\ at' \in Updating \cup {"none"}
      BY <1>3, Endings DEF UpdateInstall, Updating, journals
    <2> QED
      BY <2>1, UpdateStep
  <1>4. CASE UpdateList
    <2>1. at \in Updating /\ UNCHANGED slot /\ at' \in Updating \cup {"none"}
      BY <1>4, Endings DEF UpdateList, Updating, journals
    <2> QED
      BY <2>1, UpdateStep
  <1>5. CASE UpdateEnd
    <2>1. at \in Updating /\ UNCHANGED slot /\ at' \in Updating \cup {"none"}
      BY <1>5, Endings DEF UpdateEnd, Updating
    <2> QED
      BY <2>1, UpdateStep
  <1>6. CASE UpdateGivesUp
    <2>1. at \in Updating /\ UNCHANGED slot /\ at' \in Updating \cup {"none"}
      BY <1>6, Endings DEF UpdateGivesUp, Updating, journals
    <2> QED
      BY <2>1, UpdateStep
  <1> QED
    BY <1>1, <1>2, <1>3, <1>4, <1>5, <1>6 DEF Update

LEMMA NextExcluded == Excluded /\ [Next]_vars => Excluded'
  <1> SUFFICES ASSUME Excluded, [Next]_vars PROVE Excluded'
    OBVIOUS
  <1>1. ASSUME NEW p \in Procs, NEW q \in Requests, RemoveCheck(p, q) PROVE Excluded'
    BY <1>1, QuietStep DEF RemoveCheck, journals
  <1>2. ASSUME NEW p \in Procs, RemoveLease(p) PROVE Excluded'
    <2>1. UNCHANGED <<slot, update>> /\ (at' = at \/ at' \in Waiting)
      BY <1>2 DEF RemoveLease, TakeLease, Waiting, journals
    <2> QED
      BY <2>1, QuietStep
  <1>3. ASSUME NEW p \in Procs, UpdateSee(p) PROVE Excluded'
    BY <1>3, QuietStep DEF UpdateSee, journals
  <1>4. ASSUME NEW p \in Procs, UpdateCheck(p) PROVE Excluded'
    BY <1>4, QuietStep DEF UpdateCheck, journals
  <1>5. ASSUME NEW p \in Procs, UpdateLease(p) PROVE Excluded'
    <2>1. UNCHANGED <<slot, update>> /\ (at' = at \/ at' \in Waiting)
      BY <1>5 DEF UpdateLease, TakeLease, Waiting, journals
    <2> QED
      BY <2>1, QuietStep
  <1>6. CASE Stop
    <2>1. UNCHANGED <<slot, update>> /\ (at' = at \/ at' \in Waiting)
      BY <1>6 DEF Stop, Waiting, journals
    <2> QED
      BY <2>1, QuietStep
  <1>7. CASE Edit
    BY <1>7, QuietStep DEF Edit, journals, command
  <1>8. CASE UNCHANGED vars
    BY <1>8, QuietStep DEF vars, journals, command
  <1> QED
    BY <1>1, <1>2, <1>3, <1>4, <1>5, <1>6, <1>7, <1>8, RemovalActions, UpdateActions DEF Next

(* No update is open while a removal is pending, however removals, updates *)
(* and kills interleave: acquireUpdateLock and removeApplication look      *)
(* again under the lease.                                                  *)
THEOREM RemovalExcludesUpdate == Spec => []NeverBothPending
  <1>1. Excluded => NeverBothPending
    BY DEF Excluded
  <1> QED
    BY <1>1, InitExcluded, NextExcluded, PTL DEF Spec

(***************************************************************************)
(* What a removal does to the inventory.                                   *)
(*                                                                         *)
(* The holder renders the new inventory from the one it has read; until    *)
(* it lets go of the lease that one does not change, so the stage it       *)
(* installs holds every other entry.                                       *)
(***************************************************************************)
InventoryRead == {"stage", "replace", "replaced", "updateWork"}

Kept == /\ OthersKept
        /\ at # "none" => lease # Nobody
        /\ at \in InventoryRead => inv # Absent
        /\ at = "replace" => stage = inv \ {"app"}

LEMMA InitKept == Init => Kept
  BY RemovalAssumption DEF Init, Kept, OthersKept, Inventory, InventoryRead

(* Whatever leaves the three files and the other entry alone, and comes    *)
(* to no place that knows the inventory.                                   *)
LEMMA KeptFrame ==
  ASSUME Kept, UNCHANGED <<inv, stage, backup, other>>,
         \/ at' = "none"
         \/ lease' # Nobody /\ at' \notin InventoryRead
  PROVE  Kept'
  <1>1. OthersKept'
    BY DEF Kept, OthersKept
  <1> QED
    BY <1>1 DEF Kept, InventoryRead

LEMMA KeptStutter ==
  ASSUME Kept, UNCHANGED <<inv, stage, backup, other, at, lease>>
  PROVE  Kept'
  <1>1. OthersKept'
    BY DEF Kept, OthersKept
  <1> QED
    BY <1>1 DEF Kept, InventoryRead

(* How a step ends, for the holder and for the history.                    *)
LEMMA EndingsHold ==
  /\ \A label : Goto(label) => at' = label /\ lease' = lease
  /\ Fail => at' = "none" /\ other' = other
  BY DEF Goto, Fail

LEMMA PersistingHolds ==
  /\ \A j, label : Persist(j, label) =>
        /\ UNCHANGED <<inv, stage, backup, other>>
        /\ at' = "none" \/ (at' = label /\ lease' = lease)
  /\ \A j, result : PersistLast(j, result) =>
        UNCHANGED <<inv, stage, backup, other>> /\ at' = "none"
  <1>1. \A j, label : Persist(j, label) =>
           /\ UNCHANGED <<inv, stage, backup, other>>
           /\ at' = "none" \/ (at' = label /\ lease' = lease)
    BY EndingsHold DEF Persist, files, history
  <1>2. \A j, result : PersistLast(j, result) =>
           UNCHANGED <<inv, stage, backup, other>> /\ at' = "none"
    BY Endings, EndingsHold DEF PersistLast, files, history
  <1> QED
    BY <1>1, <1>2

LEMMA InventoriesKeeps == Kept /\ Inventories => Kept'
  <1> SUFFICES ASSUME Kept, Inventories PROVE Kept'
    OBVIOUS
  <1>1. UNCHANGED <<inv, stage, backup, other>>
    BY PersistingHolds DEF Inventories, files, history
  <1>2. at' \in {"none", "replaced", "inventoryDone", "stage"}
    BY Endings, PersistingHolds DEF Inventories
  <1>3. at' # "none" => lease' = lease /\ lease # Nobody /\ inv # Absent
    <2>1. at = "inventory" /\ lease # Nobody
      BY DEF Inventories, Kept
    <2>2. CASE app \/ ~Legible \/ ~InventoryKnown
      BY <2>2, Endings DEF Inventories
    <2>3. CASE ~(app \/ ~Legible \/ ~InventoryKnown)
      BY <2>1, <2>3, Endings, EndingsHold, PersistingHolds DEF Inventories, Legible
    <2> QED
      BY <2>2, <2>3
  <1>4. OthersKept'
    BY <1>1 DEF Kept, OthersKept
  <1> QED
    BY <1>1, <1>2, <1>3, <1>4 DEF Kept, InventoryRead

LEMMA StagingKeeps == Kept /\ Staging => Kept'
  <1> SUFFICES ASSUME Kept, Staging PROVE Kept'
    OBVIOUS
  <1>1. at = "stage" /\ lease # Nobody /\ inv # Absent
    BY DEF Staging, Kept, InventoryRead
  <1>2. UNCHANGED <<inv, backup, other>>
    BY EndingsHold DEF Staging, history
  <1>3. OthersKept'
    BY <1>1, <1>2 DEF Kept, OthersKept
  <1>4. at' = "none" \/ (at' = "replace" /\ lease' = lease /\ stage' = inv \ {"app"})
    BY Endings, EndingsHold DEF Staging
  <1> QED
    BY <1>1, <1>2, <1>3, <1>4 DEF Kept, InventoryRead

(* What an attempt to replace the inventory leaves.                        *)
LEMMA ReplaceOutcomes ==
  ASSUME Replace
  PROVE  \/ /\ Replaceable /\ Named(stage, Absent, inv, "none")
            /\ at' \in {"replaced", "none"}
         \/ /\ Replaceable /\ Named(stage, stage, inv, "stage")
            /\ at' \in {"replaced", "none"}
         \/ Replaceable /\ (FirstMove \/ SecondMove) /\ at' = "none"
         \/ UNCHANGED <<inv, stage, backup, alias>> /\ at' = "none"
  BY Endings DEF Replace

LEMMA ReplaceKeeps == Kept /\ Replace => Kept'
  <1> SUFFICES ASSUME Kept, Replace PROVE Kept'
    OBVIOUS
  <1>1. /\ at = "replace" /\ lease # Nobody /\ inv # Absent /\ stage = inv \ {"app"}
        /\ inv \in Inventory /\ ("other" \in inv <=> other)
    BY DEF Replace, Kept, OthersKept, InventoryRead
  <1>2. inv \ {"app"} \in Inventory /\ ("other" \in inv \ {"app"} <=> other)
    BY <1>1 DEF Inventory
  <1>3. UNCHANGED other
    BY EndingsHold DEF Replace, history
  <1>4. at' = "none" \/ (at' = "replaced" /\ lease' = lease)
    BY Endings, EndingsHold DEF Replace
  <1>5. \/ inv' = stage /\ inv' # Absent
        \/ backup' = inv /\ inv' = Absent /\ UNCHANGED stage /\ at' = "none"
        \/ at' = "none" /\ UNCHANGED inv
    BY <1>1, <1>2, RemovalAssumption, ReplaceOutcomes DEF Named, FirstMove, SecondMove
  <1>6. OthersKept'
    <2>1. CASE inv' = stage /\ inv' # Absent
      BY <1>1, <1>2, <1>3, <2>1 DEF OthersKept
    <2>2. CASE backup' = inv /\ inv' = Absent /\ UNCHANGED stage
      BY <1>1, <1>2, <1>3, <2>2, RemovalAssumption DEF OthersKept
    <2>3. CASE UNCHANGED inv
      BY <1>1, <1>3, <2>3 DEF OthersKept
    <2> QED
      BY <1>5, <2>1, <2>2, <2>3
  <1>7. at' = "replaced" => inv' # Absent
    BY <1>5
  <1> QED
    BY <1>1, <1>4, <1>6, <1>7 DEF Kept, InventoryRead

LEMMA ReplacedKeeps == Kept /\ Replaced => Kept'
  <1> SUFFICES ASSUME Kept, Replaced PROVE Kept'
    OBVIOUS
  <1>1. at = "replaced" /\ lease # Nobody /\ inv # Absent
    BY DEF Replaced, Kept, InventoryRead
  <1>2. UNCHANGED <<inv, other>>
    BY EndingsHold DEF Replaced, history
  <1>3. OthersKept'
    BY <1>1, <1>2 DEF Kept, OthersKept
  <1>4. at' = "none" \/ (at' = "inventoryDone" /\ lease' = lease)
    BY Endings, EndingsHold DEF Replaced
  <1> QED
    BY <1>1, <1>3, <1>4 DEF Kept, InventoryRead

LEMMA UpdateKeeps == Kept /\ Update => Kept'
  <1> SUFFICES ASSUME Kept, Update PROVE Kept'
    OBVIOUS
  <1>1. CASE UpdateRecheck
    <2>1. UNCHANGED <<inv, stage, backup, other>> /\ lease # Nobody
      BY <1>1 DEF UpdateRecheck, files, history, Kept
    <2>2. at' = "none" \/ (at' = "updateRun" /\ lease' = lease)
      BY <1>1, Endings, EndingsHold DEF UpdateRecheck
    <2> QED
      BY <2>1, <2>2, KeptFrame DEF InventoryRead
  <1>2. CASE UpdateRun
    <2>1. UNCHANGED <<inv, stage, backup, other>> /\ lease # Nobody /\ inv # Absent
      BY <1>2 DEF UpdateRun, Legible, files, history, Kept
    <2>2. at' = "updateWork" /\ lease' = lease
      BY <1>2, EndingsHold DEF UpdateRun
    <2>3. OthersKept'
      BY <2>1 DEF Kept, OthersKept
    <2> QED
      BY <2>1, <2>2, <2>3 DEF Kept, InventoryRead
  <1>3. CASE UpdateInstall
    <2>1. UNCHANGED <<inv, stage, backup, other, at, lease>>
      BY <1>3, EndingsHold DEF UpdateInstall
    <2> QED
      BY <2>1, KeptStutter
  <1>4. CASE UpdateList
    <2>1. /\ UNCHANGED <<stage, backup, other, at, lease>> /\ at = "updateWork"
          /\ inv # Absent /\ inv' = inv \cup {"app"}
      BY <1>4, EndingsHold DEF UpdateList, Unlisted, history
    <2>2. inv' \in Inventory /\ ("other" \in inv' <=> other)
      BY <2>1 DEF Kept, OthersKept, Inventory
    <2>3. OthersKept'
      BY <2>1, <2>2, RemovalAssumption DEF OthersKept
    <2> QED
      BY <2>1, <2>2, <2>3, RemovalAssumption DEF Kept, InventoryRead
  <1>5. CASE UpdateEnd
    BY <1>5, Endings, KeptFrame DEF UpdateEnd, files, history
  <1>6. CASE UpdateGivesUp
    BY <1>6, Endings, KeptFrame DEF UpdateGivesUp, files, history
  <1> QED
    BY <1>1, <1>2, <1>3, <1>4, <1>5, <1>6 DEF Update

(* The steps of a removal that do not touch the inventory.                 *)
LEMMA OtherRemovalKeeps ==
  ASSUME Kept,
         \/ RemoveRecheck \/ Execute \/ Archive \/ Admit \/ Cancel \/ Wait \/ Delete
         \/ AlreadyGone \/ Deleted \/ InventoryDone \/ Finish
  PROVE  Kept'
  <1> DEFINE Quiet == /\ UNCHANGED <<inv, stage, backup, other>>
                      /\ at' = "none" \/ (lease' = lease /\ at' \notin InventoryRead)
  <1>0. Quiet /\ at # "none" => Kept'
    BY KeptFrame DEF Kept
  <1>1. CASE RemoveRecheck
    <2>1. at # "none" /\ Quiet
      BY <1>1, Endings, EndingsHold DEF RemoveRecheck, InventoryRead, files, history
    <2> QED
      BY <2>1, <1>0
  <1>2. CASE Execute
    <2>1. \A phase : Answer(phase) => at' = "none"
      BY Endings DEF Answer
    <2>2. at # "none" /\ UNCHANGED <<inv, stage, backup, other>>
      BY <1>2 DEF Execute, files, history
    <2>3. at' = "none" \/ (lease' = lease /\ at' \notin InventoryRead)
      BY <1>2, <2>1, Endings DEF Execute, InventoryRead
    <2> QED
      BY <2>2, <2>3, <1>0
  <1>3. CASE Archive
    <2>1. at # "none" /\ UNCHANGED <<inv, stage, backup, other>>
      BY <1>3, EndingsHold DEF Archive, files, history
    <2>2. at' = "none" \/ (lease' = lease /\ at' \notin InventoryRead)
      BY <1>3, Endings DEF Archive, InventoryRead
    <2> QED
      BY <2>1, <2>2, <1>0
  <1>4. CASE Admit
    <2>1. at # "none" /\ Quiet
      BY <1>4, Endings, PersistingHolds DEF Admit, InventoryRead, files, history
    <2> QED
      BY <2>1, <1>0
  <1>5. CASE Cancel
    <2>1. at # "none" /\ Quiet
      BY <1>5, PersistingHolds DEF Cancel
    <2> QED
      BY <2>1, <1>0
  <1>6. CASE Wait
    <2>1. at # "none" /\ Quiet
      BY <1>6, Endings DEF Wait, files, history
    <2> QED
      BY <2>1, <1>0
  <1>7. CASE Delete
    <2>1. at # "none" /\ UNCHANGED <<inv, stage, backup, other>>
      BY <1>7, EndingsHold DEF Delete, files, history
    <2>2. at' = "none" \/ (lease' = lease /\ at' \notin InventoryRead)
      BY <1>7, Endings, EndingsHold DEF Delete, InventoryRead
    <2> QED
      BY <2>1, <2>2, <1>0
  <1>8. CASE AlreadyGone
    <2>1. at # "none" /\ Quiet
      BY <1>8, EndingsHold DEF AlreadyGone, InventoryRead, files, history
    <2> QED
      BY <2>1, <1>0
  <1>9. CASE Deleted
    <2>1. at # "none" /\ Quiet
      BY <1>9, PersistingHolds DEF Deleted, InventoryRead
    <2> QED
      BY <2>1, <1>0
  <1>10. CASE InventoryDone
    <2>1. at # "none" /\ Quiet
      BY <1>10, PersistingHolds DEF InventoryDone, InventoryRead
    <2> QED
      BY <2>1, <1>0
  <1>11. CASE Finish
    <2>1. at # "none" /\ Quiet
      BY <1>11, Endings, PersistingHolds DEF Finish, files, history
    <2> QED
      BY <2>1, <1>0
  <1> QED
    BY <1>1, <1>2, <1>3, <1>4, <1>5, <1>6, <1>7, <1>8, <1>9, <1>10, <1>11

LEMMA NextKept == Kept /\ [Next]_vars => Kept'
  <1> SUFFICES ASSUME Kept, [Next]_vars PROVE Kept'
    OBVIOUS
  <1>1. CASE Removal
    BY <1>1, OtherRemovalKeeps, InventoriesKeeps, StagingKeeps, ReplaceKeeps, ReplacedKeeps
       DEF Removal
  <1>2. CASE Update
    BY <1>2, UpdateKeeps
  <1>3. ASSUME NEW p \in Procs, NEW q \in Requests, RemoveCheck(p, q) PROVE Kept'
    BY <1>3, KeptStutter DEF RemoveCheck, files, history
  <1>4. ASSUME NEW p \in Procs, UpdateSee(p) PROVE Kept'
    BY <1>4, KeptStutter DEF UpdateSee, files, history
  <1>5. ASSUME NEW p \in Procs, UpdateCheck(p) PROVE Kept'
    BY <1>5, KeptStutter DEF UpdateCheck, files, history
  <1>6. ASSUME NEW p \in Procs, RemoveLease(p) \/ UpdateLease(p) PROVE Kept'
    <2>1. UNCHANGED <<inv, stage, backup, other>>
      BY <1>6 DEF RemoveLease, UpdateLease, TakeLease, files, history
    <2>2. \/ lease' = p /\ at' \in {"recheck", "updateRecheck"}
          \/ UNCHANGED <<lease, at>>
      BY <1>6 DEF RemoveLease, UpdateLease, TakeLease
    <2>3. p # Nobody
      BY RemovalAssumption
    <2> QED
      BY <2>1, <2>2, <2>3, KeptFrame, KeptStutter DEF InventoryRead
  <1>7. CASE Stop
    <2>1. UNCHANGED <<inv, stage, backup, other>>
      BY <1>7 DEF Stop, files
    <2>2. at' = "none" \/ UNCHANGED <<lease, at>>
      BY <1>7 DEF Stop
    <2> QED
      BY <2>1, <2>2, KeptFrame, KeptStutter
  <1>8. CASE Edit
    <2>1. /\ Legible /\ lease = Nobody /\ other' = ~other
          /\ inv' = (IF other THEN inv \ {"other"} ELSE inv \cup {"other"})
          /\ UNCHANGED <<at, lease>>
      BY <1>8 DEF Edit, command
    <2>2. inv' \in Inventory /\ (("other" \in inv') <=> other')
      BY <2>1 DEF Kept, OthersKept, Inventory, Legible
    <2>3. OthersKept'
      BY <2>2, RemovalAssumption DEF OthersKept
    <2> QED
      BY <2>1, <2>3 DEF Kept, InventoryRead
  <1>9. CASE UNCHANGED vars
    BY <1>9, KeptStutter DEF vars, files, history, command
  <1> QED
    BY <1>1, <1>2, <1>3, <1>4, <1>5, <1>6, <1>7, <1>8, <1>9 DEF Next

(* A removal keeps every other entry of the inventory, changes that an     *)
(* older administrator made meanwhile included; if the inventory is gone,  *)
(* backup and stage still hold them.                                       *)
THEOREM RemovalKeepsOthers == Spec => []OthersKept
  <1>1. Kept => OthersKept
    BY DEF Kept
  <1> QED
    BY <1>1, InitKept, NextKept, PTL DEF Spec

(***************************************************************************)
(* The variables keep their types.                                         *)
(***************************************************************************)
FilesOK == /\ app \in BOOLEAN
           /\ inv \in Inventory \cup {Absent}
           /\ stage \in Inventory \cup {Absent, Torn}
           /\ backup \in Inventory \cup {Absent}
           /\ alias \in Aliases

JournalsOK == /\ slot \in [{0, 1} -> Record \cup {Absent, Torn}]
              /\ receipt \in [Requests -> {"completed", "cancelled", Absent, Torn}]
              /\ update \in {"terminal", "open"}

Outcomes == {"none", "waiting", "removed", "cancelled", "refused", "failed", "update"}

CommandOK == /\ lease \in Procs \cup {Nobody}
             /\ pc \in [Procs -> {"idle", "removeChecked", "updateSeen", "updateChecked", "holding"}]
             /\ \A p \in Procs : pc[p] = "holding" <=> lease = p
             /\ want \in [Procs -> Requests]
             /\ at \in Labels /\ (at = "none" <=> lease = Nobody)
             /\ rec \in Record
             /\ outcome \in Outcomes
             /\ asked \in Requests

HistoryOK == /\ deletes \in [Requests -> Nat]
             /\ other \in BOOLEAN
             /\ installs \in 0 .. MaxInstalls
             /\ edits \in 0 .. MaxEdits
             /\ faults \in 0 .. MaxFaults

LEMMA TypeParts == TypeOK <=> FilesOK /\ JournalsOK /\ CommandOK /\ HistoryOK
  BY DEF TypeOK, FilesOK, JournalsOK, CommandOK, HistoryOK, Outcomes

LEMMA TypePartsNext ==
  ASSUME FilesOK', JournalsOK', CommandOK', HistoryOK'
  PROVE  TypeOK'
  BY DEF TypeOK, FilesOK, JournalsOK, CommandOK, HistoryOK, Outcomes

LEMMA FilesFrame == FilesOK /\ UNCHANGED files => FilesOK'
  BY DEF FilesOK, files

LEMMA JournalsFrame == JournalsOK /\ UNCHANGED journals => JournalsOK'
  BY DEF JournalsOK, journals

LEMMA CommandFrame == CommandOK /\ UNCHANGED command => CommandOK'
  BY DEF CommandOK, command

LEMMA HistoryFrame == HistoryOK /\ UNCHANGED history => HistoryOK'
  BY DEF HistoryOK, history

LEMMA InitTypes == Init => TypeOK
  <1> SUFFICES ASSUME Init PROVE TypeOK
    OBVIOUS
  <1>1. FilesOK
    BY DEF Init, FilesOK, Inventory, Aliases
  <1>2. JournalsOK
    BY DEF Init, JournalsOK
  <1>3. \A r \in Requests : Fresh(r) \in Record
    BY RemovalAssumption DEF Fresh, Record, Phases
  <1>4. CommandOK
    BY <1>3, RemovalAssumption DEF Init, CommandOK, Labels, Outcomes
  <1>5. HistoryOK
    BY RemovalAssumption DEF Init, HistoryOK
  <1> QED
    BY <1>1, <1>2, <1>4, <1>5, TypeParts

(* The newest record is one of the two that can be read.                   *)
LEMMA NewestBest ==
  ASSUME JournalsOK, Readable # {}
  PROVE  /\ Newest \in Readable /\ Newest \in Record
         /\ \A k \in Readable : k \in Record /\ k.gen \in Nat /\ k.gen <= Newest.gen
  <1>1. Readable \subseteq Record
    BY DEF Readable, JournalsOK
  <1>2. \A k \in Readable : k.gen \in Nat
    BY <1>1, RemovalAssumption DEF Record
  <1>3. \E j \in Readable : \A k \in Readable : k.gen <= j.gen
    <2>1. \A k \in Readable : k = slot[0] \/ k = slot[1]
      BY DEF Readable
    <2>2. CASE slot[0] \notin Readable \/ slot[1] \notin Readable
      BY <1>2, <2>1, <2>2
    <2>3. CASE slot[0] \in Readable /\ slot[1] \in Readable
      <3>1. slot[0].gen <= slot[1].gen \/ slot[1].gen <= slot[0].gen
        BY <1>2, <2>3
      <3>2. slot[0].gen <= slot[0].gen /\ slot[1].gen <= slot[1].gen
        BY <1>2, <2>3
      <3> QED BY <2>1, <2>3, <3>1, <3>2
    <2> QED BY <2>2, <2>3
  <1>4. Newest \in Readable /\ \A k \in Readable : k.gen <= Newest.gen
    BY <1>3, Zenon DEF Newest
  <1> QED BY <1>1, <1>2, <1>4

-----------------------------------------------------------------------------
(* How a step of the holder ends.                                          *)
Holding == at # "none"

LEMMA GotoTypes ==
  ASSUME CommandOK, Holding, NEW label \in Labels \ {"none"}, Goto(label)
  PROVE  CommandOK'
  BY DEF CommandOK, Holding, Goto

(* The same, with another record in memory.                                *)
LEMMA TakesUpTypes ==
  ASSUME CommandOK, Holding, rec' \in Record, at' \in Labels \ {"none"},
         UNCHANGED <<lease, pc, want, outcome, asked>>
  PROVE  CommandOK'
  BY DEF CommandOK, Holding

LEMMA LeavesTypes ==
  ASSUME CommandOK, outcome' \in Outcomes, lease' = Nobody, at' = "none",
         pc' = [p \in Procs |-> IF p = lease THEN "idle" ELSE pc[p]],
         UNCHANGED <<want, rec, asked>>
  PROVE  CommandOK'
  BY RemovalAssumption DEF CommandOK, Labels

LEMMA DoneTypes ==
  ASSUME CommandOK, NEW result \in Outcomes, Done(result)
  PROVE  CommandOK'
  BY LeavesTypes DEF Done

LEMMA RefuseTypes == CommandOK /\ Refuse => CommandOK'
  BY DoneTypes DEF Refuse, Outcomes

LEMMA FaultTypes == HistoryOK /\ Fault => faults' \in 0 .. MaxFaults
  BY RemovalAssumption DEF HistoryOK, Fault

LEMMA FailTypes == CommandOK /\ HistoryOK /\ Fail => CommandOK' /\ HistoryOK'
  <1> SUFFICES ASSUME CommandOK, HistoryOK, Fail PROVE CommandOK' /\ HistoryOK'
    OBVIOUS
  <1>1. CommandOK'
    BY LeavesTypes DEF Fail, Outcomes
  <1>2. HistoryOK'
    BY FaultTypes DEF Fail, HistoryOK
  <1> QED
    BY <1>1, <1>2

(* A record goes into a slot, whole or in part.                            *)
LEMMA BumpTypes ==
  ASSUME NEW j \in Record, j.gen = rec.gen, rec.gen < MaxGen
  PROVE  Bump(j) \in Record
  BY RemovalAssumption DEF Bump, Record

LEMMA WriteTypes ==
  ASSUME JournalsOK, NEW j \in Record, UNCHANGED <<receipt, update>>,
         Write(j) \/ Tear(j) \/ UNCHANGED slot
  PROVE  JournalsOK'
  BY DEF JournalsOK, Write, Tear

LEMMA PersistTypes ==
  ASSUME TypeOK, Holding, NEW j \in Record, j.gen = rec.gen,
         NEW label \in Labels \ {"none"}, Persist(j, label)
  PROVE  TypeOK'
  <1>1. Bump(j) \in Record
    BY BumpTypes DEF Persist
  <1>2. FilesOK' /\ JournalsOK'
    BY <1>1, TypeParts, FilesFrame, WriteTypes DEF Persist
  <1>3. CommandOK' /\ HistoryOK'
    BY <1>1, TypeParts, TakesUpTypes, HistoryFrame, FailTypes DEF Persist
  <1> QED
    BY <1>2, <1>3, TypePartsNext

LEMMA PersistLastTypes ==
  ASSUME TypeOK, NEW j \in Record, j.gen = rec.gen, NEW result \in Outcomes,
         PersistLast(j, result)
  PROVE  TypeOK'
  <1>1. Bump(j) \in Record
    BY BumpTypes DEF PersistLast
  <1>2. FilesOK' /\ JournalsOK'
    BY <1>1, TypeParts, FilesFrame, WriteTypes DEF PersistLast
  <1>3. CommandOK' /\ HistoryOK'
    BY TypeParts, DoneTypes, HistoryFrame, FailTypes DEF PersistLast
  <1> QED
    BY <1>2, <1>3, TypePartsNext

-----------------------------------------------------------------------------
(* A step that leaves all files alone, and goes on or ends the command.    *)
LEMMA LookTypes ==
  ASSUME TypeOK, Holding, UNCHANGED <<files, journals, history>>,
         \/ \E label \in Labels \ {"none"} : Goto(label)
         \/ \E result \in Outcomes : Done(result)
  PROVE  TypeOK'
  <1>1. FilesOK' /\ JournalsOK' /\ HistoryOK'
    BY TypeParts, FilesFrame, JournalsFrame, HistoryFrame
  <1>2. CommandOK'
    BY TypeParts, GotoTypes, DoneTypes
  <1> QED
    BY <1>1, <1>2, TypePartsNext

(* Taking up a record, which may be the newest of the slots.               *)
LEMMA ExecuteTypes == TypeOK /\ Execute => TypeOK'
  <1> SUFFICES ASSUME TypeOK, Execute PROVE TypeOK'
    OBVIOUS
  <1>1. Holding /\ lease \in Procs /\ req \in Requests /\ UNCHANGED <<files, journals, history>>
    BY TypeParts DEF Execute, Holding, CommandOK, req
  <1>2. \A phase : Answer(phase) => \E result \in Outcomes : Done(result)
    BY DEF Answer, Refuse, Outcomes
  <1>3. \/ \E result \in Outcomes : Done(result)
        \/ /\ rec' = Fresh(req) \/ (rec' = Newest /\ Readable # {})
           /\ at' \in {"admit", "archive", "prepared", "inventory", "finish"}
           /\ UNCHANGED <<lease, pc, want, outcome, asked>>
    <2>1. CASE LoadFails
      BY <2>1 DEF Execute, Refuse, Outcomes
    <2>2. CASE ~LoadFails /\ receipt[req] = Torn
      BY <2>2 DEF Execute, Refuse, Outcomes
    <2>3. CASE ~LoadFails /\ receipt[req] # Torn /\ Settled(req) # {}
      BY <1>2, <2>3 DEF Execute
    <2>4. CASE ~LoadFails /\ receipt[req] # Torn /\ Settled(req) = {}
      <3>1. CASE Readable = {}
        BY <2>4, <3>1 DEF Execute
      <3>2. CASE Readable # {} /\ Newest.req # req
        BY <2>4, <3>2 DEF Execute, Refuse, Outcomes
      <3>3. CASE Readable # {} /\ Newest.req = req
        BY <2>4, <3>3 DEF Execute
      <3> QED
        BY <3>1, <3>2, <3>3
    <2> QED
      BY <2>1, <2>2, <2>3, <2>4
  <1>4. CASE \E result \in Outcomes : Done(result)
    BY <1>1, <1>4, LookTypes
  <1>5. CASE /\ rec' = Fresh(req) \/ (rec' = Newest /\ Readable # {})
             /\ at' \in {"admit", "archive", "prepared", "inventory", "finish"}
             /\ UNCHANGED <<lease, pc, want, outcome, asked>>
    <2>1. Fresh(req) \in Record
      BY <1>1, RemovalAssumption DEF Fresh, Record, Phases
    <2>2. rec' \in Record
      BY <1>5, <2>1, NewestBest, TypeParts
    <2>3. CommandOK'
      BY <1>1, <1>5, <2>2, TypeParts, TakesUpTypes DEF Labels
    <2> QED
      BY <1>1, <2>3, TypeParts, TypePartsNext, FilesFrame, JournalsFrame, HistoryFrame
  <1> QED
    BY <1>3, <1>4, <1>5

LEMMA ArchiveTypes == TypeOK /\ Archive => TypeOK'
  <1> SUFFICES ASSUME TypeOK, Archive PROVE TypeOK'
    OBVIOUS
  <1>1. /\ Holding /\ req \in Requests /\ rec \in Record
        /\ FilesOK' /\ UNCHANGED <<slot, update>>
    BY TypeParts, FilesFrame DEF Archive, Holding, CommandOK, req
  <1>2. CASE UNCHANGED <<receipt, history>> /\ Refuse
    <2>1. JournalsOK' /\ CommandOK' /\ HistoryOK'
      BY <1>1, <1>2, TypeParts, JournalsFrame, RefuseTypes, HistoryFrame DEF journals
    <2> QED
      BY <1>1, <2>1, TypePartsNext
  <1>3. CASE /\ Archivable
             /\ receipt' = [receipt EXCEPT ![rec.req] = rec.phase]
             /\ rec' = NextRequest /\ at' = "admit"
             /\ UNCHANGED <<lease, pc, want, outcome, asked, history>>
    <2>1. JournalsOK'
      BY <1>1, <1>3, TypeParts DEF Archivable, terminal, JournalsOK
    <2>2. NextRequest \in Record
      BY <1>1, RemovalAssumption DEF NextRequest, Fresh, Record, Phases
    <2>3. CommandOK' /\ HistoryOK'
      BY <1>1, <1>3, <2>2, TypeParts, TakesUpTypes, HistoryFrame DEF Labels
    <2> QED
      BY <1>1, <2>1, <2>3, TypePartsNext
  <1>4. CASE /\ Archivable /\ Fail
             /\ \E content \in {rec.phase, Torn} : receipt' = [receipt EXCEPT ![rec.req] = content]
    <2>1. JournalsOK'
      BY <1>1, <1>4, TypeParts DEF Archivable, terminal, JournalsOK
    <2> QED
      BY <1>1, <1>4, <2>1, TypeParts, TypePartsNext, FailTypes
  <1> QED
    BY <1>2, <1>3, <1>4 DEF Archive

(* Steps that write a record, look, or do either.                          *)
LEMMA RecordTypes ==
  ASSUME TypeOK, Admit \/ Cancel \/ Deleted \/ InventoryDone \/ Finish
  PROVE  TypeOK'
  <1>1. Holding /\ rec \in Record
    BY TypeParts DEF CommandOK, Holding, Admit, Cancel, Deleted, InventoryDone, Finish
  <1>2. ASSUME NEW phase \in Phases
        PROVE  LET j == [rec EXCEPT !.phase = phase] IN j \in Record /\ j.gen = rec.gen
    BY <1>1 DEF Record
  <1>3. CASE Admit
    BY <1>1, <1>3, PersistTypes, LookTypes DEF Admit, Refuse, Labels, Outcomes
  <1>4. CASE Cancel
    <2>1. "cancelled" \in Phases \cap Outcomes
      BY DEF Phases, Outcomes
    <2> QED
      BY <1>1, <1>2, <1>4, <2>1, PersistLastTypes DEF Cancel
  <1>5. CASE Deleted
    <2>1. "payload_removed" \in Phases /\ "inventory" \in Labels \ {"none"}
      BY DEF Phases, Labels
    <2> QED
      BY <1>1, <1>2, <1>5, <2>1, PersistTypes DEF Deleted
  <1>6. CASE InventoryDone
    <2>1. "inventory_removed" \in Phases /\ "finish" \in Labels \ {"none"}
      BY DEF Phases, Labels
    <2> QED
      BY <1>1, <1>2, <1>6, <2>1, PersistTypes DEF InventoryDone
  <1>7. CASE Finish
    <2>1. "completed" \in Phases /\ {"removed", "refused"} \subseteq Outcomes
      BY DEF Phases, Outcomes
    <2>2. CASE GoneEverywhere
      BY <1>1, <1>2, <1>7, <2>1, <2>2, PersistLastTypes DEF Finish
    <2>3. CASE ~GoneEverywhere
      BY <1>1, <1>7, <2>1, <2>3, LookTypes DEF Finish, Refuse
    <2> QED
      BY <2>2, <2>3
  <1> QED
    BY <1>3, <1>4, <1>5, <1>6, <1>7

LEMMA LookingTypes ==
  ASSUME TypeOK, RemoveRecheck \/ Wait \/ AlreadyGone \/ UpdateRecheck \/ UpdateGivesUp
  PROVE  TypeOK'
  <1>1. Holding /\ UNCHANGED <<files, journals, history>>
    BY DEF Holding, RemoveRecheck, Wait, AlreadyGone, UpdateRecheck, UpdateGivesUp
  <1>2. \/ \E label \in Labels \ {"none"} : Goto(label)
        \/ \E result \in Outcomes : Done(result)
    BY DEF RemoveRecheck, Wait, AlreadyGone, UpdateRecheck, UpdateGivesUp, Refuse, Labels, Outcomes
  <1> QED
    BY <1>1, <1>2, LookTypes

LEMMA DeleteTypes == TypeOK /\ Delete => TypeOK'
  <1> SUFFICES ASSUME TypeOK, Delete PROVE TypeOK'
    OBVIOUS
  <1>1. Holding /\ lease \in Procs /\ req \in Requests
    BY TypeParts DEF Delete, Holding, CommandOK, req
  <1>2. CASE ~(Legible /\ Listed)
    BY <1>1, <1>2, LookTypes DEF Delete, Refuse, Outcomes
  <1>3. CASE Legible /\ Listed
    <2>1. JournalsOK' /\ UNCHANGED <<inv, stage, backup, alias>>
      BY <1>3, TypeParts, JournalsFrame DEF Delete
    <2>2. FilesOK'
      <3>1. app' \in {app, FALSE}
        BY <1>3 DEF Delete
      <3> QED
        BY <2>1, <3>1, TypeParts, Zenon DEF FilesOK
    <2>3. [deletes EXCEPT ![req] = @ + 1] \in [Requests -> Nat]
      BY <1>1, TypeParts DEF HistoryOK
    <2>4. CASE /\ deletes' = [deletes EXCEPT ![req] = @ + 1]
               /\ UNCHANGED <<other, installs, edits, faults>>
               /\ Goto("deleted")
      <3>1. HistoryOK'
        BY <2>3, <2>4, TypeParts DEF HistoryOK
      <3>2. CommandOK'
        BY <1>1, <2>4, TypeParts, GotoTypes DEF Labels
      <3> QED
        BY <2>1, <2>2, <3>1, <3>2, TypePartsNext
    <2>5. CASE Fail
      BY <2>1, <2>2, <2>5, TypeParts, TypePartsNext, FailTypes
    <2>6. CASE /\ Fault
               /\ deletes' = [deletes EXCEPT ![req] = @ + 1]
               /\ UNCHANGED <<other, installs, edits>>
               /\ outcome' = "failed"
               /\ lease' = Nobody /\ at' = "none"
               /\ pc' = [pc EXCEPT ![lease] = "idle"]
               /\ UNCHANGED <<want, rec, asked>>
      <3>1. HistoryOK'
        BY <2>3, <2>6, TypeParts, FaultTypes DEF HistoryOK
      <3>2. pc' = [p \in Procs |-> IF p = lease THEN "idle" ELSE pc[p]]
        BY <1>1, <2>6, TypeParts DEF CommandOK
      <3>3. CommandOK'
        BY <2>6, <3>2, TypeParts, LeavesTypes DEF Outcomes
      <3> QED
        BY <2>1, <2>2, <3>1, <3>3, TypePartsNext
    <2> QED
      BY <1>3, <2>4, <2>5, <2>6 DEF Delete
  <1> QED
    BY <1>2, <1>3

-----------------------------------------------------------------------------
(* The inventory and its copies.                                           *)
LEMMA InventoryClosed ==
  ASSUME NEW v \in Inventory, NEW entry \in {"app", "other"}
  PROVE  v \ {entry} \in Inventory /\ v \cup {entry} \in Inventory
  BY DEF Inventory

LEMMA InventoriesTypes == TypeOK /\ Inventories => TypeOK'
  <1> SUFFICES ASSUME TypeOK, Inventories PROVE TypeOK'
    OBVIOUS
  <1>1. Holding /\ rec \in Record /\ "refused" \in Outcomes
        /\ {"replaced", "inventoryDone", "stage"} \subseteq Labels \ {"none"}
    BY TypeParts DEF Inventories, Holding, CommandOK, Labels, Outcomes
  <1>2. CASE UNCHANGED <<files, journals, history>>
             /\ (Refuse \/ Goto("replaced") \/ Goto("inventoryDone") \/ Goto("stage"))
    BY <1>1, <1>2, LookTypes DEF Refuse
  <1>3. CASE /\ ~(app \/ ~Legible \/ ~InventoryKnown)
             /\ Persist([rec EXCEPT !.before = inv, !.after = inv \ {"app"}], "stage")
    <2>1. inv \in Inventory /\ inv \ {"app"} \in Inventory
      BY <1>3, TypeParts, InventoryClosed DEF FilesOK, Legible
    <2> DEFINE j == [rec EXCEPT !.before = inv, !.after = inv \ {"app"}]
    <2>2. j \in Record /\ j.gen = rec.gen
      BY <1>1, <2>1 DEF Record
    <2> QED
      BY <1>1, <1>3, <2>2, PersistTypes
  <1>4. CASE app \/ ~Legible \/ ~InventoryKnown
    BY <1>2, <1>4 DEF Inventories
  <1>5. CASE ~(app \/ ~Legible \/ ~InventoryKnown)
    BY <1>2, <1>3, <1>5 DEF Inventories
  <1> QED
    BY <1>4, <1>5

LEMMA StagingTypes == TypeOK /\ Staging /\ inv # Absent => TypeOK'
  <1> SUFFICES ASSUME TypeOK, Staging, inv # Absent PROVE TypeOK'
    OBVIOUS
  <1>1. /\ Holding /\ JournalsOK' /\ UNCHANGED <<app, inv, backup, alias>>
        /\ {"replace"} \subseteq Labels \ {"none"}
    BY TypeParts, JournalsFrame DEF Staging, Holding, Labels
  <1>2. stage' \in {stage, Absent, Torn, inv \ {"app"}}
    BY DEF Staging
  <1>3. FilesOK'
    <2>1. inv \ {"app"} \in Inventory
      BY TypeParts, InventoryClosed DEF FilesOK
    <2>2. stage' \in Inventory \cup {Absent, Torn}
      BY <1>2, <2>1, TypeParts DEF FilesOK
    <2>3. app' \in BOOLEAN
      BY <1>1, TypeParts, Zenon DEF FilesOK
    <2> QED
      BY <1>1, <2>2, <2>3, TypeParts DEF FilesOK
  <1>4. \/ UNCHANGED history /\ (Goto("replace") \/ Refuse)
        \/ Fail
    BY DEF Staging
  <1>5. CommandOK' /\ HistoryOK'
    BY <1>1, <1>4, TypeParts, GotoTypes, RefuseTypes, FailTypes, HistoryFrame
  <1> QED
    BY <1>1, <1>3, <1>5, TypePartsNext

LEMMA ReplaceTypes == TypeOK /\ Replace /\ stage \in Inventory => TypeOK'
  <1> SUFFICES ASSUME TypeOK, Replace, stage \in Inventory PROVE TypeOK'
    OBVIOUS
  <1>1. /\ Holding /\ JournalsOK' /\ UNCHANGED app
        /\ "replaced" \in Labels \ {"none"}
    BY TypeParts, JournalsFrame DEF Replace, Holding, Labels
  <1>2. /\ inv' \in {inv, stage, Absent} /\ backup' \in {inv, backup} /\ stage' \in {stage, Absent}
        /\ alias' \in Aliases
    BY TypeParts, ReplaceOutcomes DEF Named, FirstMove, SecondMove, Aliases, FilesOK
  <1>3. FilesOK'
    <2>1. /\ inv' \in Inventory \cup {Absent} /\ backup' \in Inventory \cup {Absent}
          /\ stage' \in Inventory \cup {Absent, Torn} /\ alias' \in Aliases
      BY <1>2, TypeParts DEF FilesOK
    <2>2. app' \in BOOLEAN
      BY <1>1, TypeParts, Zenon DEF FilesOK
    <2> QED
      BY <2>1, <2>2 DEF FilesOK
  <1>4. \/ UNCHANGED history /\ (Goto("replaced") \/ Refuse)
        \/ Fault /\ UNCHANGED <<deletes, other, installs, edits>> /\ Goto("replaced")
        \/ Fail
    BY DEF Replace
  <1>5. CommandOK' /\ HistoryOK'
    <2>1. CASE Fault /\ UNCHANGED <<deletes, other, installs, edits>> /\ Goto("replaced")
      BY <1>1, <2>1, TypeParts, GotoTypes, FaultTypes DEF HistoryOK
    <2> QED
      BY <1>1, <1>4, <2>1, TypeParts, GotoTypes, RefuseTypes, FailTypes, HistoryFrame
  <1> QED
    BY <1>1, <1>3, <1>5, TypePartsNext

LEMMA ReplacedTypes == TypeOK /\ Replaced => TypeOK'
  <1> SUFFICES ASSUME TypeOK, Replaced PROVE TypeOK'
    OBVIOUS
  <1>1. /\ Holding /\ JournalsOK' /\ UNCHANGED <<app, inv, alias>>
        /\ "inventoryDone" \in Labels \ {"none"}
    BY TypeParts, JournalsFrame DEF Replaced, Holding, Labels
  <1>2. backup' \in {backup, Absent} /\ stage' \in {stage, Absent}
    BY DEF Replaced
  <1>3. FilesOK'
    <2>1. app' \in BOOLEAN
      BY <1>1, TypeParts, Zenon DEF FilesOK
    <2> QED
      BY <1>1, <1>2, <2>1, TypeParts DEF FilesOK
  <1>4. \/ UNCHANGED history /\ (Goto("inventoryDone") \/ Refuse)
        \/ Fail
    BY DEF Replaced
  <1>5. CommandOK' /\ HistoryOK'
    BY <1>1, <1>4, TypeParts, GotoTypes, RefuseTypes, FailTypes, HistoryFrame
  <1> QED
    BY <1>1, <1>3, <1>5, TypePartsNext

-----------------------------------------------------------------------------
(* The update, and what happens without the lease.                         *)
LEMMA UpdateWorkTypes ==
  ASSUME TypeOK, UpdateRun \/ UpdateInstall \/ UpdateList \/ UpdateEnd
  PROVE  TypeOK'
  <1>1. Holding /\ "updateWork" \in Labels \ {"none"} /\ "update" \in Outcomes
    BY DEF Holding, UpdateRun, UpdateInstall, UpdateList, UpdateEnd, Labels, Outcomes
  <1>2. CommandOK'
    BY <1>1, TypeParts, GotoTypes, DoneTypes DEF UpdateRun, UpdateInstall, UpdateList, UpdateEnd
  <1>3. JournalsOK'
    BY TypeParts DEF UpdateRun, UpdateInstall, UpdateList, UpdateEnd, JournalsOK, journals
  <1>4. FilesOK'
    <2>1. app' \in BOOLEAN /\ UNCHANGED <<stage, backup, alias>>
      BY TypeParts, Zenon DEF UpdateRun, UpdateInstall, UpdateList, UpdateEnd, FilesOK, files
    <2>2. inv' = inv \/ (Unlisted /\ inv' = inv \cup {"app"})
      BY DEF UpdateRun, UpdateInstall, UpdateList, UpdateEnd, files
    <2>3. inv' \in Inventory \cup {Absent}
      BY <2>2, TypeParts, InventoryClosed DEF Unlisted, FilesOK
    <2> QED
      BY <2>1, <2>3, TypeParts DEF FilesOK
  <1>5. HistoryOK'
    <2>1. CASE UpdateInstall
      BY <2>1, TypeParts, RemovalAssumption DEF UpdateInstall, HistoryOK
    <2>2. CASE UNCHANGED history
      BY <2>2, TypeParts, HistoryFrame
    <2> QED
      BY <2>1, <2>2 DEF UpdateRun, UpdateList, UpdateEnd
  <1> QED
    BY <1>2, <1>3, <1>4, <1>5, TypePartsNext

LEMMA ApproachTypes ==
  ASSUME TypeOK, NEW p \in Procs, NEW r \in Requests,
         RemoveCheck(p, r) \/ RemoveLease(p) \/ UpdateSee(p) \/ UpdateCheck(p) \/ UpdateLease(p)
  PROVE  TypeOK'
  <1>1. FilesOK' /\ JournalsOK' /\ HistoryOK'
    BY TypeParts, FilesFrame, JournalsFrame, HistoryFrame
       DEF RemoveCheck, RemoveLease, UpdateSee, UpdateCheck, UpdateLease, TakeLease
  <1>2. CommandOK'
    <2>1. CASE RemoveCheck(p, r)
      BY <2>1, TypeParts DEF RemoveCheck, CommandOK
    <2>2. CASE RemoveLease(p) \/ UpdateLease(p)
      <3>1. p # Nobody /\ pc[p] # "holding" /\ UNCHANGED <<want, rec>>
        BY <2>2, RemovalAssumption DEF RemoveLease, UpdateLease, TakeLease
      <3>2. CASE /\ lease = Nobody /\ lease' = p
                 /\ pc' = [pc EXCEPT ![p] = "holding"]
                 /\ at' \in {"recheck", "updateRecheck"}
                 /\ outcome' = "none" /\ asked' = want[p]
        <4>1. /\ pc' \in [Procs -> {"idle", "removeChecked", "updateSeen", "updateChecked", "holding"}]
              /\ \A q \in Procs : pc'[q] = "holding" <=> lease' = q
          <5>1. pc \in [Procs -> {"idle", "removeChecked", "updateSeen", "updateChecked", "holding"}]
            BY TypeParts DEF CommandOK
          <5>2. pc' \in [Procs -> {"idle", "removeChecked", "updateSeen", "updateChecked", "holding"}]
            BY <5>1, <3>2
          <5>3. ASSUME NEW q \in Procs PROVE pc[q] # "holding"
            <6>1. lease # q
              BY <3>2, RemovalAssumption
            <6> QED
              BY <6>1, TypeParts DEF CommandOK
          <5>4. ASSUME NEW q \in Procs PROVE pc'[q] = "holding" <=> lease' = q
            <6>1. CASE q = p
              BY <6>1, <5>1, <3>2
            <6>2. CASE q # p
              BY <6>2, <5>1, <5>3, <3>2
            <6> QED
              BY <6>1, <6>2
          <5> QED
            BY <5>2, <5>4
        <4>2. asked' \in Requests /\ want' \in [Procs -> Requests]
          BY <3>1, <3>2, TypeParts DEF CommandOK
        <4>3. at' \in Labels /\ at' # "none" /\ lease' \in Procs /\ lease' # Nobody
          BY <3>1, <3>2 DEF Labels
        <4>4. rec' \in Record /\ outcome' \in Outcomes
          BY <3>1, <3>2, TypeParts DEF CommandOK, Outcomes
        <4> QED
          BY <4>1, <4>2, <4>3, <4>4 DEF CommandOK
      <3>3. CASE pc' = [pc EXCEPT ![p] = "idle"] /\ UNCHANGED <<lease, at, outcome, asked>>
        BY <3>1, <3>3, TypeParts DEF CommandOK
      <3> QED
        BY <2>2, <3>2, <3>3 DEF RemoveLease, UpdateLease, TakeLease
    <2>3. CASE UpdateSee(p) \/ UpdateCheck(p)
      <3>1. /\ pc[p] # "holding" /\ UNCHANGED <<lease, want, at, rec, outcome, asked>>
            /\ \E s \in {"idle", "updateSeen", "updateChecked"} : pc' = [pc EXCEPT ![p] = s]
        BY <2>3 DEF UpdateSee, UpdateCheck
      <3> QED
        BY <3>1, TypeParts DEF CommandOK
    <2> QED
      BY <2>1, <2>2, <2>3
  <1> QED
    BY <1>1, <1>2, TypePartsNext

LEMMA StopTypes == TypeOK /\ Stop => TypeOK'
  <1> SUFFICES ASSUME TypeOK, Stop PROVE TypeOK'
    OBVIOUS
  <1>1. FilesOK' /\ JournalsOK' /\ UNCHANGED <<want, rec, asked>>
    BY TypeParts, FilesFrame, JournalsFrame DEF Stop
  <1>2. HistoryOK'
    BY TypeParts, FaultTypes DEF Stop, HistoryOK
  <1>3. PICK killed \in SUBSET Procs :
           /\ pc' = [p \in Procs |-> IF p \in killed THEN "idle" ELSE pc[p]]
           /\ IF lease \in killed
              THEN lease' = Nobody /\ at' = "none" /\ outcome' = "failed"
              ELSE UNCHANGED <<lease, at, outcome>>
    BY DEF Stop
  <1>4. CommandOK'
    BY <1>1, <1>3, TypeParts, RemovalAssumption DEF CommandOK, Labels, Outcomes
  <1> QED
    BY <1>1, <1>2, <1>4, TypePartsNext

LEMMA EditTypes == TypeOK /\ Edit => TypeOK'
  <1> SUFFICES ASSUME TypeOK, Edit PROVE TypeOK'
    OBVIOUS
  <1>1. JournalsOK' /\ CommandOK'
    BY TypeParts, JournalsFrame, CommandFrame DEF Edit
  <1>2. FilesOK'
    <2>1. inv' \in Inventory /\ alias' \in Aliases
      BY TypeParts, InventoryClosed DEF Edit, FilesOK, Legible, Aliases
    <2>2. app' \in BOOLEAN
      BY TypeParts, Zenon DEF Edit, FilesOK
    <2> QED
      BY <2>1, <2>2, TypeParts DEF Edit, FilesOK
  <1>3. HistoryOK'
    <2>1. edits' \in 0 .. MaxEdits
      BY TypeParts, RemovalAssumption DEF Edit, HistoryOK
    <2>2. other' \in BOOLEAN
      BY Zenon DEF Edit
    <2> QED
      BY <2>1, <2>2, TypeParts DEF Edit, HistoryOK
  <1> QED
    BY <1>1, <1>2, <1>3, TypePartsNext

-----------------------------------------------------------------------------
(* What the removal knows of the inventory is what keeps its copies of the *)
(* right type: it stages and replaces only an inventory that is there.     *)
Typed == TypeOK /\ Kept

LEMMA NextTyped == Typed /\ [Next]_vars => Typed'
  <1> SUFFICES ASSUME TypeOK, Kept, [Next]_vars PROVE TypeOK' /\ Kept'
    BY DEF Typed
  <1>1. Kept'
    BY NextKept
  <1>2. CASE Removal
    <2>1. CASE Staging
      BY <1>1, <2>1, StagingTypes DEF Staging, Kept, InventoryRead
    <2>2. CASE Replace
      <3>1. inv \in Inventory /\ stage = inv \ {"app"}
        BY <2>2, TypeParts DEF Replace, Kept, InventoryRead, FilesOK
      <3>2. stage \in Inventory
        BY <3>1, InventoryClosed
      <3> QED
        BY <1>1, <2>2, <3>2, ReplaceTypes
    <2> QED
      BY <1>1, <1>2, <2>1, <2>2, ExecuteTypes, ArchiveTypes, RecordTypes, LookingTypes,
         DeleteTypes, InventoriesTypes, ReplacedTypes DEF Removal
  <1>3. CASE Update
    BY <1>1, <1>3, LookingTypes, UpdateWorkTypes DEF Update
  <1>4. CASE Stop \/ Edit
    BY <1>1, <1>4, StopTypes, EditTypes
  <1>5. ASSUME NEW p \in Procs, NEW r \in Requests, RemoveCheck(p, r)
        PROVE  TypeOK'
    BY <1>5, ApproachTypes
  <1>6. ASSUME NEW p \in Procs,
               RemoveLease(p) \/ UpdateSee(p) \/ UpdateCheck(p) \/ UpdateLease(p)
        PROVE  TypeOK'
    <2>1. PICK r : r \in Requests
      BY <1>6, TypeParts DEF CommandOK
    <2> QED
      BY <1>6, <2>1, ApproachTypes
  <1>7. CASE UNCHANGED vars
    BY <1>1, <1>7, TypeParts, TypePartsNext, FilesFrame, JournalsFrame, CommandFrame, HistoryFrame DEF vars
  <1> QED
    BY <1>1, <1>2, <1>3, <1>4, <1>5, <1>6, <1>7 DEF Next

(* Files, records, receipts and commands keep their types, whatever fails. *)
THEOREM RemovalTypeCorrect == Spec => []TypeOK
  <1>1. Init => Typed
    BY InitTypes, InitKept DEF Typed
  <1>2. Typed => TypeOK
    BY DEF Typed
  <1> QED
    BY <1>1, <1>2, NextTyped, PTL DEF Spec
(***************************************************************************)
(* What the records and receipts say of each request.                      *)
(*                                                                         *)
(* The holder has the newest record in its memory as long as it works on a *)
(* removal.  A request that deleted an installation is on disk until its   *)
(* outcome is archived, so it is never admitted again.                     *)
(***************************************************************************)
Working == {"prepared", "deleted", "inventory", "stage", "replace", "replaced",
            "inventoryDone", "finish"}

(* Each record is in the slot of its generation.                           *)
Slots == \A s \in {0, 1} : slot[s] \notin {Absent, Torn} => slot[s].gen % 2 = s

Ledger ==
    /\ Slots
    /\ at \in Working => /\ Readable # {} /\ rec = Newest
                         /\ ~terminal(rec) /\ rec.req = req
    /\ at = "prepared" => rec.phase = "prepared"
    /\ at = "archive" => Readable # {} /\ rec = Newest /\ terminal(rec)
    /\ at \in {"archive", "admit"} => /\ receipt[req] = Absent
                                      /\ Readable # {} => Newest.req # req
    /\ at = "admit" => /\ rec.phase = "prepared" /\ rec.req = req
                       /\ Readable = {} => rec.gen = 0
                       /\ Readable # {} => /\ rec.gen = Newest.gen
                                           /\ receipt[Newest.req] = Newest.phase
    /\ Pending => receipt[Newest.req] = Absent

(* The file and its entry, as far as the records answer for them.          *)
Gaps == /\ GapOnRecord
        /\ Pending /\ Newest.phase # "prepared" => ~app
        /\ at \in Working \ {"prepared"} => ~app
        /\ at = "updateWork" => update = "open"

(* What a request has deleted.                                             *)
OnDisk(r) == receipt[r] \in {"completed", Torn} \/ (Readable # {} /\ Newest.req = r)

Counts == /\ Pending /\ app => deletes[Newest.req] = 0
          /\ Readable # {} /\ Newest.phase = "cancelled" => deletes[Newest.req] = 0
          /\ \A r \in Requests : /\ deletes[r] <= 1
                                 /\ receipt[r] = "cancelled" => deletes[r] = 0
                                 /\ deletes[r] # 0 => OnDisk(r)

Books == Ledger /\ Gaps /\ Counts

-----------------------------------------------------------------------------
(* The slots.                                                              *)
ReadableIn(sl) == {sl[s] : s \in {0, 1}} \ {Absent, Torn}
TopIn(sl) == CHOOSE j \in ReadableIn(sl) : \A k \in ReadableIn(sl) : k.gen <= j.gen

LEMMA TopIs ==
  ASSUME NEW sl, NEW j \in ReadableIn(sl), j.gen \in Nat,
         \A k \in ReadableIn(sl) : k = j \/ (k.gen \in Nat /\ k.gen < j.gen)
  PROVE  TopIn(sl) = j
  <1> DEFINE Best(i) == i \in ReadableIn(sl) /\ \A k \in ReadableIn(sl) : k.gen <= i.gen
  <1>1. Best(j)
    BY DEF Best
  <1>2. \A i : Best(i) => i = j
    BY DEF Best
  <1>3. TopIn(sl) = CHOOSE i : Best(i)
    BY Zenon DEF TopIn, Best
  <1> HIDE DEF Best
  <1>4. Best(CHOOSE i : Best(i))
    BY <1>1, Zenon
  <1> QED BY <1>2, <1>3, <1>4, Zenon

LEMMA InSlots ==
  /\ Readable = ReadableIn(slot) /\ Newest = TopIn(slot)
  /\ Readable' = ReadableIn(slot') /\ Newest' = TopIn(slot')
  BY Zenon DEF Readable, Newest, ReadableIn, TopIn

(* The record in the holder's memory has the generation of the newest one. *)
Anchored == /\ Readable = {} => rec.gen = 0
            /\ Readable # {} => rec.gen = Newest.gen

(* The two slots after a write to the slot of the next generation.         *)
LEMMA NextSlot ==
  ASSUME TypeOK, Slots, Anchored, rec.gen < MaxGen, NEW j \in Record, j.gen = rec.gen
  PROVE  /\ Bump(j) \in Record /\ Bump(j) \notin {Absent, Torn}
         /\ Bump(j).gen = rec.gen + 1 /\ Bump(j).req = j.req /\ Bump(j).phase = j.phase
         /\ \E s, t \in {0, 1} :
              /\ s # t /\ Slot(Bump(j).gen) = s /\ Bump(j).gen % 2 = s
              /\ \A k \in Readable : k = slot[s] \/ k = slot[t]
              /\ slot[t] \in Readable => slot[t].gen \in Nat /\ slot[t].gen <= rec.gen
              /\ Readable # {} => Newest = slot[t] /\ slot[t] \in Readable
  <1>0. rec.gen \in Nat /\ JournalsOK
    BY TypeParts, RemovalAssumption DEF CommandOK, Record
  <1>1. /\ Bump(j) \in Record
        /\ Bump(j).gen = rec.gen + 1 /\ Bump(j).req = j.req /\ Bump(j).phase = j.phase
    BY <1>0, BumpTypes, RemovalAssumption DEF Bump, Record
  <1>2. Bump(j) \notin {Absent, Torn}
    BY <1>1, MarksAssumption
  <1>3. PICK s, t \in {0, 1} : s # t /\ (rec.gen + 1) % 2 = s /\ rec.gen % 2 = t
    BY <1>0
  <1>4. \A k \in Readable : k = slot[s] \/ k = slot[t]
    BY <1>3 DEF Readable
  <1>5. Readable # {} => Newest = slot[t] /\ slot[t] \in Readable
    <2> SUFFICES ASSUME Readable # {} PROVE Newest = slot[t]
      BY <1>0, NewestBest
    <2>1. Newest \in Readable /\ Newest.gen % 2 = t
      BY <1>0, <1>3, NewestBest DEF Anchored
    <2>2. CASE Newest = slot[s]
      BY <1>3, <2>1, <2>2 DEF Slots, Readable
    <2> QED BY <1>4, <2>1, <2>2
  <1>6. slot[t] \in Readable => slot[t].gen \in Nat /\ slot[t].gen <= rec.gen
    <2> SUFFICES ASSUME slot[t] \in Readable
                 PROVE  slot[t].gen \in Nat /\ slot[t].gen <= rec.gen
      OBVIOUS
    <2>1. Newest.gen = rec.gen
      BY DEF Anchored
    <2> QED BY <1>0, <2>1, NewestBest
  <1> QED BY <1>1, <1>2, <1>3, <1>4, <1>5, <1>6 DEF Slot

LEMMA Wrote ==
  ASSUME TypeOK, Slots, Anchored, rec.gen < MaxGen, NEW j \in Record, j.gen = rec.gen,
         Write(Bump(j))
  PROVE  /\ Slots' /\ Readable' # {} /\ Newest' = Bump(j)
         /\ Bump(j).req = j.req /\ Bump(j).phase = j.phase /\ Bump(j).gen = rec.gen + 1
  <1> DEFINE b == Bump(j)
  <1>0. rec.gen \in Nat /\ slot \in [{0, 1} -> Record \cup {Absent, Torn}]
    BY TypeParts, RemovalAssumption DEF CommandOK, JournalsOK, Record
  <1>1. /\ b \in Record /\ b \notin {Absent, Torn} /\ b.gen = rec.gen + 1
        /\ b.req = j.req /\ b.phase = j.phase
    BY NextSlot
  <1> PICK s, t \in {0, 1} :
              /\ s # t /\ Slot(b.gen) = s /\ b.gen % 2 = s
              /\ \A k \in Readable : k = slot[s] \/ k = slot[t]
              /\ slot[t] \in Readable => slot[t].gen \in Nat /\ slot[t].gen <= rec.gen
    BY NextSlot
  <1>2. slot'[s] = b /\ slot'[t] = slot[t] /\ {0, 1} = {s, t}
    BY <1>0 DEF Write
  <1> HIDE DEF b
  <1>3. Slots'
    BY <1>2 DEF Slots
  <1>4. ReadableIn(slot') = {b, slot[t]} \ {Absent, Torn}
    BY <1>2 DEF ReadableIn
  <1>5. slot[t] \in ReadableIn(slot') => slot[t] \in Readable
    BY DEF ReadableIn, Readable
  <1>6. b \in ReadableIn(slot') /\ TopIn(slot') = b
    <2>1. b \in ReadableIn(slot') /\ b.gen \in Nat
      BY <1>0, <1>1, <1>4
    <2>2. \A k \in ReadableIn(slot') : k = b \/ (k.gen \in Nat /\ k.gen < b.gen)
      BY <1>0, <1>1, <1>4, <1>5
    <2> QED BY <2>1, <2>2, TopIs
  <1> QED BY <1>1, <1>3, <1>6, InSlots DEF b

LEMMA Tore ==
  ASSUME TypeOK, Slots, Anchored, rec.gen < MaxGen, NEW j \in Record, j.gen = rec.gen,
         Tear(Bump(j))
  PROVE  /\ Slots' /\ (Readable' = {} <=> Readable = {})
         /\ Readable # {} => Newest' = Newest
  <1> DEFINE b == Bump(j)
  <1>0. rec.gen \in Nat /\ slot \in [{0, 1} -> Record \cup {Absent, Torn}]
    BY TypeParts, RemovalAssumption DEF CommandOK, JournalsOK, Record
  <1> PICK s, t \in {0, 1} :
              /\ s # t /\ Slot(b.gen) = s /\ b.gen % 2 = s
              /\ slot[t] \in Readable => slot[t].gen \in Nat /\ slot[t].gen <= rec.gen
              /\ Readable # {} => Newest = slot[t] /\ slot[t] \in Readable
    BY NextSlot
  <1>2. slot'[s] = Torn /\ slot'[t] = slot[t] /\ {0, 1} = {s, t}
    BY <1>0 DEF Tear
  <1> HIDE DEF b
  <1>3. Slots'
    BY <1>2 DEF Slots
  <1>4. ReadableIn(slot') = {slot[t]} \ {Absent, Torn}
    BY <1>2 DEF ReadableIn
  <1>5. slot[t] \in ReadableIn(slot') <=> slot[t] \in Readable
    BY <1>4 DEF Readable
  <1>6. ReadableIn(slot') = {} <=> Readable = {}
    BY <1>4, <1>5
  <1>7. ASSUME Readable # {} PROVE TopIn(slot') = Newest
    BY <1>4, <1>5, <1>7, TopIs
  <1> QED BY <1>3, <1>6, <1>7, InSlots
-----------------------------------------------------------------------------
(* The newest record is the one it was.                                    *)
Head == /\ Slots' /\ (Readable' = {} <=> Readable = {})
        /\ Readable # {} => Newest' = Newest

LEMMA HeadSame == Slots /\ UNCHANGED slot => Head
  BY InSlots DEF Head, Slots

LEMMA HeadPending == Head => (Pending' <=> Pending)
  BY DEF Head, Pending, terminal

(* Where the holder goes that has nothing in its hands.                    *)
Nowhere(label) == label \notin Working \cup {"archive", "admit", "updateWork"}

LEMMA QuietBooks ==
  ASSUME Books, Head, UNCHANGED <<receipt, update, deletes, app>>,
         Listed' <=> Listed, Unlisted' <=> Unlisted,
         Nowhere(at') \/ (UNCHANGED <<at, rec>> /\ (at # "none" => req' = req))
  PROVE  Books'
  <1>0. Pending' <=> Pending
    BY HeadPending
  <1>1. Ledger'
    <2>1. CASE Nowhere(at')
      <3>1. Pending => Readable # {}
        BY DEF Pending
      <3> QED BY <1>0, <2>1, <3>1 DEF Books, Ledger, Head, Nowhere, Working
    <2>2. CASE UNCHANGED <<at, rec>> /\ (at # "none" => req' = req)
      BY <1>0, <2>2 DEF Books, Ledger, Head, Pending, terminal, Working
    <2> QED BY <2>1, <2>2
  <1>2. Gaps'
    BY <1>0 DEF Books, Gaps, GapOnRecord, Head, Pending, Nowhere
  <1>3. Counts'
    BY <1>0 DEF Books, Counts, OnDisk, Head, Pending
  <1> QED BY <1>1, <1>2, <1>3 DEF Books

(* The removal goes on with the record that it has in memory.              *)
LEMMA OnBooks ==
  ASSUME Books, UNCHANGED <<slot, receipt, update, deletes, app, rec>>, req' = req, ~app,
         Unlisted' => ~app,
         Listed' => Listed,
         at \in Working, at' \in Working \ {"prepared"}
  PROVE  Books'
  <1>0. Head /\ (Pending' <=> Pending)
    BY HeadSame, HeadPending DEF Books, Ledger
  <1>1. Ledger'
    BY <1>0 DEF Books, Ledger, Head, Pending, terminal, Working
  <1>2. Gaps'
    BY <1>0 DEF Books, Gaps, GapOnRecord, Head, Pending, Working
  <1>3. Counts'
    BY <1>0 DEF Books, Counts, OnDisk, Head, Pending
  <1> QED BY <1>1, <1>2, <1>3 DEF Books

(* A record was written, and the removal goes on or ends.                  *)
WrittenTo(j) == Slots' /\ Readable' # {} /\ Newest' = j

LEMMA WriteBooks ==
  ASSUME Books, at \in Working, ~app, UNCHANGED <<files, receipt, update, deletes>>,
         NEW j, WrittenTo(j), j.req = rec.req, ~terminal(j),
         at' = "none" \/ (rec' = j /\ req' = req /\ at' \in Working \ {"prepared"})
  PROVE  Books'
  <1>0. Pending' /\ Pending /\ Newest.req = j.req /\ j.req = req
    BY DEF WrittenTo, Pending, terminal, Books, Ledger
  <1>1. Ledger'
    BY <1>0 DEF WrittenTo, Books, Ledger, Pending, terminal, Working
  <1>2. Gaps'
    BY <1>0 DEF WrittenTo, Books, Gaps, GapOnRecord, Pending, Working, files, Listed, Unlisted
  <1>3. Counts'
    BY <1>0 DEF WrittenTo, Books, Counts, OnDisk, Pending, terminal, files
  <1> QED BY <1>1, <1>2, <1>3 DEF Books

(* The last record of a request was written.                               *)
LEMMA LastBooks ==
  ASSUME Books, at \in Working, UNCHANGED <<files, receipt, update, deletes>>,
         NEW j, WrittenTo(j), j.req = rec.req, at' = "none",
         \/ j.phase = "cancelled" /\ app
         \/ j.phase = "completed" /\ GoneEverywhere
  PROVE  Books'
  <1>0. ~Pending' /\ Pending /\ Newest.req = j.req
    BY DEF WrittenTo, Pending, terminal, Books, Ledger
  <1>1. Ledger'
    BY <1>0 DEF WrittenTo, Books, Ledger, Working
  <1>2. Gaps'
    BY <1>0 DEF WrittenTo, Books, Gaps, GapOnRecord, GoneEverywhere, Working, files, Listed, Unlisted
  <1>3. Counts'
    BY <1>0 DEF WrittenTo, Books, Counts, OnDisk, files
  <1> QED BY <1>1, <1>2, <1>3 DEF Books

(* A request was admitted.                                                 *)
LEMMA AdmitBooks ==
  ASSUME TypeOK, Books, at = "admit", app, Listed, UNCHANGED <<files, receipt, update, deletes>>,
         NEW j, WrittenTo(j), j.req = req, j.phase = "prepared",
         at' = "none" \/ (rec' = j /\ req' = req /\ at' = "prepared")
  PROVE  Books'
  <1>0. /\ Pending' /\ receipt[req] = Absent /\ (Readable # {} => Newest.req # req)
        /\ Readable # {} => receipt[Newest.req] = Newest.phase
    BY DEF WrittenTo, Pending, terminal, Books, Ledger
  <1>1. Ledger'
    BY <1>0 DEF WrittenTo, Books, Ledger, Pending, terminal, Working
  <1>2. Gaps'
    BY <1>0 DEF WrittenTo, Books, Gaps, GapOnRecord, Pending, Working, files, Listed, Unlisted
  <1>3. Counts'
    <2>1. req \in Requests /\ deletes[req] = 0
      <3>1. lease \in Procs /\ req \in Requests
        BY TypeParts DEF CommandOK, req
      <3>2. Absent \notin {"completed", Torn}
        BY MarksAssumption, RemovalAssumption DEF Phases
      <3>3. ~OnDisk(req)
        BY <1>0, <3>2 DEF OnDisk
      <3> QED BY <3>1, <3>3 DEF Books, Counts
    <2>2. Readable # {} /\ deletes[Newest.req] # 0 => receipt[Newest.req] = "completed"
      <3> SUFFICES ASSUME Readable # {}, deletes[Newest.req] # 0
                   PROVE  receipt[Newest.req] = "completed"
        OBVIOUS
      <3>1. Newest \in Record /\ receipt \in [Requests -> {"completed", "cancelled", Absent, Torn}]
        BY NewestBest, TypeParts DEF JournalsOK
      <3>2. Newest.phase \in Phases /\ Newest.phase # "cancelled"
        BY <3>1 DEF Record, Books, Counts
      <3> QED BY <1>0, <3>1, <3>2, MarksAssumption DEF Record, Phases
    <2>3. \A r \in Requests : deletes[r] # 0 => receipt[r] \in {"completed", Torn}
      BY <2>2 DEF Books, Counts, OnDisk
    <2>4. /\ Newest'.req = req /\ Newest'.phase = "prepared"
      BY DEF WrittenTo
    <2> QED BY <2>1, <2>3, <2>4 DEF Books, Counts, OnDisk
  <1> QED BY <1>1, <1>2, <1>3 DEF Books
-----------------------------------------------------------------------------
(* The steps.                                                              *)
LEMMA PersistOutcome ==
  ASSUME TypeOK, Slots, Anchored, NEW j \in Record, j.gen = rec.gen, NEW label, Persist(j, label)
  PROVE  /\ UNCHANGED <<files, receipt, update, deletes>>
         /\ Bump(j).req = j.req /\ Bump(j).phase = j.phase
         /\ \/ WrittenTo(Bump(j)) /\ (at' = "none" \/ (rec' = Bump(j) /\ at' = label /\ req' = req))
            \/ Head /\ at' = "none"
  <1>1. UNCHANGED <<files, receipt, update, deletes>> /\ rec.gen < MaxGen
    BY DEF Persist, Fail, history
  <1>2. \/ Write(Bump(j)) /\ (at' = "none" \/ (rec' = Bump(j) /\ at' = label /\ req' = req))
        \/ (Tear(Bump(j)) \/ UNCHANGED slot) /\ at' = "none"
    BY Endings DEF Persist, req
  <1>3. Bump(j).req = j.req /\ Bump(j).phase = j.phase
    BY <1>1, NextSlot
  <1> QED BY <1>1, <1>2, <1>3, Wrote, Tore, HeadSame DEF WrittenTo, Head

LEMMA PersistLastOutcome ==
  ASSUME TypeOK, Slots, Anchored, NEW j \in Record, j.gen = rec.gen, NEW result, PersistLast(j, result)
  PROVE  /\ UNCHANGED <<files, receipt, update, deletes>>
         /\ Bump(j).req = j.req /\ Bump(j).phase = j.phase
         /\ WrittenTo(Bump(j)) \/ Head
         /\ at' = "none"
  <1>1. UNCHANGED <<files, receipt, update, deletes>> /\ rec.gen < MaxGen /\ at' = "none"
    BY Endings DEF PersistLast, Fail, history
  <1>2. Write(Bump(j)) \/ Tear(Bump(j)) \/ UNCHANGED slot
    BY DEF PersistLast
  <1>3. Bump(j).req = j.req /\ Bump(j).phase = j.phase
    BY <1>1, NextSlot
  <1> QED BY <1>1, <1>2, <1>3, Wrote, Tore, HeadSame DEF WrittenTo, Head

LEMMA InHand ==
  ASSUME TypeOK, Books, at \in Working \cup {"admit"}
  PROVE  Slots /\ Anchored /\ rec \in Record /\ at # "none"
  BY TypeParts DEF Books, Ledger, Anchored, CommandOK, Working

(* Where nothing but the command changes and it ends, nothing is to show.  *)
LEMMA EndBooks ==
  ASSUME Books, UNCHANGED <<files, journals, deletes>>, at' = "none"
  PROVE  Books'
  BY QuietBooks, HeadSame DEF Books, Ledger, files, journals, Listed, Unlisted, Nowhere, Working

LEMMA ExecuteBooks == ASSUME TypeOK, Books, Execute PROVE Books'
  <1>0. /\ at = "execute" /\ UNCHANGED <<files, journals, deletes>>
        /\ Slots /\ JournalsOK
        /\ \A phase : Answer(phase) => at' = "none"
    BY TypeParts, Endings DEF Execute, Answer, history, Books, Ledger
  <1>1. CASE at' = "none"
    BY <1>0, <1>1, EndBooks
  <1>2. CASE at' # "none"
    <2>1. /\ receipt[req] # Torn /\ Settled(req) = {} /\ UNCHANGED <<lease, want>>
          /\ \/ Readable = {} /\ rec' = Fresh(req) /\ at' = "admit"
             \/ Readable # {} /\ Newest.req # req /\ terminal(Newest) /\ rec' = Newest /\ at' = "archive"
             \/ /\ Readable # {} /\ Newest.req = req /\ rec' = Newest
                /\ at' = CASE Newest.phase = "prepared" -> "prepared"
                           [] Newest.phase = "payload_removed" -> "inventory"
                           [] OTHER -> "finish"
      <3>1. ~LoadFails /\ receipt[req] # Torn /\ Settled(req) = {}
        BY <1>0, <1>2, Endings DEF Execute
      <3> QED BY <1>0, <1>2, <3>1, Endings DEF Execute
    <2>2. receipt[req] = Absent /\ (Readable # {} /\ Newest.req = req => ~terminal(Newest))
      BY <2>1 DEF Settled
    <2>3. Head /\ (Pending' <=> Pending) /\ req' = req /\ receipt' = receipt
      BY <1>0, <2>1, HeadSame, HeadPending DEF journals, req
    <2>4. Ledger'
      <3>1. CASE Readable = {} /\ rec' = Fresh(req) /\ at' = "admit"
        BY <2>2, <2>3, <3>1 DEF Books, Ledger, Head, Working, Fresh, Pending
      <3>2. CASE Readable # {} /\ Newest.req # req /\ terminal(Newest) /\ rec' = Newest /\ at' = "archive"
        BY <2>2, <2>3, <3>2 DEF Books, Ledger, Head, Working, Pending, terminal
      <3>3. CASE Readable # {} /\ Newest.req = req /\ rec' = Newest
                 /\ at' \in {"prepared", "inventory", "finish"}
                 /\ (at' = "prepared" => Newest.phase = "prepared")
        BY <2>2, <2>3, <3>3 DEF Books, Ledger, Head, Working, Pending, terminal
      <3> QED BY <2>1, <3>1, <3>2, <3>3
    <2>5. at' \in Working \ {"prepared"} => ~app
      BY <1>0, <2>1, <2>2 DEF Books, Gaps, Pending, Working
    <2>6. UNCHANGED <<app, inv, update, deletes>> /\ at' # "updateWork"
      BY <1>0, <2>1 DEF files, journals
    <2>7. Gaps'
      BY <2>3, <2>5, <2>6 DEF Books, Gaps, GapOnRecord, Head, Pending, Listed, Unlisted
    <2>8. Counts'
      BY <2>3, <2>6 DEF Books, Counts, OnDisk, Head, Pending
    <2> QED BY <2>4, <2>7, <2>8 DEF Books
  <1> QED BY <1>1, <1>2

LEMMA ArchiveBooks == ASSUME TypeOK, Books, Archive PROVE Books'
  <1>0. /\ at = "archive" /\ UNCHANGED <<files, slot, update>> /\ JournalsOK
        /\ Readable # {} /\ rec = Newest /\ terminal(rec) /\ receipt[req] = Absent /\ rec.req # req
        /\ Head /\ ~Pending /\ ~Pending' /\ rec.req \in Requests
    <2>1. at = "archive" /\ UNCHANGED <<files, slot, update>> /\ JournalsOK
      BY TypeParts DEF Archive
    <2>2. Readable # {} /\ rec = Newest /\ terminal(rec) /\ receipt[req] = Absent /\ rec.req # req
      BY <2>1 DEF Books, Ledger
    <2>3. Head
      BY <2>1, HeadSame DEF Books, Ledger
    <2>4. rec.req \in Requests
      BY TypeParts DEF CommandOK, Record
    <2> QED BY <2>1, <2>2, <2>3, <2>4, HeadPending DEF Pending
  <1>1. CASE ~Archivable
    <2>1. UNCHANGED <<journals, deletes>> /\ at' = "none"
      BY <1>0, <1>1, Endings DEF Archive, journals, history
    <2> QED BY <1>0, <2>1, EndBooks
  <1>2. ASSUME NEW content \in {rec.phase, Torn},
               receipt' = [receipt EXCEPT ![rec.req] = content], UNCHANGED deletes,
               \/ at' = "none"
               \/ /\ content = rec.phase /\ rec' = NextRequest /\ at' = "admit"
                  /\ UNCHANGED <<lease, want>>
        PROVE  Books'
    <2>1. /\ receipt'[rec.req] = content
          /\ \A r \in Requests \ {rec.req} : receipt'[r] = receipt[r]
      BY <1>0, <1>2 DEF JournalsOK
    <2>2. Ledger'
      <3>1. CASE at' = "none"
        BY <1>0, <3>1 DEF Ledger, Head, Working
      <3>2. CASE at' = "admit" /\ content = rec.phase /\ rec' = NextRequest /\ req' = req
        <4>1. NextRequest.gen = rec.gen /\ NextRequest.phase = "prepared" /\ NextRequest.req = req
          BY DEF NextRequest, Fresh
        <4>2. req \in Requests
          BY <1>0, TypeParts DEF CommandOK, req
        <4> QED BY <1>0, <2>1, <3>2, <4>1, <4>2 DEF Ledger, Head, Working
      <3> QED BY <1>2, <3>1, <3>2 DEF req
    <2>3. Gaps'
      BY <1>0, <1>2 DEF Books, Gaps, GapOnRecord, files, Listed, Unlisted, Working
    <2>4. Counts'
      <3>1. rec.phase \in {"cancelled", "completed"} /\ Torn # "cancelled"
        BY <1>0, MarksAssumption DEF terminal, Phases
      <3>2. rec.phase = "cancelled" => deletes[rec.req] = 0
        BY <1>0 DEF Books, Counts
      <3>3. ASSUME NEW r \in Requests
            PROVE  /\ deletes[r] <= 1
                   /\ receipt'[r] = "cancelled" => deletes[r] = 0
                   /\ deletes[r] # 0 => OnDisk(r)'
        <4>1. deletes[r] <= 1 /\ (receipt[r] = "cancelled" => deletes[r] = 0)
              /\ (deletes[r] # 0 => OnDisk(r))
          BY DEF Books, Counts
        <4>2. CASE r = rec.req
          BY <1>0, <1>2, <2>1, <3>1, <3>2, <4>1, <4>2 DEF OnDisk, Head
        <4>3. CASE r # rec.req
          BY <1>0, <2>1, <4>1, <4>3 DEF OnDisk, Head
        <4> QED BY <4>2, <4>3
      <3>4. Readable' # {} /\ Newest'.phase = "cancelled" => deletes[Newest'.req] = 0
        BY <1>0, <3>2 DEF Head
      <3> QED BY <1>0, <1>2, <3>3, <3>4 DEF Counts
    <2> QED BY <2>2, <2>3, <2>4 DEF Books
  <1>3. \/ ~Archivable
        \/ \E content \in {rec.phase, Torn} :
              /\ receipt' = [receipt EXCEPT ![rec.req] = content] /\ UNCHANGED deletes
              /\ \/ at' = "none"
                 \/ /\ content = rec.phase /\ rec' = NextRequest /\ at' = "admit"
                    /\ UNCHANGED <<lease, want>>
    BY DEF Archive, Fail, history
  <1> QED BY <1>1, <1>2, <1>3

LEMMA AdmitStep == ASSUME TypeOK, Books, Admit PROVE Books'
  <1>0. at = "admit" /\ rec.req = req /\ rec.phase = "prepared"
    BY DEF Admit, Books, Ledger
  <1>1. CASE app /\ Listed /\ Persist(rec, "prepared")
    <2>1. /\ UNCHANGED <<files, receipt, update, deletes>>
          /\ Bump(rec).req = req /\ Bump(rec).phase = "prepared"
          /\ \/ WrittenTo(Bump(rec)) /\ (at' = "none" \/ (rec' = Bump(rec) /\ at' = "prepared" /\ req' = req))
             \/ Head /\ at' = "none"
      BY <1>0, <1>1, InHand, PersistOutcome
    <2>2. CASE WrittenTo(Bump(rec)) /\ (at' = "none" \/ (rec' = Bump(rec) /\ at' = "prepared" /\ req' = req))
      BY <1>0, <1>1, <2>1, <2>2, AdmitBooks
    <2>3. CASE Head /\ at' = "none"
      BY <2>1, <2>3, QuietBooks DEF files, Listed, Unlisted, Nowhere, Working
    <2> QED BY <2>1, <2>2, <2>3
  <1>2. CASE Refuse /\ UNCHANGED <<files, journals, history>>
    BY <1>2, Endings, EndBooks DEF history
  <1> QED BY <1>1, <1>2 DEF Admit

(* A step that puts the next phase of the removal on record.               *)
LEMMA PhaseStep ==
  ASSUME TypeOK, Books, at \in Working \ {"prepared"}, NEW j \in Record,
         j.gen = rec.gen, j.req = rec.req, ~terminal(j),
         NEW label \in Working \ {"prepared"}, Persist(j, label)
  PROVE  Books'
  <1>1. ~app /\ Slots /\ Anchored
    BY InHand DEF Books, Gaps
  <1>2. /\ UNCHANGED <<files, receipt, update, deletes>>
        /\ Bump(j).req = j.req /\ Bump(j).phase = j.phase
        /\ \/ WrittenTo(Bump(j)) /\ (at' = "none" \/ (rec' = Bump(j) /\ at' = label /\ req' = req))
           \/ Head /\ at' = "none"
    BY <1>1, PersistOutcome
  <1>3. CASE Head /\ at' = "none"
    BY <1>2, <1>3, QuietBooks DEF files, Listed, Unlisted, Nowhere, Working
  <1>4. CASE WrittenTo(Bump(j)) /\ (at' = "none" \/ (rec' = Bump(j) /\ at' = label /\ req' = req))
    BY <1>1, <1>2, <1>4, WriteBooks DEF terminal
  <1> QED BY <1>2, <1>3, <1>4

LEMMA LastStep ==
  ASSUME TypeOK, Books, at \in Working, NEW phase \in {"cancelled", "completed"}, NEW result,
         phase = "cancelled" => app, phase = "completed" => GoneEverywhere,
         PersistLast([rec EXCEPT !.phase = phase], result)
  PROVE  Books'
  <1> DEFINE j == [rec EXCEPT !.phase = phase]
  <1>1. /\ j \in Record /\ j.gen = rec.gen /\ j.req = rec.req /\ j.phase = phase
        /\ Slots /\ Anchored
    BY InHand DEF Record, Phases
  <1>2. /\ UNCHANGED <<files, receipt, update, deletes>>
        /\ Bump(j).req = j.req /\ Bump(j).phase = j.phase
        /\ WrittenTo(Bump(j)) \/ Head
        /\ at' = "none"
    BY <1>1, PersistLastOutcome
  <1> HIDE DEF j
  <1>3. CASE Head
    BY <1>2, <1>3, QuietBooks DEF files, Listed, Unlisted, Nowhere, Working
  <1>4. CASE WrittenTo(Bump(j))
    BY <1>1, <1>2, <1>4, LastBooks
  <1> QED BY <1>2, <1>3, <1>4
LEMMA DeleteBooks == ASSUME TypeOK, Books, Delete PROVE Books'
  <1>0. /\ at = "prepared" /\ app /\ Readable # {} /\ rec = Newest /\ Newest.req = req /\ Pending
        /\ Newest.phase = "prepared" /\ Slots
    BY DEF Delete, Books, Ledger, Working, Pending
  <1>1. CASE UNCHANGED <<files, journals, deletes>> /\ at' = "none"
    BY <1>1, EndBooks
  <1>2. CASE /\ Listed /\ UNCHANGED <<inv, journals>> /\ app' = FALSE
             /\ deletes' = [deletes EXCEPT ![req] = @ + 1]
             /\ at' = "none" \/ (at' = "deleted" /\ UNCHANGED <<lease, want, rec>>)
    <2>1. Head /\ Pending' /\ UNCHANGED <<receipt, update>>
      BY <1>0, <1>2, HeadSame, HeadPending DEF journals
    <2>2. req' = req \/ at' = "none"
      BY <1>2 DEF req
    <2>3. Ledger'
      BY <1>0, <1>2, <2>1, <2>2 DEF Books, Ledger, Head, Working, terminal
    <2>4. Gaps'
      BY <1>0, <1>2, <2>1 DEF Books, Gaps, GapOnRecord, Head, Listed, Unlisted, Working
    <2>5. Counts'
      <3>1. /\ req \in Requests /\ deletes \in [Requests -> Nat] /\ deletes[req] = 0
            /\ receipt[req] = Absent
        BY <1>0, TypeParts DEF CommandOK, HistoryOK, req, Books, Counts, Ledger
      <3>2. /\ deletes'[req] = 1 /\ \A r \in Requests \ {req} : deletes'[r] = deletes[r]
        BY <1>2, <3>1
      <3>3. Absent # "cancelled"
        BY MarksAssumption DEF Phases
      <3> QED BY <1>0, <1>2, <2>1, <3>1, <3>2, <3>3 DEF Books, Counts, OnDisk, Head
    <2> QED BY <2>3, <2>4, <2>5 DEF Books
  <1>3. \/ UNCHANGED <<files, journals, deletes>> /\ at' = "none"
        \/ /\ Listed /\ UNCHANGED <<inv, journals>> /\ app' = FALSE
           /\ deletes' = [deletes EXCEPT ![req] = @ + 1]
           /\ at' = "none" \/ (at' = "deleted" /\ UNCHANGED <<lease, want, rec>>)
    <2>1. CASE ~(Legible /\ Listed)
      BY <2>1, Endings DEF Delete, history
    <2>2. CASE Legible /\ Listed
      <3>1. UNCHANGED <<inv, stage, backup, alias, journals>>
        BY <2>2 DEF Delete
      <3>2. CASE app' = app /\ Fail
        BY <3>1, <3>2 DEF Fail, files
      <3>3. CASE /\ app' = FALSE /\ deletes' = [deletes EXCEPT ![req] = @ + 1]
                 /\ at' = "none" \/ Goto("deleted")
        BY <2>2, <3>1, <3>3 DEF Goto
      <3> QED BY <2>2, <3>2, <3>3 DEF Delete
    <2> QED BY <2>1, <2>2
  <1> QED BY <1>1, <1>2, <1>3

(* A step on the inventory that leaves every record as it is.              *)
LEMMA InventoryStep ==
  ASSUME Books, at \in Working \ {"prepared"}, UNCHANGED <<app, journals, deletes>>,
         Listed' => Listed,
         \/ at' = "none"
         \/ at' \in Working \ {"prepared"} /\ UNCHANGED <<lease, want, rec>>
  PROVE  Books'
  <1>1. ~app /\ Head
    BY HeadSame DEF Books, Gaps, Ledger, journals
  <1>2. CASE at' = "none"
    <2>1. Pending' <=> Pending
      BY <1>1, HeadPending
    <2>2. Ledger'
      BY <1>1, <1>2, <2>1 DEF Books, Ledger, Head, Working, Pending, journals
    <2>3. Gaps'
      BY <1>1, <1>2, <2>1 DEF Books, Gaps, GapOnRecord, Head, Working
    <2>4. Counts'
      BY <1>1, <2>1 DEF Books, Counts, OnDisk, Head, Pending, journals
    <2> QED BY <2>2, <2>3, <2>4 DEF Books
  <1>3. CASE at' \in Working \ {"prepared"} /\ UNCHANGED <<lease, want, rec>>
    BY <1>1, <1>3, OnBooks DEF journals, req
  <1> QED BY <1>2, <1>3

LEMMA InventoriesBooks == ASSUME TypeOK, Books, Inventories PROVE Books'
  <1>0. at = "inventory" /\ Readable # {} /\ rec = Newest /\ ~terminal(rec) /\ ~app
    BY DEF Inventories, Books, Ledger, Gaps, Working
  <1>1. CASE /\ UNCHANGED <<files, journals, history>>
             /\ Refuse \/ \E label \in {"replaced", "inventoryDone", "stage"} : Goto(label)
    <2>1. UNCHANGED <<app, journals, deletes>> /\ (Listed' => Listed)
      BY <1>1 DEF files, history, Listed
    <2>2. \/ at' = "none"
          \/ at' \in Working \ {"prepared"} /\ UNCHANGED <<lease, want, rec>>
      BY <1>1, Endings DEF Goto, Working
    <2> QED BY <1>0, <2>1, <2>2, InventoryStep DEF Working
  <1>2. CASE /\ inv # Absent
             /\ Persist([rec EXCEPT !.before = inv, !.after = inv \ {"app"}], "stage")
    <2> DEFINE j == [rec EXCEPT !.before = inv, !.after = inv \ {"app"}]
    <2>1. rec \in Record /\ inv \in Inventory /\ inv \ {"app"} \in Inventory
      <3>1. rec \in Record /\ inv \in Inventory
        BY <1>2, TypeParts DEF CommandOK, FilesOK
      <3> QED BY <3>1, InventoryClosed
    <2>2. j \in Record /\ j.gen = rec.gen /\ j.req = rec.req /\ j.phase = rec.phase
      BY <2>1 DEF Record
    <2>3. ~terminal(j)
      BY <1>0, <2>2 DEF terminal
    <2>4. Persist(j, "stage")
      BY <1>2
    <2> HIDE DEF j
    <2> QED BY <1>0, <2>2, <2>3, <2>4, PhaseStep DEF Working
  <1>3. \/ /\ UNCHANGED <<files, journals, history>>
           /\ Refuse \/ \E label \in {"replaced", "inventoryDone", "stage"} : Goto(label)
        \/ /\ inv # Absent
           /\ Persist([rec EXCEPT !.before = inv, !.after = inv \ {"app"}], "stage")
    <2>1. CASE app \/ ~Legible \/ ~InventoryKnown
      BY <2>1 DEF Inventories
    <2>2. CASE ~(app \/ ~Legible \/ ~InventoryKnown)
      <3>1. inv # Absent
        BY <2>2 DEF Legible
      <3> QED BY <2>2, <3>1, Zenon DEF Inventories
    <2> QED BY <2>1, <2>2
  <1> QED BY <1>1, <1>2, <1>3

LEMMA StagingBooks == ASSUME TypeOK, Books, Staging PROVE Books'
  <1>1. at = "stage" /\ UNCHANGED <<app, inv, journals, deletes>>
    BY DEF Staging, Fail, history
  <1>2. \/ at' = "none"
        \/ at' = "replace" /\ UNCHANGED <<lease, want, rec>>
    BY Endings DEF Staging, Goto
  <1> QED BY <1>1, <1>2, InventoryStep DEF Working, Listed

LEMMA ReplaceBooks == ASSUME TypeOK, Kept, Books, Replace PROVE Books'
  <1>1. at = "replace" /\ UNCHANGED <<app, journals, deletes>>
    BY DEF Replace, Fail, history
  <1>2. stage = inv \ {"app"}
    BY <1>1 DEF Kept
  <1>3. Listed' => Listed
    <2>1. inv' \in {inv, stage, Absent}
      BY ReplaceOutcomes DEF Named, FirstMove, SecondMove
    <2> QED BY <1>2, <2>1 DEF Listed
  <1>4. \/ at' = "none"
        \/ at' = "replaced" /\ UNCHANGED <<lease, want, rec>>
    BY Endings DEF Replace, Goto
  <1> QED BY <1>1, <1>3, <1>4, InventoryStep DEF Working

LEMMA ReplacedBooks == ASSUME TypeOK, Books, Replaced PROVE Books'
  <1>1. at = "replaced" /\ UNCHANGED <<app, inv, journals, deletes>>
    BY DEF Replaced, Fail, history
  <1>2. \/ at' = "none"
        \/ at' = "inventoryDone" /\ UNCHANGED <<lease, want, rec>>
    BY Endings DEF Replaced, Goto
  <1> QED BY <1>1, <1>2, InventoryStep DEF Working, Listed

LEMMA RemovalBooks == ASSUME TypeOK, Kept, Books, Removal PROVE Books'
  <1>1. CASE RemoveRecheck
    <2>1. UNCHANGED <<files, journals, deletes>> /\ Head
      BY <1>1, HeadSame DEF RemoveRecheck, history, journals, Books, Ledger
    <2>2. at' \in {"none", "execute"}
      BY <1>1, Endings DEF RemoveRecheck
    <2> QED BY <2>1, <2>2, QuietBooks DEF files, journals, Listed, Unlisted, Nowhere, Working
  <1>2. CASE Cancel
    BY <1>2, LastStep DEF Cancel, Working
  <1>3. CASE Wait
    BY <1>3, Endings, EndBooks DEF Wait, history
  <1>4. CASE AlreadyGone
    <2>1. at = "prepared" /\ ~app /\ UNCHANGED <<files, journals, deletes>>
      BY <1>4 DEF AlreadyGone, history
    <2>2. at' = "deleted" /\ UNCHANGED <<lease, want, rec>>
      BY <1>4 DEF AlreadyGone, Goto
    <2> QED BY <2>1, <2>2, OnBooks DEF files, journals, req, Listed, Unlisted, Working
  <1>5. CASE Deleted
    <2> DEFINE j == [rec EXCEPT !.phase = "payload_removed"]
    <2>1. at = "deleted" /\ Persist(j, "inventory")
      BY <1>5 DEF Deleted
    <2>2. j \in Record /\ j.gen = rec.gen /\ j.req = rec.req /\ j.phase = "payload_removed"
      BY <2>1, InHand DEF Record, Phases, Working
    <2> HIDE DEF j
    <2> QED BY <2>1, <2>2, PhaseStep DEF Working, terminal
  <1>6. CASE InventoryDone
    <2> DEFINE j == [rec EXCEPT !.phase = "inventory_removed"]
    <2>1. at = "inventoryDone" /\ Persist(j, "finish")
      BY <1>6 DEF InventoryDone
    <2>2. j \in Record /\ j.gen = rec.gen /\ j.req = rec.req /\ j.phase = "inventory_removed"
      BY <2>1, InHand DEF Record, Phases, Working
    <2> HIDE DEF j
    <2> QED BY <2>1, <2>2, PhaseStep DEF Working, terminal
  <1>7. CASE Finish
    <2>1. CASE GoneEverywhere
      BY <1>7, <2>1, LastStep DEF Finish, Working
    <2>2. CASE ~GoneEverywhere
      BY <1>7, <2>2, Endings, EndBooks DEF Finish, history
    <2> QED BY <2>1, <2>2
  <1> QED BY <1>1, <1>2, <1>3, <1>4, <1>5, <1>6, <1>7, ExecuteBooks, ArchiveBooks, AdmitStep,
             DeleteBooks, InventoriesBooks, StagingBooks, ReplaceBooks, ReplacedBooks DEF Removal

(* An update works while no removal is pending, so it answers for its own  *)
(* gap alone.                                                              *)
LEMMA UpdateGap ==
  ASSUME Books, at \in Updating, ~Pending, UNCHANGED <<slot, receipt, deletes>>,
         \/ at' = "none"
         \/ at' = "updateWork" /\ update' = "open",
         app' /\ Unlisted' => update' = "open",
         ~app' => ~Listed'
  PROVE  Books'
  <1>1. Head /\ ~Pending'
    BY HeadSame, HeadPending DEF Books, Ledger
  <1>2. Ledger'
    BY <1>1 DEF Books, Ledger, Head, Working
  <1>3. Gaps'
    BY <1>1 DEF Gaps, GapOnRecord, Working
  <1>4. Counts'
    BY <1>1 DEF Books, Counts, OnDisk, Head
  <1> QED BY <1>2, <1>3, <1>4 DEF Books

LEMMA UpdateBooks == ASSUME TypeOK, Excluded, Books, Update PROVE Books'
  <1>1. CASE UpdateRecheck
    <2>1. UNCHANGED <<files, journals, deletes>> /\ Head
      BY <1>1, HeadSame DEF UpdateRecheck, history, journals, Books, Ledger
    <2>2. at' \in {"none", "updateRun"}
      BY <1>1, Endings DEF UpdateRecheck
    <2> QED BY <2>1, <2>2, QuietBooks DEF files, journals, Listed, Unlisted, Nowhere, Working
  <1>2. CASE at \in Updating
    <2>0. ~Pending /\ (app /\ Unlisted => update = "open") /\ (~app => ~Listed)
          /\ (at = "updateWork" => update = "open")
      BY <1>2 DEF Excluded, Books, Gaps, GapOnRecord
    <2>1. CASE UpdateRun
      BY <1>2, <2>0, <2>1, Endings, UpdateGap DEF UpdateRun, files, history, Listed, Unlisted
    <2>2. CASE UpdateInstall
      BY <1>2, <2>0, <2>2, Endings, UpdateGap DEF UpdateInstall, journals, Listed, Unlisted
    <2>3. CASE UpdateList
      <3>1. app' /\ update' = "open" /\ UNCHANGED <<slot, receipt, deletes>> /\ at' = "updateWork"
        BY <2>0, <2>3, Endings DEF UpdateList, journals, history
      <3> QED BY <1>2, <2>0, <3>1, UpdateGap
    <2>4. CASE UpdateEnd
      <3>1. /\ at' = "none" /\ UNCHANGED <<slot, receipt, deletes, app, inv>> /\ app = Listed
        BY <2>4, Endings DEF UpdateEnd, files, history
      <3>2. app' /\ Unlisted' => update' = "open"
        BY <3>1 DEF Listed, Unlisted
      <3>3. ~app' => ~Listed'
        BY <2>0, <3>1 DEF Listed
      <3> QED BY <1>2, <2>0, <3>1, <3>2, <3>3, UpdateGap
    <2>5. CASE UpdateGivesUp
      BY <2>5, Endings, EndBooks DEF UpdateGivesUp, history
    <2>6. CASE UpdateRecheck
      BY <1>1, <2>6
    <2> QED BY <2>1, <2>2, <2>3, <2>4, <2>5, <2>6 DEF Update
  <1> QED BY <1>1, <1>2 DEF Update, UpdateRun, UpdateInstall, UpdateList, UpdateEnd, UpdateGivesUp, Updating

LEMMA NextBooks == TypeOK /\ Kept /\ Excluded /\ Books /\ [Next]_vars => Books'
  <1> SUFFICES ASSUME TypeOK, Kept, Excluded, Books, [Next]_vars PROVE Books'
    OBVIOUS
  <1>0. Slots
    BY DEF Books, Ledger
  <1> DEFINE Apart == /\ UNCHANGED <<files, journals, deletes, rec>>
                      /\ Nowhere(at') \/ (at' = at /\ (at # "none" => req' = req))
  <1>1. Apart => Books'
    BY <1>0, HeadSame, QuietBooks DEF files, journals, Listed, Unlisted
  <1> HIDE DEF Apart
  <1>2. ASSUME NEW p \in Procs, NEW r \in Requests, RemoveCheck(p, r) PROVE Books'
    <2>1. at # "none" => lease # p
      BY <1>2, TypeParts DEF RemoveCheck, CommandOK
    <2>2. at # "none" => want[lease] = want'[lease] /\ lease' = lease
      BY <1>2, <2>1, TypeParts DEF RemoveCheck, CommandOK
    <2>3. Apart
      BY <1>2, <2>2 DEF RemoveCheck, Apart, history, req
    <2> QED BY <1>1, <2>3
  <1>3. ASSUME NEW p \in Procs, RemoveLease(p) \/ UpdateLease(p) PROVE Books'
    <2>1. /\ UNCHANGED <<files, journals, deletes, rec, want>>
          /\ \/ at' \in {"recheck", "updateRecheck"}
             \/ UNCHANGED <<at, lease>>
      BY <1>3 DEF RemoveLease, UpdateLease, TakeLease, history
    <2>2. Apart
      BY <2>1 DEF Apart, Nowhere, Working, req
    <2> QED BY <1>1, <2>2
  <1>4. ASSUME NEW p \in Procs, UpdateSee(p) \/ UpdateCheck(p) PROVE Books'
    <2>1. Apart
      BY <1>4 DEF UpdateSee, UpdateCheck, Apart, history, req
    <2> QED BY <1>1, <2>1
  <1>5. CASE Stop
    <2>1. Apart
      BY <1>5 DEF Stop, Apart, Nowhere, Working, req
    <2> QED BY <1>1, <2>1
  <1>6. CASE Edit
    <2>1. /\ UNCHANGED <<app, journals, deletes, rec, at, lease, want>> /\ inv # Absent
          /\ inv' = (IF other THEN inv \ {"other"} ELSE inv \cup {"other"})
      BY <1>6 DEF Edit, Legible, command
    <2>2. inv' # Absent
      <3>1. inv \in Inventory
        BY <2>1, TypeParts DEF FilesOK
      <3>2. inv' \in Inventory
        BY <2>1, <3>1 DEF Inventory
      <3> QED BY <3>2, RemovalAssumption
    <2>3. (Listed' <=> Listed) /\ (Unlisted' <=> Unlisted)
      BY <2>1, <2>2 DEF Listed, Unlisted
    <2> QED BY <1>0, <2>1, <2>3, HeadSame, QuietBooks DEF journals, req
  <1>7. CASE UNCHANGED vars
    <2>1. Apart
      BY <1>7 DEF vars, history, command, Apart, req
    <2> QED BY <1>1, <2>1
  <1> QED BY <1>2, <1>3, <1>4, <1>5, <1>6, <1>7, RemovalBooks, UpdateBooks DEF Next

LEMMA InitBooks == Init => Books
  <1> SUFFICES ASSUME Init PROVE Books
    OBVIOUS
  <1>1. Readable = {} /\ ~Pending
    BY DEF Init, Readable, Pending
  <1>2. Ledger
    BY <1>1 DEF Init, Ledger, Slots, Working
  <1>3. Gaps
    BY <1>1, RemovalAssumption DEF Init, Gaps, GapOnRecord, Inventory, Listed, Unlisted, Working
  <1>4. Counts
    BY <1>1, MarksAssumption DEF Init, Counts, Phases
  <1> QED BY <1>2, <1>3, <1>4 DEF Books

LEMMA SpecBooks == Spec => []Books
  <1>1. Init => Typed /\ Excluded /\ Books
    BY InitTypes, InitKept, InitExcluded, InitBooks DEF Typed
  <1>2. Typed /\ Excluded /\ Books /\ [Next]_vars => (Typed /\ Excluded /\ Books)'
    BY NextTyped, NextExcluded, NextBooks DEF Typed
  <1> QED BY <1>1, <1>2, PTL DEF Spec

(* A file without an entry in the inventory has an open update to answer   *)
(* for it, an entry without its file a pending removal: every gap is on    *)
(* record and will be closed.                                              *)
THEOREM RemovalGapOnRecord == Spec => []GapOnRecord
  <1>1. Books => GapOnRecord
    BY DEF Books, Gaps
  <1> QED BY <1>1, SpecBooks, PTL

(* However often a request is repeated, after whatever failure, it deletes *)
(* one installation at most, and none once it counts as cancelled.         *)
THEOREM RemovalDeletesOnce == Spec => []DeletesOnce
  <1>1. Books => DeletesOnce
    <2> SUFFICES ASSUME Books, NEW r \in Requests
                 PROVE  deletes[r] <= 1 /\ ("cancelled" \in Settled(r) => deletes[r] = 0)
      BY DEF DeletesOnce
    <2>1. deletes[r] <= 1 /\ (receipt[r] = "cancelled" => deletes[r] = 0)
      BY DEF Books, Counts
    <2>2. Readable # {} /\ Newest.req = r /\ Newest.phase = "cancelled" => deletes[r] = 0
      BY DEF Books, Counts
    <2> QED BY <2>1, <2>2 DEF Settled
  <1> QED BY <1>1, SpecBooks, PTL

(***************************************************************************)
(* What the files of an inventory replacement have to do with the digests  *)
(* on record, as long as nobody else edits the inventory; so no command    *)
(* finds anything that it does not know, but for a torn stage and some of  *)
(* the places where a replacement can stop.                                *)
(***************************************************************************)
(* Nothing of a replacement is left.                                       *)
Clean == stage = Absent /\ backup = Absent /\ inv # Absent /\ alias = "none"

(* The three files agree with the digests that record j names: before the  *)
(* replacement, at each place where it can stop, or after it.              *)
Midway(j) ==
    \/ inv = j.before /\ backup = Absent /\ stage \in {Absent, Torn, j.after} /\ alias \in {"none", "inv"}
    \/ inv = j.before /\ backup = j.before /\ stage = j.after /\ alias \in {"inv", "backup"}
    \/ inv = Absent /\ backup = j.before /\ stage = j.after /\ alias \in {"none", "stage"}
    \/ inv = j.after /\ backup \in {Absent, j.before} /\ stage = j.after /\ alias \in {"inv", "stage"}
    \/ inv = j.after /\ backup \in {Absent, j.before} /\ stage = Absent /\ alias = "none"

Agrees(j) ==
    /\ j.phase # "payload_removed" \/ j.after = Absent => Clean
    /\ j.phase = "prepared" => j.after = Absent
    /\ j.phase = "inventory_removed" => "app" \notin inv
    /\ j.phase = "payload_removed" /\ j.after # Absent =>
          /\ j.before \in Inventory /\ "app" \in j.before /\ j.after = j.before \ {"app"}
          /\ Midway(j)

(* What the holder has found out.                                          *)
Handled ==
    /\ at = "admit" => rec.after = Absent
    /\ at \in {"prepared", "deleted"} => rec.phase = "prepared"
    /\ at \in {"inventory", "stage", "replace", "replaced", "inventoryDone"}
         => rec.phase = "payload_removed"
    /\ at \in {"stage", "replace", "replaced"} => rec.after # Absent
    /\ at \in {"stage", "replace"} => inv = rec.before /\ alias # "inv"
    /\ at = "replaced" => inv = rec.after /\ alias # "inv"
    /\ at = "inventoryDone" => Clean /\ "app" \notin inv
    /\ at = "finish" => rec.phase = "inventory_removed"

Tidy == /\ ~Pending => Clean
        /\ Pending => Agrees(Newest)
        /\ Handled

(* A refusal is the end of a command, which was for the request it names.  *)
Ended == /\ outcome = "refused" => at = "none"
         /\ at # "none" => asked = req

(* The newest record and the files are as they were.                       *)
LEMMA HeadTidy ==
  ASSUME Tidy, Head, UNCHANGED <<inv, stage, backup, alias>>, Handled'
  PROVE  Tidy'
  <1>1. (Pending' <=> Pending) /\ (Pending => Newest' = Newest)
    BY HeadPending DEF Head, Pending
  <1>2. Pending => Agrees(Newest)'
    BY <1>1 DEF Tidy, Agrees, Clean, Midway
  <1>3. Clean' <=> Clean
    BY DEF Clean
  <1> QED BY <1>1, <1>2, <1>3 DEF Tidy

(* Places at which the holder has nothing to know.                         *)
LEMMA NowhereHandled == Nowhere(at') => Handled'
  BY DEF Nowhere, Working, Handled

LEMMA StayHandled ==
  ASSUME Handled, UNCHANGED <<inv, stage, backup, alias>>, at' = at /\ rec' = rec
  PROVE  Handled'
  BY DEF Handled, Clean

LEMMA BumpFields ==
  ASSUME NEW j \in Record
  PROVE  Bump(j).before = j.before /\ Bump(j).after = j.after
  BY DEF Bump, Record

LEMMA AgreesSame ==
  ASSUME NEW j, NEW k, Agrees(j), k.phase = j.phase, k.before = j.before, k.after = j.after
  PROVE  Agrees(k)
  BY DEF Agrees, Midway

(* A record that agrees with the files was written, or half of it.         *)
LEMMA PersistTidy ==
  ASSUME TypeOK, Books, Tidy, at \in Working \cup {"admit"},
         NEW j \in Record, j.gen = rec.gen, ~terminal(j), Agrees(j),
         NEW label \in Working, Persist(j, label),
         rec' = Bump(j) /\ at' = label => Handled'
  PROVE  Tidy'
  <1>1. Slots /\ Anchored
    BY InHand
  <1>2. /\ UNCHANGED files
        /\ Bump(j).phase = j.phase /\ Bump(j).before = j.before /\ Bump(j).after = j.after
        /\ \/ WrittenTo(Bump(j)) /\ (at' = "none" \/ (rec' = Bump(j) /\ at' = label))
           \/ Head /\ at' = "none"
    BY <1>1, PersistOutcome, BumpFields
  <1>3. Handled'
    BY <1>2, NowhereHandled DEF WrittenTo, Nowhere, Working
  <1>4. CASE Head
    BY <1>2, <1>3, <1>4, HeadTidy DEF files
  <1>5. CASE WrittenTo(Bump(j))
    <2>1. Agrees(Bump(j))
      BY <1>2, AgreesSame
    <2>2. Pending' /\ Newest' = Bump(j)
      BY <1>2, <1>5 DEF WrittenTo, Pending, terminal
    <2> HIDE DEF Bump
    <2>3. Agrees(Newest)'
      BY <1>2, <2>1, <2>2 DEF Agrees, Midway, Clean, files
    <2> QED BY <1>3, <2>2, <2>3 DEF Tidy
  <1> QED BY <1>2, <1>4, <1>5

LEMMA PersistLastTidy ==
  ASSUME TypeOK, Books, Tidy, at \in Working, Clean,
         NEW j \in Record, j.gen = rec.gen, terminal(j), NEW result, PersistLast(j, result)
  PROVE  Tidy'
  <1>1. Slots /\ Anchored
    BY InHand
  <1>2. /\ UNCHANGED files /\ Bump(j).phase = j.phase
        /\ WrittenTo(Bump(j)) \/ Head
        /\ at' = "none"
    BY <1>1, PersistLastOutcome
  <1>3. Handled' /\ Clean'
    BY <1>2, NowhereHandled DEF Nowhere, Working, Clean, files
  <1>4. CASE Head
    BY <1>2, <1>3, <1>4, HeadTidy DEF files
  <1>5. CASE WrittenTo(Bump(j))
    BY <1>2, <1>3, <1>5 DEF WrittenTo, Pending, terminal, Tidy
  <1> QED BY <1>2, <1>4, <1>5
-----------------------------------------------------------------------------
(* What the holder works with.                                             *)
LEMMA WorkTidy ==
  ASSUME TypeOK, Books, Tidy, at \in Working
  PROVE  /\ Pending /\ Agrees(rec) /\ rec \in Record /\ rec = Newest /\ rec.req = req
         /\ Readable # {} /\ lease # Nobody
  BY InHand, TypeParts DEF Books, Ledger, Pending, Tidy, CommandOK

LEMMA ExecuteTidy == ASSUME TypeOK, Books, Tidy, Execute PROVE Tidy'
  <1>0. /\ UNCHANGED files /\ Head /\ Slots /\ JournalsOK
        /\ \A phase : Answer(phase) => at' = "none"
    BY HeadSame, TypeParts, Endings DEF Execute, Answer, journals, Books, Ledger
  <1>1. CASE at' = "none"
    BY <1>0, <1>1, NowhereHandled, HeadTidy DEF Nowhere, Working, files
  <1>2. CASE at' # "none"
    <2>1. ~LoadFails /\ receipt[req] # Torn /\ Settled(req) = {} /\ at = "execute"
      BY <1>0, <1>2, Endings DEF Execute
    <2>2. \/ rec' = Fresh(req) /\ at' = "admit"
          \/ at' = "archive"
          \/ /\ Readable # {} /\ Newest.req = req /\ rec' = Newest
             /\ at' = CASE Newest.phase = "prepared" -> "prepared"
                        [] Newest.phase = "payload_removed" -> "inventory"
                        [] OTHER -> "finish"
      BY <1>0, <1>2, <2>1, Endings DEF Execute
    <2>3. Handled'
      <3>1. CASE rec' = Fresh(req) /\ at' = "admit"
        BY <3>1 DEF Handled, Fresh
      <3>2. CASE at' = "archive"
        BY <3>2 DEF Handled
      <3>3. CASE /\ Readable # {} /\ Newest.req = req /\ rec' = Newest
                 /\ at' = CASE Newest.phase = "prepared" -> "prepared"
                            [] Newest.phase = "payload_removed" -> "inventory"
                            [] OTHER -> "finish"
        <4>1. ~terminal(Newest)
          BY <2>1, <3>3 DEF Settled
        <4>2. Newest.phase \in Phases
          BY <1>0, <3>3, NewestBest DEF Record
        <4>3. \/ Newest.phase = "prepared" /\ at' = "prepared"
              \/ Newest.phase = "payload_removed" /\ at' = "inventory"
              \/ Newest.phase = "inventory_removed" /\ at' = "finish"
          BY <3>3, <4>1, <4>2 DEF Phases, terminal
        <4> QED BY <3>3, <4>3 DEF Handled
      <3> QED BY <2>2, <3>1, <3>2, <3>3
    <2> QED BY <1>0, <2>3, HeadTidy DEF files
  <1> QED BY <1>1, <1>2

LEMMA ArchiveTidy == ASSUME TypeOK, Books, Tidy, Archive PROVE Tidy'
  <1>1. UNCHANGED files /\ Head
    BY HeadSame DEF Archive, Books, Ledger
  <1>2. at' = "none" \/ (rec' = NextRequest /\ at' = "admit")
    BY Endings DEF Archive
  <1>3. Handled'
    BY <1>2 DEF Handled, NextRequest, Fresh
  <1> QED BY <1>1, <1>3, HeadTidy DEF files

LEMMA AdmitTidy == ASSUME TypeOK, Books, Tidy, Admit PROVE Tidy'
  <1>0. at = "admit" /\ rec.phase = "prepared" /\ rec.after = Absent /\ rec \in Record
    BY InHand DEF Admit, Books, Ledger, Tidy, Handled
  <1>1. Clean
    <2>1. ~Pending
      <3>1. Readable # {} => receipt[Newest.req] = Newest.phase /\ Newest.phase \in Phases
        BY <1>0, NewestBest, TypeParts DEF Books, Ledger, Record
      <3> QED BY <3>1, MarksAssumption DEF Books, Ledger, Pending
    <2> QED BY <2>1 DEF Tidy
  <1>2. CASE Persist(rec, "prepared")
    <2>1. Agrees(rec) /\ ~terminal(rec)
      BY <1>0, <1>1 DEF Agrees, terminal
    <2>2. rec' = Bump(rec) /\ at' = "prepared" => Handled'
      BY <1>0 DEF Handled, Bump, Record
    <2> QED BY <1>0, <1>2, <2>1, <2>2, PersistTidy DEF Working
  <1>3. CASE Refuse /\ UNCHANGED <<files, journals, history>>
    BY <1>3, Endings, HeadSame, HeadTidy, NowhereHandled
       DEF files, journals, Nowhere, Working, Books, Ledger
  <1> QED BY <1>2, <1>3 DEF Admit

(* A step that keeps the records and the three files.                      *)
LEMMA LookTidy ==
  ASSUME Books, Tidy, UNCHANGED <<inv, stage, backup, alias, slot>>, Handled'
  PROVE  Tidy'
  BY HeadSame, HeadTidy DEF Books, Ledger

LEMMA PreparedTidy ==
  ASSUME TypeOK, Books, Tidy, Cancel \/ Wait \/ Delete \/ AlreadyGone \/ Deleted
  PROVE  Tidy'
  <1>0. /\ at \in {"prepared", "deleted"} /\ at \in Working
    BY DEF Cancel, Wait, Delete, AlreadyGone, Deleted, Working
  <1>1. Agrees(rec) /\ rec \in Record /\ rec.phase = "prepared" /\ rec.after = Absent /\ Clean
    BY <1>0, WorkTidy DEF Tidy, Handled, Agrees
  <1>2. CASE Cancel
    <2> DEFINE j == [rec EXCEPT !.phase = "cancelled"]
    <2>1. PersistLast(j, "cancelled") /\ j \in Record /\ j.gen = rec.gen /\ terminal(j)
      BY <1>1, <1>2 DEF Cancel, Record, Phases, terminal
    <2> HIDE DEF j
    <2> QED BY <1>0, <1>1, <2>1, PersistLastTidy
  <1>3. CASE Wait \/ Delete \/ AlreadyGone
    <2>1. UNCHANGED <<inv, stage, backup, alias, slot>>
      BY <1>3, Zenon DEF Wait, Delete, AlreadyGone, files, journals
    <2>2. at' = "none" \/ (at' = "deleted" /\ rec' = rec)
      BY <1>3, Endings DEF Wait, Delete, AlreadyGone, Goto
    <2>3. Handled'
      BY <1>1, <2>2 DEF Handled
    <2> QED BY <2>1, <2>3, LookTidy
  <1>4. CASE Deleted
    <2> DEFINE j == [rec EXCEPT !.phase = "payload_removed"]
    <2>1. /\ Persist(j, "inventory") /\ j \in Record /\ j.gen = rec.gen /\ ~terminal(j)
          /\ j.phase = "payload_removed" /\ j.after = Absent
      BY <1>1, <1>4 DEF Deleted, Record, Phases, terminal
    <2>2. Agrees(j)
      BY <1>1, <2>1 DEF Agrees
    <2>3. rec' = Bump(j) /\ at' = "inventory" => Handled'
      BY <2>1 DEF Handled, Bump, Record
    <2> HIDE DEF j
    <2> QED BY <1>0, <2>1, <2>2, <2>3, PersistTidy DEF Working
  <1> QED BY <1>2, <1>3, <1>4

(* A record with digests, and where its replacement stands.                *)
LEMMA Digests ==
  ASSUME Agrees(rec), rec.phase = "payload_removed", rec.after # Absent
  PROVE  /\ rec.before \in Inventory /\ "app" \in rec.before /\ rec.after = rec.before \ {"app"}
         /\ rec.after \in Inventory /\ rec.before # rec.after
         /\ rec.before \notin {Absent, Torn} /\ rec.after \notin {Absent, Torn}
         /\ rec.after \ {"app"} = rec.after
         /\ Midway(rec)
  <1>1. rec.before \in Inventory /\ "app" \in rec.before /\ rec.after = rec.before \ {"app"}
    BY DEF Agrees
  <1>2. rec.after \in Inventory
    BY <1>1, InventoryClosed
  <1> QED BY <1>1, <1>2, RemovalAssumption DEF Agrees

LEMMA InventoriesTidy == ASSUME TypeOK, Books, Tidy, Inventories PROVE Tidy'
  <1>0. /\ at = "inventory" /\ at \in Working /\ rec.phase = "payload_removed"
        /\ Agrees(rec) /\ rec \in Record /\ rec = Newest
    BY WorkTidy DEF Inventories, Tidy, Handled, Working
  <1>1. ASSUME UNCHANGED <<files, journals, history>>, Refuse PROVE Tidy'
    BY <1>1, Endings, LookTidy, NowhereHandled DEF files, journals, Nowhere, Working
  <1>2. ASSUME NEW label \in {"replaced", "inventoryDone", "stage"},
               UNCHANGED <<files, journals, history>>, Goto(label),
               label \in {"stage", "replaced"} => alias # "inv",
               label = "replaced" => Recorded /\ inv = rec.after,
               label = "inventoryDone" => Clean /\ "app" \notin inv,
               label = "stage" => Recorded /\ inv = rec.before
        PROVE  Tidy'
    <2>1. at' = label /\ rec' = rec /\ UNCHANGED <<inv, stage, backup, alias, slot>>
      BY <1>2 DEF Goto, files, journals
    <2>2. Handled'
      BY <1>0, <1>2, <2>1 DEF Handled, Clean, Recorded
    <2> QED BY <2>1, <2>2, LookTidy
  <1>3. CASE app \/ ~Legible \/ ~InventoryKnown
    BY <1>1, <1>3 DEF Inventories
  <1>4. CASE ~(app \/ ~Legible \/ ~InventoryKnown)
    <2>0. Recorded => (inv = rec.after \/ (inv = rec.before /\ "app" \in inv))
      BY <1>0, <1>4, Digests DEF InventoryKnown, Recorded
    <2>a. alias # "inv"
      BY <1>4 DEF Legible
    <2>1. \/ /\ Recorded /\ inv = rec.after
             /\ UNCHANGED <<files, journals, history>> /\ Goto("replaced")
          \/ /\ ~(Recorded /\ inv = rec.after) /\ "app" \notin inv
             /\ UNCHANGED <<files, journals, history>> /\ Goto("inventoryDone")
          \/ /\ ~(Recorded /\ inv = rec.after) /\ "app" \in inv /\ Recorded
             /\ UNCHANGED <<files, journals, history>> /\ Goto("stage")
          \/ /\ ~Recorded /\ "app" \in inv
             /\ \/ UNCHANGED <<files, journals, history>> /\ Refuse
                \/ Persist([rec EXCEPT !.before = inv, !.after = inv \ {"app"}], "stage")
      BY <1>4, Zenon DEF Inventories
    <2>2. ~Recorded => Clean
      BY <1>0 DEF Recorded, Agrees
    <2>3. CASE UNCHANGED <<files, journals, history>> /\ Goto("replaced") /\ Recorded /\ inv = rec.after
      BY <1>2, <2>a, <2>3
    <2>4. CASE /\ ~(Recorded /\ inv = rec.after) /\ "app" \notin inv
               /\ UNCHANGED <<files, journals, history>> /\ Goto("inventoryDone")
      BY <1>2, <2>0, <2>2, <2>4
    <2>5. CASE /\ ~(Recorded /\ inv = rec.after) /\ "app" \in inv /\ Recorded
               /\ UNCHANGED <<files, journals, history>> /\ Goto("stage")
      BY <1>2, <2>0, <2>a, <2>5
    <2>6. CASE /\ ~Recorded /\ "app" \in inv
               /\ Persist([rec EXCEPT !.before = inv, !.after = inv \ {"app"}], "stage")
      <3> DEFINE j == [rec EXCEPT !.before = inv, !.after = inv \ {"app"}]
      <3>1. inv \in Inventory /\ inv \ {"app"} \in Inventory
        BY <1>4, InventoryClosed, TypeParts DEF FilesOK, Legible
      <3>2. /\ j \in Record /\ j.gen = rec.gen /\ ~terminal(j) /\ j.phase = "payload_removed"
            /\ j.before = inv /\ j.after = inv \ {"app"}
        BY <1>0, <3>1 DEF Record, terminal
      <3>3. Persist(j, "stage")
        BY <2>6
      <3> HIDE DEF j
      <3>4. Agrees(j)
        BY <2>2, <2>6, <3>1, <3>2, RemovalAssumption DEF Agrees, Midway, Clean
      <3>5. rec' = Bump(j) /\ at' = "stage" => Handled'
        <4> SUFFICES ASSUME rec' = Bump(j), at' = "stage" PROVE Handled'
          OBVIOUS
        <4>1. /\ rec'.before = inv /\ rec'.after = inv \ {"app"} /\ rec'.phase = "payload_removed"
          BY <3>2 DEF Bump, Record
        <4>2. inv' = inv /\ alias' = alias
          BY <2>6 DEF Persist, files
        <4> QED BY <2>a, <3>1, <4>1, <4>2, RemovalAssumption DEF Handled
      <3> QED BY <1>0, <3>2, <3>3, <3>4, <3>5, PersistTidy DEF Working
    <2> QED BY <1>1, <2>1, <2>3, <2>4, <2>5, <2>6
  <1> QED BY <1>3, <1>4

(* Steps on the three files themselves.                                    *)
LEMMA FilesTidy ==
  ASSUME TypeOK, Books, Tidy, at \in Working, UNCHANGED slot,
         rec.phase = "payload_removed", rec.after # Absent,
         Agrees(rec)', rec' = rec, Handled'
  PROVE  Tidy'
  <1>1. Pending /\ rec = Newest /\ Head
    BY WorkTidy, HeadSame DEF Books, Ledger
  <1>2. Pending' /\ Newest' = Newest
    BY <1>1, HeadPending DEF Head, Pending
  <1> QED BY <1>1, <1>2 DEF Tidy

LEMMA StagingTidy == ASSUME TypeOK, Books, Tidy, Staging PROVE Tidy'
  <1>0. /\ at = "stage" /\ at \in Working /\ rec.phase = "payload_removed" /\ rec.after # Absent
        /\ Agrees(rec) /\ inv = rec.before /\ alias # "inv"
    BY WorkTidy DEF Staging, Tidy, Handled, Working
  <1>1. /\ UNCHANGED <<inv, backup, alias, slot>> /\ rec' = rec
        /\ stage' = stage \/ (stage = Absent /\ stage' \in {Absent, Torn, rec.after})
        /\ at' \in {"none", "replace"}
    <2>1. inv \ {"app"} = rec.after
      BY <1>0, Digests
    <2> QED BY <2>1, Endings DEF Staging, journals, Goto, Refuse, Done, Fail
  <1>2. Agrees(rec)'
    BY <1>0, <1>1, Digests DEF Agrees, Midway
  <1>3. Handled'
    BY <1>0, <1>1 DEF Handled
  <1> QED BY <1>0, <1>1, <1>2, <1>3, FilesTidy

LEMMA ReplaceTidy == ASSUME TypeOK, Kept, Books, Tidy, Replace PROVE Tidy'
  <1>0. /\ at = "replace" /\ at \in Working /\ rec.phase = "payload_removed" /\ rec.after # Absent
        /\ Agrees(rec) /\ inv = rec.before /\ stage = inv \ {"app"} /\ alias # "inv"
    BY WorkTidy DEF Replace, Tidy, Handled, Working, Kept
  <1>1. UNCHANGED slot /\ rec' = rec
    BY DEF Replace, journals, Goto, Refuse, Done, Fail
  <1>2. /\ rec.before \in Inventory /\ "app" \in rec.before /\ rec.after = rec.before \ {"app"}
        /\ stage = rec.after /\ rec.after # Absent /\ rec.before # Absent /\ rec.before # rec.after
        /\ Midway(rec)
    BY <1>0, Digests
  <1>3. at' \in {"replaced", "none"} /\ (at' = "replaced" => inv' = rec.after /\ alias' # "inv")
    BY <1>2, ReplaceOutcomes DEF Named
  <1>4. Midway(rec)'
    <2>1. CASE Named(stage, Absent, inv, "none") \/ Named(stage, stage, inv, "stage")
      BY <1>0, <1>1, <1>2, <2>1 DEF Named, Midway
    <2>2. CASE FirstMove
      BY <1>0, <1>1, <1>2, <2>2 DEF FirstMove, Named, Midway
    <2>3. CASE SecondMove
      BY <1>0, <1>1, <1>2, <2>3 DEF SecondMove, Named, Midway
    <2>4. CASE UNCHANGED <<inv, stage, backup, alias>>
      BY <1>1, <1>2, <2>4 DEF Midway
    <2> QED BY <2>1, <2>2, <2>3, <2>4, ReplaceOutcomes
  <1>5. Agrees(rec)'
    BY <1>0, <1>1, <1>2, <1>4 DEF Agrees
  <1>6. Handled'
    BY <1>0, <1>1, <1>3 DEF Handled
  <1> QED BY <1>0, <1>1, <1>5, <1>6, FilesTidy

LEMMA ReplacedTidy == ASSUME TypeOK, Kept, Books, Tidy, Replaced PROVE Tidy'
  <1>0. /\ at = "replaced" /\ at \in Working /\ rec.phase = "payload_removed" /\ rec.after # Absent
        /\ Agrees(rec) /\ inv = rec.after /\ alias # "inv"
    BY WorkTidy DEF Replaced, Tidy, Handled, Working
  <1>1. /\ backup \in {Absent, rec.before} /\ inv \notin {Absent, rec.before} /\ "app" \notin inv
        /\ (stage = Absent /\ alias = "none") \/ (stage = rec.after /\ alias = "stage")
        /\ rec.before \in Inventory /\ "app" \in rec.before /\ rec.after = rec.before \ {"app"}
    BY <1>0, Digests DEF Midway
  <1>2. /\ UNCHANGED <<inv, alias, slot>> /\ rec' = rec
        /\ backup' \in {Absent, rec.before}
        /\ \/ at' = "none" /\ stage' = stage
           \/ at' = "inventoryDone" /\ backup' = Absent /\ stage' = Absent /\ alias = "none"
    BY <1>0, <1>1, Endings DEF Replaced, StageConflict, journals, Goto, Refuse, Done, Fail
  <1>3. Midway(rec)'
    BY <1>0, <1>1, <1>2 DEF Midway
  <1>4. Agrees(rec)'
    BY <1>0, <1>1, <1>2, <1>3 DEF Agrees
  <1>5. Handled'
    BY <1>0, <1>1, <1>2 DEF Handled, Clean
  <1> QED BY <1>0, <1>2, <1>4, <1>5, FilesTidy

LEMMA EndingTidy ==
  ASSUME TypeOK, Books, Tidy, InventoryDone \/ Finish PROVE Tidy'
  <1>1. CASE InventoryDone
    <2> DEFINE j == [rec EXCEPT !.phase = "inventory_removed"]
    <2>1. /\ at = "inventoryDone" /\ at \in Working /\ rec.phase = "payload_removed"
          /\ Clean /\ "app" \notin inv /\ rec \in Record
      BY <1>1, WorkTidy DEF InventoryDone, Tidy, Handled, Working
    <2>2. /\ Persist(j, "finish") /\ j \in Record /\ j.gen = rec.gen /\ ~terminal(j)
          /\ j.phase = "inventory_removed"
      BY <1>1, <2>1 DEF InventoryDone, Record, Phases, terminal
    <2>3. Agrees(j)
      BY <2>1, <2>2 DEF Agrees
    <2>4. rec' = Bump(j) /\ at' = "finish" => Handled'
      BY <2>2 DEF Handled, Bump, Record
    <2> HIDE DEF j
    <2> QED BY <2>1, <2>2, <2>3, <2>4, PersistTidy DEF Working
  <1>2. CASE Finish
    <2>1. /\ at = "finish" /\ at \in Working /\ rec.phase = "inventory_removed"
          /\ Agrees(rec) /\ Clean /\ rec \in Record
      BY <1>2, WorkTidy DEF Finish, Tidy, Handled, Working, Agrees
    <2>2. CASE PersistLast([rec EXCEPT !.phase = "completed"], "removed")
      <3> DEFINE j == [rec EXCEPT !.phase = "completed"]
      <3>1. PersistLast(j, "removed") /\ j \in Record /\ j.gen = rec.gen /\ terminal(j)
        BY <2>1, <2>2 DEF Record, Phases, terminal
      <3> HIDE DEF j
      <3> QED BY <2>1, <3>1, PersistLastTidy
    <2>3. CASE UNCHANGED <<files, journals, history>> /\ Refuse
      BY <2>3, Endings, LookTidy, NowhereHandled DEF files, journals, Nowhere, Working
    <2> QED BY <1>2, <2>2, <2>3 DEF Finish
  <1> QED BY <1>1, <1>2

LEMMA RemovalTidy == ASSUME TypeOK, Kept, Books, Tidy, Removal PROVE Tidy'
  <1>1. CASE RemoveRecheck
    <2>1. UNCHANGED <<inv, stage, backup, alias, slot>>
      BY <1>1 DEF RemoveRecheck, files, journals
    <2>2. Nowhere(at')
      BY <1>1, Endings DEF RemoveRecheck, Nowhere, Working
    <2> QED BY <2>1, <2>2, LookTidy, NowhereHandled
  <1> QED BY <1>1, ExecuteTidy, ArchiveTidy, AdmitTidy, PreparedTidy, InventoriesTidy,
             StagingTidy, ReplaceTidy, ReplacedTidy, EndingTidy DEF Removal

(* An update changes the inventory while no removal is pending.            *)
LEMMA UpdateTidy == ASSUME TypeOK, Excluded, Books, Tidy, Update PROVE Tidy'
  <1>0. at \in {"updateRecheck", "updateRun", "updateWork"} /\ UNCHANGED <<stage, backup, alias, slot>>
    BY DEF Update, UpdateRecheck, UpdateRun, UpdateInstall, UpdateList, UpdateEnd, UpdateGivesUp,
           files, journals
  <1>1. at' \in {"none", "updateRun", "updateWork"}
    BY Endings DEF Update, UpdateRecheck, UpdateRun, UpdateInstall, UpdateList, UpdateEnd,
                   UpdateGivesUp
  <1>2. Handled'
    BY <1>1 DEF Handled
  <1>3. CASE inv' = inv
    BY <1>0, <1>2, <1>3, LookTidy
  <1>4. CASE UpdateList
    <2>1. ~Pending /\ ~Pending'
      BY <1>0, <1>4, HeadSame, HeadPending DEF UpdateList, Excluded, Updating, Books, Ledger
    <2>2. inv \in Inventory /\ inv' \in Inventory
      BY <1>4, InventoryClosed, TypeParts DEF UpdateList, Unlisted, FilesOK
    <2> QED BY <1>0, <1>2, <2>1, <2>2, RemovalAssumption DEF Tidy, Clean
  <1> QED BY <1>3, <1>4 DEF Update, UpdateRecheck, UpdateRun, UpdateInstall, UpdateEnd,
                            UpdateGivesUp, files

-----------------------------------------------------------------------------
(* The reasons to refuse.                                                  *)
Excused == stage = Torn \/ inv = Absent \/ alias \in {"inv", "stage"}

LEMMA RefusalsExcused ==
  ASSUME TypeOK, Kept, Excluded, Books, Tidy, Ended, Removal, outcome' = "refused",
         Pending, asked = Newest.req
  PROVE  Excused
  <1>0. at # "none" /\ outcome # "refused" /\ asked = req /\ Newest.req = req
        /\ Readable # {} /\ ~terminal(Newest) /\ update = "terminal" /\ receipt[req] = Absent
    <2>1. at # "none"
      BY DEF Removal, RemoveRecheck, Execute, Archive, Admit, Cancel, Wait, Delete, AlreadyGone,
             Deleted, Inventories, Staging, Replace, Replaced, InventoryDone, Finish
    <2>2. update = "terminal"
      BY TypeParts DEF JournalsOK, Excluded, NeverBothPending
    <2> QED BY <2>1, <2>2 DEF Ended, Pending, Books, Ledger
  <1>1. /\ \A label : Goto(label) => outcome' = outcome
        /\ ~Fail
        /\ \A result : Done(result) => result = "refused"
        /\ \A j, label : ~(Persist(j, label))
        /\ \A j, result : PersistLast(j, result) => result = "refused"
    BY <1>0 DEF Goto, Fail, Done, Persist, PersistLast
  <1>2. CASE RemoveRecheck
    BY <1>0, <1>1, <1>2 DEF RemoveRecheck
  <1>3. CASE Execute
    <2>1. ~LoadFails /\ Absent # Torn
      BY <1>0, RemovalAssumption DEF LoadFails
    <2>2. Settled(req) = {}
      BY <1>0 DEF Settled
    <2>3. UNCHANGED outcome
      BY <1>0, <1>3, <2>1, <2>2 DEF Execute
    <2> QED BY <1>0, <2>3
  <1>4. CASE Archive
    BY <1>0, <1>4 DEF Archive, Books, Ledger
  <1>5. CASE Admit
    BY <1>0, <1>5 DEF Admit, Books, Ledger
  <1>6. CASE Cancel \/ Wait \/ AlreadyGone
    BY <1>0, <1>1, <1>6 DEF Cancel, Wait, AlreadyGone
  <1>7. CASE Delete
    <2>1. app /\ ~(Legible /\ Listed)
      BY <1>0, <1>1, <1>7 DEF Delete
    <2> QED BY <1>0, <2>1 DEF Books, Gaps, GapOnRecord, Legible, Listed, Unlisted, Excused
  <1>8. CASE Deleted \/ InventoryDone
    BY <1>1, <1>8 DEF Deleted, InventoryDone
  <1>9. CASE Inventories
    <2>0. /\ at = "inventory" /\ at \in Working /\ rec.phase = "payload_removed" /\ ~app
          /\ Agrees(rec)
      BY <1>9, WorkTidy DEF Inventories, Tidy, Handled, Working, Books, Gaps
    <2>1. CASE ~Legible
      BY <2>1 DEF Legible, Excused
    <2>2. CASE Legible
      <3>1. InventoryKnown
        BY <2>0, <2>2, Digests DEF InventoryKnown, Recorded, Legible, Midway
      <3>2. ~Recorded => stage = Absent /\ backup = Absent
        BY <2>0 DEF Recorded, Agrees, Clean
      <3> QED BY <1>0, <1>1, <1>9, <2>0, <2>2, <3>1, <3>2, Zenon DEF Inventories
    <2> QED BY <2>1, <2>2
  <1>10. CASE Staging
    <2>0. /\ at = "stage" /\ at \in Working /\ rec.phase = "payload_removed" /\ rec.after # Absent
          /\ Agrees(rec) /\ inv = rec.before
      BY <1>10, WorkTidy DEF Staging, Tidy, Handled, Working
    <2>1. stage \in {Absent, Torn, inv \ {"app"}}
      BY <2>0, Digests DEF Midway
    <2> QED BY <1>0, <1>1, <1>10, <2>1 DEF Staging, Excused
  <1>11. CASE Replace
    <2>0. /\ at = "replace" /\ at \in Working /\ rec.phase = "payload_removed" /\ rec.after # Absent
          /\ Agrees(rec) /\ inv = rec.before /\ alias # "inv"
      BY <1>11, WorkTidy DEF Replace, Tidy, Handled, Working
    <2>1. Replaceable
      BY <2>0, Digests DEF Midway, Replaceable
    <2> QED BY <1>0, <1>1, <1>11, <2>1 DEF Replace
  <1>12. CASE Replaced
    <2>0. /\ at = "replaced" /\ at \in Working /\ rec.phase = "payload_removed" /\ rec.after # Absent
          /\ Agrees(rec) /\ inv = rec.after /\ alias # "inv"
      BY <1>12, WorkTidy DEF Replaced, Tidy, Handled, Working
    <2>1. (~StageConflict /\ ~BackupConflict) \/ alias = "stage"
      BY <2>0, Digests DEF Midway, StageConflict, BackupConflict
    <2> QED BY <1>0, <1>1, <1>12, <2>1 DEF Replaced, Excused
  <1>13. CASE Finish
    <2>0. /\ at = "finish" /\ at \in Working /\ rec.phase = "inventory_removed" /\ ~app
          /\ Agrees(rec)
      BY <1>13, WorkTidy DEF Finish, Tidy, Handled, Working, Books, Gaps
    <2>1. GoneEverywhere
      BY <2>0 DEF Agrees, Clean, GoneEverywhere, Legible, Unlisted
    <2> QED BY <1>1, <1>13, <2>1 DEF Finish
  <1> QED BY <1>2, <1>3, <1>4, <1>5, <1>6, <1>7, <1>8, <1>9, <1>10, <1>11, <1>12, <1>13
          DEF Removal

(* Without an edit of somebody else the files agree with the records.      *)
Undisturbed == edits = 0 => Tidy

(* Only a removal refuses, and only at its end.                            *)
LEMMA NextEnded ==
  ASSUME TypeOK, Ended, [Next]_vars
  PROVE  /\ Ended'
         /\ Removal \/ outcome' # "refused"
              \/ UNCHANGED <<outcome, asked, stage, inv, alias, slot>> \/ Edit
  <1>0. CommandOK /\ Nobody \notin Procs
    BY TypeParts, RemovalAssumption
  <1>1. CASE Removal
    <2>1. lease # Nobody /\ at # "none"
      BY <1>0, <1>1 DEF Removal, RemoveRecheck, Execute, Archive, Admit, Cancel, Wait, Delete,
             AlreadyGone, Deleted, Inventories, Staging, Replace, Replaced, InventoryDone, Finish,
             CommandOK
    <2>2. asked' = asked /\ want' = want
      BY <1>1 DEF Removal, RemoveRecheck, Execute, Archive, Admit, Cancel, Wait, Delete,
             AlreadyGone, Deleted, Inventories, Staging, Replace, Replaced, InventoryDone, Finish,
             Goto, Done, Refuse, Fail, Persist, PersistLast, Answer
    <2>3. at' = "none" \/ (outcome' = outcome /\ lease' = lease)
      BY <1>1 DEF Removal, RemoveRecheck, Execute, Archive, Admit, Cancel, Wait, Delete,
             AlreadyGone, Deleted, Inventories, Staging, Replace, Replaced, InventoryDone, Finish,
             Goto, Done, Refuse, Fail, Persist, PersistLast, Answer
    <2> QED BY <1>1, <2>1, <2>2, <2>3 DEF Ended, req
  <1>2. CASE Update
    <2>1. at # "none"
      BY <1>2 DEF Update, UpdateRecheck, UpdateRun, UpdateInstall, UpdateList, UpdateEnd,
             UpdateGivesUp
    <2>2. asked' = asked /\ want' = want
      BY <1>2 DEF Update, UpdateRecheck, UpdateRun, UpdateInstall, UpdateList, UpdateEnd,
             UpdateGivesUp, Goto, Done
    <2>3. \/ at' = "none" /\ outcome' = "update"
          \/ outcome' = outcome /\ lease' = lease
      BY <1>2 DEF Update, UpdateRecheck, UpdateRun, UpdateInstall, UpdateList, UpdateEnd,
             UpdateGivesUp, Goto, Done
    <2> QED BY <2>1, <2>2, <2>3 DEF Ended, req
  <1>3. ASSUME NEW p \in Procs, NEW r \in Requests, RemoveCheck(p, r)
        PROVE  Ended' /\ UNCHANGED <<outcome, asked, stage, inv, alias, slot>>
    <2>1. /\ UNCHANGED <<at, lease, outcome, asked, stage, inv, alias, slot>>
          /\ at # "none" => lease # p /\ want'[lease] = want[lease]
      BY <1>0, <1>3 DEF RemoveCheck, files, journals, CommandOK
    <2> QED BY <2>1 DEF Ended, req
  <1>4. ASSUME NEW p \in Procs, RemoveLease(p) \/ UpdateLease(p)
        PROVE  Ended' /\ (outcome' = "none" \/ UNCHANGED <<outcome, asked, stage, inv, alias, slot>>)
    BY <1>4 DEF RemoveLease, UpdateLease, TakeLease, Ended, req, files, journals
  <1>5. ASSUME NEW p \in Procs, UpdateSee(p) \/ UpdateCheck(p)
        PROVE  Ended' /\ UNCHANGED <<outcome, asked, stage, inv, alias, slot>>
    BY <1>5 DEF UpdateSee, UpdateCheck, Ended, req, files, journals
  <1>6. CASE Stop
    <2>1. /\ UNCHANGED <<asked, want, stage, inv, alias, slot>>
          /\ \/ at' = "none" /\ outcome' = "failed"
             \/ UNCHANGED <<lease, at, outcome>>
      BY <1>6 DEF Stop, files, journals
    <2> QED BY <2>1 DEF Ended, req
  <1>7. CASE Edit
    BY <1>7 DEF Edit, command, Ended, req
  <1>8. CASE UNCHANGED vars
    BY <1>8 DEF vars, files, journals, command, Ended, req
  <1> QED BY <1>1, <1>2, <1>3, <1>4, <1>5, <1>6, <1>7, <1>8 DEF Next

LEMMA NextTidy ==
  ASSUME TypeOK, Kept, Excluded, Books, Undisturbed, [Next]_vars
  PROVE  Undisturbed'
  <1> SUFFICES ASSUME edits' = 0 PROVE Tidy'
    BY DEF Undisturbed
  <1>0. edits \in Nat
    BY TypeParts, RemovalAssumption DEF HistoryOK
  <1>1. CASE Edit
    BY <1>0, <1>1 DEF Edit
  <1>2. CASE Removal
    <2>1. edits' = edits
      BY <1>2 DEF Removal, RemoveRecheck, Execute, Archive, Admit, Cancel, Wait, Delete, AlreadyGone,
             Deleted, Inventories, Staging, Replace, Replaced, InventoryDone, Finish, Fail, Persist,
             PersistLast, history
    <2> QED BY <1>2, <2>1, RemovalTidy DEF Undisturbed
  <1>3. CASE Update
    <2>1. edits' = edits
      BY <1>3 DEF Update, UpdateRecheck, UpdateRun, UpdateInstall, UpdateList, UpdateEnd,
             UpdateGivesUp, history
    <2> QED BY <1>3, <2>1, UpdateTidy DEF Undisturbed
  <1>4. CASE /\ UNCHANGED <<files, slot, edits>>
             /\ Nowhere(at') \/ UNCHANGED <<at, rec>>
    <2>1. Tidy
      BY <1>4 DEF Undisturbed
    <2>2. UNCHANGED <<inv, stage, backup, alias, slot>>
      BY <1>4 DEF files
    <2>3. Handled'
      BY <1>4, <2>1, <2>2, NowhereHandled, StayHandled DEF Tidy
    <2> QED BY <2>1, <2>2, <2>3, LookTidy
  <1>5. ASSUME NEW p \in Procs, RemoveLease(p) \/ UpdateLease(p)
        PROVE  Tidy'
    <2>1. UNCHANGED <<files, slot, edits, rec>> /\ (at' \in {"recheck", "updateRecheck"} \/ at' = at)
      BY <1>5 DEF RemoveLease, UpdateLease, TakeLease, history, journals
    <2> QED BY <1>4, <2>1 DEF Nowhere, Working
  <1>6. ASSUME NEW p \in Procs, UpdateSee(p) \/ UpdateCheck(p) \/ \E r \in Requests : RemoveCheck(p, r)
        PROVE  Tidy'
    BY <1>4, <1>6 DEF UpdateSee, UpdateCheck, RemoveCheck, history, journals
  <1>7. CASE Stop
    <2>1. UNCHANGED <<files, slot, edits, rec>> /\ (at' = "none" \/ at' = at)
      BY <1>7 DEF Stop, journals
    <2> QED BY <1>4, <2>1 DEF Nowhere, Working
  <1>8. CASE UNCHANGED vars
    BY <1>4, <1>8 DEF vars, history, command, journals
  <1> QED BY <1>1, <1>2, <1>3, <1>5, <1>6, <1>7, <1>8 DEF Next

LEMMA NextRefused ==
  ASSUME TypeOK, Kept, Excluded, Books, Undisturbed, Ended, RefusedOnlyWhen, [Next]_vars
  PROVE  RefusedOnlyWhen'
  <1> SUFFICES ASSUME outcome' = "refused", Pending', asked' = Newest'.req, edits' = 0
               PROVE  stage' = Torn \/ inv' = Absent \/ alias' \in {"inv", "stage"}
    BY DEF RefusedOnlyWhen
  <1>0. edits \in Nat /\ Slots
    BY TypeParts, RemovalAssumption DEF HistoryOK, Books, Ledger
  <1>1. edits = 0 /\ ~Edit
    <2>1. edits' = edits \/ edits' = edits + 1
      BY DEF Next, Removal, RemoveRecheck, Execute, Archive, Admit, Cancel, Wait, Delete, AlreadyGone,
             Deleted, Inventories, Staging, Replace, Replaced, InventoryDone, Finish, Fail, Persist,
             PersistLast, history, Update, UpdateRecheck, UpdateRun, UpdateInstall, UpdateList,
             UpdateEnd, UpdateGivesUp, RemoveLease, UpdateLease, TakeLease, UpdateSee, UpdateCheck,
             RemoveCheck, Stop, Edit, vars
    <2> QED BY <1>0, <2>1 DEF Edit
  <1>2. CASE UNCHANGED <<outcome, asked, stage, inv, alias, slot>>
    <2>1. Pending /\ Newest' = Newest
      BY <1>0, <1>2, HeadSame, HeadPending DEF Head, Pending
    <2> QED BY <1>1, <1>2, <2>1 DEF RefusedOnlyWhen
  <1>3. CASE Removal
    <2>1. at # "none" /\ outcome # "refused"
      BY <1>3 DEF Removal, RemoveRecheck, Execute, Archive, Admit, Cancel, Wait, Delete, AlreadyGone,
             Deleted, Inventories, Staging, Replace, Replaced, InventoryDone, Finish, Ended
    <2>2. UNCHANGED <<asked, stage, inv, alias, slot>>
      BY <1>3, <2>1 DEF Removal, RemoveRecheck, Execute, Archive, Admit, Cancel, Wait, Delete,
             AlreadyGone, Deleted, Inventories, Staging, Replace, Replaced, InventoryDone, Finish,
             Goto, Done, Refuse, Fail, Persist, PersistLast, Answer, files, journals
    <2>3. Pending /\ Newest' = Newest
      BY <1>0, <2>2, HeadSame, HeadPending DEF Head, Pending
    <2>4. Excused
      BY <1>1, <1>3, <2>2, <2>3, RefusalsExcused DEF Undisturbed
    <2> QED BY <2>2, <2>4 DEF Excused
  <1> QED BY <1>1, <1>2, <1>3, NextEnded

LEMMA InitTidy == Init => Undisturbed /\ Ended /\ RefusedOnlyWhen
  <1> SUFFICES ASSUME Init PROVE Undisturbed /\ Ended /\ RefusedOnlyWhen
    OBVIOUS
  <1>1. ~Pending
    BY DEF Init, Readable, Pending
  <1>2. Clean
    <2>1. {"app", "other"} \in Inventory
      BY DEF Inventory
    <2> QED BY <2>1, RemovalAssumption DEF Init, Clean
  <1> QED BY <1>1, <1>2 DEF Init, Undisturbed, Tidy, Handled, Ended, RefusedOnlyWhen

(* Nothing that a removal leaves behind, wherever it was cut short, makes  *)
(* its repetition refuse, but a torn stage, a missing inventory and an     *)
(* inventory or a stage that a replacement left as a second name.          *)
THEOREM RemovalRefusedOnlyWhen == Spec => []RefusedOnlyWhen
  <1> DEFINE I == Typed /\ Excluded /\ Books /\ Undisturbed /\ Ended /\ RefusedOnlyWhen
  <1>1. Init => I
    BY InitTypes, InitKept, InitExcluded, InitBooks, InitTidy DEF Typed
  <1>2. I /\ [Next]_vars => I'
    <2> SUFFICES ASSUME I, [Next]_vars PROVE I'
      OBVIOUS
    <2>1. TypeOK /\ Kept
      BY DEF Typed
    <2>2. Typed' /\ Excluded' /\ Books'
      BY <2>1, NextTyped, NextExcluded, NextBooks
    <2>3. Undisturbed' /\ Ended' /\ RefusedOnlyWhen'
      BY <2>1, NextTidy, NextEnded, NextRefused
    <2> QED BY <2>2, <2>3
  <1>3. I => RefusedOnlyWhen
    OBVIOUS
  <1> HIDE DEF I
  <1> QED BY <1>1, <1>2, <1>3, PTL DEF Spec
=============================================================================
