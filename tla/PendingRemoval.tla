--------------------------- MODULE PendingRemoval ---------------------------
(***************************************************************************)
(* Removal of an installed application (system_update_remove.zig) and the  *)
(* way it excludes updates (system_update_engine.zig).                     *)
(*                                                                         *)
(* A removal deletes the application's file and then its entry in the      *)
(* inventory.  Its progress is a record in two slots, of which the newest  *)
(* readable one counts.  The record stays pending while the application    *)
(* runs, or after a crash, and no update may begin as long as it does.     *)
(* Removals and updates work under one lease, which ends with the process  *)
(* that holds it.  Finished requests leave a receipt.                      *)
(*                                                                         *)
(* An older administrator's tool knows the lease but not the record: it    *)
(* may change other inventory entries while a removal is pending.          *)
(***************************************************************************)
EXTENDS Naturals, FiniteSets

CONSTANTS Procs,       \* processes that run SYSUPD
          Requests,    \* removal requests for the application
          Nobody, Absent, Torn,
          MaxInstalls, \* bound: installations by updates
          MaxEdits,    \* bound: changes by an older administrator
          MaxFaults,   \* bound: failed or torn writes, killed processes
          MaxGen       \* bound: record generations

Inventory == {{}, {"app"}, {"other"}, {"app", "other"}}

ASSUME RemovalAssumption ==
    /\ Nobody \notin Procs
    /\ MaxInstalls \in Nat /\ MaxEdits \in Nat /\ MaxFaults \in Nat /\ MaxGen \in Nat
    /\ Absent # Torn /\ Absent \notin Inventory /\ Torn \notin Inventory

Phases == {"prepared", "payload_removed", "inventory_removed", "completed", "cancelled"}
Record == [gen : 0 .. MaxGen, req : Requests, phase : Phases,
           before : Inventory \cup {Absent}, after : Inventory \cup {Absent}]

(* A slot or a receipt that is absent or torn is none that can be read.    *)
ASSUME MarksAssumption == {Absent, Torn} \cap (Record \cup Phases) = {}

VARIABLES app,         \* the application's file is there
          inv,         \* MODULES.JSON
          stage, backup,   \* RMVINV.NEW and RMVINV.BAK
          alias,       \* which of these names cannot be looked up
          slot,        \* REMOVE0.JRN and REMOVE1.JRN
          receipt,     \* archived outcome of each request
          update,      \* newest update journal: "terminal" or "open"
          lease,       \* process that holds SYSLOCK
          pc, want,    \* where each process is, the request it runs
          at, rec,     \* what the holder does next, the record in its memory
          outcome,     \* how the last removal command ended
          asked,       \* the request it was for
          deletes,     \* history: how often each request deleted the file
          other,       \* history: what the other entry was last set to
          installs, edits, faults

files == <<app, inv, stage, backup, alias>>
journals == <<slot, receipt, update>>
command == <<lease, pc, want, at, rec, outcome, asked>>
history == <<deletes, other, installs, edits, faults>>
vars == <<files, journals, command, history>>

(* A publication that stopped may have left two names on one record, which *)
(* has one of them as its own: lookup of the other fails with an I/O       *)
(* error.  A backup is stray when the inventory whose second name it was   *)
(* has been replaced since.                                                *)
Aliases == {"none", "inv", "stage", "backup", "stray"}

Labels == {"none", "recheck", "execute", "archive", "admit", "prepared", "deleted",
           "inventory", "stage", "replace", "replaced", "inventoryDone", "finish",
           "updateRecheck", "updateRun", "updateWork"}

TypeOK == /\ app \in BOOLEAN
          /\ inv \in Inventory \cup {Absent}
          /\ stage \in Inventory \cup {Absent, Torn}
          /\ backup \in Inventory \cup {Absent}
          /\ alias \in Aliases
          /\ slot \in [{0, 1} -> Record \cup {Absent, Torn}]
          /\ receipt \in [Requests -> {"completed", "cancelled", Absent, Torn}]
          /\ update \in {"terminal", "open"}
          /\ lease \in Procs \cup {Nobody}
          /\ pc \in [Procs -> {"idle", "removeChecked", "updateSeen", "updateChecked", "holding"}]
          /\ \A p \in Procs : pc[p] = "holding" <=> lease = p
          /\ want \in [Procs -> Requests]
          /\ at \in Labels /\ (at = "none" <=> lease = Nobody)
          /\ rec \in Record
          /\ outcome \in {"none", "waiting", "removed", "cancelled", "refused", "failed", "update"}
          /\ asked \in Requests
          /\ deletes \in [Requests -> Nat]
          /\ other \in BOOLEAN
          /\ installs \in 0 .. MaxInstalls
          /\ edits \in 0 .. MaxEdits
          /\ faults \in 0 .. MaxFaults

Fresh(r) == [gen |-> 0, req |-> r, phase |-> "prepared", before |-> Absent, after |-> Absent]

Init == /\ app = TRUE
        /\ inv = {"app", "other"} /\ other = TRUE
        /\ stage = Absent /\ backup = Absent /\ alias = "none"
        /\ slot = [s \in {0, 1} |-> Absent]
        /\ receipt = [r \in Requests |-> Absent]
        /\ update = "terminal"
        /\ lease = Nobody
        /\ pc = [p \in Procs |-> "idle"]
        /\ want \in {[p \in Procs |-> r] : r \in Requests}
        /\ at = "none" /\ \E r \in Requests : rec = Fresh(r)
        /\ outcome = "none" /\ asked \in Requests
        /\ deletes = [r \in Requests |-> 0]
        /\ installs = 0 /\ edits = 0 /\ faults = 0

-----------------------------------------------------------------------------
(* load: the newest record that can be read.  It fails when there are      *)
(* slots but none can be read.                                             *)
Readable == {slot[s] : s \in {0, 1}} \ {Absent, Torn}
Newest == CHOOSE j \in Readable : \A k \in Readable : k.gen <= j.gen
LoadFails == Readable = {} /\ \E s \in {0, 1} : slot[s] = Torn
terminal(j) == j.phase \in {"completed", "cancelled"}
Pending == Readable # {} /\ ~terminal(Newest)

Listed == inv # Absent /\ "app" \in inv
Unlisted == inv # Absent /\ "app" \notin inv

(* inventory: it can be read.                                              *)
Legible == inv # Absent /\ alias # "inv"
GoneEverywhere == ~app /\ Legible /\ Unlisted

-----------------------------------------------------------------------------
Goto(label) == at' = label /\ UNCHANGED <<lease, pc, want, rec, outcome, asked>>

(* The holder's command ends and releases the lease.                       *)
Done(result) == /\ outcome' = result
                /\ lease' = Nobody
                /\ pc' = [p \in Procs |-> IF p = lease THEN "idle" ELSE pc[p]]
                /\ at' = "none"
                /\ UNCHANGED <<want, rec, asked>>

Refuse == Done("refused")

(* A file is written and read back.  What the write leaves behind when it  *)
(* fails may be the old content, half of the new, or all of it: then only  *)
(* the readback failed.                                                    *)
Fault == faults < MaxFaults /\ faults' = faults + 1

Fail == /\ Fault
        /\ outcome' = "failed"
        /\ lease' = Nobody
        /\ pc' = [p \in Procs |-> IF p = lease THEN "idle" ELSE pc[p]]
        /\ at' = "none"
        /\ UNCHANGED <<want, rec, asked, deletes, other, installs, edits>>

Slot(gen) == gen % 2

(* persist: the record goes into the slot of its generation.               *)
Write(j) == slot' = [slot EXCEPT ![Slot(j.gen)] = j]
Tear(j) == slot' = [slot EXCEPT ![Slot(j.gen)] = Torn]
Bump(j) == [j EXCEPT !.gen = @ + 1]

Persist(j, label) ==
    /\ rec.gen < MaxGen
    /\ UNCHANGED <<files, receipt, update>>
    /\ \/ /\ Write(Bump(j))
          /\ rec' = Bump(j)
          /\ at' = label
          /\ UNCHANGED <<lease, pc, want, outcome, asked, history>>
       \/ Fail /\ (Write(Bump(j)) \/ Tear(Bump(j)) \/ UNCHANGED slot)

PersistLast(j, result) ==
    /\ rec.gen < MaxGen
    /\ UNCHANGED <<files, receipt, update>>
    /\ \/ Write(Bump(j)) /\ Done(result) /\ UNCHANGED history
       \/ Fail /\ (Write(Bump(j)) \/ Tear(Bump(j)) \/ UNCHANGED slot)

-----------------------------------------------------------------------------
(* removeApplication: the update journals are read before and under the    *)
(* lease.                                                                  *)
RemoveCheck(p, r) ==
    /\ pc[p] = "idle"
    /\ update = "terminal"
    /\ pc' = [pc EXCEPT ![p] = "removeChecked"]
    /\ want' = [want EXCEPT ![p] = r]
    /\ UNCHANGED <<files, journals, lease, at, rec, outcome, asked, history>>

TakeLease(p, from, label) ==
    /\ pc[p] = from
    /\ UNCHANGED <<files, journals, want, rec, history>>
    /\ \/ /\ lease = Nobody
          /\ lease' = p
          /\ pc' = [pc EXCEPT ![p] = "holding"]
          /\ at' = label
          /\ outcome' = "none" /\ asked' = want[p]
       \/ /\ lease # Nobody
          /\ pc' = [pc EXCEPT ![p] = "idle"]
          /\ UNCHANGED <<lease, at, outcome, asked>>

RemoveLease(p) == TakeLease(p, "removeChecked", "recheck")

\* A slip: the journals are not read again under the lease.
RemoveRecheckSkipped == at = "recheck" /\ UNCHANGED <<files, journals, history>> /\ Goto("execute")

RemoveRecheck == /\ at = "recheck"
                 /\ UNCHANGED <<files, journals, history>>
                 /\ IF update = "terminal" THEN Goto("execute") ELSE Refuse

(* acquireUpdateLock: the removal record is read before and under the      *)
(* lease; a RESUME does not mind an open journal.                          *)
UpdateSee(p) == /\ pc[p] = "idle"
                /\ ~LoadFails /\ ~Pending
                /\ pc' = [pc EXCEPT ![p] = "updateSeen"]
                /\ UNCHANGED <<files, journals, lease, want, at, rec, outcome, asked, history>>

UpdateCheck(p) == /\ pc[p] = "updateSeen"
                  /\ \E resume \in BOOLEAN :
                        pc' = [pc EXCEPT ![p] = IF resume \/ update = "terminal"
                                                THEN "updateChecked" ELSE "idle"]
                  /\ UNCHANGED <<files, journals, lease, want, at, rec, outcome, asked, history>>

UpdateLease(p) == TakeLease(p, "updateChecked", "updateRecheck")

UpdateRecheck == /\ at = "updateRecheck"
                 /\ UNCHANGED <<files, journals, history>>
                 /\ IF LoadFails \/ Pending THEN Done("update") ELSE Goto("updateRun")

(* An update opens its journal or finds it open, installs the application  *)
(* and then its inventory entry, and closes the journal.  With             *)
(* MODULES.JSON missing it does not come that far.                         *)
UpdateRun == /\ at = "updateRun"
             /\ Legible
             /\ update' = "open"
             /\ UNCHANGED <<files, slot, receipt, history>>
             /\ Goto("updateWork")

UpdateInstall == /\ at = "updateWork"
                 /\ ~app /\ installs < MaxInstalls
                 /\ app' = TRUE /\ installs' = installs + 1
                 /\ UNCHANGED <<inv, stage, backup, alias, journals, deletes, other, edits, faults>>
                 /\ Goto("updateWork")

UpdateList == /\ at = "updateWork"
              /\ app /\ Legible /\ Unlisted
              /\ inv' = inv \cup {"app"}
              /\ UNCHANGED <<app, stage, backup, alias, journals, history>>
              /\ Goto("updateWork")

UpdateEnd == /\ at = "updateWork"
             /\ app = Listed
             /\ update' = "terminal"
             /\ UNCHANGED <<files, slot, receipt, history>>
             /\ Done("update")

(* It may end before, its journal open or not begun.                       *)
UpdateGivesUp == /\ at \in {"updateRun", "updateWork"}
                 /\ UNCHANGED <<files, journals, history>>
                 /\ Done("update")

-----------------------------------------------------------------------------
(* execute: what the newest record and the receipt say of the request.     *)
req == want[lease]
Answer(phase) == IF phase = "cancelled" THEN Done("cancelled")
                 ELSE IF GoneEverywhere THEN Done("removed") ELSE Refuse

\* A slip: receipts of earlier requests are not consulted.
SettledInSlots(r) == IF Readable # {} /\ Newest.req = r /\ terminal(Newest)
                     THEN {Newest.phase} ELSE {}

(* The outcome of a request that is finished: its receipt, or its record.  *)
Settled(r) == IF receipt[r] # Absent THEN {receipt[r]}
              ELSE IF Readable # {} /\ Newest.req = r /\ terminal(Newest)
              THEN {Newest.phase} ELSE {}

Execute ==
    /\ at = "execute"
    /\ UNCHANGED <<files, journals, history>>
    /\ CASE LoadFails -> Refuse
         [] ~LoadFails /\ receipt[req] = Torn -> Refuse
         [] ~LoadFails /\ receipt[req] # Torn /\ Settled(req) # {} ->
              Answer(CHOOSE phase \in Settled(req) : TRUE)
         [] OTHER ->
              IF Readable = {}
              THEN rec' = Fresh(req) /\ at' = "admit" /\ UNCHANGED <<lease, pc, want, outcome, asked>>
              ELSE IF Newest.req # req
              THEN IF terminal(Newest)
                   THEN rec' = Newest /\ at' = "archive" /\ UNCHANGED <<lease, pc, want, outcome, asked>>
                   ELSE Refuse
              ELSE /\ rec' = Newest
                   /\ at' = CASE Newest.phase = "prepared" -> "prepared"
                              [] Newest.phase = "payload_removed" -> "inventory"
                              [] OTHER -> "finish"
                   /\ UNCHANGED <<lease, pc, want, outcome, asked>>

(* archive: the predecessor's outcome becomes its receipt, before its slot *)
(* is used again.                                                          *)
NextRequest == [Fresh(req) EXCEPT !.gen = rec.gen]

Archivable == terminal(rec) /\ receipt[rec.req] \in {Absent, rec.phase}

Archive ==
    /\ at = "archive"
    /\ UNCHANGED <<files, slot, update>>
    /\ \/ /\ ~Archivable
          /\ UNCHANGED <<receipt, history>>
          /\ Refuse
       \/ /\ Archivable
          /\ receipt' = [receipt EXCEPT ![rec.req] = rec.phase]
          /\ rec' = NextRequest /\ at' = "admit"
          /\ UNCHANGED <<lease, pc, want, outcome, asked, history>>
       \/ /\ Archivable /\ receipt[rec.req] = Absent
          /\ \E content \in {rec.phase, Torn} : receipt' = [receipt EXCEPT ![rec.req] = content]
          /\ Fail

\* A slip: the file is deleted before the request is on record.
AdmitUnrecorded == /\ at = "admit"
                   /\ app /\ Legible /\ Listed
                   /\ rec' = rec /\ at' = "deleted"
                   /\ app' = FALSE
                   /\ deletes' = [deletes EXCEPT ![req] = @ + 1]
                   /\ UNCHANGED <<inv, stage, backup, alias, journals, lease, pc, want, outcome, asked,
                                  other, installs, edits, faults>>

(* admit: the installed file and its inventory entry are the planned ones. *)
Admit == /\ at = "admit"
         /\ \/ /\ app /\ Legible /\ Listed
               /\ Persist(rec, "prepared")
            \/ /\ ~(app /\ Legible /\ Listed)
               /\ UNCHANGED <<files, journals, history>>
               /\ Refuse

(* The caller gave up, and the file is still there.                        *)
Cancel == /\ at = "prepared"
          /\ app
          /\ PersistLast([rec EXCEPT !.phase = "cancelled"], "cancelled")

Wait == /\ at = "prepared"                       \* the application runs
        /\ UNCHANGED <<files, journals, history>>
        /\ Done("waiting")

(* fileDeleteIfMatch may have deleted the file when it reports an error.   *)
Delete == /\ at = "prepared"
          /\ app
          /\ IF Legible /\ Listed
             THEN /\ UNCHANGED <<inv, stage, backup, alias, journals>>
                  /\ \/ /\ app' = FALSE
                        /\ deletes' = [deletes EXCEPT ![req] = @ + 1]
                        /\ UNCHANGED <<other, installs, edits, faults>>
                        /\ Goto("deleted")
                     \/ app' = app /\ Fail
                     \/ /\ app' = FALSE
                        /\ Fault
                        /\ deletes' = [deletes EXCEPT ![req] = @ + 1]
                        /\ UNCHANGED <<other, installs, edits>>
                        /\ outcome' = "failed"
                        /\ lease' = Nobody /\ at' = "none"
                        /\ pc' = [pc EXCEPT ![lease] = "idle"]
                        /\ UNCHANGED <<want, rec, asked>>
             ELSE UNCHANGED <<files, journals, history>> /\ Refuse

AlreadyGone == /\ at = "prepared"
               /\ ~app
               /\ UNCHANGED <<files, journals, history>>
               /\ Goto("deleted")

Deleted == /\ at = "deleted"
           /\ Persist([rec EXCEPT !.phase = "payload_removed"], "inventory")

-----------------------------------------------------------------------------
(* removeInventory.  The new inventory is the current one without the      *)
(* application; before it is written both digests go on record.            *)
Recorded == rec.after # Absent

\* A slip: the replacement may already have happened.
InventoryKnownBefore == ~Recorded \/ inv = rec.before

InventoryKnown == ~Recorded \/ inv \in {rec.before, rec.after}

Inventories ==
    /\ at = "inventory"
    /\ CASE app \/ ~Legible \/ ~InventoryKnown ->
              UNCHANGED <<files, journals, history>> /\ Refuse
         [] OTHER ->
              \/ /\ Recorded /\ inv = rec.after
                 /\ UNCHANGED <<files, journals, history>> /\ Goto("replaced")
              \/ /\ ~(Recorded /\ inv = rec.after) /\ "app" \notin inv
                 /\ UNCHANGED <<files, journals, history>> /\ Goto("inventoryDone")
              \/ /\ ~(Recorded /\ inv = rec.after) /\ "app" \in inv /\ Recorded
                 /\ UNCHANGED <<files, journals, history>> /\ Goto("stage")
              \/ /\ ~Recorded /\ "app" \in inv
                 /\ IF stage # Absent \/ backup # Absent
                    THEN UNCHANGED <<files, journals, history>> /\ Refuse
                    ELSE Persist([rec EXCEPT !.before = inv, !.after = inv \ {"app"}], "stage")

\* A slip: a stage that exists is taken for the new inventory.
StagingUnmatched ==
    /\ at = "stage"
    /\ UNCHANGED <<app, inv, backup, alias, journals>>
    /\ \/ /\ stage = Absent
          /\ \/ stage' = inv \ {"app"} /\ Goto("replace") /\ UNCHANGED history
             \/ stage' \in {Absent, Torn, inv \ {"app"}} /\ Fail
       \/ /\ stage # Absent
          /\ UNCHANGED <<stage, history>> /\ Goto("replace")

Staging ==
    /\ at = "stage"
    /\ UNCHANGED <<app, inv, backup, alias, journals>>
    /\ \/ /\ stage = Absent
          /\ \/ stage' = inv \ {"app"} /\ Goto("replace") /\ UNCHANGED history
             \/ stage' \in {Absent, Torn, inv \ {"app"}} /\ Fail
       \/ /\ stage = inv \ {"app"} /\ alias # "stage"
          /\ UNCHANGED <<stage, history>> /\ Goto("replace")
       \/ /\ stage \notin {Absent, inv \ {"app"}} \/ alias = "stage"
          /\ UNCHANGED <<stage, history>> /\ Refuse

(* fileReplaceAtomic: the old inventory takes the backup's name, then the  *)
(* stage the inventory's, each by way of a moment at which its record has  *)
(* both names and one of them as its own.  It completes what an earlier    *)
(* call left of the first move, since it looks names up without minding    *)
(* whose they are; a backup of another record is a conflict.               *)
Named(i, s, b, a) == inv' = i /\ stage' = s /\ backup' = b /\ alias' = a

FirstMove == \/ backup = Absent /\ Named(inv, stage, Absent, "inv")
             \/ \E a \in {"inv", "backup"} : Named(inv, stage, inv, a)
SecondMove == \/ \E a \in {"none", "stage"} : Named(Absent, stage, inv, a)
              \/ \E a \in {"inv", "stage"} : Named(stage, stage, inv, a)

Replaceable == backup = Absent \/ alias = "backup"

(* Its answer is not read, only the inventory: it may be the new one, the  *)
(* stage still being its second name.                                      *)
Replace ==
    /\ at = "replace"
    /\ UNCHANGED <<app, journals>>
    /\ \/ /\ Replaceable
          /\ Named(stage, Absent, inv, "none")
          /\ UNCHANGED history
          /\ Goto("replaced")
       \/ /\ Replaceable
          /\ Named(stage, stage, inv, "stage")
          /\ Fault /\ UNCHANGED <<deletes, other, installs, edits>>
          /\ Goto("replaced")
       \/ /\ Replaceable
          /\ FirstMove \/ SecondMove \/ Named(stage, Absent, inv, "none")
          /\ Fail
       \/ UNCHANGED <<inv, stage, backup, alias>> /\ Fail
       \/ /\ ~Replaceable
          /\ UNCHANGED <<inv, stage, backup, alias, history>> /\ Refuse

(* cleanup of backup and then stage, each only if it has the recorded      *)
(* content.                                                                *)
BackupConflict == backup \notin {Absent, rec.before} \/ alias \in {"backup", "stray"}
StageConflict == stage \notin {Absent, rec.after} \/ alias = "stage"

Replaced ==
    /\ at = "replaced"
    /\ UNCHANGED <<app, inv, alias, journals>>
    /\ \/ /\ BackupConflict \/ StageConflict
          /\ backup' = (IF BackupConflict THEN backup ELSE Absent)
          /\ UNCHANGED <<stage, history>>
          /\ Refuse
       \/ /\ ~BackupConflict /\ ~StageConflict
          /\ backup' = Absent /\ stage' = Absent
          /\ UNCHANGED history
          /\ Goto("inventoryDone")
       \/ /\ ~BackupConflict
          /\ backup' \in {backup, Absent}
          /\ UNCHANGED stage
          /\ Fail

InventoryDone == /\ at = "inventoryDone"
                 /\ Persist([rec EXCEPT !.phase = "inventory_removed"], "finish")

Finish == /\ at = "finish"
          /\ IF GoneEverywhere
             THEN PersistLast([rec EXCEPT !.phase = "completed"], "removed")
             ELSE UNCHANGED <<files, journals, history>> /\ Refuse

-----------------------------------------------------------------------------
(* A process is killed; a crash of the machine kills all of them.          *)
Stop == /\ Fault
        /\ \E killed \in SUBSET Procs :
              /\ killed # {}
              /\ pc' = [p \in Procs |-> IF p \in killed THEN "idle" ELSE pc[p]]
              /\ IF lease \in killed
                 THEN /\ lease' = Nobody /\ at' = "none"
                      /\ outcome' = "failed"
                 ELSE UNCHANGED <<lease, at, outcome>>
        /\ UNCHANGED <<files, journals, want, rec, asked, deletes, other, installs, edits>>

(* An older administrator changes another entry, under the lease; its new  *)
(* inventory is another record.                                            *)
Edit == /\ lease = Nobody /\ Legible
        /\ edits < MaxEdits /\ edits' = edits + 1
        /\ other' = ~other
        /\ inv' = IF other THEN inv \ {"other"} ELSE inv \cup {"other"}
        /\ alias' = IF alias = "backup" THEN "stray" ELSE alias
        /\ UNCHANGED <<app, stage, backup, journals, command, deletes, installs, faults>>

Removal == \/ RemoveRecheck \/ Execute \/ Archive \/ Admit \/ Cancel \/ Wait \/ Delete
           \/ AlreadyGone \/ Deleted \/ Inventories \/ Staging \/ Replace \/ Replaced
           \/ InventoryDone \/ Finish

Update == UpdateRecheck \/ UpdateRun \/ UpdateInstall \/ UpdateList \/ UpdateEnd \/ UpdateGivesUp

Next == \/ \E p \in Procs, r \in Requests : RemoveCheck(p, r)
        \/ \E p \in Procs : RemoveLease(p) \/ UpdateSee(p) \/ UpdateCheck(p) \/ UpdateLease(p)
        \/ Removal \/ Update \/ Stop \/ Edit

Spec == Init /\ [][Next]_vars

-----------------------------------------------------------------------------
(* Properties.                                                             *)

(* A removal waits, possibly for days, without the lease; an update that   *)
(* began before it must not go on then, and none may begin.  The record is *)
(* read before and under the lease, and so are the update's journals.      *)
NeverBothPending == ~(Pending /\ update = "open")

(* "A durable original request and the native compare/delete gate settle   *)
(* an ambiguous reply": repeated in any way, a request deletes at most one *)
(* installation, and never the one that came after it.                     *)
DeletesOnce == \A r \in Requests :
                  /\ deletes[r] <= 1
                  /\ "cancelled" \in Settled(r) => deletes[r] = 0

(* A file without its inventory entry is an update's doing, and its        *)
(* journal is open; an entry without its file is a removal's, and its      *)
(* record is pending and readable.  So one of the two always finishes it.  *)
GapOnRecord == /\ app /\ Unlisted => update = "open"
               /\ ~app /\ Listed => Pending

(* "Preserve every other current component, including changes made by an   *)
(* older administrator between a crash and this explicit resume."          *)
OthersKept == /\ inv # Absent => inv \in Inventory /\ (("other" \in inv) <=> other)
              /\ inv = Absent => /\ backup # Absent /\ stage # Absent /\ stage # Torn
                                 /\ stage = backup \ {"app"}
                                 /\ (("other" \in backup) <=> other)

(* A pending removal that nobody disturbed is refused only when its stage  *)
(* is torn, MODULES.JSON is missing, or a replacement that stopped left    *)
(* the inventory or the stage as a second name.  A backup that is a second *)
(* name is no reason: the replacement goes on from there.                  *)
RefusedOnlyWhen ==
    outcome = "refused" /\ Pending /\ asked = Newest.req /\ edits = 0 =>
        stage = Torn \/ inv = Absent \/ alias \in {"inv", "stage"}

(* What the test in RemovalOwners.zig says of a repetition after an        *)
(* ambiguous deletion.                                                     *)
SettlesInventory ==
    outcome = "refused" /\ Pending /\ asked = Newest.req => edits > 0
=============================================================================
