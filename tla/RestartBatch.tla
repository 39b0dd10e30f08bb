---------------------------- MODULE RestartBatch ----------------------------
(***************************************************************************)
(* Restart batches: STAGE, COMMIT, RESUME-BATCH, ROLLBACK-LAST and         *)
(* ABORT-BATCH (system_update_engine.zig, system_update_batch.zig,         *)
(* system_update_recovery.zig).                                            *)
(*                                                                         *)
(* A batch is a list of packages collected one STAGE at a time.  Its       *)
(* record, with the batch's phase, is kept in two slots.  COMMIT binds all *)
(* packages into one transaction with a journal of its own; boot recovery  *)
(* knows only that journal.  After the restart RESUME-BATCH verifies the   *)
(* running kernel, binds the release marker as the last payload, and gives *)
(* the batch its verdict.  The two journals move one after the other, and  *)
(* a crash can fall between any two writes.                                *)
(*                                                                         *)
(* The transaction's own journal is one cell here (UpdateJournal shows     *)
(* that its two slots behave as one).  MODULES.JSON is a payload like any  *)
(* other.  The order among the packages is left open, that of the marker   *)
(* is not.                                                                 *)
(***************************************************************************)
EXTENDS Naturals, FiniteSets

CONSTANTS Procs,      \* processes that run SYSUPD
          Pkgs,       \* restart packages of one release
          Kernel,     \* the package with the kernel
          Ver,        \* the payload RELEASE_VERSION
          Recovery,   \* the boot adapter, as holder of the update
          Nobody, Absent, Torn,
          MaxFaults   \* bound: failed writes, conflicts, kills and resets

Preparing == {"staged", "verifying", "staging"}
phaseTerminal == {"installed", "rolled_back"}
Phases == Preparing \cup phaseTerminal
             \cup {"committing", "pending_restart", "failed", "rolling_back"}

\* A batch record.  `id' stands for batch_generation, as far as it tells a
\* batch from the one whose transaction is on the disk.  `source' tells
\* whether the source release is the one after the update.
Record == [phase : Phases, pkgs : SUBSET Pkgs, source : BOOLEAN, id : {0, 1}]

\* A transaction.  `changed' are the payloads with replace_required, `done'
\* those with committed, `marked' tells that the release marker is bound.
\* `id' is history: the batch it was made for.  A transaction of a single
\* package has no packages here.
Transaction == [batch : BOOLEAN,
                phase : {"stage", "commit", "post_boot", "applied", "cleanup",
                         "rollback", "rolled_back"},
                pkgs : SUBSET Pkgs, source : BOOLEAN, marked : BOOLEAN,
                changed : SUBSET (Pkgs \cup {Ver}), done : SUBSET (Pkgs \cup {Ver}),
                id : {0, 1}]

ASSUME BatchAssumption ==
    /\ Kernel \in Pkgs /\ Ver \notin Pkgs
    /\ Nobody \notin Procs /\ Recovery \notin Procs /\ Nobody # Recovery
    /\ Absent \notin Record /\ Torn \notin Record /\ Absent # Torn
    /\ MaxFaults \in Nat

VARIABLES slot, newest,   \* BATCH0.JRN and BATCH1.JRN, the newest valid one
          txn,            \* newest transaction journal
          installed,      \* payloads whose target has the new content
          active,         \* the running kernel is the new one
          lease,          \* holder of SYSLOCK
          at,             \* what the holder does next
          pc, seen,       \* commands without the lease, COMMIT's snapshot
          faults

batch == <<slot, newest>>
procs == <<lease, at, pc, seen>>
vars == <<batch, txn, installed, active, procs, faults>>

Labels == {"none", "stage", "recheck", "plan", "progress", "bind", "restore",
           "committing", "forward", "pending", "reboot",
           "undoing", "undo", "verdict", "failed",
           "dispatch", "restage", "finalize", "mark", "markForward", "applied", "cleanup",
           "installed", "check", "intent", "decide", "abort", "abortRest",
           "single", "bootForward", "bootUndo", "bootCleanup"}

Newest == slot[newest]
Readable == Newest \in Record
Blocked == ~Readable /\ \E i \in {0, 1} : slot[i] = Torn
Ended == Readable => Newest.phase \in phaseTerminal
Open(t) == t.phase \notin {"cleanup", "rolled_back"}
Release == Ver \in installed
Payloads(t) == t.pkgs \cup (IF t.marked THEN {Ver} ELSE {})
lastGoodBatchMatches == txn.pkgs = Newest.pkgs /\ txn.source = Newest.source

\* A finished transaction of a single package, no batch.
Init == /\ slot = [i \in {0, 1} |-> Absent] /\ newest = 0
        /\ txn = [batch |-> FALSE, phase |-> "cleanup", pkgs |-> {}, source |-> FALSE,
                  marked |-> FALSE, changed |-> {}, done |-> {}, id |-> 0]
        /\ installed = {} /\ active = FALSE
        /\ lease = Nobody /\ at = "none" /\ faults = 0
        /\ pc = [p \in Procs |-> "idle"]
        /\ seen = [p \in Procs |-> Absent]

Fault == faults < MaxFaults /\ faults' = faults + 1

\* The holder goes on at label l, or drops the lease and ends, or drops it
\* and continues as COMMIT.
After(l) == IF l = "none" THEN "idle" ELSE "again"
Goto(l) == IF l \in {"none", "again"}
           THEN /\ lease' = Nobody /\ at' = "none"
                /\ pc' = [p \in Procs |-> IF p = lease THEN After(l) ELSE pc[p]]
                /\ seen' = [p \in Procs |-> IF p = lease THEN Absent ELSE seen[p]]
           ELSE at' = l /\ UNCHANGED <<lease, pc, seen>>

-----------------------------------------------------------------------------
(* The two journals.                                                       *)

Spare == IF Readable THEN 1 - newest ELSE 0
Put(r) == slot' = [slot EXCEPT ![Spare] = r] /\ newest' = Spare
Tear == slot' = [slot EXCEPT ![Spare] = Torn] /\ UNCHANGED newest

\* A record is written, and what follows when the write is acknowledged, or
\* when it is not: then the old record, the new one, or neither is there.
writeInactiveBatchJournal(r, next, failed) ==
    /\ ~Blocked
    /\ \/ Put(r) /\ Goto(next) /\ UNCHANGED faults
       \/ (Put(r) \/ Tear \/ UNCHANGED batch) /\ Goto(failed) /\ Fault
    /\ UNCHANGED <<txn, installed, active>>

WritePhase(ph, next, failed) ==
    writeInactiveBatchJournal([Newest EXCEPT !.phase = ph], next, failed)

\* The same for the transaction's journal.
persist(t, next, failed) ==
    /\ \/ txn' = t /\ Goto(next) /\ UNCHANGED faults
       \/ txn' \in {t, txn} /\ Goto(failed) /\ Fault
    /\ UNCHANGED <<batch, installed, active>>

Stay == UNCHANGED <<batch, txn, installed, active, faults>>
Turn(l) == Goto(l) /\ Stay

\* What the holder's command does once it holds the lease.
Acquire(p, l) == /\ pc[p] = "idle" /\ lease = Nobody
                 /\ lease' = p /\ at' = l /\ pc' = [pc EXCEPT ![p] = "holding"]
                 /\ UNCHANGED seen /\ Stay

-----------------------------------------------------------------------------
(* STAGE.  The transaction is looked at without the lease, and not again.  *)

BeginStage(p) == /\ pc[p] = "idle" /\ lease # Recovery /\ ~Open(txn)
                 /\ pc' = [pc EXCEPT ![p] = "stage"]
                 /\ UNCHANGED <<lease, at, seen>> /\ Stay

TakeLease(p) == /\ pc[p] \in {"stage", "commit"} /\ lease = Nobody
                /\ lease' = p /\ at' = IF pc[p] = "stage" THEN "stage" ELSE "recheck"
                /\ pc' = [pc EXCEPT ![p] = "holding"]
                /\ UNCHANGED seen /\ Stay

Collecting == IF Readable /\ Newest.phase \notin phaseTerminal
              THEN Newest
              ELSE [phase |-> "staged", pkgs |-> {}, source |-> Release, id |-> 1 - txn.id]

StageAdmits(k) == /\ ~Blocked /\ Collecting.phase = "staged"
                  /\ Collecting.source = Release /\ k \notin Collecting.pkgs

stageRestartPackage ==
    /\ at = "stage"
    /\ \E k \in Pkgs :
        \/ /\ StageAdmits(k)
           /\ writeInactiveBatchJournal([Collecting EXCEPT !.pkgs = @ \cup {k}], "none", "none")
        \/ ~StageAdmits(k) /\ Turn("none")

-----------------------------------------------------------------------------
(* COMMIT.  The packages are verified without the lease, from a snapshot.  *)

BeginCommit(p) ==
    /\ pc[p] \in {"idle", "again"} /\ lease # Recovery
    /\ Readable /\ Newest.phase = "staged"
    /\ seen' = [seen EXCEPT ![p] = Newest]
    /\ pc' = [pc EXCEPT ![p] = "verified"]
    /\ UNCHANGED <<lease, at>> /\ Stay

LookCommit(p) == /\ pc[p] = "verified"
                 /\ IF Open(txn)
                    THEN /\ pc' = [pc EXCEPT ![p] = "idle"]
                         /\ seen' = [seen EXCEPT ![p] = Absent]
                    ELSE pc' = [pc EXCEPT ![p] = "commit"] /\ UNCHANGED seen
                 /\ UNCHANGED <<lease, at>> /\ Stay

\* RESUME-BATCH continued as COMMIT, but the batch is no longer staged.
GiveUp(p) == /\ pc[p] = "again" /\ ~(Readable /\ Newest.phase = "staged")
             /\ pc' = [pc EXCEPT ![p] = "idle"]
             /\ UNCHANGED <<lease, at, seen>> /\ Stay

\* A slip: only the phase is compared again under the lease.
SnapshotByPhase == Readable /\ Newest.phase = "staged"

sameBatchSnapshot == Readable /\ Newest = seen[lease]

commitBatchCommand ==
    /\ at = "recheck"
    /\ \/ sameBatchSnapshot /\ WritePhase("verifying", "plan", "none")
       \/ ~sameBatchSnapshot /\ Turn("none")

Plan == /\ at = "plan"
        /\ \/ ~Open(txn) /\ WritePhase("staging", "progress", "restore")
           \/ Open(txn) /\ Turn("restore")

\* All packages are read again and their payloads staged beside the targets.
Progress == /\ at = "progress"
            /\ \/ WritePhase("staging", "bind", "restore")
               \/ Goto("restore") /\ Fault /\ UNCHANGED <<batch, txn, installed, active>>

Bound == [batch |-> TRUE, phase |-> "stage", pkgs |-> Newest.pkgs, source |-> Newest.source,
          marked |-> FALSE, changed |-> Newest.pkgs \ installed, done |-> {}, id |-> Newest.id]

Bind == at = "bind" /\ persist(Bound, "committing", "restore")

restoreRetryableBatchPreparation ==
    at = "restore" /\ WritePhase("staged", "none", "none")

Committing == at = "committing" /\ WritePhase("committing", "forward", "none")
Pending == at = "pending" /\ WritePhase("pending_restart", "reboot", "none")

-----------------------------------------------------------------------------
(* resumeBatchForward and rollbackToTerminal, for COMMIT and RESUME-BATCH, *)
(* for the release marker and for boot recovery.                           *)

Forwarding == {"forward", "markForward", "bootForward"}
Undoing == {"undo", "bootUndo"}

ForwardEnd == CASE at = "forward" -> "pending" [] at = "markForward" -> "applied"
                [] OTHER -> "none"
UndoEnd == IF at = "undo" THEN "verdict" ELSE "none"
UndoFailed == IF at = "undo" THEN "failed" ELSE "none"

Enter == /\ at \in Forwarding /\ txn.phase = "stage"
         /\ persist([txn EXCEPT !.phase = "commit"], at, "none")

MayCommit(x) == x \in Payloads(txn) \ txn.done /\ (x = Ver => txn.pkgs \subseteq txn.done)

commitPayload == /\ at \in Forwarding /\ txn.phase = "commit"
                 /\ \E x \in Pkgs \cup {Ver} :
                     /\ MayCommit(x) /\ x \notin installed
                     /\ installed' = installed \cup {x}
                 /\ UNCHANGED <<batch, txn, active, procs, faults>>

Committed == /\ at \in Forwarding /\ txn.phase = "commit"
             /\ \E x \in installed :
                 MayCommit(x) /\ persist([txn EXCEPT !.done = @ \cup {x}], at, "none")

PostBoot == /\ at \in Forwarding /\ txn.phase = "commit" /\ txn.done = Payloads(txn)
            /\ persist([txn EXCEPT !.phase = "post_boot"], ForwardEnd, "none")

\* A target or a stage has neither the old nor the new content.
Conflict == /\ at \in Forwarding /\ txn.phase = "commit"
            /\ \/ Goto(IF at = "forward" THEN "undoing" ELSE "none")
               \/ at = "bootForward" /\ Goto("bootUndo")
            /\ Fault /\ UNCHANGED <<batch, txn, installed, active>>

StartUndo == /\ at \in Undoing /\ txn.phase # "rollback"
             /\ persist([txn EXCEPT !.phase = "rollback"], at, UndoFailed)

\* A slip: the payloads are restored in any order.
rollbackAny == /\ at \in Undoing /\ txn.phase = "rollback"
               /\ \E x \in txn.changed \cap installed : installed' = installed \ {x}
               /\ UNCHANGED <<batch, txn, active, procs, faults>>

\* Payloads are restored in reverse order: the marker first.
rollbackPayload == /\ at \in Undoing /\ txn.phase = "rollback"
                   /\ \E x \in txn.changed \cap installed :
                       /\ x = Ver \/ Ver \notin txn.done \cup (txn.changed \cap installed)
                       /\ installed' = installed \ {x}
                   /\ UNCHANGED <<batch, txn, active, procs, faults>>

Undone == /\ at \in Undoing /\ txn.phase = "rollback"
          /\ \E x \in txn.done \ (txn.changed \cap installed) :
              /\ x = Ver \/ Ver \notin txn.done
              /\ persist([txn EXCEPT !.done = @ \ {x}], at, UndoFailed)

RolledBack == /\ at \in Undoing /\ txn.phase = "rollback"
              /\ txn.done = {} /\ txn.changed \cap installed = {}
              /\ persist([txn EXCEPT !.phase = "rolled_back"], UndoEnd, UndoFailed)

UndoConflict == /\ at \in Undoing /\ txn.phase = "rollback"
                /\ Goto(UndoFailed) /\ Fault
                /\ UNCHANGED <<batch, txn, installed, active>>

\* The three records of a rollback are written without looking at the result.
StartRollback == at = "undoing" /\ WritePhase("rolling_back", "undo", "undo")
Verdict == at = "verdict" /\ WritePhase("rolled_back", "none", "none")
Failed == at = "failed" /\ WritePhase("failed", "none", "none")

-----------------------------------------------------------------------------
(* RESUME-BATCH.                                                           *)

Resume(p) == Readable /\ Newest.phase \notin phaseTerminal /\ Acquire(p, "dispatch")

\* Slips: an applied transaction is taken for a cleaned up one; a cleaned up
\* one is not expected here.
ResumeSkipsCleanup == CASE txn.phase \in {"stage", "commit"} -> "committing"
                        [] txn.phase = "post_boot" -> "finalize"
                        [] txn.phase = "rolled_back" -> "verdict"
                        [] txn.phase \in {"applied", "cleanup"} -> "installed"
                        [] OTHER -> "none"
ResumeNotAfterCleanup == CASE txn.phase \in {"stage", "commit"} -> "committing"
                           [] txn.phase = "post_boot" -> "finalize"
                           [] txn.phase = "applied" -> "cleanup"
                           [] txn.phase = "rolled_back" -> "verdict"
                           [] OTHER -> "none"

ResumeAt == CASE txn.phase \in {"stage", "commit"} -> "committing"
              [] txn.phase = "post_boot" -> "finalize"
              [] txn.phase = "applied" -> "cleanup"
              [] txn.phase = "rolled_back" -> "verdict"
              [] txn.phase = "cleanup" -> "installed"
              [] OTHER -> "none"

\* A slip: a preparing batch is not told from one that is under way.
resumeAnyBatch == at = "dispatch"
                  /\ Turn(IF txn.batch /\ lastGoodBatchMatches THEN ResumeAt ELSE "none")

\* A batch that is still preparing has no transaction of its own, unless the
\* newest one is open.
resumeBatchCommand ==
    /\ at = "dispatch"
    /\ Turn(IF Newest.phase \in Preparing /\ ~Open(txn) THEN "restage"
            ELSE IF txn.batch /\ lastGoodBatchMatches THEN ResumeAt ELSE "none")

Restage == at = "restage" /\ WritePhase("staged", "again", "none")

\* A slip: the running kernel is not looked at.
PostBootByFiles == /\ Payloads(txn) \subseteq installed
                   /\ IF txn.marked THEN Release ELSE Release = Newest.source

PostBootVerified == /\ Payloads(txn) \subseteq installed
                    /\ Kernel \in txn.pkgs => active
                    /\ IF txn.marked THEN Release ELSE Release = Newest.source

finalizeBatchPostBoot ==
    /\ at = "finalize"
    /\ Turn(IF ~PostBootVerified THEN "none" ELSE IF txn.marked THEN "applied" ELSE "mark")

\* The release marker becomes the last payload.
Mark == /\ at = "mark"
        /\ persist([txn EXCEPT !.phase = "commit", !.marked = TRUE,
                               !.changed = @ \cup ({Ver} \ installed)], "markForward", "none")

Applied == at = "applied" /\ persist([txn EXCEPT !.phase = "applied"], "cleanup", "none")

cleanupTransaction ==
    /\ at \in {"cleanup", "bootCleanup"}
    /\ persist([txn EXCEPT !.phase = "cleanup"],
               IF at = "cleanup" THEN "installed" ELSE "none", "none")

Install == at = "installed" /\ WritePhase("installed", "none", "none")

-----------------------------------------------------------------------------
(* ROLLBACK-LAST, ABORT-BATCH, and updates of a single package.            *)

RollbackAllowed ==
    /\ txn.phase \in {"post_boot", "applied", "cleanup"}
    /\ IF txn.batch
       THEN /\ Readable /\ Newest.phase \in {"installed", "pending_restart", "rolling_back"}
            /\ lastGoodBatchMatches
            /\ txn.changed # {} /\ Payloads(txn) \subseteq installed
       ELSE ~Blocked /\ Ended

RollbackLast(p) == Acquire(p, "check")
rollbackLastCommand ==
    /\ at = "check"
    /\ Turn(IF ~RollbackAllowed THEN "none" ELSE IF txn.batch THEN "intent" ELSE "decide")
Intent == at = "intent" /\ WritePhase("rolling_back", "decide", "none")
Decide == at = "decide" /\ persist([txn EXCEPT !.phase = "rollback"], "reboot", "none")

AbortBatch(p) == Readable /\ Newest.phase \in Preparing /\ Acquire(p, "abort")

\* A slip: the transaction is not read again under the lease.
AbortableByPhase == Readable /\ Newest.phase \in Preparing

batchPreparationAbortable == Readable /\ Newest.phase \in Preparing /\ ~Open(txn)

Delete(i, next) == /\ \/ Goto(next) /\ UNCHANGED faults
                      \/ Goto("none") /\ Fault
                   /\ slot' = [slot EXCEPT ![i] = Absent] /\ newest' = 1 - i
                   /\ UNCHANGED <<txn, installed, active>>

abortPreparedBatchCommand == /\ at = "abort"
                             /\ IF batchPreparationAbortable THEN Delete(0, "abortRest")
                                ELSE Turn("none")
AbortRest == at = "abortRest" /\ Delete(1, "none")

Single == [txn EXCEPT !.batch = FALSE, !.phase = "stage", !.pkgs = {}, !.source = FALSE,
                      !.marked = FALSE, !.changed = {}, !.done = {}]

\* A slip: a batch that waits is not looked at.
ApplyBesideBatch == ~Open(txn)

ApplyAllowed == ~Open(txn) /\ ~Blocked /\ Ended

\* APPLY; its transaction is open from here on.
applyCommand(p) == /\ pc[p] = "idle" /\ lease = Nobody /\ ApplyAllowed
                   /\ txn' = Single
                   /\ lease' = p /\ at' = "single" /\ pc' = [pc EXCEPT ![p] = "holding"]
                   /\ UNCHANGED <<batch, installed, active, seen, faults>>

resumeTransaction(p) == ~txn.batch /\ Open(txn) /\ Acquire(p, "single")

EndSingle == /\ at = "single"
             /\ \E ph \in {"cleanup", "rolled_back"} :
                 /\ txn.phase = "rollback" => ph = "rolled_back"
                 /\ persist([txn EXCEPT !.phase = ph], "none", "none")

-----------------------------------------------------------------------------
(* A killed process, a reset.                                              *)

Kill(p) == /\ pc[p] # "idle" /\ Fault
           /\ pc' = [pc EXCEPT ![p] = "idle"] /\ seen' = [seen EXCEPT ![p] = Absent]
           /\ IF lease = p THEN lease' = Nobody /\ at' = "none" ELSE UNCHANGED <<lease, at>>
           /\ UNCHANGED <<batch, txn, installed, active>>

BootAt == CASE ~txn.batch /\ Open(txn) -> "single"
            [] txn.batch /\ txn.phase \in {"stage", "commit"} -> "bootForward"
            [] txn.batch /\ txn.phase = "rollback" -> "bootUndo"
            [] txn.batch /\ txn.phase = "applied" -> "bootCleanup"
            [] OTHER -> "none"

\* What only the next start carries on with.
Awaited == txn.batch /\ txn.phase \in {"post_boot", "rollback"}
Quiet == at = "reboot" \/ (lease = Nobody /\ (Awaited \/ \A p \in Procs : pc[p] = "idle"))

\* The kernel that is installed starts, and recovers before anything runs.
\* A start that is not waited for and cuts a command short is a reset, and
\* counts as a fault; so does one that takes the lease away.
Boot == /\ IF Quiet THEN UNCHANGED faults ELSE Fault
        /\ active' = (Kernel \in installed)
        /\ at' = BootAt /\ lease' = IF BootAt = "none" THEN Nobody ELSE Recovery
        /\ pc' = [p \in Procs |-> "idle"] /\ seen' = [p \in Procs |-> Absent]
        /\ UNCHANGED <<batch, txn, installed>>

-----------------------------------------------------------------------------

Begin(p) == \/ BeginStage(p) \/ BeginCommit(p) \/ LookCommit(p) \/ GiveUp(p) \/ TakeLease(p)
            \/ Resume(p) \/ RollbackLast(p) \/ AbortBatch(p)
            \/ applyCommand(p) \/ resumeTransaction(p)

CommitStep == \/ stageRestartPackage \/ commitBatchCommand \/ Plan \/ Progress \/ Bind
              \/ restoreRetryableBatchPreparation \/ Committing \/ Pending
Replay == \/ Enter \/ commitPayload \/ Committed \/ PostBoot \/ Conflict
          \/ StartUndo \/ rollbackPayload \/ Undone \/ RolledBack \/ UndoConflict
          \/ StartRollback \/ Verdict \/ Failed
ResumeStep == \/ resumeBatchCommand \/ Restage \/ finalizeBatchPostBoot \/ Mark \/ Applied
              \/ cleanupTransaction \/ Install
OtherStep == \/ rollbackLastCommand \/ Intent \/ Decide
             \/ abortPreparedBatchCommand \/ AbortRest \/ EndSingle

\* What the holder of the lease does.
Step == CommitStep \/ Replay \/ ResumeStep \/ OtherStep

Next == Step \/ Boot \/ \E p \in Procs : Begin(p) \/ Kill(p)

Spec == Init /\ [][Next]_vars

\* Every holder's command runs on; RESUME and RESUME-BATCH are repeated until they
\* get through, and so is the COMMIT the latter turns into; the machine is started
\* again now and then.
Repeats(p) == /\ SF_vars(Resume(p)) /\ SF_vars(resumeTransaction(p))
              /\ WF_vars((pc[p] = "again" /\ BeginCommit(p)) \/ LookCommit(p) \/ GiveUp(p))
              /\ SF_vars(TakeLease(p))
Fairness == WF_vars(Step) /\ SF_vars(Boot) /\ \A p \in Procs : Repeats(p)
LiveSpec == Spec /\ Fairness

-----------------------------------------------------------------------------
(* Properties.                                                             *)

TypeOK ==
    /\ slot \in [{0, 1} -> Record \cup {Absent, Torn}] /\ newest \in {0, 1}
    /\ txn \in Transaction
    /\ installed \subseteq Pkgs \cup {Ver} /\ active \in BOOLEAN
    /\ lease \in Procs \cup {Nobody, Recovery} /\ at \in Labels
    /\ pc \in [Procs -> {"idle", "stage", "verified", "commit", "again", "holding"}]
    /\ seen \in [Procs -> Record \cup {Absent}]
    /\ faults \in 0 .. MaxFaults

Underway == {"committing", "pending_restart", "rolling_back", "failed"}

\* A batch that claims to be on its way has a transaction of its own on the
\* disk, for exactly its packages: RESUME-BATCH will find what it needs.
OwnTransaction ==
    Readable /\ Newest.phase \in Underway
        => txn.batch /\ txn.id = Newest.id /\ lastGoodBatchMatches

\* An open batch transaction always has a readable batch without a verdict,
\* its own one: without it RESUME-BATCH could never finish it, and RESUME
\* refuses it.
OpenHasBatch ==
    txn.batch /\ Open(txn)
        => Readable /\ Newest.phase \notin phaseTerminal /\ txn.id = Newest.id

\* The verdict of a batch agrees with its transaction and with the files.
VerdictTrue ==
    Readable /\ txn.batch /\ txn.id = Newest.id =>
        /\ Newest.phase = "installed" =>
               txn.phase = "cleanup" /\ Newest.pkgs \cup {Ver} \subseteq installed
        /\ Newest.phase = "rolled_back" =>
               txn.phase = "rolled_back" /\ txn.changed \cap installed = {}

\* The release marker names the new release only while all packages of the
\* batch that brought it are in place, in recovery as well.
MarkerLast == Ver \in txn.changed \cap installed => txn.pkgs \subseteq installed

\* The marker is written only when the new kernel runs, if the batch has one.
MarkerAfterBoot == [][(Ver \in installed' \ installed) /\ Kernel \in txn.pkgs => active]_vars

\* What COMMIT binds is what it verified before it had the lease.
CommitsVerified ==
    [][txn'.batch /\ txn'.phase = "stage" /\ txn' # txn => seen[lease] \in Record
                                                  /\ txn'.pkgs = seen[lease].pkgs]_vars

\* A verdict is only written for a batch whose own transaction ended: an
\* earlier one, even of the same packages, certifies nothing.
NoBorrowedVerdict ==
    [][\A i \in {0, 1} : slot'[i] # slot[i] /\ slot'[i] \in Record
           => (slot'[i].phase \in phaseTerminal => txn.batch /\ txn.id = slot'[i].id)]_vars

\* One transaction spans the whole batch (system_update_recovery.zig:198).
SpansBatch == txn.batch /\ Open(txn) /\ Readable => txn.pkgs = Newest.pkgs

\* A preparatory batch has not bound its own transaction yet
\* (system_update_engine.zig:2657): it is not installed already when
\* RESUME-BATCH sends it to COMMIT again.
PreparingUnbound ==
    at = "restage" => ~(txn.batch /\ txn.id = Newest.id /\ txn.phase = "cleanup")

\* A batch does not stay without a verdict, with two exceptions: a batch that
\* was bound a second time after its own marker was written (see
\* PreparingUnbound), and one that a STAGE enlarged beside its open
\* transaction (see SpansBatch), which every command then refuses.
BoundAgain == txn.batch /\ txn.phase = "post_boot" /\ ~txn.marked /\ Release # txn.source
Outgrown == txn.batch /\ Open(txn) /\ Readable /\ txn.pkgs # Newest.pkgs
Unfinished == Readable /\ Newest.phase \notin phaseTerminal
BatchEnds == Unfinished ~> ~Unfinished \/ BoundAgain \/ Outgrown
=============================================================================
