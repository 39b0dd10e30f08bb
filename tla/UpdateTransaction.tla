-------------------------- MODULE UpdateTransaction --------------------------
(***************************************************************************)
(* The live update transaction: SYSUPD APPLY, RESUME and ROLLBACK-LAST of  *)
(* system_update_engine.zig over the replay core that boot recovery shares *)
(* (system_update_recovery.zig).                                           *)
(*                                                                         *)
(* A command drives a journal through                                      *)
(*                                                                         *)
(*   prepare - stage - commit - verify - inventory - applied - cleanup     *)
(*                   \________ rollback _______/ - rolled_back             *)
(*                                                                         *)
(* and touches the disk one operation at a time.  Any operation may fail,  *)
(* with or without having taken effect, and the machine may stop between   *)
(* any two.  Commands exclude each other by the update lease and the       *)
(* journal is an atomic cell (both shown in UpdateJournal), so one command *)
(* runs at a time and a journal write either happens or does not.          *)
(*                                                                         *)
(* Index 1 .. N are the target paths, of which every package names some,   *)
(* Inv is MODULES.JSON, appended by the inventory phase.  The payloads of  *)
(* a package are in the order of their paths.  A file is reduced to which  *)
(* content it has, which is what size and checksum tell the code.          *)
(***************************************************************************)
EXTENDS Naturals

CONSTANTS N,            \* paths that packages install
          Content,      \* contents of package files
          Absent,       \* no such file
          Foreign,      \* bytes that no package contains, or half a file
          MaxTxn,       \* bound: transactions
          MaxCrashes,   \* bound: power failures and killed commands
          MaxEdits,     \* bound: local changes behind the updater's back
          MaxFaults,    \* bound: both together
          TornStage     \* a crash can leave half a stage file

ASSUME TxnAssumption == /\ N \in Nat \ {0}
                        /\ MaxTxn \in Nat \ {0}
                        /\ MaxCrashes \in Nat /\ MaxEdits \in Nat /\ MaxFaults \in Nat
                        /\ TornStage \in BOOLEAN
                        /\ Absent # Foreign
                        /\ {Absent, Foreign} \cap Content = {}

VARIABLES target,       \* installed files
          stage,        \* stage[g][i]:  S name of transaction g, payload i
          backup,       \* backup[g][i]: B name, the last-good copy
          newest,       \* newest valid journal on disk
          mem,          \* the running command's journal
          prior,        \* its terminal predecessor, kept by APPLY only
          pc, cursor,   \* where the command is, and at which payload
          touched,      \* history: payloads a local change ever hit
          late,         \* history: payloads hit since the last precheck
          crashes, edits

disk == <<target, stage, backup>>
history == <<touched, late, crashes, edits>>
vars == <<target, stage, backup, newest, mem, prior, pc, cursor, touched, late, crashes, edits>>

-----------------------------------------------------------------------------
Package == 1 .. N
Inv == N + 1
Index == 1 .. Inv
Txn == 1 .. MaxTxn

(* The inventory lists the version of every installed component.           *)
Versions == [Package -> Content \cup {Absent}]
File == Content \cup Versions \cup {Absent, Foreign}

(* Bytes that no package contains are no inventory either: what was not    *)
(* rendered by the updater does not parse as one.                          *)
ASSUME ForeignAssumption == Foreign \notin Versions

Entry == [old : File, new : File, committed : BOOLEAN, undone : BOOLEAN,
          prev : 0 .. MaxTxn, last : File]
NoEntry == [old |-> Absent, new |-> Absent, committed |-> FALSE, undone |-> FALSE,
            prev |-> 0, last |-> Absent]

Phases == {"prepare", "stage", "commit", "verify", "inventory", "applied", "cleanup",
           "rollback", "rolled_back"}
Journal == [txn : Txn, phase : Phases, named : SUBSET Package, count : {N, Inv},
            components : BOOLEAN, entries : [Index -> Entry]]
NoJournal == [txn |-> 0, phase |-> "rolled_back", named |-> {}, count |-> 0,
              components |-> FALSE, entries |-> [i \in Index |-> NoEntry]]

Steps == {"prepare", "stage", "staged", "commitStart", "commit", "commitRecord",
          "verifyStart", "verify", "inventory", "inventoryStart", "inventoryResume",
          "inventoryStage", "inventoryCommit", "inventoryRecord", "inventoryVerify",
          "applied", "precheck", "cleanup", "cleanupEnd", "rollbackStart", "rollback",
          "rollbackRecord", "rollbackEnd", "reverify", "lastGood"}

TypeOK == /\ target \in [Index -> File]
          /\ stage \in [Txn -> [Index -> File]]
          /\ backup \in [Txn -> [Index -> File]]
          /\ newest \in Journal \cup {NoJournal}
          /\ mem \in Journal \cup {NoJournal}
          /\ prior \in Journal \cup {NoJournal}
          /\ pc \in Steps \cup {"idle"}
          /\ cursor \in 0 .. Inv
          /\ touched \subseteq Index /\ late \subseteq Index
          /\ crashes \in 0 .. MaxCrashes
          /\ edits \in 0 .. MaxEdits

-----------------------------------------------------------------------------
phaseTerminal(phase) == phase \in {"cleanup", "rolled_back"}

Replaced(e) == e.old # e.new            \* replace_required
Existed(e) == e.old # Absent            \* target_existed, and then old_known

(* The payloads of the package, and the inventory once it is appended.     *)
Payloads(j) == {i \in 1 .. j.count : i \in j.named \cup {Inv}}
Committed(j) == {i \in Payloads(j) : j.entries[i].committed}
Undone(j) == {i \in Payloads(j) : j.entries[i].undone}

(* journalValid: what serializeJournal and every replay insist on.         *)
FlagsValid(j) ==
    \A i \in Payloads(j) :
       /\ ~(j.entries[i].committed /\ j.entries[i].undone)
       /\ \A k \in Payloads(j) :
             /\ k < i /\ j.entries[i].committed => j.entries[k].committed
             /\ i < k /\ j.entries[i].undone => j.entries[k].undone

PhaseValid(j) ==
    CASE j.phase \in {"prepare", "stage"} -> Committed(j) = {} /\ Undone(j) = {}
      [] j.phase = "commit" -> Undone(j) = {}
      [] j.phase = "verify" -> j.count = N /\ Committed(j) = Payloads(j) /\ Undone(j) = {}
      [] j.phase = "inventory" -> /\ j.count = Inv
                                  /\ j.named \subseteq Committed(j)
                                  /\ Undone(j) = {}
      [] j.phase \in {"applied", "cleanup"} -> Committed(j) = Payloads(j) /\ Undone(j) = {}
      [] j.phase = "rollback" -> TRUE
      [] j.phase = "rolled_back" -> Committed(j) = {} /\ Undone(j) = Payloads(j)

JournalValid(j) == j.txn # 0 /\ FlagsValid(j) /\ PhaseValid(j)

-----------------------------------------------------------------------------
(* The command ends and its memory with it.                                *)
Return == /\ pc' = "idle"
          /\ cursor' = 0
          /\ mem' = NoJournal
          /\ prior' = NoJournal

(* writeInactiveJournal as its caller sees it: on success the command goes *)
(* on to `next`; on failure it returns, and the record may be durable.     *)
Persist(j, next, at) ==
    /\ \/ /\ JournalValid(j)
          /\ newest' = j
          /\ pc' = next
          /\ cursor' = at
          /\ mem' = j
          /\ UNCHANGED prior
       \/ /\ newest' = newest \/ (JournalValid(j) /\ newest' = j)
          /\ Return
    /\ UNCHANGED <<disk, history>>

(* The last write of a command.                                            *)
PersistLast(j) ==
    /\ newest' = newest \/ (JournalValid(j) /\ newest' = j)
    /\ Return
    /\ UNCHANGED <<disk, history>>

Phase(j, phase) == [j EXCEPT !.phase = phase]
MarkInstalled(j, i) == [j EXCEPT !.entries[i].committed = TRUE]
MarkRestored(j, i) == [j EXCEPT !.entries[i].committed = FALSE, !.entries[i].undone = TRUE]

(* Go on without touching the disk.                                        *)
Goto(next, at) == /\ pc' = next
                  /\ cursor' = at
                  /\ UNCHANGED <<disk, newest, mem, prior, history>>

(* A read failed for good, or a conflict: the command returns and leaves   *)
(* the disk as it is.                                                      *)
GiveUp == /\ Return
          /\ UNCHANGED <<disk, newest, history>>

Current == mem.entries[cursor]
Target == target[cursor]
Stage == stage[mem.txn][cursor]
Backup == backup[mem.txn][cursor]

-----------------------------------------------------------------------------
(* Kernel primitives, one filesystem gate each: fileUpdateAtomicChecked in *)
(* both directions and fileUpdateCleanupChecked.  They act only on exactly *)
(* the objects the journal describes, and accept their own outcome again.  *)
(* `old` is Absent for a target that did not exist, and so is its backup.  *)
SetDisk(i, t, s, b) ==
    /\ target' = [target EXCEPT ![i] = t]
    /\ stage' = [stage EXCEPT ![mem.txn][i] = s]
    /\ backup' = [backup EXCEPT ![mem.txn][i] = b]

ForwardAccepts ==
    \/ Target = Current.old /\ Stage = Current.new /\ Backup = Absent
    \/ Target = Current.new /\ Stage \in {Absent, Current.new} /\ Backup = Current.old

(* A slip: the replacement is asked for without a backup name.             *)
ForwardUnkept == ForwardAccepts /\ SetDisk(cursor, Current.new, Absent, Absent)

Forward == ForwardAccepts /\ SetDisk(cursor, Current.new, Absent, Current.old)

RollbackAccepts ==
    /\ Stage \in {Absent, Current.new}
    /\ \/ Target = Current.new /\ Backup = Current.old
       \/ Target = Current.old /\ Backup = Absent
RollBack == RollbackAccepts /\ SetDisk(cursor, Current.old, Absent, Absent)

CleanupAccepts ==
    /\ Target = Current.new /\ Stage = Absent /\ Backup = Current.old
    /\ Current.prev # 0 => backup[Current.prev][cursor] \in {Absent, Current.last}
Rotate == /\ CleanupAccepts
          /\ backup' = IF Current.prev = 0 THEN backup
                       ELSE [backup EXCEPT ![Current.prev][cursor] = Absent]
          /\ UNCHANGED <<target, stage>>

-----------------------------------------------------------------------------
Init == /\ \E installed \in Versions :
              target = [i \in Index |-> IF i = Inv THEN installed ELSE installed[i]]
        /\ stage = [g \in Txn |-> [i \in Index |-> Absent]]
        /\ backup = [g \in Txn |-> [i \in Index |-> Absent]]
        /\ newest = NoJournal
        /\ mem = NoJournal /\ prior = NoJournal
        /\ pc = "idle" /\ cursor = 0
        /\ touched = {} /\ late = {}
        /\ crashes = 0 /\ edits = 0

(* A slip: the rolled-back predecessor is taken for a completed one.       *)
InheritAlways(e, i, previous) ==
    IF i \notin Payloads(previous) THEN e
    ELSE LET p == previous.entries[i]
         IN  IF Replaced(p) /\ Existed(p)
             THEN [e EXCEPT !.prev = previous.txn, !.last = p.old]
             ELSE [e EXCEPT !.prev = p.prev, !.last = p.last]

(* bindPreviousBackups: the last-good copy that entry i takes over from    *)
(* the terminal journal before it.  A replaced target left its own backup; *)
(* every other terminal shape passes on what it had inherited.             *)
Inherit(e, i, previous) ==
    IF ~phaseTerminal(previous.phase) \/ i \notin Payloads(previous) THEN e
    ELSE LET p == previous.entries[i]
         IN  IF previous.phase = "cleanup" /\ Replaced(p) /\ Existed(p)
             THEN [e EXCEPT !.prev = previous.txn, !.last = p.old]
             ELSE [e EXCEPT !.prev = p.prev, !.last = p.last]

NewEntry(i, old, new, previous) ==
    Inherit([NoEntry EXCEPT !.old = old, !.new = new], i, previous)

(* applyCommand up to its prepare journal: only from a terminal journal,   *)
(* with the fingerprint of every target of the package as it is now.       *)
Apply(named, new, components) ==
    /\ pc = "idle"
    /\ phaseTerminal(newest.phase)
    /\ newest.txn < MaxTxn
    /\ LET j == [txn |-> newest.txn + 1, phase |-> "prepare", named |-> named, count |-> N,
                 components |-> components,
                 entries |-> [i \in Index |-> IF i \notin named THEN NoEntry
                                              ELSE NewEntry(i, target[i], new[i], newest)]]
       IN  mem' = j
    /\ prior' = newest
    /\ pc' = "prepare"
    /\ cursor' = 0
    /\ UNCHANGED <<disk, newest, history>>

Prepare == pc = "prepare" /\ Persist(mem, "stage", 1)

(* The loops over the payloads pass over the paths that are none.          *)
Named == cursor \in Payloads(mem)

-----------------------------------------------------------------------------
(* streamPackagePayloads.  Staging never replaces an object it finds: the  *)
(* payload already installed or already staged is reused, anything else is *)
(* a conflict.                                                             *)
StageNext == IF cursor = N THEN <<"staged", 0>> ELSE <<"stage", cursor + 1>>

StageReuse == /\ pc = "stage" /\ Named
              /\ Target = Current.new \/ Stage = Current.new
              /\ Goto(StageNext[1], StageNext[2])

(* A slip: create the stage file over whatever is there.                   *)
StageWriteOver == /\ pc = "stage" /\ Named
                  /\ Target # Current.new /\ Stage # Current.new
                  /\ stage' = [stage EXCEPT ![mem.txn][cursor] = Current.new]
                  /\ \/ pc' = StageNext[1] /\ cursor' = StageNext[2] /\ UNCHANGED <<mem, prior>>
                     \/ Return
                  /\ UNCHANGED <<target, backup, newest, history>>

(* The create-only stream; it may complete and still report an error,      *)
(* which settlePrivateStageAfterStreamError then finds out.                *)
StageWrite == /\ pc = "stage" /\ Named
              /\ Target # Current.new /\ Stage = Absent
              /\ stage' = [stage EXCEPT ![mem.txn][cursor] = Current.new]
              /\ \/ pc' = StageNext[1] /\ cursor' = StageNext[2] /\ UNCHANGED <<mem, prior>>
                 \/ Return
              /\ UNCHANGED <<target, backup, newest, history>>

(* stage-conflict, a read error, a read error of the package.              *)
StageFails == pc = "stage" /\ GiveUp

(* The package's bytes are not what its manifest says: delete the matching *)
(* stage files (each delete may fail) and roll back.                       *)
StageInvalid == /\ pc = "stage"
                /\ \E gone \in SUBSET {i \in mem.named : stage[mem.txn][i] = mem.entries[i].new} :
                      stage' = [stage EXCEPT ![mem.txn] =
                                  [i \in Index |-> IF i \in gone THEN Absent ELSE @[i]]]
                /\ pc' = "rollbackStart"
                /\ cursor' = 0
                /\ UNCHANGED <<target, backup, newest, mem, prior, history>>

Staged == pc = "staged" /\ Persist(Phase(mem, "stage"), "commitStart", 0)

-----------------------------------------------------------------------------
(* commitTransaction: commit is durable before the first target changes.   *)
CommitStart == pc = "commitStart" /\ Persist(Phase(mem, "commit"), "commit", 1)

CommitNext == IF cursor = N THEN <<"verifyStart", 0>> ELSE <<"commit", cursor + 1>>

CommitSameFile == /\ pc = "commit" /\ Named
                  /\ ~Replaced(Current)
                  /\ IF Target = Current.new
                     THEN /\ mem' = MarkInstalled(mem, cursor)
                          /\ pc' = "commitRecord"
                          /\ UNCHANGED <<disk, newest, prior, cursor, history>>
                     ELSE Goto("rollbackStart", 0)

CommitReplace == /\ pc = "commit"
                 /\ Replaced(Current)
                 /\ Forward
                 /\ \/ /\ mem' = MarkInstalled(mem, cursor)
                       /\ pc' = "commitRecord"
                       /\ UNCHANGED <<prior, cursor>>
                    \/ Return                            \* done, but reported as I/O error
                 /\ UNCHANGED <<newest, history>>

CommitConflict == /\ pc = "commit"
                  /\ Replaced(Current) /\ ~ForwardAccepts
                  /\ Goto("rollbackStart", 0)

(* An I/O error, or the fault-injection file that stops the command after  *)
(* its first payload.                                                      *)
CommitFails == pc = "commit" /\ GiveUp

(* A slip: one record for all the payloads, when the last is installed.    *)
CommitRecordOnce == /\ pc = "commitRecord"
                    /\ IF cursor = N
                       THEN Persist(Phase(mem, "commit"), "verifyStart", 0)
                       ELSE Goto("commit", cursor + 1)

(* Every installed payload is on record before the next one is touched.    *)
CommitRecord == /\ pc = "commitRecord"
                /\ Persist(Phase(mem, "commit"), CommitNext[1], CommitNext[2])

VerifyStart == pc = "verifyStart" /\ Persist(Phase(mem, "verify"), "verify", 0)

Verify == /\ pc = "verify"
          /\ IF \A i \in mem.named : mem.entries[i].committed /\ target[i] = mem.entries[i].new
             THEN Goto(IF mem.components THEN "inventory" ELSE "applied", 0)
             ELSE Goto("rollbackStart", 0)

VerifyFails == pc = "verify" /\ GiveUp

-----------------------------------------------------------------------------
(* prepareInventoryData renders the inventory anew, the package's entries  *)
(* changed: the current file must parse, and every component's installed   *)
(* artifact must be the one the package names.                             *)
Rendered == [i \in Package |-> IF i \in mem.named THEN mem.entries[i].new ELSE target[Inv][i]]
InventoryReady == /\ target[Inv] \in Versions
                  /\ \A i \in mem.named : target[i] = mem.entries[i].new

(* completeInventoryPhase: the inventory becomes one more payload.         *)
InventoryEntry == NewEntry(Inv, target[Inv], Rendered, prior)

Inventory == /\ pc = "inventory"
             /\ IF InventoryReady
                THEN /\ mem' = [mem EXCEPT !.phase = "inventory", !.count = Inv,
                                           !.entries[Inv] = InventoryEntry]
                     /\ pc' = "inventoryStart"
                     /\ cursor' = 0
                     /\ UNCHANGED <<disk, newest, prior, history>>
                ELSE Goto("rollbackStart", 0)

InventoryStart == pc = "inventoryStart" /\ Persist(mem, "inventoryStage", Inv)

(* resumeInventoryPhase: what is rendered now must be what the journal     *)
(* says.                                                                   *)
InventoryResume == /\ pc = "inventoryResume"
                   /\ IF InventoryReady /\ mem.entries[Inv].new = Rendered
                      THEN Goto("inventoryStage", Inv)
                      ELSE Goto("rollbackStart", 0)

(* finishInventoryPhase.                                                   *)
InventoryStaged == /\ pc = "inventoryStage"
                   /\ Current.committed \/ Target = Current.new \/ Stage = Current.new
                   /\ Goto("inventoryCommit", Inv)

InventoryStageWrite ==
    /\ pc = "inventoryStage"
    /\ ~Current.committed /\ Target # Current.new /\ Stage = Absent
    /\ stage' = [stage EXCEPT ![mem.txn][Inv] = Current.new]
    /\ \/ pc' = "inventoryCommit" /\ UNCHANGED <<mem, prior, cursor>>
       \/ Return
    /\ UNCHANGED <<target, backup, newest, history>>

InventoryStageConflict ==
    /\ pc = "inventoryStage"
    /\ ~Current.committed /\ Target # Current.new /\ Stage \notin {Absent, Current.new}
    /\ Goto("rollbackStart", 0)

(* commitInventoryPayload: an inventory that is already the new one counts *)
(* as committed, anything but the described old one and stage fails.       *)
InventoryCommit ==
    /\ pc = "inventoryCommit"
    /\ \/ /\ Target = Current.new
          /\ mem' = MarkInstalled(mem, Inv)
          /\ pc' = "inventoryRecord"
          /\ UNCHANGED <<disk, prior, cursor>>
       \/ /\ Target # Current.new
          /\ Forward
          /\ \/ /\ mem' = MarkInstalled(mem, Inv)
                /\ pc' = "inventoryRecord"
                /\ UNCHANGED <<prior, cursor>>
             \/ Return
    /\ UNCHANGED <<newest, history>>

InventoryConflict == /\ pc = "inventoryCommit"
                     /\ Target # Current.new /\ ~ForwardAccepts
                     /\ Goto("rollbackStart", 0)

InventoryRecord == pc = "inventoryRecord" /\ Persist(mem, "inventoryVerify", Inv)

InventoryVerify == /\ pc = "inventoryVerify"
                   /\ IF Target = Current.new THEN Goto("applied", 0)
                      ELSE Goto("rollbackStart", 0)

InventoryFails == /\ pc \in {"inventory", "inventoryResume", "inventoryStage",
                             "inventoryCommit", "inventoryVerify"}
                  /\ GiveUp

-----------------------------------------------------------------------------
(* The point of no return, and cleanupToTerminal behind it.                *)
Applied == pc = "applied" /\ Persist(Phase(mem, "applied"), "precheck", 0)

(* The complete applied state, before the first last-good copy goes.       *)
AppliedIntact(j) ==
    \A i \in Payloads(j) :
       LET e == j.entries[i]
       IN  /\ target[i] = e.new
           /\ Replaced(e) => stage[j.txn][i] = Absent /\ backup[j.txn][i] = e.old

(* A slip: clean up payload by payload, without a look at the others.      *)
PrecheckSkipped == /\ pc = "precheck"
                   /\ pc' = "cleanup" /\ cursor' = 1
                   /\ late' = {}
                   /\ UNCHANGED <<disk, newest, mem, prior, touched, crashes, edits>>

Precheck == /\ pc = "precheck"
            /\ AppliedIntact(mem)
            /\ pc' = "cleanup" /\ cursor' = 1
            /\ late' = {}
            /\ UNCHANGED <<disk, newest, mem, prior, touched, crashes, edits>>

PrecheckFails == pc = "precheck" /\ GiveUp

CleanupNext == IF cursor = mem.count THEN <<"cleanupEnd", 0>> ELSE <<"cleanup", cursor + 1>>

CleanupSkip == /\ pc = "cleanup"
               /\ ~Replaced(Current)
               /\ Goto(CleanupNext[1], CleanupNext[2])

Cleanup == /\ pc = "cleanup"
           /\ Replaced(Current)
           /\ Rotate
           /\ \/ pc' = CleanupNext[1] /\ cursor' = CleanupNext[2] /\ UNCHANGED <<mem, prior>>
              \/ Return
           /\ UNCHANGED <<newest, history>>

CleanupFails == pc = "cleanup" /\ GiveUp

CleanupEnd == pc = "cleanupEnd" /\ PersistLast(Phase(mem, "cleanup"))

-----------------------------------------------------------------------------
(* rollbackToTerminal: in reverse order, one durable mark per payload.     *)
RollbackStart == pc = "rollbackStart" /\ Persist(Phase(mem, "rollback"), "rollback", mem.count)

RollbackNext == IF cursor = 1 THEN <<"rollbackEnd", 0>> ELSE <<"rollback", cursor - 1>>

(* An undone payload is checked again but not recorded again.              *)
Restored == /\ IF Current.undone
               THEN pc' = RollbackNext[1] /\ cursor' = RollbackNext[2] /\ UNCHANGED mem
               ELSE /\ mem' = MarkRestored(mem, cursor)
                    /\ pc' = "rollbackRecord"
                    /\ UNCHANGED cursor
            /\ UNCHANGED prior

(* A slip: nothing to restore where nothing is on record as installed.     *)
RollbackSkipUncommitted == /\ pc = "rollback" /\ Named
                           /\ ~Replaced(Current) \/ ~Current.committed
                           /\ Restored
                           /\ UNCHANGED <<disk, newest, history>>

RollbackSkip == /\ pc = "rollback" /\ Named
                /\ ~Replaced(Current)
                /\ Restored
                /\ UNCHANGED <<disk, newest, history>>

Rollback == /\ pc = "rollback"
            /\ Replaced(Current)
            /\ RollBack
            /\ Restored \/ Return
            /\ UNCHANGED <<newest, history>>

(* A conflict or an I/O error: nothing is forced, the journal stays.       *)
RollbackFails == pc = "rollback" /\ GiveUp

RollbackRecord == pc = "rollbackRecord" /\ Persist(mem, RollbackNext[1], RollbackNext[2])

RollbackEnd == pc = "rollbackEnd" /\ PersistLast(Phase(mem, "rolled_back"))

Unnamed == /\ ~Named
           /\ \/ pc = "stage" /\ Goto(StageNext[1], StageNext[2])
              \/ pc = "commit" /\ Goto(CommitNext[1], CommitNext[2])
              \/ pc = "rollback" /\ Goto(RollbackNext[1], RollbackNext[2])

-----------------------------------------------------------------------------
(* Two slips: an applied update is verified against its package again; a   *)
(* rollback that was cut short is taken for an update to go on with.       *)
ResumeAppliedAgain == /\ pc = "idle"
                      /\ ~phaseTerminal(newest.phase)
                      /\ mem' = newest
                      /\ pc' = CASE newest.phase = "rollback" -> "rollbackStart"
                                 [] newest.phase = "inventory" -> "inventoryResume"
                                 [] OTHER -> "reverify"
                      /\ UNCHANGED <<disk, newest, prior, cursor, history>>

ResumeForwardOnly == /\ pc = "idle"
                     /\ ~phaseTerminal(newest.phase)
                     /\ mem' = newest
                     /\ pc' = CASE newest.phase = "applied" -> "precheck"
                                [] newest.phase = "inventory" -> "inventoryResume"
                                [] OTHER -> "reverify"
                     /\ UNCHANGED <<disk, newest, prior, cursor, history>>

(* resumeTransaction.                                                      *)
Resume == /\ pc = "idle"
          /\ ~phaseTerminal(newest.phase)
          /\ mem' = newest
          /\ pc' = CASE newest.phase = "applied" -> "precheck"
                     [] newest.phase = "rollback" -> "rollbackStart"
                     [] newest.phase = "inventory" -> "inventoryResume"
                     [] OTHER -> "reverify"
          /\ UNCHANGED <<disk, newest, prior, cursor, history>>

(* The boot adapter runs the same replay core, but takes a single package  *)
(* that was not applied back (TransactionJournal, the comment on batch).   *)
BootRecovery == /\ pc = "idle"
                /\ ~phaseTerminal(newest.phase)
                /\ mem' = newest
                /\ pc' = IF newest.phase = "applied" THEN "precheck" ELSE "rollbackStart"
                /\ UNCHANGED <<disk, newest, prior, cursor, history>>

(* A slip: staging is not repeated.                                        *)
ReverifyUnstaged == /\ pc = "reverify"
                    /\ Goto("commitStart", 0) \/ Goto("rollbackStart", 0)

(* The package is read and bound to the journal again: it may be gone or   *)
(* changed, and then the transaction is undone.                            *)
Reverify == /\ pc = "reverify"
            /\ \/ mem.phase = "prepare" /\ Goto("stage", 1)
               \/ mem.phase # "prepare" /\ Goto("commitStart", 0)
               \/ Goto("rollbackStart", 0)

ReverifyFails == pc = "reverify" /\ GiveUp

(* rollbackLastCommand: only if checkLastGood finds the exact way back.    *)
LastGoodIntact(j) == /\ Committed(j) = Payloads(j) /\ Undone(j) = {}
                     /\ AppliedIntact(j)
                     /\ \E i \in Payloads(j) : Replaced(j.entries[i])

RollbackLast == /\ pc = "idle"
                /\ newest.phase \in {"applied", "cleanup"}
                /\ LastGoodIntact(newest)
                /\ mem' = Phase(newest, "rollback")
                /\ pc' = "lastGood"
                /\ UNCHANGED <<disk, newest, prior, cursor, history>>

RollbackLastIntent == pc = "lastGood" /\ PersistLast(mem)

-----------------------------------------------------------------------------
(* The machine stops, or the command is killed.  A stage file being        *)
(* written may stay behind whole or in part.                               *)
Crash == /\ pc # "idle"
         /\ crashes < MaxCrashes /\ crashes + edits < MaxFaults
         /\ crashes' = crashes + 1
         /\ Return
         /\ \/ UNCHANGED stage
            \/ /\ TornStage
               /\ pc \in {"stage", "inventoryStage"} /\ Named
               /\ Target # Current.new /\ Stage = Absent
               /\ stage' = [stage EXCEPT ![mem.txn][cursor] = Foreign]
         /\ UNCHANGED <<target, backup, newest, touched, late, edits>>

(* A local change: an installed file is edited or deleted, a private file  *)
(* of the transaction is deleted or replaced.                              *)
Edit(i) == /\ edits < MaxEdits /\ crashes + edits < MaxFaults
           /\ edits' = edits + 1
           /\ touched' = touched \cup {i}
           /\ late' = late \cup {i}
           /\ \/ /\ \E c \in {Absent, Foreign} : target' = [target EXCEPT ![i] = c]
                 /\ UNCHANGED <<stage, backup>>
              \/ \E g \in Txn, c \in {Absent, Foreign} :
                    \/ stage' = [stage EXCEPT ![g][i] = c] /\ UNCHANGED <<target, backup>>
                    \/ backup' = [backup EXCEPT ![g][i] = c] /\ UNCHANGED <<target, stage>>
           /\ UNCHANGED <<newest, mem, prior, pc, cursor, crashes>>

(* Nobody has to begin another update.                                     *)
Rest == /\ pc = "idle"
        /\ phaseTerminal(newest.phase)
        /\ UNCHANGED vars

Step == \/ Prepare \/ StageReuse \/ StageWrite \/ StageFails \/ StageInvalid \/ Staged
        \/ CommitStart \/ CommitSameFile \/ CommitReplace \/ CommitConflict
        \/ CommitFails \/ CommitRecord \/ VerifyStart \/ Verify \/ VerifyFails
        \/ Inventory \/ InventoryStart \/ InventoryResume \/ InventoryStaged
        \/ InventoryStageWrite \/ InventoryStageConflict \/ InventoryCommit
        \/ InventoryConflict \/ InventoryRecord \/ InventoryVerify \/ InventoryFails
        \/ Applied \/ Precheck \/ PrecheckFails \/ CleanupSkip \/ Cleanup
        \/ CleanupFails \/ CleanupEnd
        \/ RollbackStart \/ RollbackSkip \/ Rollback \/ RollbackFails
        \/ RollbackRecord \/ RollbackEnd \/ Unnamed
        \/ Reverify \/ ReverifyFails \/ RollbackLastIntent

Next == \/ \E named \in (SUBSET Package) \ {{}}, components \in BOOLEAN :
              \E new \in [named -> Content] : Apply(named, new, components)
        \/ Resume
        \/ BootRecovery
        \/ RollbackLast
        \/ Step
        \/ Crash
        \/ \E i \in Index : Edit(i)
        \/ Rest

Spec == Init /\ [][Next]_vars

(* A command that was started runs on, and an open transaction is resumed, *)
(* by the user or by the next boot.                                        *)
FairSpec == Spec /\ WF_vars(Step) /\ WF_vars(Resume \/ BootRecovery)

-----------------------------------------------------------------------------
(* A finished update is whole: after cleanup every payload is the new one, *)
(* after a rollback every payload is the old one.  Payloads that somebody  *)
(* changed behind the updater's back are excepted.                         *)
AllOrNothing ==
    /\ newest.phase = "cleanup" =>
         \A i \in Payloads(newest) \ touched : target[i] = newest.entries[i].new
    /\ newest.phase = "rolled_back" =>
         \A i \in Payloads(newest) \ touched : target[i] = newest.entries[i].old

(* As long as the transaction can still be undone, the old content of      *)
(* every payload is on disk, at its target or as its last-good copy.       *)
OldRecoverable ==
    newest.phase # "rolled_back" =>
      \A i \in Payloads(newest) \ touched :
         newest.entries[i].old \in {target[i], backup[newest.txn][i]}

(* The journal is written ahead: what it records as installed or restored  *)
(* is so, and at most one installed payload is not on record.              *)
JournalTruth ==
    \A i, k \in Payloads(newest) \ touched :
       LET e == newest.entries[i]
           f == newest.entries[k]
       IN  /\ e.committed /\ newest.phase # "rollback" => target[i] = e.new
           /\ e.undone => target[i] = e.old
           /\ newest.phase # "rollback" /\ i < k /\ ~e.committed /\ ~f.committed
                => target[k] = f.old

(* The journal a command is about to write is one that serializeJournal    *)
(* and a later replay accept: a transaction never gets stuck on itself.    *)
Pending == CASE pc \in {"prepare", "inventoryStart", "inventoryRecord",
                        "rollbackRecord", "lastGood"} -> mem
             [] pc = "staged" -> Phase(mem, "stage")
             [] pc \in {"commitStart", "commitRecord"} -> Phase(mem, "commit")
             [] pc = "verifyStart" -> Phase(mem, "verify")
             [] pc = "applied" -> Phase(mem, "applied")
             [] pc = "cleanupEnd" -> Phase(mem, "cleanup")
             [] pc = "rollbackStart" -> Phase(mem, "rollback")
             [] pc = "rollbackEnd" -> Phase(mem, "rolled_back")
             [] OTHER -> NoJournal
NeverUnwritable == Pending = NoJournal \/ JournalValid(Pending)

(* A last-good copy of a package payload is the copy of the newest         *)
(* transaction or the one it inherited, and stays known as long as it is   *)
(* there: the only updates that lose sight of it are those whose package   *)
(* does not name its target.                                               *)
Known(i) == {newest.txn, newest.entries[i].prev}
OrphansOnlyUnnamed ==
    [][\A i \in Package \ touched', g \in Txn :
         /\ backup'[g][i] # Absent /\ g \notin Known(i)'
         /\ backup[g][i] = Absent \/ g \in Known(i)
         => newest'.txn # newest.txn /\ i \notin newest'.named]_vars

(* An older last-good copy goes only once the update is durably applied,   *)
(* and only while the whole package is intact; what somebody changed after *)
(* the preflight check of cleanupToTerminal is excepted.                   *)
RotatesOnlyApplied ==
    [][\A g \in Txn, i \in Index :
         /\ edits' = edits
         /\ g # newest.txn
         /\ backup[g][i] # Absent /\ backup'[g][i] = Absent
         => /\ newest.phase = "applied"
            /\ \A k \in Payloads(newest) \ late :
                 /\ target[k] = newest.entries[k].new
                 /\ Replaced(newest.entries[k]) =>
                      backup[newest.txn][k] = newest.entries[k].old]_vars

(* No file that the journal does not describe is changed or deleted.       *)
ForeignKept ==
    [][edits' = edits =>
         \A i \in Index :
            /\ target[i] = Foreign /\ target'[i] # Foreign => mem.entries[i].old = Foreign
            /\ \A g \in Txn : stage[g][i] = Foreign => stage'[g][i] = Foreign
            /\ \A g \in Txn : backup[g][i] = Foreign /\ backup'[g][i] # Foreign =>
                 Foreign \in {mem.entries[i].old, mem.entries[i].last}]_vars

(* Once applied, only an explicit ROLLBACK-LAST undoes the update: not a   *)
(* RESUME that misses the package, not a failed cleanup.                   *)
AppliedStays ==
    [][newest.phase \in {"applied", "cleanup"} /\ newest'.txn = newest.txn =>
         newest'.phase \in {"applied", "cleanup"} \/ pc = "lastGood"]_vars

(* Without a local change a replay meets no conflict: whatever order of    *)
(* crashes and failures led here, the disk is in a state that the checked  *)
(* kernel operations accept.  Half a stage file is the one exception.      *)
NoSelfConflict ==
    touched = {} /\ pc \in {"stage", "commit", "inventoryCommit", "rollback", "cleanup"}
      /\ Named /\ Stage # Foreign =>
      /\ pc = "stage" => Target = Current.new \/ Stage \in {Absent, Current.new}
      /\ pc \in {"commit", "inventoryCommit"} /\ Replaced(Current) => ForwardAccepts
      /\ pc \in {"commit", "rollback"} /\ ~Replaced(Current) => Target = Current.new
      /\ pc = "rollback" /\ Replaced(Current) => RollbackAccepts
      /\ pc = "cleanup" /\ Replaced(Current) => CleanupAccepts

(* The same for the inventory, once its update is applied: its last-good   *)
(* copy on disk is this transaction's or the one that it inherited.        *)
NoOrphanInventory ==
    newest.phase = "applied" /\ newest.count = Inv /\ Inv \notin touched =>
      \A g \in Txn : backup[g][Inv] # Absent =>
                      g \in {newest.txn, newest.entries[Inv].prev}

(* A command was cut short although the code had a way to go on: an error  *)
(* of the storage, a crash, a killed process.                              *)
CanGoOn == ENABLED (Step /\ (pc' # "idle" \/ newest' # newest))
Failed == pc # "idle" /\ pc' = "idle" /\ ~phaseTerminal(newest'.phase) /\ CanGoOn

(* When storage and machine stop failing, every update comes to its end:   *)
(* RESUME finds a way on from whatever journal and files it meets.         *)
Settles == <>[][~Failed]_vars =>
             (~phaseTerminal(newest.phase) ~> phaseTerminal(newest.phase))

(* The comment in ntfs_volume.zig on streamed files: a torn stage file is  *)
(* deleted by SYSUPD recovery.                                             *)
TornStageGoes ==
    <>[][~Failed]_vars =>
      \A g \in Txn, i \in Package : stage[g][i] = Foreign ~> stage[g][i] # Foreign

(* The whole of it: until somebody changes a file behind the updater's     *)
(* back, the installed files change like one object.                       *)
HeldBack(i) == ~phaseTerminal(newest.phase) /\ newest.phase # "applied"
                 /\ i \in Payloads(newest)
Recovered == [i \in Index |->
                IF HeldBack(i) /\ target[i] # newest.entries[i].old
                THEN backup[newest.txn][i]
                ELSE target[i]]
LastGood == [i \in Index |->
               IF newest.phase \in {"applied", "cleanup"} /\ i \in Payloads(newest)
                  /\ target[i] # newest.entries[i].old
               THEN backup[newest.txn][i]
               ELSE Recovered[i]]
Files == INSTANCE AtomicFileSet WITH Path <- Index, Bytes <- File,
                                     files <- Recovered, undo <- LastGood
FilesSpec == Files!FilesInit /\ [][edits' = 0 => Files!FilesNext]_<<Recovered, LastGood>>

=============================================================================
