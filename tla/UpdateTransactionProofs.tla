----------------------- MODULE UpdateTransactionProofs -----------------------
(***************************************************************************)
(* Proofs about UpdateTransaction for any number of payloads, contents,    *)
(* transactions, crashes and local changes.                                *)
(***************************************************************************)
EXTENDS UpdateTransaction, TLAPS

(* Where a payload is before and after its commit.                         *)
OldAt(j, i) == /\ target[i] = j.entries[i].old
               /\ backup[j.txn][i] = Absent
NewAt(j, i) == /\ target[i] = j.entries[i].new
               /\ backup[j.txn][i] = IF Replaced(j.entries[i]) THEN j.entries[i].old ELSE Absent

Open == {"prepare", "stage", "commit", "verify", "inventory"}
Forwards == Open \cup {"applied", "cleanup"}

(* A journal tells the truth about every payload nobody else touched.      *)
Truth(j) == \A i \in Payloads(j) \ touched :
               /\ OldAt(j, i) \/ NewAt(j, i)
               /\ j.entries[i].committed /\ j.phase \in Forwards => NewAt(j, i)
               /\ j.entries[i].undone => OldAt(j, i)

(* What an entry inherits is older than its own transaction, and paths     *)
(* that are no payloads have none.                                         *)
Shaped(j) == /\ j.txn # 0 =>
                  /\ \A i \in Index : j.entries[i].prev < j.txn
                  /\ \A i \in j.named : j.entries[i].new \in Content
                  /\ \A i \in Index \ Payloads(j) : j.entries[i] = NoEntry
                  /\ j.phase \in Open => Undone(j) = {}
                  /\ j.phase \in Open \ {"inventory"} => j.count = N
                  /\ j.phase = "inventory" => j.count = Inv
             /\ j.phase \in {"applied", "cleanup"} => Committed(j) = Payloads(j)
             /\ j.phase = "rolled_back" => Undone(j) = Payloads(j)

(* Backup names of a later transaction, and of an inventory not yet begun, *)
(* are free.                                                               *)
Unused == \A i \in Index \ touched :
             /\ \A g \in Txn : g > newest.txn => backup[g][i] = Absent
             /\ newest.txn # 0 /\ i \notin Payloads(newest) => backup[newest.txn][i] = Absent

Packaging == {"stage", "staged", "commitStart", "commit", "commitRecord", "verifyStart", "verify",
              "reverify", "inventory"}
Inventorying == {"inventoryStart", "inventoryResume", "inventoryStage", "inventoryCommit",
                 "inventoryRecord", "inventoryVerify"}
RollingBack == {"rollback", "rollbackRecord", "rollbackEnd"}
CleaningUp == {"precheck", "cleanup", "cleanupEnd"}

(* What the journal of the running command has to do with the durable one. *)
Continues == /\ mem.txn = newest.txn /\ newest.txn # 0
             /\ newest.count <= mem.count /\ newest.named = mem.named
             /\ \A i \in Payloads(newest) : /\ mem.entries[i].old = newest.entries[i].old
                                            /\ mem.entries[i].new = newest.entries[i].new
Begins == /\ mem.txn = newest.txn + 1
          /\ mem.phase = "prepare"
          /\ phaseTerminal(newest.phase)

Forwarding == newest.phase \in Open /\ mem.phase \in Open

At == /\ pc = "prepare" => Begins
      /\ pc \notin {"idle", "prepare"} => Continues
      /\ pc \in Packaging => Forwarding /\ mem.count = N
      /\ pc \in Inventorying => Forwarding /\ mem.count = Inv
      /\ pc \in Inventorying => mem.phase = "inventory"
      /\ pc \in Inventorying \ {"inventoryStart"} => newest.phase = "inventory"
      /\ pc = "applied" => Forwarding
      /\ pc \in CleaningUp => newest.phase = "applied" /\ mem.phase = "applied"
      /\ pc = "rollbackStart" => newest.phase = "rollback" \/ Forwarding
      /\ pc \in RollingBack => newest.phase = "rollback" /\ mem.phase = "rollback"
      /\ pc = "lastGood" => newest.phase \in {"applied", "cleanup"} /\ mem.phase = "rollback"
      /\ IF pc = "idle" THEN prior.txn = 0 ELSE prior.txn < mem.txn

Cursor == /\ pc \in {"stage", "commit", "commitRecord"} => cursor \in Package
          /\ pc \in {"inventoryStage", "inventoryCommit", "inventoryRecord", "inventoryVerify"}
               => cursor = Inv
          /\ pc \in {"cleanup", "rollback"} => cursor \in 1 .. mem.count
          /\ pc \in {"commitRecord", "rollbackRecord"} => cursor \in Payloads(mem)

(* The invariant: what is on disk, what the command has in memory, and     *)
(* where it is.                                                            *)
Durable == Unused /\ Truth(newest) /\ Shaped(newest)
Memory == Truth(mem) /\ Shaped(mem) /\ Shaped(prior)
IInv == TypeOK /\ Durable /\ Memory /\ At /\ Cursor

-----------------------------------------------------------------------------
(* The sets of indexes, files and journals, once for all proofs.           *)
LEMMA TypeFacts ==
  /\ N \in Nat /\ N >= 1 /\ Inv = N + 1 /\ Inv \in Index /\ Package \subseteq Index
  /\ Absent \in File /\ Foreign \in File /\ Content \subseteq File /\ Versions \subseteq File
  /\ NoEntry \in Entry
  /\ \A j \in Journal : /\ j.txn \in Txn /\ j.txn # 0 /\ j # NoJournal
                        /\ j.count \in Nat /\ Payloads(j) \subseteq Index
                        /\ j.named \subseteq Payloads(j) /\ j.named \subseteq Package
                        /\ Payloads(j) \subseteq 1 .. j.count /\ 1 .. j.count \subseteq Index
  /\ NoJournal.txn = 0 /\ Payloads(NoJournal) = {}
  /\ Committed(NoJournal) = {} /\ Undone(NoJournal) = {}
  BY TxnAssumption DEF Inv, Index, Package, File, NoEntry, Entry, Journal, NoJournal, Txn,
                       Payloads, Committed, Undone

(* A machine that was never updated satisfies the invariant.               *)
LEMMA InitIInv == Init => IInv
  <1> SUFFICES ASSUME Init PROVE IInv OBVIOUS
  <1> USE TypeFacts, TxnAssumption DEF Init
  <1>1. TypeOK
    <2>1. target \in [Index -> File]
      BY DEF Index, Inv, Package, Versions, File
    <2> QED BY <2>1 DEF TypeOK
  <1>2. Durable /\ Memory
    BY DEF Durable, Memory, Unused, Truth, Shaped, NoJournal, Open, Txn, Index
  <1>3. At /\ Cursor
    BY DEF At, Cursor, Packaging, Inventorying, RollingBack, CleaningUp
  <1> QED BY <1>1, <1>2, <1>3 DEF IInv

-----------------------------------------------------------------------------
(* A command that returned claims nothing.                                 *)
LEMMA ReturnKeeps ==
  ASSUME Return PROVE Memory' /\ At' /\ Cursor'
  <1> USE TypeFacts DEF Return
  <1>1. Memory'
    BY DEF Memory, Truth, Shaped, Open, Payloads, NoJournal
  <1>2. At' /\ Cursor'
    BY DEF At, Cursor, Packaging, Inventorying, RollingBack, CleaningUp
  <1> QED BY <1>1, <1>2

(* As long as targets and backups stay, so does what is said of them.      *)
LEMMA DurableKeeps ==
  ASSUME Durable, UNCHANGED <<target, backup, touched, newest>> PROVE Durable'
  BY DEF Durable, Unused, Truth, Shaped, OldAt, NewAt

(* And so does what is said of the command's own journals.                 *)
LEMMA MemoryKeeps ==
  ASSUME Memory, UNCHANGED <<target, backup, touched, mem, prior>> PROVE Memory'
  BY DEF Memory, Truth, Shaped, OldAt, NewAt

(* Giving up.                                                              *)
LEMMA GiveUpKeeps ==
  ASSUME IInv, GiveUp PROVE IInv'
  <1>1. TypeOK' BY TypeFacts DEF GiveUp, Return, IInv, TypeOK, disk, history, Steps
  <1>2. Durable' BY DurableKeeps DEF GiveUp, disk, history, IInv
  <1> QED BY <1>1, <1>2, ReturnKeeps DEF GiveUp, IInv

(* Going on without touching a target, a backup or a journal.              *)
WalkTo(next, at) == /\ pc' = next /\ cursor' = at
                    /\ UNCHANGED <<target, backup, newest, mem, prior, touched, crashes, edits>>
                    /\ stage' \in [Txn -> [Index -> File]]
                    /\ late' \subseteq Index

(* A step that touches no disk is such a walk.                             *)
LEMMA GotoWalks ==
  ASSUME TypeOK, NEW next, NEW at, Goto(next, at) PROVE WalkTo(next, at)
  BY DEF Goto, WalkTo, TypeOK, disk, history

(* A walk keeps everything but what depends on where the command is.       *)
LEMMA WalkKeepsMost ==
  ASSUME IInv, NEW next \in Steps, NEW at \in 0 .. Inv, WalkTo(next, at)
  PROVE  TypeOK' /\ Durable' /\ Memory'
  <1>1. TypeOK' BY DEF WalkTo, IInv, TypeOK
  <1>2. Durable' BY DurableKeeps DEF WalkTo, IInv
  <1>3. Memory' BY MemoryKeeps DEF WalkTo, IInv
  <1> QED BY <1>1, <1>2, <1>3

-----------------------------------------------------------------------------
(* Advancing the phase of a journal, and recording a payload in it.        *)
LEMMA PhaseFacts ==
  ASSUME NEW j \in Journal, NEW p \in Phases
  PROVE  /\ Phase(j, p) \in Journal /\ Phase(j, p).phase = p
         /\ Phase(j, p).txn = j.txn /\ Phase(j, p).count = j.count
         /\ Phase(j, p).entries = j.entries /\ Phase(j, p).named = j.named
         /\ Payloads(Phase(j, p)) = Payloads(j)
         /\ Committed(Phase(j, p)) = Committed(j) /\ Undone(Phase(j, p)) = Undone(j)
  BY DEF Phase, Journal, Payloads, Committed, Undone

(* Marking a payload as installed changes its two marks and nothing else.  *)
LEMMA InstalledFacts ==
  ASSUME NEW j \in Journal, NEW i \in Payloads(j)
  PROVE  /\ MarkInstalled(j, i) \in Journal
         /\ MarkInstalled(j, i).phase = j.phase /\ MarkInstalled(j, i).txn = j.txn
         /\ MarkInstalled(j, i).count = j.count /\ MarkInstalled(j, i).named = j.named
         /\ Payloads(MarkInstalled(j, i)) = Payloads(j)
         /\ \A k \in Index : /\ MarkInstalled(j, i).entries[k].old = j.entries[k].old
                             /\ MarkInstalled(j, i).entries[k].new = j.entries[k].new
                             /\ MarkInstalled(j, i).entries[k].prev = j.entries[k].prev
                             /\ MarkInstalled(j, i).entries[k].last = j.entries[k].last
         /\ \A k \in Index \ {i} : MarkInstalled(j, i).entries[k] = j.entries[k]
         /\ MarkInstalled(j, i).entries[i].committed
         /\ MarkInstalled(j, i).entries[i].undone = j.entries[i].undone
  <1> DEFINE m == MarkInstalled(j, i)
             e == [j.entries[i] EXCEPT !.committed = TRUE]
  <1>1. i \in Index BY TypeFacts
  <1>2. j.entries \in [Index -> Entry] /\ j.entries[i] \in Entry
    BY <1>1 DEF Journal
  <1>3. /\ e \in Entry /\ e.old = j.entries[i].old /\ e.new = j.entries[i].new
        /\ e.prev = j.entries[i].prev /\ e.last = j.entries[i].last
        /\ e.committed = TRUE /\ e.undone = j.entries[i].undone
    BY <1>2 DEF Entry
  <1>4. /\ m.phase = j.phase /\ m.txn = j.txn /\ m.count = j.count
        /\ m.components = j.components /\ m.named = j.named
        /\ m.entries = [j.entries EXCEPT ![i] = e]
    BY <1>1, <1>2 DEF MarkInstalled, Journal
  <1>5. m \in Journal
    BY <1>1, <1>2, <1>3, <1>4 DEF MarkInstalled, Journal
  <1>6. Payloads(m) = Payloads(j)
    BY <1>4 DEF Payloads
  <1>7. \A k \in Index : m.entries[k] = IF k = i THEN e ELSE j.entries[k]
    BY <1>2, <1>4
  <1> HIDE DEF m, e
  <1>8. \A k \in Index : /\ m.entries[k].old = j.entries[k].old
                         /\ m.entries[k].new = j.entries[k].new
                         /\ m.entries[k].prev = j.entries[k].prev
                         /\ m.entries[k].last = j.entries[k].last
    BY <1>3, <1>7
  <1>10. \A k \in Index \ {i} : m.entries[k] = j.entries[k]
    BY <1>7
  <1>9. m.entries[i].committed = TRUE /\ m.entries[i].undone = j.entries[i].undone
    BY <1>1, <1>3, <1>7
  <1> QED BY <1>4, <1>5, <1>6, <1>8, <1>9, <1>10 DEF m

(* Marking a payload as restored changes its two marks and nothing else.   *)
LEMMA RestoredFacts ==
  ASSUME NEW j \in Journal, NEW i \in Payloads(j)
  PROVE  /\ MarkRestored(j, i) \in Journal
         /\ MarkRestored(j, i).phase = j.phase /\ MarkRestored(j, i).txn = j.txn
         /\ MarkRestored(j, i).count = j.count /\ MarkRestored(j, i).named = j.named
         /\ Payloads(MarkRestored(j, i)) = Payloads(j)
         /\ \A k \in Index : /\ MarkRestored(j, i).entries[k].old = j.entries[k].old
                             /\ MarkRestored(j, i).entries[k].new = j.entries[k].new
                             /\ MarkRestored(j, i).entries[k].prev = j.entries[k].prev
                             /\ MarkRestored(j, i).entries[k].last = j.entries[k].last
         /\ \A k \in Index \ {i} : MarkRestored(j, i).entries[k] = j.entries[k]
         /\ ~MarkRestored(j, i).entries[i].committed
         /\ MarkRestored(j, i).entries[i].undone
  <1> DEFINE m == MarkRestored(j, i)
             e == [j.entries[i] EXCEPT !.committed = FALSE, !.undone = TRUE]
  <1>1. i \in Index BY TypeFacts
  <1>2. j.entries \in [Index -> Entry] /\ j.entries[i] \in Entry
    BY <1>1 DEF Journal
  <1>3. /\ e \in Entry /\ e.old = j.entries[i].old /\ e.new = j.entries[i].new
        /\ e.prev = j.entries[i].prev /\ e.last = j.entries[i].last
        /\ e.committed = FALSE /\ e.undone = TRUE
    BY <1>2 DEF Entry
  <1>4. /\ m.phase = j.phase /\ m.txn = j.txn /\ m.count = j.count
        /\ m.components = j.components /\ m.named = j.named
        /\ m.entries = [j.entries EXCEPT ![i] = e]
    BY <1>1, <1>2 DEF MarkRestored, Journal
  <1>5. m \in Journal
    BY <1>1, <1>2, <1>3, <1>4 DEF MarkRestored, Journal
  <1>6. Payloads(m) = Payloads(j)
    BY <1>4 DEF Payloads
  <1>7. \A k \in Index : m.entries[k] = IF k = i THEN e ELSE j.entries[k]
    BY <1>2, <1>4
  <1> HIDE DEF m, e
  <1>8. \A k \in Index : /\ m.entries[k].old = j.entries[k].old
                         /\ m.entries[k].new = j.entries[k].new
                         /\ m.entries[k].prev = j.entries[k].prev
                         /\ m.entries[k].last = j.entries[k].last
    BY <1>3, <1>7
  <1>10. \A k \in Index \ {i} : m.entries[k] = j.entries[k]
    BY <1>7
  <1>9. m.entries[i].committed = FALSE /\ m.entries[i].undone = TRUE
    BY <1>1, <1>3, <1>7
  <1> QED BY <1>4, <1>5, <1>6, <1>8, <1>9, <1>10 DEF m

(* What the validity check in front of every write adds to its shape.      *)
LEMMA ValidFacts ==
  ASSUME NEW j \in Journal, JournalValid(j)
  PROVE  /\ j.phase \in Open => Undone(j) = {}
         /\ j.phase = "inventory" => j.count = Inv
         /\ j.phase \in {"applied", "cleanup"} => Committed(j) = Payloads(j)
         /\ j.phase = "rolled_back" => Undone(j) = Payloads(j)
  <1> SUFFICES ASSUME PhaseValid(j), j.phase \in Phases
      PROVE  /\ j.phase \in Open => Undone(j) = {}
             /\ j.phase = "inventory" => j.count = Inv
             /\ j.phase \in {"applied", "cleanup"} => Committed(j) = Payloads(j)
             /\ j.phase = "rolled_back" => Undone(j) = Payloads(j)
    BY DEF JournalValid, Journal
  <1> QED BY DEF PhaseValid, Phases, Open

(* A record that a command may write: older ancestry, package contents.    *)
Wellformed(j) == /\ j \in Journal
                 /\ Truth(j)
                 /\ \A i \in Index : j.entries[i].prev < j.txn
                 /\ \A i \in j.named : j.entries[i].new \in Content
                 /\ \A i \in Index \ Payloads(j) : j.entries[i] = NoEntry
                 /\ j.phase \in Open \ {"inventory"} => j.count = N
                 /\ \/ /\ j.txn = newest.txn /\ newest.txn # 0
                       /\ newest.count <= j.count /\ newest.named = j.named
                    \/ j.txn = newest.txn + 1

(* A well-formed journal may become the newest one: writeInactiveJournal   *)
(* made it durable.                                                        *)
LEMMA WrittenKeeps ==
  ASSUME IInv, NEW j, Wellformed(j), JournalValid(j), newest' = j, UNCHANGED <<disk, history>>
  PROVE  Durable' /\ Truth(j)' /\ Shaped(j)'
  <1> USE TypeFacts DEF disk, history, Wellformed
  <1>1. Truth(j)'
    BY DEF Truth, OldAt, NewAt
  <1>2. Shaped(j) /\ Shaped(j)'
    BY ValidFacts DEF Shaped
  <1>3. Truth(newest)' /\ Shaped(newest)'
    BY <1>1, <1>2 DEF Truth, Shaped, OldAt, NewAt
  <1>4. Unused'
    <2> SUFFICES ASSUME NEW i \in Index \ touched
        PROVE /\ \A g \in Txn : g > j.txn => backup[g][i] = Absent
              /\ i \notin Payloads(j) => backup[j.txn][i] = Absent
      BY DEF Unused
    <2>1. /\ \A g \in Txn : g > newest.txn => backup[g][i] = Absent
          /\ newest.txn # 0 /\ i \notin Payloads(newest) => backup[newest.txn][i] = Absent
      BY DEF IInv, Durable, Unused
    <2>2. newest.txn \in Nat /\ newest.count \in Nat /\ j.count \in Nat /\ Txn \subseteq Nat
      BY DEF IInv, TypeOK, Txn, NoJournal
    <2>3. CASE /\ j.txn = newest.txn /\ newest.txn # 0
               /\ newest.count <= j.count /\ newest.named = j.named
      <3>1. Payloads(newest) \subseteq Payloads(j) BY <2>2, <2>3 DEF Payloads
      <3> QED BY <2>1, <2>3, <3>1
    <2>4. CASE j.txn = newest.txn + 1
      BY <2>1, <2>2, <2>4
    <2> QED BY <2>3, <2>4
  <1> QED BY <1>1, <1>2, <1>3, <1>4 DEF Durable

(* A journal write, or an attempt: what it can leave behind.               *)
Written(j, next, at) == /\ JournalValid(j)
                        /\ newest' = j /\ mem' = j /\ prior' = prior
                        /\ pc' = next /\ cursor' = at

(* A journal write keeps the invariant, whether it succeeds, fails, or     *)
(* fails after it has become durable.                                      *)
LEMMA PersistKeeps ==
  ASSUME IInv, NEW j, NEW next \in Steps, NEW at \in 0 .. Inv,
         Wellformed(j), Persist(j, next, at),
         Written(j, next, at) => At' /\ Cursor'
  PROVE  IInv'
  <1> USE DEF Persist, Wellformed
  <1>1. CASE Written(j, next, at)
    <2>1. Durable' /\ Truth(j)' /\ Shaped(j)'
      BY <1>1, WrittenKeeps DEF Written
    <2>2. Memory'
      BY <1>1, <2>1 DEF Written, Memory, IInv, Truth, Shaped, OldAt, NewAt
    <2>3. TypeOK'
      BY <1>1 DEF Written, IInv, TypeOK, disk, history
    <2> QED BY <1>1, <2>1, <2>2, <2>3 DEF IInv
  <1>2. CASE Return /\ newest' = newest
    BY <1>2, GiveUpKeeps DEF GiveUp
  <1>3. CASE Return /\ JournalValid(j) /\ newest' = j
    <2>1. Durable' BY <1>3, WrittenKeeps
    <2>2. TypeOK' BY <1>3, TypeFacts DEF Return, IInv, TypeOK, disk, history
    <2> QED BY <1>3, <2>1, <2>2, ReturnKeeps DEF IInv
  <1> QED BY <1>1, <1>2, <1>3 DEF Written

(* The same for the last write of a command.                               *)
LEMMA PersistLastKeeps ==
  ASSUME IInv, NEW j, Wellformed(j), PersistLast(j) PROVE IInv'
  <1> USE DEF PersistLast, Wellformed
  <1>2. CASE newest' = newest
    BY <1>2, GiveUpKeeps DEF GiveUp
  <1>3. CASE JournalValid(j) /\ newest' = j
    <2>1. Durable' BY <1>3, WrittenKeeps
    <2>2. TypeOK' BY <1>3, TypeFacts DEF Return, IInv, TypeOK, disk, history
    <2> QED BY <1>3, <2>1, <2>2, ReturnKeeps DEF IInv
  <1> QED BY <1>2, <1>3

-----------------------------------------------------------------------------
(* A running command has a journal in memory, and it is well formed.       *)
LEMMA MemFacts ==
  ASSUME IInv, pc # "idle"
  PROVE  /\ mem \in Journal /\ mem.txn \in Txn /\ mem.txn # 0 /\ mem.phase \in Phases
         /\ Wellformed(mem)
         /\ newest.txn \in Nat /\ newest.count \in Nat
  <1>1. newest.txn \in Nat /\ newest.count \in Nat
    BY TypeFacts DEF IInv, TypeOK, NoJournal, Txn
  <1>2. mem.txn # 0
    BY <1>1 DEF IInv, At, Begins, Continues
  <1>3. mem \in Journal
    BY <1>2, TypeFacts DEF IInv, TypeOK
  <1>4. \/ mem.txn = newest.txn + 1
        \/ /\ mem.txn = newest.txn /\ newest.txn # 0
           /\ newest.count <= mem.count /\ newest.named = mem.named
    BY DEF IInv, At, Begins, Continues
  <1>5. Shaped(mem) /\ Truth(mem)
    BY DEF IInv, Memory
  <1> QED BY <1>1, <1>2, <1>3, <1>4, <1>5, TypeFacts DEF Wellformed, Shaped, Journal

(* The command's journal stays well-formed when its phase is advanced.     *)
LEMMA PhaseWellformed ==
  ASSUME IInv, pc # "idle", NEW p \in Phases,
         p \in Forwards => mem.phase \in Forwards,
         p \in Open \ {"inventory"} => mem.count = N
  PROVE  Wellformed(Phase(mem, p))
  <1>1. /\ mem \in Journal /\ Wellformed(mem) /\ newest.txn \in Nat
    BY MemFacts
  <1>2. Truth(Phase(mem, p))
    BY <1>1, PhaseFacts DEF Truth, OldAt, NewAt, Wellformed
  <1> QED BY <1>1, <1>2, PhaseFacts DEF Wellformed

(* What the durable journal and the command's still agree on after it was  *)
(* written.                                                                *)
LEMMA WrittenContinues ==
  ASSUME NEW j \in Journal, newest' = j, mem' = j
  PROVE  Continues'
  BY TypeFacts DEF Continues, Journal

(* The writes that advance a transaction.                                  *)
LEMMA AdvanceKeeps ==
  ASSUME IInv,
         Prepare \/ Staged \/ CommitStart \/ CommitRecord \/ VerifyStart
           \/ InventoryStart \/ InventoryRecord \/ Applied
  PROVE  IInv'
  <1> USE TypeFacts DEF At, Cursor, Packaging, Inventorying, RollingBack, CleaningUp, Written
  <1>0. pc # "idle"
    BY DEF Prepare, Staged, CommitStart, CommitRecord, VerifyStart, InventoryStart,
           InventoryRecord, Applied
  <1>1. /\ mem \in Journal /\ Wellformed(mem) /\ At /\ prior.txn < mem.txn
        /\ mem.txn \in Txn /\ mem.phase \in Phases
    BY <1>0, MemFacts DEF IInv
  <1>2. CASE Prepare
    <2>1. Written(mem, "stage", 1) => At' /\ Cursor'
      BY <1>1, <1>2, WrittenContinues DEF Prepare, Begins, Forwarding, Open, Wellformed, Package
    <2> QED BY <1>1, <1>2, <2>1, PersistKeeps DEF Prepare, Steps
  <1>3. ASSUME NEW p \in Open, mem.phase \in Open, mem.count = N, p # "inventory",
               NEW next \in Packaging, NEW at \in 0 .. Inv,
               next \in {"stage", "commit"} => at \in Package, next # "commitRecord",
               Persist(Phase(mem, p), next, at)
        PROVE  IInv'
    <2>1. p \in Phases /\ next \in Steps /\ mem.phase \in Forwards
      BY <1>3 DEF Open, Phases, Steps, Forwards
    <2>2. Wellformed(Phase(mem, p)) /\ Phase(mem, p) \in Journal
      BY <1>0, <1>1, <1>3, <2>1, PhaseWellformed, PhaseFacts
    <2>3. Written(Phase(mem, p), next, at) => At' /\ Cursor'
      BY <1>1, <1>3, <2>1, <2>2, PhaseFacts, WrittenContinues DEF Forwarding, Open
    <2> QED BY <1>3, <2>1, <2>2, <2>3, PersistKeeps
  <1>4. CASE Staged
    BY <1>1, <1>3, <1>4 DEF Staged, Forwarding, Open
  <1>5. CASE CommitStart
    BY <1>1, <1>3, <1>5 DEF CommitStart, Forwarding, Open, Package
  <1>6. CASE CommitRecord
    <2>1. cursor \in Package BY <1>6 DEF CommitRecord, IInv
    <2> QED BY <1>1, <1>3, <1>6, <2>1 DEF CommitRecord, CommitNext, Forwarding, Open, Package
  <1>7. CASE VerifyStart
    BY <1>1, <1>3, <1>7 DEF VerifyStart, Forwarding, Open
  <1>8. ASSUME NEW next \in {"inventoryStage", "inventoryVerify"},
               mem.phase = "inventory", mem.count = Inv, Persist(mem, next, Inv)
        PROVE  IInv'
    <2>1. Written(mem, next, Inv) => At' /\ Cursor'
      BY <1>1, <1>8, WrittenContinues DEF Forwarding, Open
    <2> QED BY <1>1, <1>8, <2>1, PersistKeeps DEF Steps
  <1>9. CASE InventoryStart \/ InventoryRecord
    BY <1>1, <1>8, <1>9 DEF InventoryStart, InventoryRecord, Forwarding
  <1>10. CASE Applied
    <2>1. Wellformed(Phase(mem, "applied")) /\ Phase(mem, "applied") \in Journal
      BY <1>0, <1>1, <1>10, PhaseWellformed, PhaseFacts
         DEF Applied, Forwarding, Forwards, Phases, Open
    <2>2. Written(Phase(mem, "applied"), "precheck", 0) => At' /\ Cursor'
      BY <1>1, <1>10, <2>1, PhaseFacts, WrittenContinues DEF Applied, Phases
    <2> QED BY <1>10, <2>1, <2>2, PersistKeeps DEF Applied, Steps
  <1> QED BY <1>2, <1>4, <1>5, <1>6, <1>7, <1>9, <1>10

(* The writes that undo a transaction, and the ones that end it.           *)
LEMMA EndKeeps ==
  ASSUME IInv,
         RollbackStart \/ RollbackRecord \/ RollbackEnd \/ CleanupEnd \/ RollbackLastIntent
  PROVE  IInv'
  <1> USE TypeFacts DEF At, Cursor, Packaging, Inventorying, RollingBack, CleaningUp, Written
  <1>0. pc # "idle"
    BY DEF RollbackStart, RollbackRecord, RollbackEnd, CleanupEnd, RollbackLastIntent
  <1>1. /\ mem \in Journal /\ Wellformed(mem) /\ At /\ Cursor /\ prior.txn < mem.txn
        /\ mem.txn \in Txn /\ mem.phase \in Phases
    BY <1>0, MemFacts DEF IInv
  <1>2. CASE RollbackStart
    <2> DEFINE j == Phase(mem, "rollback")
    <2>1. Wellformed(j) /\ j \in Journal /\ j.phase = "rollback" /\ Payloads(j) = Payloads(mem)
          /\ j.count = mem.count /\ j.txn = mem.txn
      BY <1>0, <1>1, PhaseWellformed, PhaseFacts DEF Forwards, Phases, Open
    <2>2. mem.count \in 1 .. mem.count /\ mem.count \in 0 .. Inv
      BY <1>1 DEF Journal
    <2> HIDE DEF j
    <2>3. Written(j, "rollback", mem.count) => At' /\ Cursor'
      BY <1>1, <1>2, <2>1, <2>2, WrittenContinues DEF RollbackStart, Phases
    <2> QED BY <1>2, <2>1, <2>2, <2>3, PersistKeeps DEF RollbackStart, Steps, j
  <1>3. CASE RollbackRecord
    <2>1. cursor \in Payloads(mem) /\ mem.count \in Nat /\ cursor \in Nat /\ cursor <= mem.count
      BY <1>1, <1>3 DEF RollbackRecord, Payloads
    <2>2. /\ RollbackNext[1] \in {"rollback", "rollbackEnd"}
          /\ RollbackNext[2] \in 0 .. Inv
          /\ RollbackNext[1] = "rollback" => RollbackNext[2] \in 1 .. mem.count
      BY <1>1, <2>1 DEF RollbackNext, Payloads, Journal
    <2>3. Written(mem, RollbackNext[1], RollbackNext[2]) => At' /\ Cursor'
      <3> SUFFICES ASSUME newest' = mem, mem' = mem, prior' = prior,
                          pc' = RollbackNext[1], cursor' = RollbackNext[2]
                   PROVE At' /\ Cursor'
        BY DEF Written
      <3>1. mem.phase = "rollback" BY <1>1, <1>3 DEF RollbackRecord
      <3>2. Continues' BY <1>1, WrittenContinues
      <3>3. Payloads(mem)' = Payloads(mem) BY DEF Payloads
      <3> QED BY <1>1, <2>2, <3>1, <3>2, <3>3
    <2>4. Persist(mem, RollbackNext[1], RollbackNext[2]) BY <1>3 DEF RollbackRecord
    <2>5. RollbackNext[1] \in Steps BY <2>2 DEF Steps
    <2> QED BY <1>1, <2>2, <2>3, <2>4, <2>5, PersistKeeps
  <1>4. CASE RollbackEnd
    BY <1>0, <1>4, PhaseWellformed, PersistLastKeeps DEF RollbackEnd, Forwards, Phases, Open
  <1>5. CASE CleanupEnd
    BY <1>0, <1>1, <1>5, PhaseWellformed, PersistLastKeeps DEF CleanupEnd, Forwards, Phases, Open
  <1>6. CASE RollbackLastIntent
    BY <1>1, <1>6, PersistLastKeeps DEF RollbackLastIntent
  <1> QED BY <1>2, <1>3, <1>4, <1>5, <1>6

-----------------------------------------------------------------------------
(* Steps that go on without touching a target, a backup or a journal.      *)
LEMMA WalkKeeps ==
  ASSUME IInv, NEW next \in Steps, NEW at \in 0 .. Inv,
         pc # "idle", pc # "prepare", WalkTo(next, at),
         \/ /\ next \in Packaging \ {"inventory"} /\ pc \in Packaging
            /\ next \in {"stage", "commit"} => at \in Package
            /\ next # "commitRecord"
         \/ next \in {"inventory", "applied"} /\ pc \in Packaging \cup Inventorying
            /\ (next = "inventory" => pc \in Packaging)
         \/ /\ next \in {"inventoryStage", "inventoryCommit"} /\ at = Inv
            /\ pc \in Inventorying \ {"inventoryStart"}
         \/ next = "rollbackStart" /\ pc \in Packaging \cup Inventorying
         \/ /\ next \in {"cleanup", "cleanupEnd"} /\ pc \in CleaningUp
            /\ next = "cleanup" => at \in 1 .. mem.count
         \/ /\ next \in {"rollback", "rollbackEnd"} /\ pc \in RollingBack
            /\ next = "rollback" => at \in 1 .. mem.count
  PROVE  IInv'
  <1>1. TypeOK' /\ Durable' /\ Memory' BY WalkKeepsMost
  <1>2. Continues' /\ (Forwarding => Forwarding') /\ Payloads(mem)' = Payloads(mem)
    BY DEF IInv, At, Continues, Forwarding, Payloads, WalkTo
  <1>3. At'
    BY <1>2 DEF IInv, At, WalkTo, Packaging, Inventorying, CleaningUp, RollingBack
  <1>4. Cursor'
    BY <1>2 DEF Cursor, WalkTo, Packaging, Inventorying, CleaningUp, RollingBack
  <1> QED BY <1>1, <1>3, <1>4 DEF IInv

(* Writing or deleting stage files is such a step, or ends the command.    *)
LEMMA StageFiles ==
  ASSUME TypeOK, mem \in Journal, mem.txn \in Txn, NEW i \in Index, NEW c \in File
  PROVE  [stage EXCEPT ![mem.txn][i] = c] \in [Txn -> [Index -> File]]
  BY DEF TypeOK

(* A command that returns after it wrote or deleted stage files.           *)
LEMMA ReturnStageKeeps ==
  ASSUME IInv, Return, stage' \in [Txn -> [Index -> File]],
         UNCHANGED <<target, backup, newest, history>>
  PROVE  IInv'
  <1>1. TypeOK' BY TypeFacts DEF Return, IInv, TypeOK, history
  <1>2. Durable' BY DurableKeeps DEF history, IInv
  <1> QED BY <1>1, <1>2, ReturnKeeps DEF IInv

(* The types of the running command's entries.                             *)
LEMMA EntryFacts ==
  ASSUME IInv, pc # "idle", NEW i \in Index
  PROVE  /\ mem.entries[i] \in Entry
         /\ mem.entries[i].old \in File /\ mem.entries[i].new \in File
         /\ mem.entries[i].committed \in BOOLEAN /\ mem.entries[i].undone \in BOOLEAN
         /\ mem.entries[i].prev \in 0 .. MaxTxn
  BY MemFacts DEF Journal, Entry

(* Staging, and taking up a transaction again.                             *)
LEMMA StagingKeeps ==
  ASSUME IInv, StageReuse \/ StageWrite \/ StageInvalid \/ Reverify
  PROVE  IInv'
  <1> USE TypeFacts DEF Packaging, Inventorying, CleaningUp
  <1>1. /\ pc # "idle" /\ pc # "prepare" /\ TypeOK /\ mem \in Journal /\ mem.txn \in Txn
        /\ pc \in Packaging
    BY MemFacts DEF StageReuse, StageWrite, StageInvalid, Reverify, IInv
  <1>2. ASSUME pc = "stage"
        PROVE  /\ cursor \in Package /\ StageNext[1] \in {"staged", "stage"}
               /\ StageNext[1] \in Steps /\ StageNext[2] \in 0 .. Inv
               /\ StageNext[1] = "stage" => StageNext[2] \in Package
    BY <1>2 DEF StageNext, IInv, Cursor, Package, Steps
  <1>3. ASSUME pc = "stage", WalkTo(StageNext[1], StageNext[2]) PROVE IInv'
    <2>1. StageNext[1] \in Packaging \ {"inventory"} BY <1>2, <1>3
    <2>2. /\ StageNext[1] \in {"stage", "commit"} => StageNext[2] \in Package
          /\ StageNext[1] # "commitRecord"
      BY <1>2, <1>3
    <2> HIDE DEF Packaging
    <2> QED BY <1>1, <1>2, <1>3, <2>1, <2>2, WalkKeeps
  <1>4. CASE StageReuse
    BY <1>1, <1>3, <1>4, GotoWalks DEF StageReuse
  <1>5. CASE StageWrite
    <2>1. stage' \in [Txn -> [Index -> File]]
      <3>1. cursor \in Index /\ Current.new \in File
        BY <1>1, <1>2, <1>5, EntryFacts DEF StageWrite, Current
      <3> QED BY <1>1, <1>5, <3>1, StageFiles DEF StageWrite
    <2>2. CASE Return
      BY <1>5, <2>1, <2>2, ReturnStageKeeps DEF StageWrite
    <2>3. CASE WalkTo(StageNext[1], StageNext[2])
      BY <1>3, <1>5, <2>3 DEF StageWrite
    <2> QED BY <1>1, <1>5, <2>1, <2>2, <2>3 DEF StageWrite, WalkTo, history, TypeOK
  <1>6. CASE StageInvalid
    <2>1. stage' \in [Txn -> [Index -> File]]
      BY <1>1, <1>6 DEF StageInvalid, TypeOK
    <2>2. WalkTo("rollbackStart", 0)
      BY <1>1, <1>6, <2>1 DEF StageInvalid, WalkTo, history, TypeOK
    <2> QED BY <1>1, <2>2, WalkKeeps DEF Steps
  <1>7. CASE Reverify
    <2>1. CASE Goto("stage", 1)
      BY <1>1, <2>1, GotoWalks, WalkKeeps DEF Steps, Package
    <2>2. CASE Goto("commitStart", 0)
      BY <1>1, <2>2, GotoWalks, WalkKeeps DEF Steps
    <2>3. CASE Goto("rollbackStart", 0)
      BY <1>1, <2>3, GotoWalks, WalkKeeps DEF Steps
    <2> QED BY <1>7, <2>1, <2>2, <2>3 DEF Reverify
  <1> QED BY <1>4, <1>5, <1>6, <1>7

(* Decisions on the way: a conflict, a check passed or failed.             *)
LEMMA DecisionKeeps ==
  ASSUME IInv,
         CommitConflict \/ Verify \/ InventoryResume \/ InventoryStaged
           \/ InventoryStageConflict \/ InventoryConflict \/ InventoryVerify
  PROVE  IInv'
  <1> USE TypeFacts
  <1>1. /\ pc # "idle" /\ pc # "prepare" /\ TypeOK
        /\ pc \in Packaging \cup Inventorying
        /\ Verify => pc \in Packaging
        /\ InventoryResume \/ InventoryStaged => pc \in Inventorying \ {"inventoryStart"}
    BY DEF CommitConflict, Verify, InventoryResume, InventoryStaged, InventoryStageConflict,
           InventoryConflict, InventoryVerify, IInv, Packaging, Inventorying
  <1>2. CASE Goto("rollbackStart", 0)
    BY <1>1, <1>2, GotoWalks, WalkKeeps DEF Steps
  <1>3. CASE Goto("applied", 0)
    BY <1>1, <1>3, GotoWalks, WalkKeeps DEF Steps
  <1>4. CASE Verify /\ Goto("inventory", 0)
    BY <1>1, <1>4, GotoWalks, WalkKeeps DEF Steps
  <1>5. CASE InventoryResume /\ Goto("inventoryStage", Inv)
    BY <1>1, <1>5, GotoWalks, WalkKeeps DEF Steps
  <1>6. CASE InventoryStaged
    BY <1>1, <1>6, GotoWalks, WalkKeeps DEF Steps, InventoryStaged
  <1> QED
    BY <1>2, <1>3, <1>4, <1>5, <1>6
       DEF CommitConflict, Verify, InventoryResume, InventoryStageConflict,
           InventoryConflict, InventoryVerify

(* Staging MODULES.JSON.                                                   *)
LEMMA InventoryStageKeeps ==
  ASSUME IInv, InventoryStageWrite PROVE IInv'
  <1> USE TypeFacts DEF InventoryStageWrite
  <1>1. /\ pc = "inventoryStage" /\ pc \in Inventorying /\ cursor = Inv /\ TypeOK
        /\ mem \in Journal /\ mem.txn \in Txn /\ Current.new \in File
    BY MemFacts, EntryFacts DEF IInv, Cursor, Inventorying, Current
  <1>2. stage' \in [Txn -> [Index -> File]]
    BY <1>1, StageFiles
  <1>3. CASE Return
    BY <1>2, <1>3, ReturnStageKeeps
  <1>4. CASE WalkTo("inventoryCommit", Inv)
    BY <1>1, <1>4, WalkKeeps DEF Steps
  <1> QED BY <1>1, <1>2, <1>3, <1>4 DEF WalkTo, history, TypeOK

(* Before and between the rotations.                                       *)
LEMMA CleanupWalkKeeps ==
  ASSUME IInv, Precheck \/ CleanupSkip PROVE IInv'
  <1> USE TypeFacts
  <1>1. /\ pc # "idle" /\ pc # "prepare" /\ TypeOK /\ pc \in CleaningUp
        /\ mem \in Journal
    BY MemFacts DEF Precheck, CleanupSkip, CleaningUp, IInv
  <1>2. CASE Precheck
    <2>1. WalkTo("cleanup", 1)
      BY <1>1, <1>2 DEF Precheck, WalkTo, disk, TypeOK
    <2>2. 1 \in 1 .. mem.count /\ 1 \in 0 .. Inv
      BY <1>1 DEF Journal
    <2> QED BY <1>1, <2>1, <2>2, WalkKeeps DEF Steps
  <1>3. CASE CleanupSkip
    <2>1. cursor \in 1 .. mem.count /\ mem.count \in Nat /\ mem.count <= Inv
      BY <1>1, <1>3 DEF CleanupSkip, IInv, Cursor, Payloads, Journal
    <2>2. /\ CleanupNext[1] \in {"cleanup", "cleanupEnd"} /\ CleanupNext[1] \in Steps
          /\ CleanupNext[2] \in 0 .. Inv
          /\ CleanupNext[1] = "cleanup" => CleanupNext[2] \in 1 .. mem.count
      BY <2>1 DEF CleanupNext, Payloads, Steps
    <2>3. WalkTo(CleanupNext[1], CleanupNext[2])
      BY <1>1, <1>3, GotoWalks DEF CleanupSkip
    <2> QED BY <1>1, <2>2, <2>3, WalkKeeps
  <1> QED BY <1>2, <1>3

-----------------------------------------------------------------------------
(* Steps on one payload.  Truth about all others:                          *)
TruthBut(j, c) == \A i \in Payloads(j) \ (touched \cup {c}) :
                    /\ OldAt(j, i) \/ NewAt(j, i)
                    /\ j.entries[i].committed /\ j.phase \in Forwards => NewAt(j, i)
                    /\ j.entries[i].undone => OldAt(j, i)

SameFiles(e) == e.old = Current.old /\ e.new = Current.new

(* A mark on one payload leaves the truth about the others alone.          *)
LEMMA MarkTruthBut ==
  ASSUME NEW j \in Journal, NEW i \in Payloads(j), Truth(j)
  PROVE  TruthBut(MarkInstalled(j, i), i) /\ TruthBut(MarkRestored(j, i), i)
  <1>1. Payloads(j) \subseteq Index BY TypeFacts
  <1>2. TruthBut(MarkInstalled(j, i), i)
    <2> DEFINE m == MarkInstalled(j, i)
    <2>1. m.phase = j.phase /\ m.txn = j.txn /\ Payloads(m) = Payloads(j)
      BY InstalledFacts
    <2>2. ASSUME NEW k \in Index \ {i} PROVE m.entries[k] = j.entries[k]
      BY InstalledFacts
    <2> HIDE DEF m
    <2>3. TruthBut(m, i)
      BY <1>1, <2>1, <2>2 DEF TruthBut, Truth, OldAt, NewAt
    <2> QED BY <2>3 DEF m
  <1>3. TruthBut(MarkRestored(j, i), i)
    <2> DEFINE m == MarkRestored(j, i)
    <2>1. m.phase = j.phase /\ m.txn = j.txn /\ Payloads(m) = Payloads(j)
      BY RestoredFacts
    <2>2. ASSUME NEW k \in Index \ {i} PROVE m.entries[k] = j.entries[k]
      BY RestoredFacts
    <2> HIDE DEF m
    <2>3. TruthBut(m, i)
      BY <1>1, <2>1, <2>2 DEF TruthBut, Truth, OldAt, NewAt
    <2> QED BY <2>3 DEF m
  <1> QED BY <1>2, <1>3

(* A checked kernel operation changes the three files of one payload.      *)
LEMMA SetDiskFacts ==
  ASSUME TypeOK, mem.txn \in Txn, cursor \in Index, NEW t \in File, NEW s \in File, NEW b \in File,
         SetDisk(cursor, t, s, b)
  PROVE  /\ target' \in [Index -> File] /\ stage' \in [Txn -> [Index -> File]]
         /\ backup' \in [Txn -> [Index -> File]]
         /\ target'[cursor] = t /\ backup'[mem.txn][cursor] = b
         /\ \A i \in Index \ {cursor} : target'[i] = target[i]
         /\ \A g \in Txn, i \in Index : g # mem.txn \/ i # cursor => backup'[g][i] = backup[g][i]
  BY DEF SetDisk, TypeOK

(* fileUpdateAtomicChecked leaves the payload installed,                   *)
LEMMA ForwardTruth ==
  ASSUME TypeOK, mem.txn \in Txn, cursor \in Index, Current.old \in File, Current.new \in File,
         Forward, Replaced(Current), UNCHANGED touched,
         NEW j \in Journal, j.txn = mem.txn, TruthBut(j, cursor),
         cursor \in Payloads(j) => SameFiles(j.entries[cursor]) /\ ~j.entries[cursor].undone
  PROVE  Truth(j)'
  <1>1. SetDisk(cursor, Current.new, Absent, Current.old) BY DEF Forward
  <1>2. /\ target'[cursor] = Current.new /\ backup'[j.txn][cursor] = Current.old
        /\ \A i \in Index \ {cursor} :
             target'[i] = target[i] /\ backup'[j.txn][i] = backup[j.txn][i]
    BY <1>1, SetDiskFacts, TypeFacts
  <1>3. Payloads(j) \subseteq Index BY TypeFacts
  <1> QED BY <1>2, <1>3 DEF Truth, TruthBut, OldAt, NewAt, SameFiles, Replaced

(* or restored.                                                            *)
LEMMA RollBackTruth ==
  ASSUME TypeOK, mem.txn \in Txn, cursor \in Index, Current.old \in File,
         RollBack, UNCHANGED touched,
         NEW j \in Journal, j.txn = mem.txn, TruthBut(j, cursor), j.phase \notin Forwards,
         cursor \in Payloads(j) => SameFiles(j.entries[cursor])
  PROVE  Truth(j)'
  <1>1. SetDisk(cursor, Current.old, Absent, Absent) BY DEF RollBack
  <1>2. /\ target'[cursor] = Current.old /\ backup'[j.txn][cursor] = Absent
        /\ \A i \in Index \ {cursor} :
             target'[i] = target[i] /\ backup'[j.txn][i] = backup[j.txn][i]
    BY <1>1, SetDiskFacts, TypeFacts
  <1>3. Payloads(j) \subseteq Index BY TypeFacts
  <1> QED BY <1>2, <1>3 DEF Truth, TruthBut, OldAt, NewAt, SameFiles

(* fileUpdateCleanupChecked only deletes a copy of an older transaction.   *)
LEMMA RotateFacts ==
  ASSUME TypeOK, cursor \in Index, Current.prev \in 0 .. MaxTxn, Rotate
  PROVE  /\ target' = target /\ stage' = stage /\ backup' \in [Txn -> [Index -> File]]
         /\ \A g \in Txn, i \in Index :
              /\ backup'[g][i] \in {backup[g][i], Absent}
              /\ g # Current.prev => backup'[g][i] = backup[g][i]
  BY TypeFacts, TxnAssumption DEF Rotate, TypeOK, Txn

(* What the two commit loops know of the payload at hand.                  *)
Committing == {"commit", "inventoryCommit"}

(* In both commit loops the command works on the durable transaction and on*)
(* a payload that was not restored.                                        *)
LEMMA CommitFacts ==
  ASSUME IInv, pc \in Committing, Named
  PROVE  /\ mem \in Journal /\ newest \in Journal /\ mem.txn \in Txn /\ newest.txn = mem.txn
         /\ cursor \in Index /\ cursor \in Payloads(mem) /\ cursor \in Payloads(newest)
         /\ Forwarding /\ Continues
         /\ SameFiles(newest.entries[cursor])
         /\ ~newest.entries[cursor].undone /\ Undone(mem) = {} /\ ~Current.undone
         /\ Current \in Entry /\ Current.old \in File /\ Current.new \in File
         /\ pc = "commit" => cursor \in Package /\ mem.count = N
         /\ pc = "inventoryCommit" => cursor = Inv /\ mem.count = Inv /\ newest.phase = "inventory"
  <1> USE TypeFacts DEF Committing
  <1>1. /\ mem \in Journal /\ mem.txn \in Txn /\ Forwarding /\ Continues
        /\ pc = "commit" => cursor \in Package /\ mem.count = N
        /\ pc = "inventoryCommit" => cursor = Inv /\ mem.count = Inv /\ newest.phase = "inventory"
    BY MemFacts DEF IInv, At, Cursor, Packaging, Inventorying
  <1>2. newest \in Journal /\ newest.txn = mem.txn
    BY <1>1 DEF Continues, IInv, TypeOK
  <1>3. Undone(newest) = {} /\ Undone(mem) = {} /\ (pc = "inventoryCommit" => newest.count = Inv)
    BY <1>1, <1>2 DEF IInv, Durable, Memory, Shaped, Forwarding
  <1>4. cursor \in Index /\ cursor \in Payloads(mem) /\ cursor \in Payloads(newest)
    <2>1. cursor \in Payloads(mem) /\ newest.named = mem.named
      BY <1>1 DEF Named, Continues
    <2>2. CASE pc = "commit"
      <3>1. cursor \in mem.named BY <1>1, <2>1, <2>2 DEF Payloads, Package
      <3> QED BY <1>1, <1>2, <2>1, <3>1
    <2>3. CASE pc = "inventoryCommit"
      BY <1>1, <1>2, <1>3, <2>1, <2>3 DEF Payloads
    <2> QED BY <2>2, <2>3
  <1>5. Current \in Entry /\ Current.old \in File /\ Current.new \in File
        /\ Current.undone \in BOOLEAN
    BY <1>1, <1>4, EntryFacts DEF Current
  <1>6. ~newest.entries[cursor].undone /\ ~Current.undone
    BY <1>3, <1>4 DEF Undone, Current
  <1>7. SameFiles(newest.entries[cursor])
    BY <1>1, <1>4 DEF Continues, SameFiles, Current
  <1> QED BY <1>1, <1>2, <1>3, <1>4, <1>5, <1>6, <1>7

(* What is to be replaced is a payload.                                    *)
LEMMA ReplacedNamed ==
  ASSUME IInv, pc \in {"commit", "inventoryCommit", "rollback", "cleanup"}, Replaced(Current)
  PROVE  Named
  <1>1. mem \in Journal /\ Shaped(mem) /\ mem.txn # 0
    BY MemFacts DEF IInv, Memory
  <1>2. cursor \in Index
    BY <1>1, TypeFacts DEF IInv, Cursor
  <1>3. cursor \notin Payloads(mem) => Current = NoEntry
    BY <1>1, <1>2 DEF Shaped, Current
  <1> QED BY <1>3 DEF Named, Replaced, NoEntry

(* So is the inventory when it is committed.                               *)
LEMMA InventoryNamed ==
  ASSUME IInv, pc = "inventoryCommit" PROVE Named
  <1>1. cursor = Inv /\ mem.count = Inv /\ Inv \in 1 .. Inv
    BY TypeFacts DEF IInv, At, Cursor, Inventorying
  <1> QED BY <1>1 DEF Named, Payloads

(* The loops only ever work on payloads.                                   *)
LEMMA ActNamed ==
  ASSUME IInv,
         CommitSameFile \/ CommitReplace \/ InventoryCommit \/ RollbackSkip \/ Rollback \/ Cleanup
  PROVE  Named
  <1>1. CASE CommitReplace \/ Rollback \/ Cleanup
    BY <1>1, ReplacedNamed DEF CommitReplace, Rollback, Cleanup
  <1>2. CASE InventoryCommit
    BY <1>2, InventoryNamed DEF InventoryCommit
  <1> QED BY <1>1, <1>2 DEF CommitSameFile, RollbackSkip

(* The journal in memory counts the payload as installed, at the right     *)
(* place.                                                                  *)
LEMMA MarkKeeps ==
  ASSUME IInv, pc \in Committing, Named, NEW m, m = MarkInstalled(mem, cursor),
         mem' = m, UNCHANGED <<newest, prior, cursor>>,
         pc' = IF pc = "commit" THEN "commitRecord" ELSE "inventoryRecord"
  PROVE  Shaped(mem)' /\ Shaped(prior)' /\ At' /\ Cursor' /\ mem' \in Journal
  <1> USE DEF Committing
  <1>1. /\ m \in Journal /\ m.phase = mem.phase /\ m.txn = mem.txn /\ m.count = mem.count
        /\ Payloads(m) = Payloads(mem) /\ m.named = mem.named
        /\ \A k \in Index \ Payloads(m) : m.entries[k] = mem.entries[k]
        /\ \A k \in Index : /\ m.entries[k].old = mem.entries[k].old
                            /\ m.entries[k].new = mem.entries[k].new
                            /\ m.entries[k].prev = mem.entries[k].prev
                            /\ m.entries[k].undone = mem.entries[k].undone
    <2>1. mem \in Journal /\ cursor \in Payloads(mem) /\ cursor \in Index
      BY CommitFacts
    <2>2. /\ m \in Journal /\ m.phase = mem.phase /\ m.txn = mem.txn /\ m.count = mem.count
          /\ Payloads(m) = Payloads(mem) /\ m.named = mem.named
          /\ m.entries[cursor].undone = mem.entries[cursor].undone
      BY <2>1, InstalledFacts
    <2>3. \A k \in Index : /\ m.entries[k].old = mem.entries[k].old
                           /\ m.entries[k].new = mem.entries[k].new
                           /\ m.entries[k].prev = mem.entries[k].prev
                           /\ k # cursor => m.entries[k] = mem.entries[k]
      BY <2>1, InstalledFacts
    <2> QED BY <2>1, <2>2, <2>3
  <1>2. Undone(m) = {}
    BY <1>1, CommitFacts, TypeFacts DEF Undone
  <1>3. Shaped(m)
    <2>1. Shaped(mem) /\ m.phase \in Open /\ m.txn # 0
      BY <1>1, CommitFacts, TypeFacts DEF IInv, Memory, Forwarding
    <2>2. m.phase \notin {"applied", "cleanup", "rolled_back"}
      BY <2>1 DEF Open
    <2>3. m.named \subseteq Index
      BY <1>1, TypeFacts
    <2> QED BY <1>1, <1>2, <2>1, <2>2, <2>3 DEF Shaped
  <1>4. Shaped(mem)' /\ Shaped(prior)'
    BY <1>3 DEF Shaped, IInv, Memory
  <1>5. Continues' /\ Forwarding'
    <2>1. Forwarding'
      BY <1>1, CommitFacts DEF Forwarding
    <2>2. Continues /\ Payloads(newest) \subseteq Index
      BY CommitFacts, TypeFacts
    <2>3. /\ m.txn = newest.txn /\ newest.txn # 0
          /\ newest.count <= m.count /\ newest.named = m.named
      BY <1>1, <2>2 DEF Continues
    <2>4. \A k \in Payloads(newest) : /\ m.entries[k].old = newest.entries[k].old
                                      /\ m.entries[k].new = newest.entries[k].new
      BY <1>1, <2>2 DEF Continues
    <2> QED BY <2>1, <2>3, <2>4 DEF Continues, Payloads
  <1>6. At'
    BY <1>1, <1>5, CommitFacts DEF IInv, At, Packaging, Inventorying, RollingBack, CleaningUp
  <1>7. Cursor'
    BY <1>1, CommitFacts DEF Cursor
  <1> QED BY <1>1, <1>4, <1>6, <1>7

(* Counting a payload as installed that is.                                *)
LEMMA CommitSameKeeps ==
  ASSUME IInv, pc \in Committing, Named, target[cursor] = Current.new,
         mem' = MarkInstalled(mem, cursor), UNCHANGED <<disk, newest, prior, cursor, history>>,
         pc' = IF pc = "commit" THEN "commitRecord" ELSE "inventoryRecord"
  PROVE  IInv'
  <1> DEFINE m == MarkInstalled(mem, cursor)
  <1>1. /\ m \in Journal /\ m.txn = mem.txn /\ Payloads(m) = Payloads(mem)
        /\ TruthBut(m, cursor)
        /\ m.entries[cursor].old = Current.old /\ m.entries[cursor].new = Current.new
        /\ ~m.entries[cursor].undone
    <2>1. Truth(mem) /\ mem \in Journal /\ cursor \in Payloads(mem) /\ cursor \in Index /\ ~Current.undone
      BY CommitFacts DEF IInv, Memory
    <2> QED BY <2>1, InstalledFacts, MarkTruthBut DEF Current
  <1>2. Shaped(mem)' /\ Shaped(prior)' /\ At' /\ Cursor' /\ mem' \in Journal
    BY MarkKeeps
  <1> HIDE DEF m
  <1>3. cursor \notin touched => NewAt(m, cursor)
    <2>1. cursor \notin touched => OldAt(mem, cursor) \/ NewAt(mem, cursor)
      BY CommitFacts DEF IInv, Memory, Truth
    <2> QED BY <1>1, <2>1 DEF OldAt, NewAt, Replaced, Current
  <1>4. Truth(m)
    BY <1>1, <1>3 DEF Truth, TruthBut
  <1>5. Truth(mem)'
    BY <1>4 DEF m, Truth, OldAt, NewAt, disk, history
  <1>6. Durable'
    BY DurableKeeps DEF IInv, disk, history
  <1>7. TypeOK'
    BY <1>2 DEF IInv, TypeOK, disk, history, Committing, Steps
  <1> QED BY <1>2, <1>5, <1>6, <1>7 DEF IInv, Memory

(* Installing a payload.                                                   *)
LEMMA ForwardKeeps ==
  ASSUME IInv, pc \in Committing, Named, Replaced(Current), Forward, UNCHANGED <<newest, history>>,
         \/ /\ mem' = MarkInstalled(mem, cursor) /\ UNCHANGED <<prior, cursor>>
            /\ pc' = IF pc = "commit" THEN "commitRecord" ELSE "inventoryRecord"
         \/ Return
  PROVE  IInv'
  <1>1. /\ TypeOK /\ mem.txn \in Txn /\ mem \in Journal /\ cursor \in Index
        /\ cursor \in Payloads(mem) /\ Current.old \in File /\ Current.new \in File
        /\ Truth(mem) /\ Truth(newest) /\ ~Current.undone
        /\ newest \in Journal /\ newest.txn = mem.txn /\ cursor \in Payloads(newest)
    BY CommitFacts DEF IInv, Memory, Durable
  <1>2. SetDisk(cursor, Current.new, Absent, Current.old)
    BY DEF Forward
  <1>3. /\ target' \in [Index -> File] /\ stage' \in [Txn -> [Index -> File]]
        /\ backup' \in [Txn -> [Index -> File]]
        /\ \A g \in Txn, i \in Index : g # mem.txn \/ i # cursor => backup'[g][i] = backup[g][i]
    BY <1>1, <1>2, TypeFacts, SetDiskFacts
  <1>4. Truth(newest)'
    <2>1. TruthBut(newest, cursor)
      BY <1>1 DEF Truth, TruthBut
    <2>2. SameFiles(newest.entries[cursor]) /\ ~newest.entries[cursor].undone
      BY CommitFacts
    <2>3. \A j \in Journal : j = newest => Truth(j)'
      BY <1>1, <2>1, <2>2, ForwardTruth DEF history
    <2> QED BY <1>1, <2>3 DEF Truth, OldAt, NewAt
  <1>5. Unused'
    <2> SUFFICES ASSUME NEW i \in Index \ touched
        PROVE /\ \A g \in Txn : g > newest.txn => backup'[g][i] = Absent
              /\ i \notin Payloads(newest) => backup'[newest.txn][i] = Absent
      BY DEF Unused, history
    <2>1. newest.txn \in Txn /\ newest.txn \in Nat /\ Txn \subseteq Nat
      BY <1>1 DEF Txn
    <2> QED BY <1>1, <1>3, <2>1, TypeFacts DEF IInv, Durable, Unused
  <1>6. Durable'
    BY <1>4, <1>5 DEF IInv, Durable, Shaped
  <1>7. CASE Return
    <2>1. TypeOK' BY <1>1, <1>3, <1>7, TypeFacts DEF Return, TypeOK, history
    <2> QED BY <1>6, <1>7, <2>1, ReturnKeeps DEF IInv
  <1>8. CASE /\ mem' = MarkInstalled(mem, cursor) /\ UNCHANGED <<prior, cursor>>
             /\ pc' = IF pc = "commit" THEN "commitRecord" ELSE "inventoryRecord"
    <2> DEFINE m == MarkInstalled(mem, cursor)
    <2>1. Shaped(mem)' /\ Shaped(prior)' /\ At' /\ Cursor' /\ mem' \in Journal
      BY <1>8, MarkKeeps
    <2>2. /\ m \in Journal /\ m.txn = mem.txn /\ TruthBut(m, cursor)
          /\ m.entries[cursor].old = Current.old /\ m.entries[cursor].new = Current.new
          /\ ~m.entries[cursor].undone
      BY <1>1, InstalledFacts, MarkTruthBut DEF Current
    <2> HIDE DEF m
    <2>3. \A j \in Journal : j = m => Truth(j)'
      BY <1>1, <2>2, ForwardTruth DEF history, SameFiles
    <2>4. Truth(mem)'
      BY <1>8, <2>2, <2>3 DEF m, Truth, OldAt, NewAt
    <2>5. TypeOK'
      BY <1>1, <1>3, <1>8, <2>1 DEF TypeOK, history, Committing, Steps
    <2> QED BY <1>6, <2>1, <2>4, <2>5 DEF IInv, Memory
  <1> QED BY <1>7, <1>8

(* commitTransaction and commitInventoryPayload keep the invariant.        *)
LEMMA CommitKeeps ==
  ASSUME IInv, CommitSameFile \/ CommitReplace \/ InventoryCommit PROVE IInv'
  <1> USE DEF Committing
  <1>1. CASE CommitSameFile
    <2>1. pc = "commit" /\ pc \in Packaging BY <1>1 DEF CommitSameFile, Packaging
    <2>2. CASE Goto("rollbackStart", 0)
      BY <2>1, <2>2, GotoWalks, WalkKeeps, TypeFacts DEF Steps, IInv
    <2> QED BY <1>1, <2>1, <2>2, CommitSameKeeps DEF CommitSameFile, Target
  <1>2. CASE CommitReplace
    BY <1>2, ActNamed, ForwardKeeps DEF CommitReplace
  <1>3. CASE InventoryCommit
    <2>1. pc = "inventoryCommit" /\ cursor = Inv /\ Named
      BY <1>3, InventoryNamed, CommitFacts DEF InventoryCommit
    <2>2. CASE Target = Current.new
      BY <1>3, <2>1, <2>2, CommitSameKeeps DEF InventoryCommit, Target, history
    <2>3. CASE Target # Current.new
      <3>1. Replaced(Current)
        BY <1>3, <2>3 DEF InventoryCommit, Forward, ForwardAccepts, Replaced
      <3>2. /\ Forward /\ UNCHANGED <<newest, history>>
            /\ \/ /\ mem' = MarkInstalled(mem, cursor) /\ pc' = "inventoryRecord"
                  /\ UNCHANGED <<prior, cursor>>
               \/ Return
        BY <1>3, <2>1, <2>3 DEF InventoryCommit
      <3> QED BY <2>1, <3>1, <3>2, ForwardKeeps
    <2> QED BY <2>2, <2>3
  <1> QED BY <1>1, <1>2, <1>3

(* Appending the inventory.  Its entry inherits from the predecessor.      *)
LEMMA InheritFacts ==
  ASSUME NEW old \in File, NEW new \in File, NEW i \in Index,
         NEW previous \in Journal \cup {NoJournal}
  PROVE  LET e == NewEntry(i, old, new, previous)
         IN  /\ e \in Entry /\ e.old = old /\ e.new = new
             /\ ~e.committed /\ ~e.undone
             /\ e.prev \in {0, previous.txn, previous.entries[i].prev}
  <1> USE TxnAssumption
  <1> DEFINE e0 == [NoEntry EXCEPT !.old = old, !.new = new]
             e == NewEntry(i, old, new, previous)
  <1>1. e0 \in Entry /\ e0.old = old /\ e0.new = new /\ ~e0.committed /\ ~e0.undone /\ e0.prev = 0
    BY TypeFacts DEF NoEntry, Entry
  <1>2. e = Inherit(e0, i, previous)
    BY DEF NewEntry
  <1> HIDE DEF e0, e
  <1>3. CASE i \notin Payloads(previous) \/ ~phaseTerminal(previous.phase)
    <2>1. e = e0 BY <1>2, <1>3 DEF Inherit
    <2> QED BY <1>1, <2>1 DEF e
  <1>4. CASE i \in Payloads(previous) /\ phaseTerminal(previous.phase)
    <2>1. previous \in Journal /\ previous.txn \in 0 .. MaxTxn
          /\ previous.entries[i].prev \in 0 .. MaxTxn
          /\ previous.entries[i].old \in File /\ previous.entries[i].last \in File
      BY <1>4, TypeFacts DEF Journal, Entry, Txn
    <2>2. \/ e = [e0 EXCEPT !.prev = previous.txn, !.last = previous.entries[i].old]
          \/ e = [e0 EXCEPT !.prev = previous.entries[i].prev, !.last = previous.entries[i].last]
      BY <1>2, <1>4 DEF Inherit
    <2>3. ASSUME NEW p \in 0 .. MaxTxn, NEW l \in File, e = [e0 EXCEPT !.prev = p, !.last = l]
          PROVE  e \in Entry /\ e.old = old /\ e.new = new /\ ~e.committed /\ ~e.undone /\ e.prev = p
      BY <1>1, <2>3 DEF Entry
    <2> QED BY <2>1, <2>2, <2>3 DEF e
  <1> QED BY <1>3, <1>4

(* completeInventoryPhase keeps the invariant: the appended payload is     *)
(* where its entry says.                                                   *)
LEMMA InventoryKeeps ==
  ASSUME IInv, Inventory PROVE IInv'
  <1> USE TypeFacts
  <1>1. /\ pc = "inventory" /\ pc \in Packaging /\ mem \in Journal /\ mem.txn \in Txn
        /\ TypeOK /\ mem.txn # 0 /\ mem.count = N /\ Forwarding /\ Continues
        /\ prior.txn < mem.txn /\ Truth(mem) /\ Shaped(mem) /\ Shaped(prior)
    BY MemFacts DEF Inventory, IInv, At, Packaging, Memory
  <1>2. CASE Goto("rollbackStart", 0)
    BY <1>1, <1>2, GotoWalks, WalkKeeps DEF Steps
  <1>3. CASE /\ InventoryReady
             /\ mem' = [mem EXCEPT !.phase = "inventory", !.count = Inv,
                                   !.entries[Inv] = InventoryEntry]
             /\ pc' = "inventoryStart" /\ cursor' = 0
             /\ UNCHANGED <<disk, newest, prior, history>>
    <2> DEFINE m == [mem EXCEPT !.phase = "inventory", !.count = Inv,
                                !.entries[Inv] = InventoryEntry]
               e == InventoryEntry
    <2>1. Rendered \in Versions
      <3>1. \A i \in mem.named : mem.entries[i].new \in Content
        BY <1>1 DEF Shaped
      <3>2. target[Inv] \in Versions
        BY <1>3 DEF InventoryReady
      <3> QED BY <3>1, <3>2 DEF Rendered, Versions
    <2>2. /\ e \in Entry /\ e.old = target[Inv] /\ e.new = Rendered
          /\ ~e.committed /\ ~e.undone
          /\ e.prev \in {0, prior.txn, prior.entries[Inv].prev}
      <3>1. target[Inv] \in File /\ Rendered \in File /\ prior \in Journal \cup {NoJournal}
        BY <1>1, <2>1 DEF TypeOK
      <3> QED BY <3>1, InheritFacts DEF InventoryEntry
    <2>3. e.prev < mem.txn
      <3>1. prior.txn \in Nat /\ mem.txn \in Nat /\ mem.txn > 0
        BY <1>1 DEF TypeOK, Txn
      <3>2. CASE prior = NoJournal
        BY <2>2, <3>1, <3>2 DEF NoJournal, NoEntry
      <3>3. CASE prior \in Journal
        <4>1. prior.entries[Inv].prev < prior.txn /\ prior.entries[Inv].prev \in 0 .. MaxTxn
          BY <1>1, <3>3 DEF Shaped, Journal, Entry
        <4> QED BY <1>1, <2>2, <3>1, <4>1, TxnAssumption
      <3> QED BY <1>1, <3>2, <3>3 DEF TypeOK
    <2>4. /\ m \in Journal /\ m.phase = "inventory" /\ m.count = Inv /\ m.txn = mem.txn
          /\ m.entries[Inv] = e /\ m.named = mem.named
          /\ \A k \in Package : m.entries[k] = mem.entries[k]
      <3> HIDE DEF e
      <3>1. Inv \notin Package /\ N \in Nat BY DEF Package
      <3> QED BY <1>1, <2>2, <3>1 DEF Journal, Phases, e
    <2> HIDE DEF m, e
    <2>5. /\ Payloads(m) = mem.named \cup {Inv} /\ Payloads(mem) = mem.named
          /\ Index = Package \cup {Inv} /\ Inv \notin Package /\ mem.named \subseteq Package
      BY <1>1, <2>4 DEF Payloads, Package, Index
    <2>6. Inv \notin touched => target[Inv] = e.old /\ backup[mem.txn][Inv] = Absent
      <3>1. newest.count = N /\ newest.txn = mem.txn /\ newest.txn # 0
        <4>1. newest \in Journal BY <1>1 DEF Continues, TypeOK
        <4>2. newest.count <= N /\ newest.count \in {N, Inv} BY <1>1, <4>1 DEF Continues, Journal
        <4> QED BY <1>1, <4>2 DEF Continues
      <3>2. Inv \notin Payloads(newest) BY <3>1 DEF Payloads
      <3> QED BY <1>1, <2>2, <3>1, <3>2 DEF IInv, Durable, Unused
    <2>7. Truth(m)
      <3>1. \A k \in mem.named \ touched :
               /\ OldAt(m, k) \/ NewAt(m, k)
               /\ m.entries[k].committed => NewAt(m, k)
               /\ m.entries[k].undone => OldAt(m, k)
        <4>1. \A k \in mem.named : m.entries[k] = mem.entries[k] BY <2>4, <2>5
        <4>2. mem.phase \in Forwards BY <1>1 DEF Forwarding, Forwards
        <4>3. \A k \in mem.named \ touched :
                 /\ OldAt(mem, k) \/ NewAt(mem, k)
                 /\ mem.entries[k].committed => NewAt(mem, k)
                 /\ mem.entries[k].undone => OldAt(mem, k)
          BY <1>1, <2>5, <4>2 DEF Truth
        <4>4. m.txn = mem.txn BY <2>4
        <4> HIDE DEF Inventory
        <4> QED BY <4>1, <4>3, <4>4 DEF OldAt, NewAt
      <3>2. Inv \notin touched => OldAt(m, Inv)
        BY <2>2, <2>4, <2>6 DEF OldAt
      <3>3. ~m.entries[Inv].committed
        BY <2>2, <2>4
      <3> QED BY <2>5, <3>1, <3>2, <3>3 DEF Truth
    <2>8. Shaped(m)
      BY <1>1, <2>2, <2>3, <2>4, <2>5 DEF Shaped, Forwarding, Open, Undone
    <2>9. mem' = m
      BY <1>3 DEF m
    <2>10. Memory'
      <3>1. Truth(mem)' BY <1>3, <2>7, <2>9 DEF Truth, OldAt, NewAt, disk, history
      <3>2. Shaped(mem)' BY <2>8, <2>9 DEF Shaped
      <3>3. Shaped(prior)' BY <1>1, <1>3 DEF Shaped
      <3> QED BY <3>1, <3>2, <3>3 DEF Memory
    <2>11. Durable'
      BY <1>3, DurableKeeps DEF IInv, disk, history
    <2>12. Continues'
      <3>1. newest \in Journal /\ newest.count <= N BY <1>1 DEF Continues, TypeOK
      <3>2. Payloads(newest) \subseteq Package
        BY <3>1 DEF Payloads, Package, Journal
      <3>3. /\ newest' = newest /\ mem'.txn = newest.txn /\ newest.txn # 0 /\ mem'.count = Inv
            /\ mem'.named = newest.named
        BY <1>1, <1>3, <2>4, <2>9 DEF Continues
      <3>4. newest.count <= Inv
        BY <3>1 DEF Journal
      <3>5. \A i \in Payloads(newest) : /\ mem'.entries[i].old = newest.entries[i].old
                                       /\ mem'.entries[i].new = newest.entries[i].new
        BY <1>1, <2>4, <2>9, <3>2 DEF Continues
      <3> QED BY <3>3, <3>4, <3>5 DEF Continues, Payloads
    <2>13. At' /\ Cursor'
      BY <1>1, <1>3, <2>4, <2>9, <2>12
         DEF At, Cursor, Forwarding, Open, Packaging, Inventorying, RollingBack, CleaningUp
    <2>14. TypeOK'
      BY <1>1, <1>3, <2>4, <2>9 DEF TypeOK, disk, history, Steps
    <2> QED BY <2>10, <2>11, <2>13, <2>14 DEF IInv
  <1> QED BY <1>2, <1>3 DEF Inventory

-----------------------------------------------------------------------------
(* Restoring one payload.                                                  *)
LEMMA RollbackFacts ==
  ASSUME IInv, pc = "rollback", Named
  PROVE  /\ mem \in Journal /\ newest \in Journal /\ mem.txn \in Txn /\ newest.txn = mem.txn
         /\ cursor \in Index /\ cursor \in Payloads(mem)
         /\ mem.phase = "rollback" /\ newest.phase = "rollback" /\ Continues
         /\ cursor \in Payloads(newest) => SameFiles(newest.entries[cursor])
         /\ Current.old \in File /\ Truth(mem) /\ Truth(newest) /\ Shaped(mem) /\ TypeOK
         /\ RollbackNext[1] \in {"rollback", "rollbackEnd"}
         /\ RollbackNext[2] \in 0 .. Inv
         /\ RollbackNext[1] = "rollback" => RollbackNext[2] \in 1 .. mem.count
  <1> USE TypeFacts
  <1>1. /\ mem \in Journal /\ mem.txn \in Txn /\ Continues /\ cursor \in Payloads(mem)
        /\ mem.phase = "rollback" /\ newest.phase = "rollback"
        /\ Truth(mem) /\ Truth(newest) /\ Shaped(mem) /\ TypeOK
    BY MemFacts DEF IInv, At, Cursor, Named, RollingBack, Memory, Durable
  <1>2. newest \in Journal /\ newest.txn = mem.txn
    BY <1>1 DEF Continues, TypeOK
  <1>3. cursor \in Index
    BY <1>1
  <1>4. Current.old \in File
    BY <1>3, EntryFacts DEF Current
  <1>5. cursor \in Payloads(newest) => SameFiles(newest.entries[cursor])
    BY <1>1 DEF Continues, SameFiles, Current
  <1>6. cursor \in 1 .. mem.count /\ mem.count \in Nat /\ mem.count <= Inv
    BY <1>1 DEF Payloads, Journal
  <1>7. /\ RollbackNext[1] \in {"rollback", "rollbackEnd"}
        /\ RollbackNext[2] \in 0 .. Inv
        /\ RollbackNext[1] = "rollback" => RollbackNext[2] \in 1 .. mem.count
    BY <1>6 DEF RollbackNext, Payloads
  <1> QED BY <1>1, <1>2, <1>3, <1>4, <1>5, <1>7

(* Recording a restored payload keeps the invariant once its files are     *)
(* back.                                                                   *)
LEMMA RestoredKeeps ==
  ASSUME IInv, pc = "rollback", Named, Restored, UNCHANGED <<newest, history>>,
         target' \in [Index -> File], stage' \in [Txn -> [Index -> File]],
         backup' \in [Txn -> [Index -> File]], Durable',
         \A j \in Journal : j.txn = mem.txn /\ TruthBut(j, cursor) /\ j.phase = "rollback"
                              /\ SameFiles(j.entries[cursor]) => Truth(j)'
  PROVE  IInv'
  <1> USE TypeFacts DEF Restored
  <1>1. CASE Current.undone
    <2>1. Truth(mem)'
      <3>1. TruthBut(mem, cursor) /\ SameFiles(mem.entries[cursor])
        BY RollbackFacts DEF Truth, TruthBut, SameFiles, Current
      <3>2. \A j \in Journal : j = mem => Truth(j)'
        BY <3>1, RollbackFacts
      <3> QED BY <1>1, <3>2, RollbackFacts DEF Truth, OldAt, NewAt
    <2>2. At' /\ Cursor'
      BY <1>1, RollbackFacts
         DEF At, Cursor, Continues, Packaging, Inventorying, CleaningUp, RollingBack, IInv, Payloads
    <2>3. TypeOK'
      BY <1>1, RollbackFacts DEF TypeOK, history, Steps
    <2> QED BY <1>1, <2>1, <2>2, <2>3 DEF IInv, Memory, Shaped
  <1>2. CASE ~Current.undone
    <2> DEFINE m == MarkRestored(mem, cursor)
    <2>1. /\ m \in Journal /\ m.txn = mem.txn /\ m.phase = mem.phase /\ m.count = mem.count
          /\ Payloads(m) = Payloads(mem) /\ m.named = mem.named /\ TruthBut(m, cursor)
          /\ \A k \in Index \ Payloads(m) : m.entries[k] = mem.entries[k]
          /\ \A k \in Index : /\ m.entries[k].old = mem.entries[k].old
                              /\ m.entries[k].new = mem.entries[k].new
                              /\ m.entries[k].prev = mem.entries[k].prev
      <3>1. mem \in Journal /\ cursor \in Payloads(mem) /\ Truth(mem)
        BY RollbackFacts
      <3>2. TruthBut(m, cursor)
        BY <3>1, MarkTruthBut
      <3> QED BY <3>1, <3>2, RestoredFacts
    <2> HIDE DEF m
    <2>2. mem' = m /\ pc' = "rollbackRecord" /\ UNCHANGED <<cursor, prior>>
      BY <1>2 DEF m
    <2>3. Truth(mem)'
      <3>1. SameFiles(m.entries[cursor])
        BY <2>1, RollbackFacts DEF SameFiles, Current
      <3>2. \A j \in Journal : j = m => Truth(j)'
        BY <2>1, <3>1, RollbackFacts
      <3> QED BY <2>1, <2>2, <3>2 DEF Truth, OldAt, NewAt
    <2>4. Shaped(m)
      BY <2>1, RollbackFacts DEF Shaped, Open
    <2>5. Continues'
      <3>1. Continues /\ newest' = newest /\ Payloads(newest) \subseteq Index
        BY RollbackFacts
      <3>2. /\ m.txn = newest.txn /\ newest.txn # 0
            /\ newest.count <= m.count /\ newest.named = m.named
        BY <2>1, <3>1 DEF Continues
      <3>3. \A k \in Payloads(newest) : /\ m.entries[k].old = newest.entries[k].old
                                        /\ m.entries[k].new = newest.entries[k].new
        BY <2>1, <3>1 DEF Continues
      <3> QED BY <2>2, <3>1, <3>2, <3>3 DEF Continues, Payloads
    <2>6. At' /\ Cursor'
      BY <2>1, <2>2, <2>5, RollbackFacts
         DEF At, Cursor, Packaging, Inventorying, CleaningUp, RollingBack, IInv
    <2>7. TypeOK'
      BY <2>1, <2>2, RollbackFacts DEF TypeOK, history, Steps
    <2> QED BY <2>2, <2>3, <2>4, <2>6, <2>7 DEF IInv, Memory, Shaped
  <1> QED BY <1>1, <1>2

(* A step of rollbackToTerminal keeps the invariant.                       *)
LEMMA RollbackKeeps ==
  ASSUME IInv, RollbackSkip \/ Rollback PROVE IInv'
  <1> USE TypeFacts
  <1>0. pc = "rollback" /\ UNCHANGED <<newest, history>> /\ TypeOK /\ Named
    BY ActNamed DEF RollbackSkip, Rollback, IInv
  <1>1. CASE RollbackSkip
    <2>1. Durable' BY <1>1, DurableKeeps DEF RollbackSkip, IInv, disk, history
    <2>2. ASSUME NEW j \in Journal, j.txn = mem.txn, TruthBut(j, cursor), j.phase = "rollback",
                 SameFiles(j.entries[cursor])
          PROVE  Truth(j)'
      <3>1. cursor \notin touched => OldAt(mem, cursor)
        BY <1>0, <1>1, RollbackFacts DEF RollbackSkip, Truth, OldAt, NewAt, Replaced, Current
      <3>2. cursor \notin touched => OldAt(j, cursor)
        BY <2>2, <3>1 DEF OldAt, SameFiles, Current
      <3>3. Truth(j)
        BY <2>2, <3>2 DEF Truth, TruthBut, Forwards, Open
      <3> QED BY <1>1, <3>3 DEF Truth, OldAt, NewAt, RollbackSkip, disk, history
    <2> QED BY <1>0, <1>1, <2>1, <2>2, RestoredKeeps DEF RollbackSkip, disk, TypeOK
  <1>2. CASE Rollback
    <2>1. SetDisk(cursor, Current.old, Absent, Absent) /\ RollBack
      BY <1>2 DEF Rollback, RollBack
    <2>2. /\ target' \in [Index -> File] /\ stage' \in [Txn -> [Index -> File]]
          /\ backup' \in [Txn -> [Index -> File]]
          /\ backup'[mem.txn][cursor] = Absent
          /\ \A g \in Txn, i \in Index : g # mem.txn \/ i # cursor => backup'[g][i] = backup[g][i]
      BY <1>0, <2>1, RollbackFacts, SetDiskFacts
    <2>3. ASSUME NEW j \in Journal, j.txn = mem.txn, TruthBut(j, cursor), j.phase = "rollback",
                 cursor \in Payloads(j) => SameFiles(j.entries[cursor])
          PROVE  Truth(j)'
      BY <1>0, <2>1, <2>3, RollbackFacts, RollBackTruth DEF Forwards, Open, history
    <2>4. Truth(newest)'
      <3>1. TruthBut(newest, cursor) BY <1>0, RollbackFacts DEF Truth, TruthBut
      <3>2. \A j \in Journal : j = newest => Truth(j)'
        BY <1>0, <2>3, <3>1, RollbackFacts
      <3> QED BY <1>0, <3>2, RollbackFacts DEF Truth, OldAt, NewAt
    <2>5. Unused'
      <3>1. newest.txn \in Txn /\ Txn \subseteq Nat BY <1>0, RollbackFacts DEF Txn
      <3>2. \A g \in Txn, i \in Index : backup[g][i] = Absent => backup'[g][i] = Absent
        BY <2>2
      <3>3. newest' = newest /\ touched' = touched /\ Payloads(newest)' = Payloads(newest)
        BY <1>0 DEF history, Payloads
      <3> QED BY <3>1, <3>2, <3>3 DEF IInv, Durable, Unused
    <2>6. Durable'
      BY <1>0, <2>4, <2>5 DEF IInv, Durable, Shaped
    <2>7. CASE Restored
      BY <1>0, <2>2, <2>3, <2>6, <2>7, RestoredKeeps
    <2>8. CASE Return
      <3>1. TypeOK' BY <1>0, <2>2, <2>8 DEF Return, TypeOK, history
      <3> QED BY <2>6, <2>8, <3>1, ReturnKeeps DEF IInv
    <2> QED BY <1>2, <2>7, <2>8 DEF Rollback
  <1> QED BY <1>1, <1>2

-----------------------------------------------------------------------------
(* Dropping one older last-good copy.                                      *)
LEMMA CleanupKeeps ==
  ASSUME IInv, Cleanup PROVE IInv'
  <1> USE TypeFacts
  <1>1. /\ pc = "cleanup" /\ pc \in CleaningUp /\ mem \in Journal /\ newest \in Journal
        /\ mem.txn \in Txn
        /\ newest.txn = mem.txn /\ TypeOK /\ Shaped(mem) /\ Shaped(newest)
        /\ Truth(mem) /\ Truth(newest) /\ Continues
        /\ cursor \in 1 .. mem.count /\ cursor \in Index
    BY MemFacts DEF Cleanup, IInv, At, Cursor, CleaningUp, Memory, Durable, Continues, TypeOK,
                    Payloads
  <1>2. Current.prev < mem.txn /\ Current.prev \in 0 .. MaxTxn
    BY <1>1, EntryFacts DEF Shaped, Current
  <1>3. /\ target' = target /\ stage' = stage /\ backup' \in [Txn -> [Index -> File]]
        /\ \A g \in Txn, i \in Index :
             /\ backup'[g][i] \in {backup[g][i], Absent}
             /\ g # Current.prev => backup'[g][i] = backup[g][i]
    BY <1>1, <1>2, RotateFacts DEF Cleanup
  <1>4. \A i \in Index : backup'[mem.txn][i] = backup[mem.txn][i]
    BY <1>1, <1>2, <1>3 DEF Txn
  <1>5. UNCHANGED <<newest, history>>
    BY DEF Cleanup
  <1>6. Truth(newest)'
    BY <1>1, <1>3, <1>4, <1>5 DEF Truth, OldAt, NewAt, history
  <1>7. Unused'
    <2>1. newest' = newest /\ touched' = touched /\ Payloads(newest)' = Payloads(newest)
      BY <1>5 DEF history, Payloads
    <2>2. \A g \in Txn, i \in Index : backup[g][i] = Absent => backup'[g][i] = Absent
      BY <1>3
    <2> QED BY <1>1, <2>1, <2>2 DEF IInv, Durable, Unused
  <1>8. Durable'
    BY <1>5, <1>6, <1>7 DEF IInv, Durable, Shaped
  <1>9. CASE Return
    <2>1. TypeOK' BY <1>1, <1>3, <1>5, <1>9 DEF Return, TypeOK, history
    <2> QED BY <1>8, <1>9, <2>1, ReturnKeeps DEF IInv
  <1>10. CASE pc' = CleanupNext[1] /\ cursor' = CleanupNext[2] /\ UNCHANGED <<mem, prior>>
    <2>1. /\ CleanupNext[1] \in {"cleanup", "cleanupEnd"}
          /\ CleanupNext[2] \in 0 .. Inv
          /\ CleanupNext[1] = "cleanup" => CleanupNext[2] \in 1 .. mem.count
      <3>1. mem.count \in Nat /\ mem.count <= Inv BY <1>1 DEF Journal
      <3> QED BY <1>1, <3>1 DEF CleanupNext
    <2>2. Truth(mem)'
      BY <1>1, <1>3, <1>4, <1>5, <1>10 DEF Truth, OldAt, NewAt, history
    <2>3. Memory'
      BY <1>1, <1>10, <2>2 DEF IInv, Memory, Shaped
    <2>4. Continues' /\ Payloads(mem)' = Payloads(mem)
      BY <1>1, <1>5, <1>10 DEF Continues, Payloads
    <2>5. At' /\ Cursor'
      BY <1>1, <1>5, <1>10, <2>1, <2>4
         DEF IInv, At, Cursor, Packaging, Inventorying, CleaningUp, RollingBack
    <2>6. TypeOK'
      BY <1>1, <1>3, <1>5, <1>10, <2>1 DEF TypeOK, history, Steps
    <2> QED BY <1>8, <2>3, <2>5, <2>6 DEF IInv
  <1> QED BY <1>9, <1>10 DEF Cleanup

-----------------------------------------------------------------------------
(* A command begins.                                                       *)
LEMMA ResumeKeeps ==
  ASSUME IInv, Resume \/ BootRecovery PROVE IInv'
  <1> USE TypeFacts DEF Resume, BootRecovery
  <1>1. newest \in Journal /\ newest.txn \in Txn /\ newest.phase \in Phases /\ TypeOK
        /\ ~phaseTerminal(newest.phase) /\ newest.count \in Nat
    BY DEF IInv, TypeOK, NoJournal, phaseTerminal, Journal
  <1>2. Durable' BY DurableKeeps DEF IInv, disk, history
  <1>3. Memory'
    BY DEF IInv, Durable, Memory, Truth, Shaped, OldAt, NewAt, disk, history
  <1>4. TypeOK'
    BY <1>1 DEF TypeOK, disk, history, Steps
  <1>5. Continues' BY <1>1 DEF Continues
  <1>6. prior.txn < newest.txn /\ prior' = prior /\ newest' = newest /\ mem' = newest
    BY <1>1 DEF IInv, At, Txn
  <1>7. pc' \in {"precheck", "rollbackStart", "inventoryResume", "reverify"}
        /\ (pc' = "precheck" <=> newest.phase = "applied")
        /\ (newest.phase = "rollback" => pc' = "rollbackStart")
        /\ (pc' = "inventoryResume" => newest.phase = "inventory")
        /\ (pc' = "reverify" => newest.phase \in Open \ {"inventory"})
    BY <1>1 DEF Phases, Open, phaseTerminal
  <1>8. newest.phase \in Open \cup {"applied", "rollback"}
    BY <1>1 DEF Phases, Open, phaseTerminal
  <1>9. /\ newest.phase \in Open \ {"inventory"} => newest.count = N
        /\ newest.phase = "inventory" => newest.count = Inv
    BY <1>1 DEF IInv, Durable, Shaped
  <1>10. At' /\ Cursor'
    BY <1>5, <1>6, <1>7, <1>8, <1>9
       DEF At, Cursor, Forwarding, Packaging, Inventorying, CleaningUp, RollingBack, Open
  <1> QED BY <1>2, <1>3, <1>4, <1>10 DEF IInv

(* rollbackLastCommand takes up an applied transaction and keeps the       *)
(* invariant.                                                              *)
LEMMA RollbackLastKeeps ==
  ASSUME IInv, RollbackLast PROVE IInv'
  <1> USE TypeFacts DEF RollbackLast
  <1> DEFINE m == Phase(newest, "rollback")
  <1>1. newest \in Journal /\ newest.txn \in Txn /\ TypeOK
    BY DEF IInv, TypeOK, NoJournal
  <1>2. /\ m \in Journal /\ m.phase = "rollback" /\ m.txn = newest.txn /\ m.count = newest.count
        /\ m.named = newest.named /\ m.entries = newest.entries /\ Payloads(m) = Payloads(newest)
    BY <1>1, PhaseFacts DEF Phases
  <1> HIDE DEF m
  <1>3. Truth(m)
    BY <1>2 DEF IInv, Durable, Truth, OldAt, NewAt, Forwards, Open
  <1>4. Shaped(m)
    BY <1>1, <1>2 DEF IInv, Durable, Shaped, Open
  <1>5. mem' = m
    BY DEF m
  <1>6. Memory'
    BY <1>3, <1>4, <1>5 DEF IInv, Memory, Truth, Shaped, OldAt, NewAt, disk, history
  <1>7. Durable' BY DurableKeeps DEF IInv, disk, history
  <1>8. Continues'
    BY <1>1, <1>2, <1>5 DEF Continues, Journal
  <1>9. At' /\ Cursor'
    BY <1>1, <1>2, <1>5, <1>8
       DEF IInv, At, Cursor, Packaging, Inventorying, CleaningUp, RollingBack, Txn
  <1>10. TypeOK'
    BY <1>1, <1>2, <1>5 DEF TypeOK, disk, history, Steps
  <1> QED BY <1>6, <1>7, <1>9, <1>10 DEF IInv

(* applyCommand starts a transaction with the targets as they are and keeps*)
(* the invariant.                                                          *)
LEMMA ApplyKeeps ==
  ASSUME IInv, NEW named \in (SUBSET Package) \ {{}}, NEW new \in [named -> Content],
         NEW components \in BOOLEAN,
         Apply(named, new, components)
  PROVE  IInv'
  <1> USE TypeFacts
  <1> DEFINE entry(i) == IF i \notin named THEN NoEntry
                         ELSE NewEntry(i, target[i], new[i], newest)
             m == [txn |-> newest.txn + 1, phase |-> "prepare", named |-> named, count |-> N,
                   components |-> components, entries |-> [i \in Index |-> entry(i)]]
  <1>1. /\ TypeOK /\ newest.txn \in Nat /\ newest.txn + 1 \in Txn
        /\ newest \in Journal \cup {NoJournal} /\ Truth(newest) /\ Shaped(newest)
    BY TxnAssumption DEF Apply, IInv, Durable, TypeOK, NoJournal, Txn
  <1>2. ASSUME NEW i \in named
        PROVE  LET e == NewEntry(i, target[i], new[i], newest)
               IN  /\ e \in Entry /\ e.old = target[i] /\ e.new = new[i]
                   /\ ~e.committed /\ ~e.undone
                   /\ e.prev \in {0, newest.txn, newest.entries[i].prev}
    <2>1. i \in Index /\ target[i] \in File /\ new[i] \in File
      BY <1>1 DEF TypeOK
    <2> QED BY <1>1, <2>1, InheritFacts
  <1>3. \A i \in Index : newest.entries[i].prev <= newest.txn /\ newest.entries[i].prev \in Nat
    BY <1>1 DEF Shaped, NoJournal, NoEntry, Journal, Entry
  <1>4. ASSUME NEW i \in named
        PROVE  entry(i) \in Entry /\ entry(i).old = target[i] /\ entry(i).new = new[i]
               /\ ~entry(i).committed /\ ~entry(i).undone /\ entry(i).prev < newest.txn + 1
    <2>1. i \in Index OBVIOUS
    <2> DEFINE e == NewEntry(i, target[i], new[i], newest)
    <2>2. entry(i) = e
      BY <2>1
    <2>3. /\ e \in Entry /\ e.old = target[i] /\ e.new = new[i] /\ ~e.committed /\ ~e.undone
          /\ e.prev \in {0, newest.txn, newest.entries[i].prev}
      BY <1>2
    <2> HIDE DEF entry, e
    <2>4. e.prev < newest.txn + 1
      BY <1>1, <1>3, <2>1, <2>3
    <2> QED BY <2>2, <2>3, <2>4
  <1>5. \A i \in Index \ named : /\ entry(i) = NoEntry /\ entry(i) \in Entry
                                  /\ ~entry(i).committed /\ ~entry(i).undone /\ entry(i).prev = 0
    BY DEF NoEntry
  <1>6. Index = Package \cup {Inv} /\ Inv \notin Package
    BY DEF Index, Package
  <1> HIDE DEF entry
  <1>7. m \in Journal
    BY <1>1, <1>4, <1>5, <1>6 DEF Journal, Phases
  <1>8. /\ m.txn = newest.txn + 1 /\ m.phase = "prepare" /\ m.count = N
        /\ Payloads(m) = named /\ m.named = named
        /\ \A i \in Index : m.entries[i] = entry(i)
    <2>1. \A i \in 1 .. N : i \in named \cup {Inv} <=> i \in named
      BY DEF Package
    <2> QED BY <2>1 DEF Payloads, Package
  <1>9. mem' = m /\ newest' = newest /\ prior' = newest /\ pc' = "prepare" /\ cursor' = 0
        /\ UNCHANGED <<disk, history>> /\ phaseTerminal(newest.phase)
    BY DEF Apply, entry
  <1> HIDE DEF m
  <1>10. Truth(m)
    <2>1. \A i \in named \ touched : backup[newest.txn + 1][i] = Absent
      <3>1. newest.txn + 1 > newest.txn
        BY <1>1
      <3> QED BY <1>1, <1>6, <3>1 DEF IInv, Durable, Unused
    <2>2. \A i \in named : /\ m.entries[i].old = target[i]
                           /\ ~m.entries[i].committed /\ ~m.entries[i].undone
      BY <1>4, <1>8
    <2> QED BY <1>8, <2>1, <2>2 DEF Truth, OldAt, NewAt
  <1>11. Shaped(m)
    <2>1. Undone(m) = {} BY <1>4, <1>8 DEF Undone
    <2>2. \A i \in Index : m.entries[i].prev < m.txn
      BY <1>1, <1>4, <1>5, <1>6, <1>8
    <2>3. \A i \in named : m.entries[i].new \in Content
      <3>1. named \subseteq Index /\ \A i \in named : new[i] \in Content
        OBVIOUS
      <3> QED BY <1>4, <1>8, <3>1
    <2>4. \A i \in Index \ named : m.entries[i] = NoEntry
      BY <1>5, <1>8
    <2> QED BY <1>8, <2>1, <2>2, <2>3, <2>4 DEF Shaped, Open
  <1>12. Memory'
    BY <1>1, <1>9, <1>10, <1>11 DEF Memory, Truth, Shaped, OldAt, NewAt, disk, history
  <1>13. Durable' BY <1>9, DurableKeeps DEF IInv, disk, history
  <1>14. At' /\ Cursor'
    BY <1>1, <1>8, <1>9
       DEF At, Cursor, Begins, Packaging, Inventorying, CleaningUp, RollingBack
  <1>15. TypeOK'
    BY <1>1, <1>7, <1>9 DEF TypeOK, disk, history, Steps
  <1> QED BY <1>12, <1>13, <1>14, <1>15 DEF IInv

-----------------------------------------------------------------------------
(* Errors end the command, and so does a crash.                            *)
LEMMA FailsKeep ==
  ASSUME IInv,
         StageFails \/ CommitFails \/ VerifyFails \/ InventoryFails \/ PrecheckFails
           \/ CleanupFails \/ RollbackFails \/ ReverifyFails
  PROVE  IInv'
  BY GiveUpKeeps DEF StageFails, CommitFails, VerifyFails, InventoryFails, PrecheckFails,
                     CleanupFails, RollbackFails, ReverifyFails

(* A crash keeps the invariant, also when it leaves half a stage file.     *)
LEMMA CrashKeeps ==
  ASSUME IInv, Crash PROVE IInv'
  <1> USE TypeFacts DEF Crash
  <1>1. Durable' BY DurableKeeps DEF IInv
  <1>2. stage' \in [Txn -> [Index -> File]]
    <2>1. stage \in [Txn -> [Index -> File]] /\ Foreign \in File
      BY DEF IInv, TypeOK, File
    <2>2. \/ UNCHANGED stage
          \/ stage' = [stage EXCEPT ![mem.txn][cursor] = Foreign]
      OBVIOUS
    <2> HIDE DEF Crash
    <2> QED BY <2>1, <2>2
  <1>3. TypeOK'
    <2>1. crashes + 1 \in 0 .. MaxCrashes
      BY TxnAssumption DEF IInv, TypeOK
    <2> QED BY <1>2, <2>1 DEF Return, IInv, TypeOK
  <1> QED BY <1>1, <1>3, ReturnKeeps DEF IInv

(* A local change only touches what is excepted from then on.              *)
LEMMA EditKeeps ==
  ASSUME IInv, NEW i \in Index, Edit(i) PROVE IInv'
  <1> USE TypeFacts DEF Edit
  <1>1. /\ target' \in [Index -> File] /\ stage' \in [Txn -> [Index -> File]]
        /\ backup' \in [Txn -> [Index -> File]]
        /\ \A k \in Index \ touched' : /\ target'[k] = target[k] /\ k \notin touched
                                       /\ \A g \in Txn : backup'[g][k] = backup[g][k]
    <2>1. TypeOK BY DEF IInv
    <2>2. CASE (\E c \in {Absent, Foreign} : target' = [target EXCEPT ![i] = c])
                 /\ UNCHANGED <<stage, backup>>
      BY <2>1, <2>2 DEF TypeOK
    <2>3. CASE \E g \in Txn, c \in {Absent, Foreign} :
                  stage' = [stage EXCEPT ![g][i] = c] /\ UNCHANGED <<target, backup>>
      BY <2>1, <2>3 DEF TypeOK
    <2>4. CASE \E g \in Txn, c \in {Absent, Foreign} :
                  backup' = [backup EXCEPT ![g][i] = c] /\ UNCHANGED <<target, stage>>
      BY <2>1, <2>4 DEF TypeOK
    <2> QED BY <2>1, <2>2, <2>3, <2>4 DEF TypeOK
  <1>2. TypeOK'
    <2>1. edits + 1 \in 0 .. MaxEdits
      BY TxnAssumption DEF IInv, TypeOK
    <2> QED BY <1>1, <2>1 DEF IInv, TypeOK
  <1>3. ASSUME NEW j \in Journal \cup {NoJournal}, Truth(j) PROVE Truth(j)'
    <2>1. CASE j = NoJournal BY <2>1 DEF Truth
    <2>2. CASE j \in Journal
      <3>1. j.txn \in Txn /\ Payloads(j) \subseteq Index BY <2>2
      <3> QED BY <1>1, <1>3, <3>1 DEF Truth, OldAt, NewAt
    <2> QED BY <2>1, <2>2
  <1>4. Truth(newest)' /\ Truth(mem)'
    <2>1. \A j \in Journal \cup {NoJournal} : j = newest => Truth(j)'
      BY <1>3 DEF IInv, Durable
    <2>2. \A j \in Journal \cup {NoJournal} : j = mem => Truth(j)'
      BY <1>3 DEF IInv, Memory
    <2>3. newest' = newest /\ mem' = mem
      OBVIOUS
    <2>4. newest \in Journal \cup {NoJournal} /\ mem \in Journal \cup {NoJournal}
      BY DEF IInv, TypeOK
    <2> HIDE DEF Edit
    <2>5. Truth(newest)'
      BY <2>1, <2>3, <2>4 DEF Truth, OldAt, NewAt
    <2>6. Truth(mem)'
      BY <2>2, <2>3, <2>4 DEF Truth, OldAt, NewAt
    <2> QED BY <2>5, <2>6
  <1>5. Unused'
    <2>1. newest.txn # 0 => newest.txn \in Txn
      BY DEF IInv, TypeOK
    <2> QED BY <1>1, <2>1 DEF IInv, Durable, Unused, Payloads
  <1>6. Durable' /\ Memory'
    BY <1>4, <1>5 DEF IInv, Durable, Memory, Shaped
  <1>7. At' /\ Cursor'
    BY DEF IInv, At, Cursor, Begins, Continues, Forwarding, Payloads
  <1> QED BY <1>2, <1>6, <1>7 DEF IInv

(* A loop passes over a path that is no payload.                           *)
LEMMA UnnamedKeeps ==
  ASSUME IInv, Unnamed PROVE IInv'
  <1> USE TypeFacts
  <1>1. pc \in {"stage", "commit", "rollback"} /\ mem \in Journal /\ TypeOK
    BY MemFacts DEF Unnamed, IInv
  <1>2. CASE pc = "stage"
    <2>1. /\ StageNext[1] \in {"stage", "staged"} /\ StageNext[2] \in 0 .. Inv
          /\ StageNext[1] = "stage" => StageNext[2] \in Package
      BY <1>2 DEF IInv, Cursor, StageNext, Package
    <2>2. WalkTo(StageNext[1], StageNext[2])
      BY <1>1, <1>2, GotoWalks DEF Unnamed
    <2> QED BY <1>2, <2>1, <2>2, WalkKeeps DEF Steps, Packaging
  <1>3. CASE pc = "commit"
    <2>1. /\ CommitNext[1] \in {"commit", "verifyStart"} /\ CommitNext[2] \in 0 .. Inv
          /\ CommitNext[1] = "commit" => CommitNext[2] \in Package
      BY <1>3 DEF IInv, Cursor, CommitNext, Package
    <2>2. WalkTo(CommitNext[1], CommitNext[2])
      BY <1>1, <1>3, GotoWalks DEF Unnamed
    <2> QED BY <1>3, <2>1, <2>2, WalkKeeps DEF Steps, Packaging
  <1>4. CASE pc = "rollback"
    <2>1. /\ RollbackNext[1] \in {"rollback", "rollbackEnd"} /\ RollbackNext[2] \in 0 .. Inv
          /\ RollbackNext[1] = "rollback" => RollbackNext[2] \in 1 .. mem.count
      BY <1>1, <1>4 DEF IInv, Cursor, RollbackNext, Journal
    <2>2. WalkTo(RollbackNext[1], RollbackNext[2])
      BY <1>1, <1>4, GotoWalks DEF Unnamed
    <2> QED BY <1>4, <2>1, <2>2, WalkKeeps DEF Steps, RollingBack
  <1> QED BY <1>1, <1>2, <1>3, <1>4

(* Every step of a command, the machine and others keeps the invariant.    *)
LEMMA NextIInv == IInv /\ [Next]_vars => IInv'
  <1> SUFFICES ASSUME IInv, [Next]_vars PROVE IInv'
    OBVIOUS
  <1>1. CASE UNCHANGED vars
    <2>1. Durable' BY <1>1, DurableKeeps DEF IInv, vars
    <2>2. Memory' BY <1>1, MemoryKeeps DEF IInv, vars
    <2> QED BY <1>1, <2>1, <2>2
            DEF vars, IInv, TypeOK, At, Cursor, Begins, Continues, Forwarding, Payloads
  <1>2. CASE Step
    BY <1>2, AdvanceKeeps, EndKeeps, StagingKeeps, DecisionKeeps, CommitKeeps, InventoryKeeps,
       InventoryStageKeeps, CleanupWalkKeeps, CleanupKeeps, RollbackKeeps, FailsKeep,
       UnnamedKeeps DEF Step
  <1>3. ASSUME NEW named \in (SUBSET Package) \ {{}}, NEW new \in [named -> Content],
         NEW components \in BOOLEAN,
               Apply(named, new, components)
        PROVE  IInv'
    BY <1>3, ApplyKeeps
  <1>4. CASE Resume \/ BootRecovery BY <1>4, ResumeKeeps
  <1>5. CASE RollbackLast BY <1>5, RollbackLastKeeps
  <1>6. CASE Crash BY <1>6, CrashKeeps
  <1>7. ASSUME NEW i \in Index, Edit(i) PROVE IInv'
    BY <1>7, EditKeeps
  <1>8. CASE Rest BY <1>1, <1>8 DEF Rest
  <1> QED BY <1>1, <1>2, <1>3, <1>4, <1>5, <1>6, <1>7, <1>8 DEF Next

-----------------------------------------------------------------------------
(* Every variable of the transaction keeps its type.                       *)
THEOREM TxnTypeCorrect == Spec => []TypeOK
  <1>1. IInv => TypeOK BY DEF IInv
  <1> QED BY <1>1, InitIInv, NextIInv, PTL DEF Spec

(* The inductive invariant on journal, memory and files holds in every     *)
(* state that commands, failures, crashes and local changes reach.         *)
THEOREM TxnInvariant == Spec => []IInv
  BY InitIInv, NextIInv, PTL DEF Spec

(* cleanupToTerminal leaves every payload new, rollbackToTerminal every    *)
(* payload old, whatever failed or crashed on the way.                     *)
THEOREM TxnAllOrNothing == Spec => []AllOrNothing
  <1>1. IInv => AllOrNothing
    <2> SUFFICES ASSUME IInv PROVE AllOrNothing OBVIOUS
    <2>1. Truth(newest) /\ Shaped(newest) BY DEF IInv, Durable
    <2> QED BY <2>1 DEF AllOrNothing, Truth, Shaped, OldAt, NewAt, Committed, Undone,
                        Forwards, Open
  <1> QED BY <1>1, TxnInvariant, PTL

(* Up to the terminal rolled_back record the old content of every payload  *)
(* is at its target or in its last-good copy, which replaceFile and        *)
(* cleanupPayload never give up together.                                  *)
THEOREM TxnOldRecoverable == Spec => []OldRecoverable
  <1>1. IInv => OldRecoverable
    <2> SUFFICES ASSUME IInv PROVE OldRecoverable OBVIOUS
    <2>1. Truth(newest) BY DEF IInv, Durable
    <2> QED BY <2>1 DEF OldRecoverable, Truth, OldAt, NewAt, Replaced
  <1> QED BY <1>1, TxnInvariant, PTL

(* An applied update stays applied unless ROLLBACK-LAST was asked for: by  *)
(* then no command is on its way back.                                     *)
LEMMA AppliedKeeps ==
  ASSUME IInv, [Next]_vars, newest.phase \in {"applied", "cleanup"}, newest'.txn = newest.txn
  PROVE  newest'.phase \in {"applied", "cleanup"} \/ pc = "lastGood"
  <1> USE TypeFacts
  <1>1. newest \in Journal /\ newest.phase \notin Open \cup {"rollback"} /\ ~Forwarding
    BY DEF IInv, TypeOK, NoJournal, Open, Forwarding
  <1>2. ASSUME NEW j, j.txn # newest.txn \/ j.phase \in {"applied", "cleanup"},
               newest' \in {newest, j}
        PROVE  newest'.phase \in {"applied", "cleanup"}
    BY <1>2
  <1>3. pc \in {"idle", "prepare", "precheck", "cleanup", "cleanupEnd", "lastGood"}
    BY <1>1 DEF IInv, TypeOK, Steps, At, Packaging, Inventorying, RollingBack, CleaningUp
  <1>4. CASE newest' = newest
    BY <1>4
  <1>5. CASE Prepare
    <2>1. mem.txn = newest.txn + 1 /\ newest.txn \in Nat
      BY <1>1, <1>5 DEF Prepare, IInv, At, Begins, Txn
    <2>2. newest' \in {newest, mem}
      BY <1>5 DEF Prepare, Persist
    <2> QED BY <1>2, <2>1, <2>2
  <1>6. CASE CleanupEnd
    <2>1. mem \in Journal BY <1>6, MemFacts DEF CleanupEnd
    <2>2. Phase(mem, "cleanup").phase = "cleanup" BY <2>1, PhaseFacts DEF Phases
    <2>3. newest' \in {newest, Phase(mem, "cleanup")} BY <1>6 DEF CleanupEnd, PersistLast
    <2> QED BY <1>2, <2>2, <2>3
  <1>7. CASE Step
    <2>1. Prepare \/ CleanupEnd \/ RollbackLastIntent \/ newest' = newest
      BY <1>3, <1>7
         DEF Step, Goto, GiveUp, StageReuse, StageWrite, StageFails, StageInvalid, Staged,
             CommitStart, CommitSameFile, CommitReplace, CommitConflict, CommitFails,
             CommitRecord, VerifyStart, Verify, VerifyFails, Inventory, InventoryStart,
             InventoryResume, InventoryStaged, InventoryStageWrite, InventoryStageConflict,
             InventoryCommit, InventoryConflict, InventoryRecord, InventoryVerify,
             InventoryFails, Applied, Precheck, PrecheckFails, CleanupSkip, Cleanup,
             CleanupFails, RollbackStart, RollbackSkip, Rollback, RollbackFails,
             RollbackRecord, RollbackEnd, Unnamed, Reverify, ReverifyFails
    <2> QED BY <1>4, <1>5, <1>6, <2>1 DEF RollbackLastIntent
  <1>8. CASE ~Step
    BY <1>4, <1>8 DEF Next, vars, Apply, Resume, BootRecovery, RollbackLast, Crash, Edit, Rest
  <1> QED BY <1>7, <1>8

(* Once the journal says applied, only rollbackLastCommand leads away from *)
(* applied and cleanup.                                                    *)
THEOREM TxnAppliedStays == Spec => AppliedStays
  <1>1. IInv /\ [Next]_vars =>
          [newest.phase \in {"applied", "cleanup"} /\ newest'.txn = newest.txn =>
             newest'.phase \in {"applied", "cleanup"} \/ pc = "lastGood"]_vars
    BY AppliedKeeps
  <1> QED BY <1>1, TxnInvariant, PTL DEF Spec, AppliedStays

-----------------------------------------------------------------------------
(* The installed files change like one object.  A transaction is held      *)
(* back while a recovery would still undo it; until then every payload     *)
(* counts with its old content, wherever that is.                          *)
Held(j) == ~phaseTerminal(j.phase) /\ j.phase # "applied"

(* Recovered and LastGood of a journal, the targets and the backups,       *)
RecoveredOf(j, t, b) ==
    [i \in Index |-> IF Held(j) /\ i \in Payloads(j) /\ t[i] # j.entries[i].old
                     THEN b[j.txn][i] ELSE t[i]]
LastGoodOf(j, t, b) ==
    [i \in Index |-> IF j.phase \in {"applied", "cleanup"} /\ i \in Payloads(j)
                        /\ t[i] # j.entries[i].old
                     THEN b[j.txn][i] ELSE RecoveredOf(j, t, b)[i]]

(* and what they come to: the old contents of all payloads, or not.        *)
OldFiles(j, t) == [i \in Index |-> IF i \in Payloads(j) THEN j.entries[i].old ELSE t[i]]

(* The truth about all payloads, nobody having touched them.               *)
Whole(j, t, b) ==
    \A i \in Payloads(j) :
       /\ t[i] # j.entries[i].old => b[j.txn][i] = j.entries[i].old
       /\ j.phase = "rolled_back" => t[i] = j.entries[i].old

(* Held back, or rolled back: the old files.  Applied: the files as they   *)
(* are, and the old ones to go back to.                                    *)
LEMMA FilesFacts ==
  ASSUME NEW j \in Journal \cup {NoJournal}, NEW t \in [Index -> File], NEW b, Whole(j, t, b)
  PROVE  /\ j.phase \in {"applied", "cleanup"} => RecoveredOf(j, t, b) = t
         /\ j.phase \notin {"applied", "cleanup"} => RecoveredOf(j, t, b) = OldFiles(j, t)
         /\ LastGoodOf(j, t, b) = OldFiles(j, t)
  <1>1. ~Held(j) <=> j.phase \in {"applied", "cleanup", "rolled_back"}
    BY DEF Held, phaseTerminal
  <1>2. CASE j.phase \in {"applied", "cleanup"}
    <2>1. RecoveredOf(j, t, b) = t
      BY <1>1, <1>2 DEF RecoveredOf
    <2>2. ASSUME NEW i \in Index PROVE LastGoodOf(j, t, b)[i] = OldFiles(j, t)[i]
      BY <1>2, <2>1 DEF LastGoodOf, OldFiles, Whole
    <2> QED BY <1>2, <2>1, <2>2 DEF LastGoodOf, OldFiles
  <1>3. CASE j.phase \notin {"applied", "cleanup"}
    <2>1. ASSUME NEW i \in Index PROVE RecoveredOf(j, t, b)[i] = OldFiles(j, t)[i]
      BY <1>1, <1>3 DEF RecoveredOf, OldFiles, Whole
    <2>2. RecoveredOf(j, t, b) = OldFiles(j, t)
      BY <2>1 DEF RecoveredOf, OldFiles
    <2>3. LastGoodOf(j, t, b) = RecoveredOf(j, t, b)
      BY <1>3 DEF LastGoodOf, RecoveredOf
    <2> QED BY <1>3, <2>2, <2>3
  <1> QED BY <1>2, <1>3

(* The journal a command begins with, or extends, describes the targets as *)
(* they are; from then on both journals describe the same payloads.        *)
Described ==
    /\ edits = 0 => touched = {}
    /\ edits = 0 /\ pc = "prepare" => \A i \in mem.named : mem.entries[i].old = target[i]
    /\ edits = 0 /\ pc = "inventoryStart" => mem.entries[Inv].old = target[Inv]
    /\ pc \notin {"idle", "prepare", "inventoryStart"} => newest.count = mem.count

(* What the journal says of untouched files is the whole truth.            *)
LEMMA WholeNow ==
  ASSUME IInv, touched = {} PROVE Whole(newest, target, backup)
  BY DEF IInv, Durable, Truth, Shaped, OldAt, NewAt, Whole, Replaced, Undone

(* It records the same payloads.                                           *)
SameRecord(j, k) == /\ j.txn = k.txn /\ j.count = k.count
                    /\ j.named = k.named /\ j.entries = k.entries

(* What a step of a command does to the targets and the durable journal.   *)
LEMMA StepActs ==
  ASSUME IInv, Step
  PROVE  /\ pc # "idle" /\ UNCHANGED <<touched, edits>>
         /\ \/ newest' = newest /\ target' = target
            \/ newest' = newest /\ pc \in Committing /\ Replaced(Current) /\ Forward
            \/ newest' = newest /\ pc = "rollback" /\ Replaced(Current) /\ RollBack
            \/ newest' \in {newest, mem} /\ target' = target
            \/ \E p \in Phases : newest' \in {newest, Phase(mem, p)} /\ target' = target
                                 /\ pc \notin {"prepare", "inventoryStart"}
  <1>1. CASE Prepare \/ InventoryStart \/ InventoryRecord \/ RollbackRecord \/ RollbackLastIntent
    BY <1>1 DEF Prepare, InventoryStart, InventoryRecord, RollbackRecord, RollbackLastIntent,
                Persist, PersistLast, disk, history
  <1>2. CASE Staged \/ CommitStart \/ CommitRecord \/ VerifyStart \/ Applied
             \/ CleanupEnd \/ RollbackStart \/ RollbackEnd
    BY <1>2 DEF Staged, CommitStart, CommitRecord, VerifyStart, Applied, CleanupEnd,
                RollbackStart, RollbackEnd, Persist, PersistLast, disk, history, Phases
  <1>3. CASE CommitReplace \/ InventoryCommit \/ Rollback
    BY <1>3 DEF CommitReplace, InventoryCommit, Rollback, Committing, Forward, ForwardAccepts,
                Replaced, Target, disk, history
  <1>4. CASE StageReuse \/ StageWrite \/ StageFails \/ StageInvalid
             \/ CommitSameFile \/ CommitConflict \/ CommitFails \/ Verify \/ VerifyFails
             \/ Inventory \/ InventoryResume \/ InventoryStaged
             \/ InventoryStageWrite \/ InventoryStageConflict
             \/ InventoryConflict \/ InventoryVerify \/ InventoryFails
    BY <1>4 DEF StageReuse, StageWrite, StageFails, StageInvalid, CommitSameFile,
                CommitConflict, CommitFails, Verify, VerifyFails, Inventory, InventoryResume,
                InventoryStaged, InventoryStageWrite, InventoryStageConflict,
                InventoryConflict, InventoryVerify, InventoryFails,
                Goto, GiveUp, disk, history
  <1>5. CASE Precheck \/ PrecheckFails \/ CleanupSkip \/ Cleanup \/ CleanupFails
             \/ RollbackSkip \/ RollbackFails \/ Reverify \/ ReverifyFails \/ Unnamed
    BY <1>5 DEF Precheck, PrecheckFails, CleanupSkip, Cleanup, CleanupFails, RollbackSkip,
                RollbackFails, Reverify, ReverifyFails, Unnamed, Rotate, Goto, GiveUp, disk, history
  <1> QED BY <1>1, <1>2, <1>3, <1>4, <1>5 DEF Step

(* What a step of a command does to the number of payloads.                *)
LEMMA StepCounts ==
  ASSUME IInv, Described, Step, pc' # "idle"
  PROVE  /\ pc' # "prepare"
         /\ pc' = "inventoryStart" =>
              /\ mem' = [mem EXCEPT !.phase = "inventory", !.count = Inv,
                                    !.entries[Inv] = InventoryEntry]
              /\ target' = target /\ pc = "inventory" /\ InventoryReady
         /\ pc' # "inventoryStart" => newest'.count = mem'.count
  <1>1. mem \in Journal /\ pc # "idle"
    BY StepActs, MemFacts
  <1>2. ASSUME NEW j, NEW next \in Steps \ {"prepare", "inventoryStart"}, NEW at,
               Persist(j, next, at)
        PROVE  pc' \notin {"prepare", "inventoryStart"} /\ newest'.count = mem'.count
    BY <1>2 DEF Persist, Return
  <1>3. /\ StageNext[1] \in Steps \ {"prepare", "inventoryStart"}
        /\ CommitNext[1] \in Steps \ {"prepare", "inventoryStart"}
        /\ CleanupNext[1] \in Steps \ {"prepare", "inventoryStart"}
        /\ RollbackNext[1] \in Steps \ {"prepare", "inventoryStart"}
    BY DEF StageNext, CommitNext, CleanupNext, RollbackNext, Steps
  <1>4. CASE Prepare \/ Staged \/ CommitStart \/ CommitRecord \/ VerifyStart \/ InventoryStart
             \/ InventoryRecord \/ Applied \/ RollbackStart \/ RollbackRecord
    BY <1>2, <1>3, <1>4
       DEF Prepare, Staged, CommitStart, CommitRecord, VerifyStart, InventoryStart,
           InventoryRecord, Applied, RollbackStart, RollbackRecord, Steps
  <1>5. CASE CleanupEnd \/ RollbackEnd \/ RollbackLastIntent
    BY <1>5 DEF CleanupEnd, RollbackEnd, RollbackLastIntent, PersistLast, Return
  <1>6. CASE Inventory
    BY <1>6 DEF Inventory, Described, Goto, disk
  <1>7. CASE CommitSameFile \/ CommitReplace \/ InventoryCommit
    <2>1. pc \in Committing BY <1>7 DEF CommitSameFile, CommitReplace, InventoryCommit, Committing
    <2>2. /\ MarkInstalled(mem, cursor).count = mem.count
          /\ pc = "inventoryCommit" => cursor = Inv
      BY <1>7, <2>1, ActNamed, CommitFacts, InstalledFacts
    <2> QED BY <1>7, <2>1, <2>2
            DEF CommitSameFile, CommitReplace, InventoryCommit, Described, Goto, Return
  <1>8. CASE RollbackSkip \/ Rollback
    <2>1. pc = "rollback" BY <1>8 DEF RollbackSkip, Rollback
    <2>2. MarkRestored(mem, cursor).count = mem.count
      BY <1>8, <2>1, ActNamed, RollbackFacts, RestoredFacts
    <2> QED BY <1>3, <1>8, <2>1, <2>2 DEF RollbackSkip, Rollback, Restored, Described, Return
  <1>9. CASE StageReuse \/ StageWrite \/ StageFails \/ StageInvalid
             \/ CommitConflict \/ CommitFails \/ Verify \/ VerifyFails
             \/ InventoryResume \/ InventoryStaged
             \/ InventoryStageWrite \/ InventoryStageConflict
             \/ InventoryConflict \/ InventoryVerify \/ InventoryFails
    BY <1>3, <1>9
       DEF StageReuse, StageWrite, StageFails, StageInvalid,
           CommitConflict, CommitFails, Verify, VerifyFails, InventoryResume,
           InventoryStaged, InventoryStageWrite, InventoryStageConflict,
           InventoryConflict, InventoryVerify, InventoryFails, Goto, GiveUp, Return, Described
  <1>10. CASE Precheck \/ PrecheckFails \/ CleanupSkip \/ Cleanup \/ CleanupFails
              \/ RollbackFails \/ Reverify \/ ReverifyFails \/ Unnamed
    BY <1>3, <1>10
       DEF Precheck, PrecheckFails, CleanupSkip, Cleanup, CleanupFails,
           RollbackFails, Reverify, ReverifyFails, Unnamed, Goto, GiveUp, Return, Described
  <1> QED BY <1>4, <1>5, <1>6, <1>7, <1>8, <1>9, <1>10 DEF Step

(* The journals keep describing the files.                                 *)
LEMMA DescribedKeeps ==
  ASSUME IInv, Described, [Next]_vars PROVE Described'
  <1>1. CASE UNCHANGED vars
    BY <1>1 DEF Described, vars
  <1>2. CASE Step
    <2>1. UNCHANGED <<touched, edits>> BY <1>2, StepActs
    <2>2. CASE pc' = "idle" BY <2>1, <2>2 DEF Described
    <2>3. CASE pc' = "inventoryStart"
      <3>1. mem \in Journal /\ TypeOK BY <1>2, StepActs, MemFacts DEF IInv
      <3>2. target[Inv] \in File /\ Rendered \in File /\ Inv \in Index
        <4>1. pc = "inventory"
          BY <1>2, <2>3, StepCounts
        <4>2. Rendered \in Versions
          <5>1. target[Inv] \in Versions
            BY <1>2, <2>3, StepCounts DEF InventoryReady
          <5>2. \A i \in mem.named : mem.entries[i].new \in Content
            BY <4>1, MemFacts DEF Wellformed
          <5> QED BY <5>1, <5>2 DEF Rendered, Versions
        <4> QED BY <3>1, <4>2, TypeFacts DEF TypeOK
      <3>3. InventoryEntry.old = target[Inv]
        BY <3>1, <3>2, InheritFacts DEF InventoryEntry, TypeOK
      <3>4. mem'.entries[Inv] = InventoryEntry /\ target' = target
        <4>1. /\ target' = target
              /\ mem' = [mem EXCEPT !.phase = "inventory", !.count = Inv,
                                    !.entries[Inv] = InventoryEntry]
          BY <1>2, <2>3, StepCounts
        <4>2. mem.entries \in [Index -> Entry] /\ Inv \in Index
          BY <3>1, <3>2 DEF Journal
        <4> QED BY <3>1, <4>1, <4>2 DEF Journal
      <3> QED BY <2>1, <2>3, <3>3, <3>4 DEF Described
    <2>4. CASE pc' \notin {"idle", "inventoryStart"}
      BY <1>2, <2>1, <2>4, StepCounts DEF Described
    <2> QED BY <2>2, <2>3, <2>4
  <1>3. ASSUME NEW named \in (SUBSET Package) \ {{}}, NEW new \in [named -> Content],
         NEW components \in BOOLEAN,
               Apply(named, new, components)
        PROVE  Described'
    <2>1. ASSUME NEW i \in named PROVE mem'.entries[i].old = target[i]
      <3>1. target[i] \in File /\ new[i] \in File /\ newest \in Journal \cup {NoJournal} /\ i \in Index
        BY TypeFacts DEF IInv, TypeOK
      <3>2. NewEntry(i, target[i], new[i], newest).old = target[i]
        BY <3>1, InheritFacts
      <3>3. mem'.entries[i] = NewEntry(i, target[i], new[i], newest)
        BY <1>3, <3>1 DEF Apply
      <3> QED BY <3>2, <3>3
    <2>2. UNCHANGED <<target, touched, edits>> /\ pc' = "prepare" /\ mem'.named = named
      BY <1>3 DEF Apply, disk, history
    <2> QED BY <2>1, <2>2 DEF Described
  <1>4. CASE Resume \/ BootRecovery
    BY <1>4 DEF Resume, BootRecovery, Described, history
  <1>5. CASE RollbackLast
    <2>1. newest \in Journal BY <1>5, TypeFacts DEF RollbackLast, IInv, TypeOK, NoJournal
    <2>2. Phase(newest, "rollback").count = newest.count BY <2>1, PhaseFacts DEF Phases
    <2> QED BY <1>5, <2>2 DEF RollbackLast, Described, history
  <1>6. CASE Crash
    BY <1>6 DEF Crash, Return, Described
  <1>7. ASSUME NEW i \in Index, Edit(i) PROVE Described'
    <2>1. edits \in Nat BY TxnAssumption DEF IInv, TypeOK
    <2>2. edits' # 0 /\ UNCHANGED <<pc, newest, mem>> BY <1>7, <2>1 DEF Edit
    <2> QED BY <2>2 DEF Described
  <1>8. CASE Rest BY <1>8 DEF Rest, Described, vars
  <1> QED BY <1>1, <1>2, <1>3, <1>4, <1>5, <1>6, <1>7, <1>8 DEF Next

(* The old contents of another journal over the same payloads.             *)
SameOld(j, k) == /\ Payloads(j) = Payloads(k)
                 /\ \A i \in Payloads(j) : j.entries[i].old = k.entries[i].old

(* What a step does to targets and durable journal while nobody touched a  *)
(* file: it replaces held-back targets, writes down another phase, begins, *)
(* or appends the inventory.                                               *)
Replacing == /\ newest' = newest
             /\ \A i \in Index : target'[i] = target[i] \/ (Held(newest) /\ i \in Payloads(newest))
Advancing == /\ target' = target
             /\ SameOld(newest', newest)
Beginning == /\ target' = target
             /\ newest.phase \in {"cleanup", "rolled_back"}
             /\ newest'.phase = "prepare"
             /\ \A i \in Payloads(newest') : newest'.entries[i].old = target[i]
Extending == /\ target' = target
             /\ Held(newest) /\ Held(newest')
             /\ Payloads(newest') = Payloads(newest) \cup {Inv}
             /\ \A i \in Payloads(newest) : newest'.entries[i].old = newest.entries[i].old
             /\ Inv \notin Payloads(newest) => newest'.entries[Inv].old = target[Inv]

(* Only a local change is counted as one.                                  *)
LEMMA EditsGrow ==
  ASSUME IInv, [Next]_vars PROVE edits' = edits \/ edits' = edits + 1
  <1>1. CASE Step BY <1>1, StepActs
  <1> QED BY <1>1 DEF Next, vars, Apply, Resume, BootRecovery, RollbackLast, Crash, Edit, Rest,
                      history

(* Every step is of one of these kinds.                                    *)
LEMMA StepKinds ==
  ASSUME IInv, Described, [Next]_vars, edits' = 0
  PROVE  Replacing \/ Advancing \/ Beginning \/ Extending
  <1> USE TypeFacts
  <1>1. CASE newest' = newest /\ target' = target
    BY <1>1 DEF Replacing
  <1>2. CASE Step
    <2>1. pc # "idle" /\ edits = 0 /\ mem \in Journal
      BY <1>2, StepActs, MemFacts
    <2>2. CASE newest' = newest /\ pc \in Committing /\ Replaced(Current) /\ Forward
      <3>1. /\ cursor \in Index /\ cursor \in Payloads(newest) /\ Forwarding /\ mem.txn \in Txn
            /\ Current.old \in File /\ Current.new \in File
        BY <2>2, CommitFacts, ReplacedNamed DEF Committing
      <3>2. Held(newest) BY <3>1 DEF Forwarding, Open, Held, phaseTerminal
      <3>3. \A i \in Index \ {cursor} : target'[i] = target[i]
        BY <2>2, <3>1, SetDiskFacts DEF Forward, IInv
      <3> QED BY <2>2, <3>1, <3>2, <3>3 DEF Replacing
    <2>3. CASE newest' = newest /\ pc = "rollback" /\ Replaced(Current) /\ RollBack
      <3>1. /\ cursor \in Index /\ mem.txn \in Txn /\ Current.old \in File /\ mem \in Journal
            /\ newest.phase = "rollback" /\ cursor \in Payloads(mem)
        BY <2>3, RollbackFacts, ReplacedNamed
      <3>2. cursor \in Payloads(newest)
        BY <2>3, <3>1 DEF Described, Payloads, IInv, At, Continues
      <3>3. Held(newest) BY <3>1 DEF Held, phaseTerminal
      <3>4. \A i \in Index \ {cursor} : target'[i] = target[i]
        BY <2>3, <3>1, SetDiskFacts DEF RollBack, IInv
      <3> QED BY <2>3, <3>1, <3>2, <3>3, <3>4 DEF Replacing
    <2>4. ASSUME NEW j \in Journal, SameRecord(j, mem), newest' = j, target' = target,
                 pc \notin {"prepare", "inventoryStart"}
          PROVE  Advancing
      <3>1. Continues /\ newest.count = mem.count
        BY <2>1, <2>4 DEF IInv, At, Described
      <3> QED BY <2>4, <3>1 DEF Advancing, SameOld, SameRecord, Continues, Payloads
    <2>5. CASE newest' = mem /\ target' = target /\ pc = "prepare"
      <3>1. /\ mem.phase = "prepare" /\ phaseTerminal(newest.phase)
            /\ \A i \in mem.named : mem.entries[i].old = target[i]
        BY <2>1, <2>5 DEF IInv, At, Begins, Described
      <3>2. mem.count = N
        BY <2>1, <2>5, <3>1 DEF IInv, Memory, Shaped, Open
      <3> QED BY <2>5, <3>1, <3>2 DEF Beginning, phaseTerminal, Payloads, Package
    <2>6. CASE newest' = mem /\ target' = target /\ pc = "inventoryStart"
      <3>1. /\ Forwarding /\ Continues /\ mem.count = Inv
            /\ mem.entries[Inv].old = target[Inv]
        BY <2>1, <2>6 DEF IInv, At, Described, Inventorying
      <3>2. newest \in Journal
        BY <3>1 DEF Continues, IInv, TypeOK
      <3>3. Payloads(mem) = Payloads(newest) \cup {Inv}
        BY <3>1, <3>2 DEF Payloads, Journal, Continues
      <3>4. Held(newest) /\ Held(mem)
        BY <3>1 DEF Forwarding, Open, Held, phaseTerminal
      <3> QED BY <2>6, <3>1, <3>3, <3>4 DEF Extending, Continues
    <2>7. CASE newest' = mem /\ target' = target
      <3>1. SameRecord(mem, mem) BY DEF SameRecord
      <3> QED BY <2>1, <2>4, <2>5, <2>6, <2>7, <3>1
    <2>8. ASSUME NEW p \in Phases, newest' = Phase(mem, p), target' = target,
                 pc \notin {"prepare", "inventoryStart"}
          PROVE  Advancing
      <3>1. Phase(mem, p) \in Journal /\ SameRecord(Phase(mem, p), mem)
        BY <2>1, PhaseFacts DEF SameRecord
      <3> QED BY <2>4, <2>8, <3>1
    <2> QED BY <1>1, <1>2, <2>2, <2>3, <2>7, <2>8, StepActs
  <1>3. ASSUME NEW i \in Index, Edit(i) PROVE FALSE
    <2>1. edits \in Nat BY TxnAssumption DEF IInv, TypeOK
    <2> QED BY <1>3, <2>1 DEF Edit
  <1> QED
    BY <1>1, <1>2, <1>3
       DEF Next, vars, Apply, Resume, BootRecovery, RollbackLast, Crash, Rest, disk

(* Such a step installs, undoes or forgets a whole set of files, or shows  *)
(* nothing.                                                                *)
LEMMA KindsRefine ==
  ASSUME TypeOK, TypeOK', Whole(newest, target, backup), Whole(newest', target', backup'),
         Replacing \/ Advancing \/ Beginning \/ Extending
  PROVE  [Files!FilesNext]_<<Recovered, LastGood>>
  <1> DEFINE F == OldFiles(newest, target)
             G == OldFiles(newest', target')
             Done == newest.phase \in {"applied", "cleanup"}
             DoneNext == newest'.phase \in {"applied", "cleanup"}
  <1>1. Recovered = (IF Done THEN target ELSE F) /\ LastGood = F
    <2>1. Recovered = RecoveredOf(newest, target, backup)
      BY DEF Recovered, RecoveredOf, HeldBack, Held
    <2>2. LastGood = LastGoodOf(newest, target, backup)
      BY <2>1 DEF LastGood, LastGoodOf
    <2> QED BY <2>1, <2>2, FilesFacts DEF TypeOK
  <1>2. Recovered' = (IF DoneNext THEN target' ELSE G) /\ LastGood' = G
    <2>1. Recovered' = RecoveredOf(newest', target', backup')
      BY DEF Recovered, RecoveredOf, HeldBack, Held
    <2>2. LastGood' = LastGoodOf(newest', target', backup')
      BY <2>1 DEF LastGood, LastGoodOf
    <2> QED BY <2>1, <2>2, FilesFacts DEF TypeOK
  <1>3. target \in [Index -> File] /\ target' \in [Index -> File]
    BY DEF TypeOK
  <1>4. CASE Replacing
    <2>1. G = F
      BY <1>4 DEF Replacing, OldFiles
    <2>2. Done => target' = target
      <3> SUFFICES ASSUME Done PROVE target' = target OBVIOUS
      <3>1. ~Held(newest) BY DEF Held, phaseTerminal
      <3>2. \A i \in Index : target'[i] = target[i] BY <1>4, <3>1 DEF Replacing
      <3> QED BY <1>3, <3>2
    <2>3. Done <=> DoneNext
      BY <1>4 DEF Replacing
    <2> QED BY <1>1, <1>2, <2>1, <2>2, <2>3
  <1>5. CASE Advancing
    <2>1. G = F /\ target' = target
      BY <1>5 DEF Advancing, SameOld, OldFiles
    <2> HIDE DEF F, G
    <2>2. CASE Done <=> DoneNext
      BY <1>1, <1>2, <2>1, <2>2
    <2>3. CASE ~Done /\ DoneNext
      BY <1>1, <1>2, <1>3, <2>1, <2>3 DEF Files!FilesNext, Files!Install
    <2>4. CASE Done /\ ~DoneNext
      BY <1>1, <1>2, <2>1, <2>4 DEF Files!FilesNext, Files!Undo
    <2> QED BY <2>2, <2>3, <2>4
  <1>6. CASE Beginning
    <2>1. G = target /\ target' = target
      BY <1>3, <1>6 DEF Beginning, OldFiles
    <2>2. Recovered = target
      <3>1. CASE newest.phase = "rolled_back"
        BY <1>1, <1>3, <3>1 DEF OldFiles, Whole
      <3> QED BY <1>1, <1>6, <3>1 DEF Beginning
    <2>3. ~DoneNext
      BY <1>6 DEF Beginning
    <2> HIDE DEF F, G, Done, DoneNext
    <2>4. Recovered' = Recovered /\ LastGood' = Recovered
      BY <1>2, <2>1, <2>2, <2>3
    <2> QED BY <2>4 DEF Files!FilesNext, Files!Forget
  <1>7. CASE Extending
    <2>1. G = F
      BY <1>7 DEF Extending, OldFiles
    <2>2. ~Done /\ ~DoneNext
      BY <1>7 DEF Extending, Held, phaseTerminal
    <2> QED BY <1>1, <1>2, <2>1, <2>2
  <1> QED BY <1>4, <1>5, <1>6, <1>7

(* A machine that was never updated shows the installed files.             *)
LEMMA FilesStart == Init => Files!FilesInit /\ Described
  <1> SUFFICES ASSUME Init PROVE Files!FilesInit /\ Described OBVIOUS
  <1>1. TypeOK BY InitIInv DEF IInv
  <1>2. newest.phase = "rolled_back" /\ Payloads(newest) = {}
    BY TypeFacts DEF Init, NoJournal
  <1>3. Recovered = target
    BY <1>1, <1>2 DEF Recovered, HeldBack, phaseTerminal, TypeOK
  <1>4. LastGood = target
    BY <1>1, <1>2, <1>3 DEF LastGood, TypeOK
  <1> QED BY <1>1, <1>3, <1>4 DEF Files!FilesInit, TypeOK, Init, Described

(* APPLY, RESUME, ROLLBACK-LAST and boot recovery replace the installed    *)
(* files as one object, whatever fails or crashes between two operations,  *)
(* as long as nobody else changes them.                                    *)
THEOREM TxnReplacesAsOne == Spec => FilesSpec
  <1>1. IInv /\ IInv' /\ Described /\ Described' /\ [Next]_vars
          => [edits' = 0 => Files!FilesNext]_<<Recovered, LastGood>>
    <2> SUFFICES ASSUME IInv, IInv', Described, Described', [Next]_vars, edits' = 0
                 PROVE  [Files!FilesNext]_<<Recovered, LastGood>>
      OBVIOUS
    <2>1. edits = 0 /\ touched = {} /\ touched' = {}
      <3>1. edits \in Nat /\ (edits' = edits \/ edits' = edits + 1)
        BY EditsGrow, TxnAssumption DEF IInv, TypeOK
      <3>2. edits = 0 BY <3>1
      <3> QED BY <3>2 DEF Described
    <2>2. Whole(newest, target, backup) BY <2>1, WholeNow
    <2>3. Whole(newest', target', backup')
      BY <2>1 DEF IInv, Durable, Truth, Shaped, OldAt, NewAt, Whole, Replaced, Undone
    <2> QED BY <2>2, <2>3, StepKinds, KindsRefine DEF IInv
  <1> QED BY <1>1, FilesStart, InitIInv, NextIInv, DescribedKeeps, PTL DEF Spec, FilesSpec
-----------------------------------------------------------------------------
(* Last-good copies.  Of those that the newest journal knows of, the one   *)
(* that is there is handed down to journal j,                              *)
HandedDown(j, i) ==
    \A g \in Txn \cap Known(i) : backup[g][i] # Absent => g = j.entries[i].prev

(* and once an update is complete the inherited one is rotated away.       *)
Rotated(j, i) == Replaced(j.entries[i]) /\ j.entries[i].prev # 0
                   => backup[j.entries[i].prev][i] = Absent

Lineage ==
    \A i \in Package \ touched :
       /\ pc = "prepare" /\ i \in mem.named => HandedDown(mem, i)
       /\ newest.phase = "cleanup" => Rotated(newest, i)
       /\ pc = "cleanup" /\ i < cursor => Rotated(mem, i)
       /\ pc = "cleanupEnd" => Rotated(mem, i)

(* What an entry inherits is not changed while a transaction runs.         *)
SamePrev == pc \notin {"idle", "prepare"} =>
              \A i \in Package : mem.entries[i].prev = newest.entries[i].prev

(* Every step of a command keeps the backups, or works on those of its own *)
(* transaction, or rotates.                                                *)
LEMMA StepBackups ==
  ASSUME IInv, Step
  PROVE  /\ \A g \in Txn, i \in Index : g # newest.txn => backup'[g][i] \in {backup[g][i], Absent}
         /\ pc # "cleanup" =>
              \A g \in Txn, i \in Index : g # newest.txn => backup'[g][i] = backup[g][i]
         /\ pc \notin {"commit", "inventoryCommit", "rollback", "cleanup"} => backup' = backup
  <1>1. ASSUME pc \in {"commit", "inventoryCommit", "rollback"}, Named, Forward \/ RollBack
        PROVE  \A g \in Txn, i \in Index : g # newest.txn => backup'[g][i] = backup[g][i]
    <2>1. /\ newest.txn = mem.txn /\ mem.txn \in Txn /\ cursor \in Index
          /\ Current.old \in File /\ TypeOK /\ Absent \in File
      BY <1>1, CommitFacts, RollbackFacts, TypeFacts DEF Committing, IInv
    <2>2. CASE Forward
      <3>1. Current.new \in File
        BY <2>1, <2>2, EntryFacts, <1>1 DEF Current
      <3> QED BY <2>1, <2>2, <3>1, SetDiskFacts DEF Forward
    <2>3. CASE RollBack
      BY <2>1, <2>3, SetDiskFacts DEF RollBack
    <2> QED BY <1>1, <2>2, <2>3
  <1>2. CASE CommitReplace \/ Rollback
    BY <1>1, <1>2, ActNamed DEF CommitReplace, Rollback
  <1>3. CASE InventoryCommit
    BY <1>1, <1>3, ActNamed DEF InventoryCommit, disk
  <1>4. CASE Cleanup
    <2>1. pc = "cleanup" /\ Rotate /\ TypeOK
      BY <1>4 DEF Cleanup, IInv
    <2>2. cursor \in Index
      BY <2>1, MemFacts, TypeFacts DEF IInv, Cursor
    <2>3. Current.prev \in 0 .. MaxTxn
      BY <2>1, <2>2, EntryFacts DEF Current
    <2> QED BY <2>1, <2>2, <2>3, RotateFacts
  <1>5. CASE backup' = backup
    BY <1>5
  <1>6. CASE Prepare \/ InventoryStart \/ InventoryRecord \/ RollbackRecord \/ RollbackLastIntent
             \/ Staged \/ CommitStart \/ CommitRecord \/ VerifyStart \/ Applied
             \/ CleanupEnd \/ RollbackStart \/ RollbackEnd
    BY <1>5, <1>6 DEF Prepare, InventoryStart, InventoryRecord, RollbackRecord, RollbackLastIntent,
                Staged, CommitStart, CommitRecord, VerifyStart, Applied, CleanupEnd,
                RollbackStart, RollbackEnd, Persist, PersistLast, disk
  <1>7. CASE StageReuse \/ StageWrite \/ StageFails \/ StageInvalid
             \/ CommitSameFile \/ CommitConflict \/ CommitFails \/ Verify \/ VerifyFails
             \/ Inventory \/ InventoryResume \/ InventoryStaged
             \/ InventoryStageWrite \/ InventoryStageConflict
             \/ InventoryConflict \/ InventoryVerify \/ InventoryFails
    BY <1>5, <1>7 DEF StageReuse, StageWrite, StageFails, StageInvalid, CommitSameFile,
                CommitConflict, CommitFails, Verify, VerifyFails, Inventory, InventoryResume,
                InventoryStaged, InventoryStageWrite, InventoryStageConflict,
                InventoryConflict, InventoryVerify, InventoryFails, Goto, GiveUp, disk
  <1>8. CASE Precheck \/ PrecheckFails \/ CleanupSkip \/ CleanupFails
             \/ RollbackSkip \/ RollbackFails \/ Reverify \/ ReverifyFails \/ Unnamed
    BY <1>5, <1>8 DEF Precheck, PrecheckFails, CleanupSkip, CleanupFails, RollbackSkip,
                RollbackFails, Reverify, ReverifyFails, Unnamed, Goto, GiveUp, disk
  <1> QED BY <1>2, <1>3, <1>4, <1>6, <1>7, <1>8 DEF Step

(* What a step of a command does to its journals.                          *)
LEMMA StepRecords ==
  ASSUME IInv, Step
  PROVE  /\ \/ newest' = newest
            \/ newest' = mem /\ pc = "prepare"
            \/ /\ newest' = mem /\ mem.phase # "cleanup"
               /\ pc \in {"inventoryStart", "inventoryRecord", "rollbackRecord", "lastGood"}
            \/ newest' = Phase(mem, "cleanup") /\ pc = "cleanupEnd"
            \/ pc # "prepare" /\ \E p \in Phases \ {"cleanup"} : newest' = Phase(mem, p)
         /\ pc' # "idle" => \A i \in Package : mem'.entries[i].prev = mem.entries[i].prev
  <1>1. pc # "idle" /\ mem \in Journal BY StepActs, MemFacts
  <1>2. ASSUME NEW p \in Phases PROVE Phase(mem, p).entries = mem.entries
    BY <1>1, PhaseFacts
  <1>3. Package \subseteq Index /\ Inv \notin Package /\ Inv \in Index
    BY TypeFacts DEF Package
  <1>4. CASE Prepare \/ InventoryStart \/ InventoryRecord \/ RollbackRecord \/ RollbackLastIntent
    <2>1. mem.phase # "cleanup" \/ pc = "prepare"
      BY <1>4 DEF InventoryStart, InventoryRecord, RollbackRecord, RollbackLastIntent, Prepare,
                  IInv, At, Inventorying, RollingBack
    <2> QED BY <1>4, <2>1 DEF Prepare, InventoryStart, InventoryRecord, RollbackRecord,
                      RollbackLastIntent, Persist, PersistLast, Return
  <1>5. CASE Staged \/ CommitStart \/ CommitRecord \/ VerifyStart \/ Applied
             \/ CleanupEnd \/ RollbackStart \/ RollbackEnd
    BY <1>2, <1>5 DEF Staged, CommitStart, CommitRecord, VerifyStart, Applied, CleanupEnd,
                RollbackStart, RollbackEnd, Persist, PersistLast, Phases, Return
  <1>6. CASE Inventory
    <2>1. CASE InventoryReady
      <3>1. /\ newest' = newest
            /\ mem' = [mem EXCEPT !.phase = "inventory", !.count = Inv,
                                  !.entries[Inv] = InventoryEntry]
        BY <1>6, <2>1 DEF Inventory
      <3>2. mem.entries \in [Index -> Entry] BY <1>1 DEF Journal
      <3>3. \A i \in Package : mem'.entries[i] = mem.entries[i]
        BY <1>1, <1>3, <3>1, <3>2 DEF Journal
      <3> QED BY <3>1, <3>3
    <2>2. CASE ~InventoryReady
      BY <1>6, <2>2 DEF Inventory, Goto
    <2> QED BY <2>1, <2>2
  <1>7. CASE CommitSameFile \/ CommitReplace \/ InventoryCommit
    <2>1. pc \in Committing BY <1>7 DEF CommitSameFile, CommitReplace, InventoryCommit, Committing
    <2>2. /\ \A i \in Package : MarkInstalled(mem, cursor).entries[i].prev = mem.entries[i].prev
          /\ pc = "inventoryCommit" => cursor = Inv
      BY <1>3, <1>7, <2>1, ActNamed, CommitFacts, InstalledFacts
    <2> QED BY <1>7, <2>2 DEF CommitSameFile, CommitReplace, InventoryCommit, Goto, Return
  <1>8. CASE RollbackSkip \/ Rollback
    <2>1. pc = "rollback" BY <1>8 DEF RollbackSkip, Rollback
    <2>2. \A i \in Package : MarkRestored(mem, cursor).entries[i].prev = mem.entries[i].prev
      BY <1>3, <1>8, <2>1, ActNamed, RollbackFacts, RestoredFacts
    <2> QED BY <1>8, <2>2 DEF RollbackSkip, Rollback, Restored, Return
  <1>9. CASE StageReuse \/ StageWrite \/ StageFails \/ StageInvalid
             \/ CommitConflict \/ CommitFails \/ Verify \/ VerifyFails
             \/ InventoryResume \/ InventoryStaged
             \/ InventoryStageWrite \/ InventoryStageConflict
             \/ InventoryConflict \/ InventoryVerify \/ InventoryFails
    BY <1>9 DEF StageReuse, StageWrite, StageFails, StageInvalid,
           CommitConflict, CommitFails, Verify, VerifyFails, InventoryResume,
           InventoryStaged, InventoryStageWrite, InventoryStageConflict,
           InventoryConflict, InventoryVerify, InventoryFails, Goto, GiveUp, Return
  <1>10. CASE Precheck \/ PrecheckFails \/ CleanupSkip \/ Cleanup \/ CleanupFails
              \/ RollbackFails \/ Reverify \/ ReverifyFails \/ Unnamed
    BY <1>10 DEF Precheck, PrecheckFails, CleanupSkip, Cleanup, CleanupFails,
           RollbackFails, Reverify, ReverifyFails, Unnamed, Goto, GiveUp, Return
  <1> QED BY <1>4, <1>5, <1>6, <1>7, <1>8, <1>9, <1>10 DEF Step

(* The loop of cleanupToTerminal.                                          *)
LEMMA StepCleans ==
  ASSUME IInv, Step, pc' \in {"cleanup", "cleanupEnd"}
  PROVE  \/ pc' = "cleanup" /\ cursor' = 1
         \/ /\ pc = "cleanup" /\ mem' = mem /\ newest' = newest
            /\ pc' = CleanupNext[1] /\ cursor' = CleanupNext[2]
            /\ \/ ~Replaced(Current) /\ backup' = backup
               \/ Replaced(Current) /\ Rotate
  <1>1. ASSUME NEW j, NEW next \in Steps \ {"cleanup", "cleanupEnd"}, NEW at, Persist(j, next, at)
        PROVE  FALSE
    BY <1>1 DEF Persist, Return
  <1>2. /\ StageNext[1] \in Steps \ {"cleanup", "cleanupEnd"}
        /\ CommitNext[1] \in Steps \ {"cleanup", "cleanupEnd"}
        /\ RollbackNext[1] \in Steps \ {"cleanup", "cleanupEnd"}
    BY DEF StageNext, CommitNext, RollbackNext, Steps
  <1>3. CASE Prepare \/ Staged \/ CommitStart \/ CommitRecord \/ VerifyStart \/ InventoryStart
             \/ InventoryRecord \/ Applied \/ RollbackStart \/ RollbackRecord
    BY <1>1, <1>2, <1>3
       DEF Prepare, Staged, CommitStart, CommitRecord, VerifyStart, InventoryStart,
           InventoryRecord, Applied, RollbackStart, RollbackRecord, Steps
  <1>4. CASE CleanupEnd \/ RollbackEnd \/ RollbackLastIntent
    BY <1>4 DEF CleanupEnd, RollbackEnd, RollbackLastIntent, PersistLast, Return
  <1>5. CASE StageReuse \/ StageWrite \/ StageFails \/ StageInvalid \/ CommitSameFile
             \/ CommitReplace \/ CommitConflict \/ CommitFails \/ Verify \/ VerifyFails
             \/ Inventory \/ InventoryResume \/ InventoryStaged \/ InventoryCommit
             \/ InventoryStageWrite \/ InventoryStageConflict
             \/ InventoryConflict \/ InventoryVerify \/ InventoryFails
    BY <1>2, <1>5
       DEF StageReuse, StageWrite, StageFails, StageInvalid, CommitSameFile, CommitReplace,
           CommitConflict, CommitFails, Verify, VerifyFails, Inventory, InventoryResume,
           InventoryStaged, InventoryCommit, InventoryStageWrite, InventoryStageConflict,
           InventoryConflict, InventoryVerify, InventoryFails, Goto, GiveUp, Return
  <1>6. CASE RollbackSkip \/ Rollback \/ PrecheckFails \/ CleanupFails \/ RollbackFails
             \/ Reverify \/ ReverifyFails \/ Unnamed
    BY <1>2, <1>6
       DEF RollbackSkip, Rollback, Restored, PrecheckFails, CleanupFails,
           RollbackFails, Reverify, ReverifyFails, Unnamed, Goto, GiveUp, Return
  <1>7. CASE Precheck BY <1>7 DEF Precheck
  <1>8. CASE CleanupSkip BY <1>8 DEF CleanupSkip, Goto, disk
  <1>9. CASE Cleanup BY <1>9 DEF Cleanup, Return
  <1> QED BY <1>3, <1>4, <1>5, <1>6, <1>7, <1>8, <1>9 DEF Step

(* A new update takes over the copy that the newest journal knows of: of   *)
(* a payload rolled back or not replaced there is no other.                *)
LEMMA ApplyLineage ==
  ASSUME IInv, Lineage, NEW named \in (SUBSET Package) \ {{}}, NEW new \in [named -> Content],
         NEW components \in BOOLEAN,
         Apply(named, new, components), NEW i \in named \ touched
  PROVE  HandedDown(mem', i)
  <1> DEFINE e == NewEntry(i, target[i], new[i], newest)
             p == newest.entries[i]
  <1>1. /\ TypeOK /\ newest.txn \in Nat /\ Txn \subseteq Nat \ {0} /\ i \in Index /\ i # Inv
        /\ phaseTerminal(newest.phase) /\ newest \in Journal \cup {NoJournal}
        /\ i \in Package \ touched
    BY TypeFacts DEF Apply, IInv, TypeOK, NoJournal, Txn, Package
  <1>2. mem'.entries[i] = e
    BY <1>1 DEF Apply
  <1>4. CASE i \notin Payloads(newest)
    <2>1. p.prev = 0
      <3>1. newest \in Journal => newest.txn # 0 BY TypeFacts
      <3>2. newest \in Journal => p = NoEntry
        BY <1>1, <1>4, <3>1 DEF IInv, Durable, Shaped
      <3> QED BY <1>1, <3>2 DEF NoJournal, NoEntry
    <2>2. newest.txn # 0 => backup[newest.txn][i] = Absent
      BY <1>1, <1>4 DEF IInv, Durable, Unused
    <2> QED BY <1>1, <2>1, <2>2 DEF HandedDown, Known
  <1>5. CASE i \in Payloads(newest)
    <2>1. newest \in Journal /\ newest.txn \in Txn BY <1>1, <1>5, TypeFacts
    <2>2. p \in Entry /\ p.prev \in 0 .. MaxTxn /\ p.old \in File /\ p.last \in File
      BY <1>1, <2>1 DEF Journal, Entry
    <2>3. e.prev = IF newest.phase = "cleanup" /\ Replaced(p) /\ Existed(p)
                   THEN newest.txn ELSE p.prev
      <3> DEFINE e0 == [NoEntry EXCEPT !.old = target[i], !.new = new[i]]
      <3>1. e0 \in Entry
        BY <1>1, TypeFacts, TxnAssumption DEF NoEntry, Entry, TypeOK
      <3>2. e = IF newest.phase = "cleanup" /\ Replaced(p) /\ Existed(p)
                THEN [e0 EXCEPT !.prev = newest.txn, !.last = p.old]
                ELSE [e0 EXCEPT !.prev = p.prev, !.last = p.last]
        BY <1>1, <1>5 DEF NewEntry, Inherit
      <3> HIDE DEF e, e0
      <3> QED BY <2>1, <2>2, <3>1, <3>2 DEF Entry
    <2> HIDE DEF e
    <2>4. backup[newest.txn][i] # Absent =>
             newest.phase = "cleanup" /\ Replaced(p) /\ Existed(p)
      BY <1>1, <1>5 DEF IInv, Durable, Truth, Shaped, OldAt, NewAt, Undone, Existed, phaseTerminal
    <2>5. newest.phase = "cleanup" /\ Replaced(p) /\ Existed(p) => Rotated(newest, i)
      BY DEF Lineage
    <2> SUFFICES ASSUME NEW g \in Txn \cap Known(i), backup[g][i] # Absent
                 PROVE  g = e.prev
      BY <1>2 DEF HandedDown
    <2>6. CASE g = newest.txn
      BY <2>3, <2>4, <2>6
    <2>7. CASE g = p.prev
      <3>1. g # 0 BY <1>1
      <3>2. ~(newest.phase = "cleanup" /\ Replaced(p) /\ Existed(p))
        BY <2>5, <2>7, <3>1 DEF Rotated
      <3> QED BY <2>3, <2>7, <3>2
    <2> QED BY <2>6, <2>7 DEF Known
  <1> QED BY <1>4, <1>5

(* No step of a command but its first write is taken at its beginning.     *)
LEMMA StepPrepares ==
  ASSUME IInv, Step PROVE pc' # "prepare" /\ (pc = "prepare" => Prepare)
  <1>1. ASSUME NEW j, NEW next \in Steps \ {"prepare"}, NEW at, Persist(j, next, at)
        PROVE  pc' # "prepare"
    BY <1>1 DEF Persist, Return
  <1>2. /\ StageNext[1] \in Steps \ {"prepare"} /\ RollbackNext[1] \in Steps \ {"prepare"}
        /\ CleanupNext[1] \in Steps \ {"prepare"} /\ CommitNext[1] \in Steps \ {"prepare"}
    BY DEF StageNext, CommitNext, RollbackNext, CleanupNext, Steps
  <1>3. CASE Prepare \/ Staged \/ CommitStart \/ CommitRecord \/ VerifyStart \/ InventoryStart
             \/ InventoryRecord \/ Applied \/ RollbackStart \/ RollbackRecord
    BY <1>1, <1>2, <1>3
       DEF Prepare, Staged, CommitStart, CommitRecord, VerifyStart, InventoryStart,
           InventoryRecord, Applied, RollbackStart, RollbackRecord, Steps
  <1>4. CASE CleanupEnd \/ RollbackEnd \/ RollbackLastIntent
    BY <1>4 DEF CleanupEnd, RollbackEnd, RollbackLastIntent, PersistLast, Return
  <1>5. CASE StageReuse \/ StageWrite \/ StageFails \/ StageInvalid \/ CommitSameFile
             \/ CommitReplace \/ CommitConflict \/ CommitFails \/ Verify \/ VerifyFails
             \/ Inventory \/ InventoryResume \/ InventoryStaged \/ InventoryCommit
             \/ InventoryStageWrite \/ InventoryStageConflict
             \/ InventoryConflict \/ InventoryVerify \/ InventoryFails
    BY <1>2, <1>5
       DEF StageReuse, StageWrite, StageFails, StageInvalid, CommitSameFile, CommitReplace,
           CommitConflict, CommitFails, Verify, VerifyFails, Inventory, InventoryResume,
           InventoryStaged, InventoryCommit, InventoryStageWrite, InventoryStageConflict,
           InventoryConflict, InventoryVerify, InventoryFails, Goto, GiveUp, Return
  <1>6. CASE RollbackSkip \/ Rollback \/ Precheck \/ PrecheckFails \/ CleanupSkip \/ Cleanup
             \/ CleanupFails \/ RollbackFails \/ Reverify \/ ReverifyFails \/ Unnamed
    BY <1>2, <1>6
       DEF RollbackSkip, Rollback, Restored, Precheck, PrecheckFails, CleanupSkip, Cleanup,
           CleanupFails, RollbackFails, Reverify, ReverifyFails, Unnamed, Goto, GiveUp, Return
  <1> QED BY <1>3, <1>4, <1>5, <1>6 DEF Step

(* A step of a command keeps what is known of the copies.                  *)
LEMMA StepLineage ==
  ASSUME IInv, Lineage, SamePrev, Step PROVE Lineage' /\ SamePrev'
  <1>1. /\ pc # "idle" /\ mem \in Journal /\ touched' = touched /\ TypeOK
        /\ newest.txn \in Nat /\ newest \in Journal \cup {NoJournal} /\ mem.txn \in Txn
    BY StepActs, MemFacts DEF IInv, TypeOK
  <1>2. pc # "prepare" =>
          /\ mem.txn = newest.txn /\ newest.txn # 0 /\ Continues
          /\ \A i \in Package : mem.entries[i].prev = newest.entries[i].prev
    BY <1>1 DEF SamePrev, IInv, At, Continues
  <1>3. ASSUME NEW p \in Phases
        PROVE  /\ Phase(mem, p).entries = mem.entries /\ Phase(mem, p).txn = mem.txn
               /\ Phase(mem, p).phase = p
    BY <1>1, PhaseFacts
  <1>4. newest' = newest \/ (newest'.entries = mem.entries /\ newest'.txn = mem.txn)
    BY <1>3, StepRecords DEF Phases
  <1>5. SamePrev'
    <2> SUFFICES ASSUME pc' # "idle", NEW i \in Package
                 PROVE  mem'.entries[i].prev = newest'.entries[i].prev
      BY DEF SamePrev
    <2>1. mem'.entries[i].prev = mem.entries[i].prev
      BY StepRecords
    <2>2. CASE newest'.entries = mem.entries BY <2>1, <2>2
    <2>3. CASE newest' = newest /\ pc # "prepare" BY <1>2, <2>1, <2>3
    <2>4. CASE newest' = newest /\ pc = "prepare"
      <3>1. Prepare BY <2>4, StepPrepares
      <3> QED BY <2>1, <3>1 DEF Prepare, Persist, Return
    <2> QED BY <1>4, <2>2, <2>3, <2>4
  <1> SUFFICES ASSUME NEW i \in Package \ touched
      PROVE  /\ newest'.phase = "cleanup" => Rotated(newest, i)'
             /\ pc' = "cleanup" /\ i < cursor' => Rotated(mem, i)'
             /\ pc' = "cleanupEnd" => Rotated(mem, i)'
    BY <1>1, <1>5, StepPrepares DEF Lineage
  <1>6. /\ i \in Index /\ i \in Nat /\ Txn \subseteq Nat
        /\ \A g \in Txn : g # newest.txn => backup'[g][i] \in {backup[g][i], Absent}
        /\ mem.entries[i].prev \in 0 .. MaxTxn /\ mem.entries[i].prev < mem.txn
    BY <1>1, TypeFacts, StepBackups, EntryFacts, MemFacts DEF Package, Txn, Wellformed
  <1>8. ASSUME NEW j, Rotated(j, i), j.entries[i].prev \in 0 .. MaxTxn,
               j.entries[i].prev < newest.txn
        PROVE  j.entries[i].prev # 0 /\ Replaced(j.entries[i])
                 => backup'[j.entries[i].prev][i] = Absent
    <2> SUFFICES ASSUME j.entries[i].prev # 0, Replaced(j.entries[i])
                 PROVE  backup'[j.entries[i].prev][i] = Absent
      OBVIOUS
    <2>1. j.entries[i].prev \in Txn /\ j.entries[i].prev # newest.txn
      BY <1>1, <1>8, TxnAssumption DEF Txn
    <2> QED BY <1>6, <1>8, <2>1 DEF Rotated
  <1>9. newest'.phase = "cleanup" => Rotated(newest, i)'
    <2> SUFFICES ASSUME newest'.phase = "cleanup" PROVE Rotated(newest, i)'
      OBVIOUS
    <2>1. CASE newest' = newest
      <3>1. newest \in Journal BY <1>1, <2>1 DEF NoJournal
      <3>2. newest.entries[i].prev \in 0 .. MaxTxn /\ newest.entries[i].prev < newest.txn
        BY <1>6, <3>1, TypeFacts DEF IInv, Durable, Shaped, Journal, Entry
      <3>3. Rotated(newest, i) BY <2>1 DEF Lineage
      <3>4. newest.entries[i].prev # 0 /\ Replaced(newest.entries[i])
              => backup'[newest.entries[i].prev][i] = Absent
        BY <1>8, <3>2, <3>3
      <3> QED BY <2>1, <3>4 DEF Rotated
    <2>2. CASE newest' # newest
      <3>1. newest'.entries = mem.entries BY <1>4, <2>2
      <3>2. pc = "cleanupEnd"
        <4>1. pc = "prepare" => mem.phase = "prepare" BY DEF IInv, At, Begins
        <4> QED BY <1>3, <2>2, <4>1, StepRecords
      <3>3. Rotated(mem, i) /\ backup' = backup BY <3>2, StepBackups DEF Lineage
      <3> QED BY <3>1, <3>3 DEF Rotated
    <2> QED BY <2>1, <2>2
  <1>10. ASSUME pc' \in {"cleanup", "cleanupEnd"}, pc' = "cleanup" => i < cursor'
         PROVE  Rotated(mem, i)'
    <2>1. CASE pc' = "cleanup" /\ cursor' = 1
      BY <1>6, <1>10, <2>1 DEF Package
    <2>2. CASE /\ pc = "cleanup" /\ mem' = mem /\ newest' = newest
               /\ pc' = CleanupNext[1] /\ cursor' = CleanupNext[2]
               /\ \/ ~Replaced(Current) /\ backup' = backup
                  \/ Replaced(Current) /\ Rotate
      <3>1. cursor \in 1 .. mem.count /\ mem.count \in Nat /\ i \in 1 .. mem.count
        BY <1>1, <1>6, <2>2, TypeFacts DEF IInv, Cursor, Journal, Package
      <3>2. i <= cursor
        BY <1>10, <2>2, <3>1 DEF CleanupNext
      <3>3. mem.entries[i].prev < newest.txn BY <1>2, <1>6, <2>2
      <3>4. CASE i < cursor
        <4>1. Rotated(mem, i) BY <2>2, <3>4 DEF Lineage
        <4>2. mem.entries[i].prev # 0 /\ Replaced(mem.entries[i])
                => backup'[mem.entries[i].prev][i] = Absent
          BY <1>6, <1>8, <3>3, <4>1
        <4> QED BY <2>2, <4>2 DEF Rotated
      <3>5. CASE i = cursor
        <4>1. CASE ~Replaced(Current)
          BY <2>2, <3>5, <4>1 DEF Rotated, Current
        <4>2. CASE Rotate /\ mem.entries[i].prev # 0
          <5>1. mem.entries[i].prev \in Txn BY <1>6, <4>2, TxnAssumption DEF Txn
          <5>2. backup'[mem.entries[i].prev][i] = Absent
            BY <1>1, <1>6, <3>5, <4>2, <5>1 DEF Rotate, Current, TypeOK
          <5> QED BY <2>2, <5>2 DEF Rotated
        <4>3. CASE mem.entries[i].prev = 0
          BY <2>2, <4>3 DEF Rotated
        <4> QED BY <2>2, <4>1, <4>2, <4>3
      <3> QED BY <3>1, <3>2, <3>4, <3>5
    <2> QED BY <1>10, <2>1, <2>2, StepCleans
  <1> QED BY <1>9, <1>10

(* So does every other step.                                               *)
LEMMA LineageKeeps ==
  ASSUME IInv, Lineage, SamePrev, [Next]_vars PROVE Lineage' /\ SamePrev'
  <1>1. CASE UNCHANGED vars
    BY <1>1 DEF Lineage, SamePrev, HandedDown, Known, Rotated, vars
  <1>2. CASE Step BY <1>2, StepLineage
  <1>3. ASSUME NEW named \in (SUBSET Package) \ {{}}, NEW new \in [named -> Content],
         NEW components \in BOOLEAN,
               Apply(named, new, components)
        PROVE  Lineage' /\ SamePrev'
    <2>1. UNCHANGED <<backup, touched, newest>> /\ pc' = "prepare" /\ mem'.named = named
      BY <1>3 DEF Apply, disk, history
    <2>2. \A i \in named \ touched : HandedDown(mem', i)
      BY <1>3, ApplyLineage
    <2> QED BY <2>1, <2>2 DEF Lineage, SamePrev, HandedDown, Known, Rotated
  <1>4. CASE Resume \/ BootRecovery
    <2>1. pc' \notin {"prepare", "cleanup", "cleanupEnd"} /\ mem' = newest
          /\ UNCHANGED <<backup, touched, newest>>
      BY <1>4 DEF Resume, BootRecovery, disk, history
    <2> QED BY <2>1 DEF Lineage, SamePrev, HandedDown, Known, Rotated
  <1>5. CASE RollbackLast
    <2>1. newest \in Journal BY <1>5, TypeFacts DEF RollbackLast, IInv, TypeOK, NoJournal
    <2>2. Phase(newest, "rollback").entries = newest.entries BY <2>1, PhaseFacts DEF Phases
    <2>3. UNCHANGED <<backup, touched, newest>> /\ pc' = "lastGood"
          /\ mem' = Phase(newest, "rollback")
      BY <1>5 DEF RollbackLast, disk, history
    <2> QED BY <2>2, <2>3 DEF Lineage, SamePrev, HandedDown, Known, Rotated
  <1>6. CASE Crash
    BY <1>6 DEF Crash, Return, Lineage, SamePrev, HandedDown, Known, Rotated
  <1>7. ASSUME NEW k \in Index, Edit(k) PROVE Lineage' /\ SamePrev'
    <2>1. /\ UNCHANGED <<newest, mem, pc, cursor>> /\ touched' = touched \cup {k}
          /\ \A i \in Package \ {k}, g \in Txn : backup'[g][i] = backup[g][i]
      <3>1. TypeOK /\ Package \subseteq Index BY TypeFacts DEF IInv
      <3>2. \/ backup' = backup
            \/ \E g \in Txn, c \in {Absent, Foreign} : backup' = [backup EXCEPT ![g][k] = c]
        BY <1>7 DEF Edit
      <3> QED BY <1>7, <3>1, <3>2 DEF Edit, TypeOK
    <2>2. ASSUME NEW j \in Journal \cup {NoJournal}, NEW i \in Package \ touched'
          PROVE  j.entries[i].prev # 0 => j.entries[i].prev \in Txn
      <3>1. i \in Index BY TypeFacts
      <3>2. j.entries[i].prev \in 0 .. MaxTxn
        BY <3>1, TxnAssumption DEF Journal, Entry, NoJournal, NoEntry
      <3> QED BY <3>2, TxnAssumption DEF Txn
    <2>3. newest \in Journal \cup {NoJournal} /\ mem \in Journal \cup {NoJournal}
      BY DEF IInv, TypeOK
    <2>4. Lineage'
      <3> SUFFICES ASSUME NEW i \in Package \ touched'
                   PROVE  /\ pc = "prepare" /\ i \in mem.named => HandedDown(mem, i)'
                          /\ newest.phase = "cleanup" => Rotated(newest, i)'
                          /\ pc = "cleanup" /\ i < cursor => Rotated(mem, i)'
                          /\ pc = "cleanupEnd" => Rotated(mem, i)'
        BY <2>1 DEF Lineage
      <3>1. i \in Package \ touched /\ \A g \in Txn : backup'[g][i] = backup[g][i]
        BY <2>1
      <3>2. /\ newest.entries[i].prev # 0 => newest.entries[i].prev \in Txn
            /\ mem.entries[i].prev # 0 => mem.entries[i].prev \in Txn
        BY <2>2, <2>3
      <3> QED BY <2>1, <3>1, <3>2 DEF Lineage, HandedDown, Known, Rotated
    <2> QED BY <2>1, <2>4 DEF SamePrev
  <1>8. CASE Rest BY <1>1, <1>8 DEF Rest
  <1> QED BY <1>1, <1>2, <1>3, <1>4, <1>5, <1>6, <1>7, <1>8 DEF Next

(* Nothing is known where nothing was copied.                              *)
LEMMA LineageStarts == Init => Lineage /\ SamePrev
  <1> SUFFICES ASSUME Init PROVE Lineage /\ SamePrev OBVIOUS
  <1>1. \A g \in Txn, i \in Index : backup[g][i] = Absent
    BY DEF Init
  <1>2. Package \subseteq Index BY TypeFacts
  <1> QED BY <1>1, <1>2 DEF Init, Lineage, SamePrev, HandedDown, Known, NoJournal

(* A copy can fall out of the journal's sight only where a new update,     *)
(* whose package does not name its target, becomes durable.                *)
Unseen(i, g) == /\ backup'[g][i] # Absent /\ g \notin Known(i)'
                /\ backup[g][i] = Absent \/ g \in Known(i)

LEMMA OrphansKeep ==
  ASSUME IInv, Lineage, SamePrev, [Next]_vars, NEW i \in Package \ touched', NEW g \in Txn,
         Unseen(i, g)
  PROVE  newest'.txn # newest.txn /\ i \notin newest'.named
  <1>1. /\ TypeOK /\ i \in Index /\ newest.txn \in Nat
    BY TypeFacts DEF IInv, TypeOK, NoJournal, Txn
  <1>2. ASSUME newest'.txn = newest.txn, newest'.entries[i].prev = newest.entries[i].prev
        PROVE  backup[g][i] = Absent /\ backup'[g][i] # Absent /\ g # newest.txn
    BY <1>2 DEF Unseen, Known
  <1>3. CASE backup' = backup /\ newest' = newest
    BY <1>2, <1>3
  <1>4. CASE Step
    <2>1. /\ pc # "idle" /\ mem \in Journal /\ touched' = touched
      BY <1>4, StepActs, MemFacts
    <2>2. g # newest.txn => backup'[g][i] \in {backup[g][i], Absent}
      BY <1>1, <1>4, StepBackups
    <2>3. ~(newest'.txn = newest.txn /\ newest'.entries[i].prev = newest.entries[i].prev)
      BY <1>2, <2>2
    <2>4. ASSUME NEW p \in Phases
          PROVE  /\ Phase(mem, p).entries = mem.entries /\ Phase(mem, p).txn = mem.txn
      BY <2>1, PhaseFacts
    <2>5. newest' = newest \/ (newest'.entries = mem.entries /\ newest'.txn = mem.txn)
      BY <1>4, <2>4, StepRecords DEF Phases
    <2>6. pc = "prepare"
      BY <2>1, <2>3, <2>5 DEF IInv, At, Continues, SamePrev
    <2>7. newest' = mem /\ mem.txn = newest.txn + 1 /\ backup' = backup
      <3>1. Prepare BY <1>4, <2>6, StepPrepares
      <3> QED BY <2>3, <2>6, <3>1 DEF Prepare, Persist, disk, IInv, At, Begins
    <2>8. i \in mem.named => g \in Known(i)'
      BY <2>1, <2>6, <2>7 DEF Lineage, HandedDown, Known, Unseen
    <2> QED BY <1>1, <2>7, <2>8 DEF Unseen
  <1>5. ASSUME NEW k \in Index, Edit(k) PROVE FALSE
    <2>1. i # k /\ newest' = newest
      BY <1>5 DEF Edit
    <2>2. \/ backup' = backup
          \/ \E h \in Txn, c \in {Absent, Foreign} : backup' = [backup EXCEPT ![h][k] = c]
      BY <1>5 DEF Edit
    <2>3. backup'[g][i] = backup[g][i]
      BY <1>1, <2>1, <2>2 DEF TypeOK
    <2> QED BY <1>2, <2>1, <2>3
  <1>6. CASE Crash
    BY <1>3, <1>6 DEF Crash
  <1> QED
    BY <1>3, <1>4, <1>5, <1>6 DEF Next, vars, Apply, Resume, BootRecovery, RollbackLast, Rest, disk

(* bindPreviousBackups and cleanupToTerminal lose sight of no copy of a    *)
(* target that the new package names.                                      *)
THEOREM TxnOrphansOnlyUnnamed == Spec => OrphansOnlyUnnamed
  <1>1. IInv /\ Lineage /\ SamePrev /\ [Next]_vars =>
          [\A i \in Package \ touched', g \in Txn :
             /\ backup'[g][i] # Absent /\ g \notin Known(i)'
             /\ backup[g][i] = Absent \/ g \in Known(i)
             => newest'.txn # newest.txn /\ i \notin newest'.named]_vars
    BY OrphansKeep DEF Unseen
  <1> QED BY <1>1, LineageStarts, LineageKeeps, TxnInvariant, PTL DEF Spec, OrphansOnlyUnnamed

-----------------------------------------------------------------------------
(* A replay meets no conflict.  The last-good copies that a journal's      *)
(* entries inherited are the ones they describe, or gone,                  *)
KinOf(j, b) == \A i \in Payloads(j) :
                  j.entries[i].prev # 0 => b[j.entries[i].prev][i] \in {Absent, j.entries[i].last}

(* and so are the copies of a completed predecessor;                       *)
LeftOf(j, b) == \A i \in Payloads(j) :
                   j.phase = "cleanup" /\ Replaced(j.entries[i])
                     => b[j.txn][i] \in {Absent, j.entries[i].old}

Kin == KinOf(newest, backup) /\ KinOf(mem, backup) /\ KinOf(prior, backup) /\ LeftOf(prior, backup)

(* under the stage names of a transaction there is nothing but its own     *)
(* payloads, whole or torn, and under those of a later one nothing at all; *)
ClearOf(j, s) == /\ \A g \in Txn, i \in Index : g > j.txn => s[g][i] = Absent
                 /\ j.txn # 0 => \A i \in Index :
                       \/ s[j.txn][i] = Absent
                       \/ i \in Payloads(j) /\ s[j.txn][i] \in {Foreign, j.entries[i].new}

(* from the stage record up to the applied one every package payload is    *)
(* staged or installed;                                                    *)
ReadyAt(j, i, t, s) == t[i] = j.entries[i].new \/ s[j.txn][i] = j.entries[i].new
Staging == {"stage", "commit", "verify", "inventory"}
Ready == newest.phase \in Staging => \A i \in newest.named : ReadyAt(newest, i, target, stage)

(* and a command knows where it is: it commits only what was staged, and   *)
(* rotates only what it found installed.                                   *)
Past == {"commitStart", "commit", "commitRecord", "verifyStart", "verify", "inventory",
         "inventoryStart"}
Place ==
    /\ pc = "reverify" => mem.phase = newest.phase
    /\ pc \in {"stage", "staged"} => newest.phase = "prepare"
    /\ pc \in Past => newest.phase # "prepare"
    /\ pc = "stage" => \A i \in newest.named : i < cursor => ReadyAt(newest, i, target, stage)
    /\ pc = "staged" => \A i \in newest.named : ReadyAt(newest, i, target, stage)
    /\ pc = "inventoryCommit" => ReadyAt(newest, Inv, target, stage)
    /\ pc = "cleanup" => \A i \in Payloads(mem) :
          Replaced(mem.entries[i]) => stage[mem.txn][i] = Absent

Smooth == touched = {} => Kin /\ ClearOf(newest, stage) /\ Ready /\ Place

(* Two journals that differ in phase and marks only.                       *)
SameLabels(j, k) ==
    /\ j.txn = k.txn /\ j.count = k.count /\ j.named = k.named
    /\ \A i \in Index : /\ j.entries[i].old = k.entries[i].old
                        /\ j.entries[i].new = k.entries[i].new
                        /\ j.entries[i].prev = k.entries[i].prev
                        /\ j.entries[i].last = k.entries[i].last

(* What was inherited stays as described while older copies only go.       *)
LEMMA KinStays ==
  ASSUME NEW j \in Journal \cup {NoJournal}, NEW b, NEW c, KinOf(j, b), Shaped(j),
         \A g \in Txn, i \in Index : g < j.txn => c[g][i] \in {b[g][i], Absent}
  PROVE  KinOf(j, c)
  <1> USE TypeFacts
  <1>1. CASE j = NoJournal BY <1>1 DEF KinOf
  <1>2. CASE j \in Journal
    <2> SUFFICES ASSUME NEW i \in Payloads(j), j.entries[i].prev # 0
                 PROVE  c[j.entries[i].prev][i] \in {Absent, j.entries[i].last}
      BY DEF KinOf
    <2>1. i \in Index /\ j.entries[i].prev \in 0 .. MaxTxn /\ j.entries[i].prev < j.txn
      BY <1>2 DEF Journal, Entry, Shaped
    <2>2. j.entries[i].prev \in Txn BY <2>1, TxnAssumption DEF Txn
    <2>3. b[j.entries[i].prev][i] \in {Absent, j.entries[i].last} BY DEF KinOf
    <2>4. c[j.entries[i].prev][i] \in {b[j.entries[i].prev][i], Absent} BY <2>1, <2>2
    <2> QED BY <2>3, <2>4
  <1> QED BY <1>1, <1>2

(* Journals with the same labels inherited the same.                       *)
LEMMA KinLabels ==
  ASSUME NEW j, NEW k \in Journal, SameLabels(j, k), NEW b, KinOf(k, b) PROVE KinOf(j, b)
  <1>1. Payloads(j) = Payloads(k) /\ Payloads(k) \subseteq Index
    BY TypeFacts DEF SameLabels, Payloads
  <1> QED BY <1>1 DEF SameLabels, KinOf

(* bindPreviousBackups takes over a copy that is as described.             *)
LEMMA InheritKin ==
  ASSUME NEW old \in File, NEW new \in File, NEW i \in Index,
         NEW previous \in Journal \cup {NoJournal},
         NEW b, KinOf(previous, b), LeftOf(previous, b)
  PROVE  LET e == NewEntry(i, old, new, previous)
         IN  e.prev # 0 => b[e.prev][i] \in {Absent, e.last}
  <1> USE TypeFacts, TxnAssumption
  <1> DEFINE e0 == [NoEntry EXCEPT !.old = old, !.new = new]
             e == NewEntry(i, old, new, previous)
             p == previous.entries[i]
  <1>1. e0 \in Entry /\ e0.prev = 0
    BY DEF NoEntry, Entry
  <1>2. e = Inherit(e0, i, previous)
    BY DEF NewEntry
  <1> HIDE DEF e0, e
  <1>3. CASE i \notin Payloads(previous) \/ ~phaseTerminal(previous.phase)
    <2>1. e = e0 BY <1>2, <1>3 DEF Inherit
    <2> QED BY <1>1, <2>1 DEF e
  <1>4. CASE i \in Payloads(previous) /\ phaseTerminal(previous.phase)
    <2>1. previous \in Journal BY <1>4
    <2>2. ASSUME NEW g, NEW l, e = [e0 EXCEPT !.prev = g, !.last = l]
          PROVE  e.prev = g /\ e.last = l
      BY <1>1, <2>2 DEF Entry
    <2>3. CASE previous.phase = "cleanup" /\ Replaced(p) /\ Existed(p)
      <3>1. e = [e0 EXCEPT !.prev = previous.txn, !.last = p.old]
        BY <1>2, <1>4, <2>3 DEF Inherit
      <3>2. e.prev = previous.txn /\ e.last = p.old BY <2>2, <3>1
      <3>3. b[previous.txn][i] \in {Absent, p.old} BY <1>4, <2>3 DEF LeftOf
      <3> QED BY <3>2, <3>3 DEF e
    <2>4. CASE ~(previous.phase = "cleanup" /\ Replaced(p) /\ Existed(p))
      <3>1. e = [e0 EXCEPT !.prev = p.prev, !.last = p.last]
        BY <1>2, <1>4, <2>4 DEF Inherit
      <3>2. e.prev = p.prev /\ e.last = p.last BY <2>2, <3>1
      <3>3. p.prev # 0 => b[p.prev][i] \in {Absent, p.last} BY <1>4 DEF KinOf
      <3> QED BY <3>2, <3>3 DEF e
    <2> QED BY <2>3, <2>4
  <1> QED BY <1>3, <1>4

(* What a step of a command leaves in memory and on record.                *)
LEMMA StepLabels ==
  ASSUME IInv, Step
  PROVE  /\ \/ mem' = NoJournal /\ prior' = NoJournal /\ pc' = "idle"
            \/ SameLabels(mem', mem) /\ prior' = prior
            \/ Inventory /\ InventoryReady
         /\ newest' = newest \/ SameLabels(newest', mem)
  <1>1. pc # "idle" /\ mem \in Journal BY StepActs, MemFacts
  <1>2. SameLabels(mem, mem) BY DEF SameLabels
  <1>3. ASSUME NEW p \in Phases PROVE SameLabels(Phase(mem, p), mem)
    BY <1>1, PhaseFacts DEF SameLabels
  <1>4. CASE Prepare \/ InventoryStart \/ InventoryRecord \/ RollbackRecord \/ RollbackLastIntent
    BY <1>2, <1>4 DEF Prepare, InventoryStart, InventoryRecord, RollbackRecord,
                      RollbackLastIntent, Persist, PersistLast, Return
  <1>5. CASE Staged \/ CommitStart \/ CommitRecord \/ VerifyStart \/ Applied
             \/ CleanupEnd \/ RollbackStart \/ RollbackEnd
    BY <1>3, <1>5 DEF Staged, CommitStart, CommitRecord, VerifyStart, Applied, CleanupEnd,
                RollbackStart, RollbackEnd, Persist, PersistLast, Phases, Return
  <1>6. CASE Inventory
    BY <1>2, <1>6 DEF Inventory, Goto
  <1>7. CASE CommitSameFile \/ CommitReplace \/ InventoryCommit
    <2>1. pc \in Committing BY <1>7 DEF CommitSameFile, CommitReplace, InventoryCommit, Committing
    <2>2. SameLabels(MarkInstalled(mem, cursor), mem) /\ (pc = "inventoryCommit" => cursor = Inv)
      BY <1>7, <2>1, ActNamed, CommitFacts, InstalledFacts DEF SameLabels
    <2> QED BY <1>2, <1>7, <2>2
            DEF CommitSameFile, CommitReplace, InventoryCommit, Goto, Return, disk
  <1>8. CASE RollbackSkip \/ Rollback
    <2>1. pc = "rollback" BY <1>8 DEF RollbackSkip, Rollback
    <2>2. SameLabels(MarkRestored(mem, cursor), mem)
      BY <1>8, <2>1, ActNamed, RollbackFacts, RestoredFacts DEF SameLabels
    <2> QED BY <1>2, <1>8, <2>2 DEF RollbackSkip, Rollback, Restored, Return
  <1>9. CASE StageReuse \/ StageWrite \/ StageFails \/ StageInvalid
             \/ CommitConflict \/ CommitFails \/ Verify \/ VerifyFails
             \/ InventoryResume \/ InventoryStaged
             \/ InventoryStageWrite \/ InventoryStageConflict
             \/ InventoryConflict \/ InventoryVerify \/ InventoryFails
    BY <1>2, <1>9 DEF StageReuse, StageWrite, StageFails, StageInvalid,
           CommitConflict, CommitFails, Verify, VerifyFails, InventoryResume,
           InventoryStaged, InventoryStageWrite, InventoryStageConflict,
           InventoryConflict, InventoryVerify, InventoryFails, Goto, GiveUp, Return
  <1>10. CASE Precheck \/ PrecheckFails \/ CleanupSkip \/ Cleanup \/ CleanupFails
              \/ RollbackFails \/ Reverify \/ ReverifyFails \/ Unnamed
    BY <1>2, <1>10 DEF Precheck, PrecheckFails, CleanupSkip, Cleanup, CleanupFails,
           RollbackFails, Reverify, ReverifyFails, Unnamed, Goto, GiveUp, Return
  <1> QED BY <1>4, <1>5, <1>6, <1>7, <1>8, <1>9, <1>10 DEF Step

(* A step of a command keeps the copies as they are described.             *)
LEMMA StepKin ==
  ASSUME IInv, Kin, Step PROVE Kin'
  <1> USE TypeFacts
  <1>1. /\ pc # "idle" /\ mem \in Journal /\ mem.txn \in Txn /\ TypeOK
        /\ newest \in Journal \cup {NoJournal} /\ prior \in Journal \cup {NoJournal}
        /\ Shaped(mem) /\ Shaped(newest) /\ Shaped(prior)
        /\ Txn \subseteq Nat /\ newest.txn \in Nat /\ prior.txn \in Nat
        /\ prior.txn < mem.txn /\ newest.txn <= mem.txn
        /\ pc # "prepare" => mem.txn = newest.txn
    BY StepActs, MemFacts DEF IInv, TypeOK, Memory, Durable, At, Begins, Continues, NoJournal, Txn
  <1>2. \A g \in Txn, i \in Index : g < mem.txn => backup'[g][i] \in {backup[g][i], Absent}
    BY <1>1, StepBackups
  <1> DEFINE c == backup'
  <1>3. \A g \in Txn, i \in Index :
           /\ g < newest.txn => c[g][i] \in {backup[g][i], Absent}
           /\ g < prior.txn => c[g][i] \in {backup[g][i], Absent}
           /\ g < mem.txn => c[g][i] \in {backup[g][i], Absent}
    <2>1. \A g \in Txn : g < newest.txn \/ g < prior.txn => g < mem.txn
      <3>1. mem.txn \in Nat BY <1>1
      <3> QED BY <1>1, <3>1
    <2> HIDE DEF c
    <2>2. \A g \in Txn, i \in Index : g < mem.txn => c[g][i] \in {backup[g][i], Absent}
      BY <1>2 DEF c
    <2> QED BY <2>1, <2>2
  <1> HIDE DEF c
  <1>4. KinOf(mem, c) /\ KinOf(newest, c) /\ KinOf(prior, c)
    BY <1>1, <1>3, KinStays DEF Kin
  <1>5. LeftOf(prior, c)
    <2> SUFFICES ASSUME NEW i \in Payloads(prior), prior.phase = "cleanup",
                        Replaced(prior.entries[i])
                 PROVE  c[prior.txn][i] \in {Absent, prior.entries[i].old}
      BY DEF LeftOf
    <2>1. prior \in Journal BY <1>1
    <2>2. prior.txn \in Txn /\ i \in Index BY <2>1
    <2>3. backup[prior.txn][i] \in {Absent, prior.entries[i].old} BY DEF Kin, LeftOf
    <2> QED BY <1>1, <1>3, <2>2, <2>3
  <1>6. KinOf(newest', c)
    BY <1>1, <1>4, StepLabels, KinLabels
  <1>7. KinOf(mem', c) /\ KinOf(prior', c) /\ LeftOf(prior', c)
    <2>1. CASE mem' = NoJournal /\ prior' = NoJournal
      BY <2>1 DEF KinOf, LeftOf
    <2>2. CASE SameLabels(mem', mem) /\ prior' = prior
      BY <1>1, <1>4, <1>5, <2>2, KinLabels
    <2>3. CASE Inventory /\ InventoryReady
      <3> DEFINE e == InventoryEntry
      <3>1. /\ mem' = [mem EXCEPT !.phase = "inventory", !.count = Inv, !.entries[Inv] = e]
            /\ prior' = prior /\ c = backup /\ pc = "inventory"
        BY <2>3 DEF Inventory, disk, c
      <3>2. e.prev # 0 => backup[e.prev][Inv] \in {Absent, e.last}
        <4>1. target[Inv] \in File /\ Rendered \in File
          <5>1. Rendered \in Versions
            BY <1>1, <2>3 DEF Shaped, InventoryReady, Rendered, Versions
          <5> QED BY <1>1, <5>1 DEF TypeOK
        <4> QED BY <1>1, <4>1, InheritKin DEF InventoryEntry, Kin
      <3> HIDE DEF e
      <3>3. /\ Payloads(mem) = mem.named /\ Payloads(mem') = mem.named \cup {Inv}
            /\ mem.named \subseteq Package /\ mem'.entries[Inv] = e
            /\ \A i \in Package : mem'.entries[i] = mem.entries[i]
        <4>1. mem.count = N /\ mem.entries \in [Index -> Entry] /\ Inv \notin Package
          BY <1>1, <3>1 DEF IInv, At, Packaging, Journal, Package
        <4>2. /\ mem'.count = Inv /\ mem'.named = mem.named
              /\ mem'.entries = [mem.entries EXCEPT ![Inv] = e]
          BY <1>1, <3>1 DEF Journal
        <4> QED BY <1>1, <4>1, <4>2 DEF Payloads, Package
      <3>4. KinOf(mem', c)
        BY <1>4, <3>1, <3>2, <3>3 DEF KinOf
      <3> QED BY <1>4, <1>5, <3>1, <3>4
    <2> QED BY <2>1, <2>2, <2>3, StepLabels
  <1> QED BY <1>6, <1>7 DEF Kin, KinOf, LeftOf, Payloads, Replaced, c

(* So does a transaction that begins: the copies of its predecessor are    *)
(* what that one's journal says.                                           *)
LEMMA ApplyKin ==
  ASSUME IInv, Kin, touched = {}, NEW named \in (SUBSET Package) \ {{}}, NEW new \in [named -> Content],
         NEW components \in BOOLEAN,
         Apply(named, new, components)
  PROVE  Kin'
  <1> USE TypeFacts
  <1>1. TypeOK /\ newest \in Journal \cup {NoJournal} /\ KinOf(newest, backup)
    BY DEF IInv, TypeOK, Kin
  <1>2. LeftOf(newest, backup)
    BY DEF IInv, Durable, Truth, Shaped, OldAt, NewAt, Committed, Forwards, LeftOf
  <1>3. /\ UNCHANGED <<backup, newest>> /\ prior' = newest /\ mem'.count = N
        /\ mem'.named = named
        /\ mem'.entries = [i \in Index |-> IF i \notin named THEN NoEntry
                                           ELSE NewEntry(i, target[i], new[i], newest)]
    BY DEF Apply, disk
  <1>4. KinOf(mem', backup)
    <2> SUFFICES ASSUME NEW i \in named
                 PROVE  mem'.entries[i].prev # 0 =>
                          backup[mem'.entries[i].prev][i] \in {Absent, mem'.entries[i].last}
      BY <1>3 DEF KinOf, Payloads, Package
    <2>1. i \in Index /\ target[i] \in File /\ new[i] \in File
      BY <1>1 DEF Package, TypeOK
    <2>2. mem'.entries[i] = NewEntry(i, target[i], new[i], newest) BY <1>3, <2>1
    <2> DEFINE e == NewEntry(i, target[i], new[i], newest)
    <2>3. e.prev # 0 => backup[e.prev][i] \in {Absent, e.last}
      BY <1>1, <1>2, <2>1, InheritKin
    <2> HIDE DEF e
    <2> QED BY <2>2, <2>3 DEF e
  <1> QED BY <1>1, <1>2, <1>3, <1>4 DEF Kin, KinOf, LeftOf, Payloads, Replaced

(* What a step of a command does to the files.                             *)
LEMMA StepDisk ==
  ASSUME IInv, Step
  PROVE  \/ UNCHANGED <<target, stage, backup>>
         \/ newest' = newest /\ pc \in Committing /\ Named /\ Forward
         \/ newest' = newest /\ pc = "rollback" /\ Named /\ RollBack
         \/ pc = "cleanup" /\ Named /\ Rotate
         \/ StageWrite \/ StageInvalid \/ InventoryStageWrite
  <1>1. CASE Prepare \/ InventoryStart \/ InventoryRecord \/ RollbackRecord \/ RollbackLastIntent
             \/ Staged \/ CommitStart \/ CommitRecord \/ VerifyStart \/ Applied
             \/ CleanupEnd \/ RollbackStart \/ RollbackEnd
    BY <1>1 DEF Prepare, InventoryStart, InventoryRecord, RollbackRecord, RollbackLastIntent,
                Staged, CommitStart, CommitRecord, VerifyStart, Applied, CleanupEnd,
                RollbackStart, RollbackEnd, Persist, PersistLast, disk
  <1>2. CASE CommitReplace \/ InventoryCommit \/ Rollback
    BY <1>2, ActNamed DEF CommitReplace, InventoryCommit, Rollback, Committing, disk
  <1>3. CASE StageReuse \/ StageFails
             \/ CommitSameFile \/ CommitConflict \/ CommitFails \/ Verify \/ VerifyFails
             \/ Inventory \/ InventoryResume \/ InventoryStaged \/ InventoryStageConflict
             \/ InventoryConflict \/ InventoryVerify \/ InventoryFails
    BY <1>3 DEF StageReuse, StageFails, CommitSameFile,
                CommitConflict, CommitFails, Verify, VerifyFails, Inventory, InventoryResume,
                InventoryStaged, InventoryStageConflict,
                InventoryConflict, InventoryVerify, InventoryFails, Goto, GiveUp, disk
  <1>4. CASE Precheck \/ PrecheckFails \/ CleanupSkip \/ CleanupFails
             \/ RollbackSkip \/ RollbackFails \/ Reverify \/ ReverifyFails \/ Unnamed
    BY <1>4 DEF Precheck, PrecheckFails, CleanupSkip, CleanupFails, RollbackSkip,
                RollbackFails, Reverify, ReverifyFails, Unnamed, Goto, GiveUp, disk
  <1>5. CASE Cleanup
    BY <1>5, ActNamed DEF Cleanup
  <1>6. CASE StageWrite \/ StageInvalid \/ InventoryStageWrite
    BY <1>6
  <1> QED BY <1>1, <1>2, <1>3, <1>4, <1>5, <1>6 DEF Step

(* To targets and stage files, the cleanup does nothing.                   *)
LEMMA StepFiles ==
  ASSUME IInv, Step
  PROVE  \/ target' = target /\ stage' = stage
         \/ newest' = newest /\ pc \in Committing /\ Named /\ Forward
         \/ newest' = newest /\ pc = "rollback" /\ Named /\ RollBack
         \/ StageWrite \/ StageInvalid \/ InventoryStageWrite
  BY StepDisk DEF Rotate

(* Under a stage name a step only deletes, or writes what the journal      *)
(* describes.                                                              *)
LEMMA StepStages ==
  ASSUME IInv, Step, NEW g \in Txn, NEW k \in Index
  PROVE  \/ stage'[g][k] \in {stage[g][k], Absent}
         \/ g = newest.txn /\ k \in Payloads(newest) /\ stage'[g][k] = newest.entries[k].new
  <1> USE TypeFacts
  <1>1. /\ pc # "idle" /\ mem \in Journal /\ mem.txn \in Txn /\ TypeOK
        /\ stage \in [Txn -> [Index -> File]] /\ newest \in Journal \cup {NoJournal}
    BY StepActs, MemFacts DEF IInv, TypeOK
  <1>2. CASE pc \in Committing /\ Named /\ Forward
    BY <1>1, <1>2, CommitFacts DEF Forward, SetDisk
  <1>3. CASE pc = "rollback" /\ Named /\ RollBack
    BY <1>1, <1>3, RollbackFacts DEF RollBack, SetDisk
  <1>4. CASE StageWrite \/ InventoryStageWrite
    <2>1. /\ Continues /\ newest \in Journal
          /\ cursor \in Index /\ cursor \in Payloads(newest)
          /\ stage' = [stage EXCEPT ![mem.txn][cursor] = Current.new]
      <3>1. CASE StageWrite
        <4>1. pc = "stage" /\ cursor \in Package /\ Continues
          BY <3>1 DEF StageWrite, IInv, Cursor, At
        <4>2. newest \in Journal BY <1>1, <4>1 DEF Continues, NoJournal
        <4>3. cursor \in newest.named
          BY <1>1, <3>1, <4>1 DEF StageWrite, Named, Payloads, Continues, Package
        <4> QED BY <3>1, <4>1, <4>2, <4>3 DEF StageWrite
      <3>2. CASE InventoryStageWrite
        <4>1. pc = "inventoryStage" /\ cursor = Inv /\ Continues /\ newest.phase = "inventory"
          BY <3>2 DEF InventoryStageWrite, IInv, Cursor, At, Inventorying
        <4>2. newest \in Journal /\ newest.count = Inv
          BY <1>1, <4>1 DEF Continues, NoJournal, IInv, Durable, Shaped
        <4>3. cursor \in Payloads(newest) BY <4>1, <4>2 DEF Payloads, Index
        <4> QED BY <3>2, <4>1, <4>2, <4>3 DEF InventoryStageWrite
      <3> QED BY <1>4, <3>1, <3>2
    <2>2. Current.new = newest.entries[cursor].new /\ mem.txn = newest.txn
      BY <2>1 DEF Continues, Current
    <2> QED BY <1>1, <2>1, <2>2
  <1>5. CASE StageInvalid
    BY <1>1, <1>5 DEF StageInvalid
  <1> QED BY <1>2, <1>3, <1>4, <1>5, StepFiles

(* So the stage names stay clear.                                          *)
LEMMA StepClear ==
  ASSUME IInv, ClearOf(newest, stage), Step PROVE ClearOf(newest, stage)'
  <1> USE TypeFacts
  <1>1. /\ pc # "idle" /\ mem \in Journal /\ mem.txn \in Txn /\ mem.txn \in Nat
        /\ newest \in Journal \cup {NoJournal} /\ newest.txn \in Nat /\ Txn \subseteq Nat
    BY StepActs, MemFacts DEF IInv, TypeOK, NoJournal, Txn
  <1>2. CASE newest' = newest
    <2>1. ASSUME NEW g \in Txn, NEW k \in Index
          PROVE  \/ stage'[g][k] \in {stage[g][k], Absent}
                 \/ g = newest.txn /\ k \in Payloads(newest) /\ stage'[g][k] = newest.entries[k].new
      BY StepStages
    <2>2. newest.txn # 0 => newest.txn \in Txn BY <1>1
    <2> DEFINE s == stage'
    <2>3. \A g \in Txn, i \in Index : g > newest.txn => s[g][i] = Absent
      <3>1. \A g \in Txn : g > newest.txn => g # newest.txn BY <1>1
      <3> QED BY <2>1, <3>1 DEF ClearOf
    <2>4. newest.txn # 0 => \A i \in Index :
             \/ s[newest.txn][i] = Absent
             \/ i \in Payloads(newest) /\ s[newest.txn][i] \in {Foreign, newest.entries[i].new}
      BY <2>1, <2>2 DEF ClearOf
    <2>5. ClearOf(newest, s) BY <2>3, <2>4 DEF ClearOf
    <2> QED BY <1>2, <2>5 DEF ClearOf, Payloads
  <1>3. CASE newest' # newest
    <2>1. SameLabels(newest', mem) /\ stage' = stage
      BY <1>3, StepLabels, StepFiles DEF StageWrite, StageInvalid, InventoryStageWrite
    <2>2. Payloads(newest') = Payloads(mem) /\ Payloads(mem) \subseteq Index /\ newest'.txn = mem.txn
          /\ \A i \in Index : newest'.entries[i].new = mem.entries[i].new
      BY <1>1, <2>1 DEF SameLabels, Payloads
    <2>3. CASE pc = "prepare"
      <3>1. mem.txn = newest.txn + 1 BY <2>3 DEF IInv, At, Begins
      <3>2. \A i \in Index : stage[mem.txn][i] = Absent BY <1>1, <3>1 DEF ClearOf
      <3>3. \A g \in Txn, i \in Index : g > mem.txn => stage[g][i] = Absent
        <4>1. \A g \in Txn : g > mem.txn => g > newest.txn BY <1>1, <3>1
        <4> QED BY <4>1 DEF ClearOf
      <3> QED BY <2>1, <2>2, <3>2, <3>3 DEF ClearOf, Payloads
    <2>4. CASE pc # "prepare"
      <3>1. Continues BY <1>1, <2>4 DEF IInv, At
      <3>2. newest \in Journal BY <1>1, <3>1 DEF Continues
      <3>3. Payloads(newest) \subseteq Payloads(mem)
        BY <1>1, <3>1, <3>2 DEF Continues, Payloads
      <3>4. ASSUME NEW i \in Index
            PROVE  \/ stage[mem.txn][i] = Absent
                   \/ i \in Payloads(mem) /\ stage[mem.txn][i] \in {Foreign, mem.entries[i].new}
        <4>1. \/ stage[newest.txn][i] = Absent
              \/ i \in Payloads(newest) /\ stage[newest.txn][i] \in {Foreign, newest.entries[i].new}
          BY <3>1 DEF ClearOf, Continues
        <4> QED BY <3>1, <3>3, <4>1 DEF Continues
      <3>5. ClearOf(mem, stage)
        <4>1. \A g \in Txn, i \in Index : g > mem.txn => stage[g][i] = Absent
          BY <3>1 DEF ClearOf, Continues
        <4> QED BY <3>4, <4>1 DEF ClearOf
      <3> QED BY <2>1, <2>2, <3>5 DEF ClearOf, Payloads
    <2> QED BY <2>3, <2>4
  <1> QED BY <1>2, <1>3

(* What leads from one part of a command to the next.                      *)
Guarded == {"reverify", "stage", "staged", "inventoryCommit", "cleanup"} \cup Past

LEMMA StepLeads ==
  ASSUME IInv, Step, pc' \in Guarded
  PROVE  \/ pc' = "stage" /\ (Prepare \/ Reverify)
         \/ pc = "stage" /\ pc' \in {"stage", "staged"} /\ (StageReuse \/ StageWrite \/ Unnamed)
         \/ pc' = "commitStart" /\ (Staged \/ Reverify)
         \/ /\ pc \in Past /\ pc' \in Past /\ pc # "inventoryStart"
            /\ (newest' = newest \/ newest'.phase \in {"commit", "verify"})
         \/ pc' = "inventoryCommit" /\ (InventoryStaged \/ InventoryStageWrite)
         \/ pc' = "cleanup" /\ (Precheck \/ CleanupSkip \/ Cleanup)
  <1> USE DEF Guarded, Past
  <1>1. ASSUME NEW j, NEW next, NEW at, Persist(j, next, at)
        PROVE  pc' = "idle" \/ (pc' = next /\ newest' = j)
    BY <1>1 DEF Persist, Return
  <1>2. pc # "idle" /\ mem \in Journal BY StepActs, MemFacts
  <1>3. ASSUME NEW p \in Phases PROVE Phase(mem, p).phase = p BY <1>2, PhaseFacts
  <1>4. CASE Prepare
    BY <1>1, <1>4 DEF Prepare
  <1>5. CASE Staged
    BY <1>1, <1>5 DEF Staged
  <1>6. CASE CommitStart \/ CommitRecord
    <2>1. CommitNext[1] \in {"commit", "verifyStart"} BY DEF CommitNext
    <2> QED BY <1>1, <1>3, <1>6, <2>1 DEF CommitStart, CommitRecord, Phases
  <1>7. CASE VerifyStart
    BY <1>1, <1>3, <1>7 DEF VerifyStart, Phases
  <1>8. CASE InventoryStart \/ InventoryRecord \/ Applied \/ RollbackStart \/ RollbackRecord
    <2>1. RollbackNext[1] \notin Guarded BY DEF RollbackNext
    <2> QED BY <1>1, <1>8, <2>1
       DEF InventoryStart, InventoryRecord, Applied, RollbackStart, RollbackRecord
  <1>9. CASE CleanupEnd \/ RollbackEnd \/ RollbackLastIntent
    BY <1>9 DEF CleanupEnd, RollbackEnd, RollbackLastIntent, PersistLast, Return
  <1>10. CASE StageReuse \/ StageWrite
    <2>1. StageNext[1] \in {"stage", "staged"} BY DEF StageNext
    <2> QED BY <1>10, <2>1 DEF StageReuse, StageWrite, Goto, Return
  <1>11. CASE StageFails \/ StageInvalid \/ CommitConflict \/ CommitFails \/ VerifyFails
              \/ InventoryResume \/ InventoryStageConflict \/ InventoryConflict
              \/ InventoryVerify \/ InventoryFails \/ PrecheckFails \/ CleanupFails
              \/ RollbackFails \/ ReverifyFails
    BY <1>11 DEF StageFails, StageInvalid, CommitConflict, CommitFails, VerifyFails,
              InventoryResume, InventoryStageConflict, InventoryConflict, InventoryVerify,
              InventoryFails, PrecheckFails, CleanupFails, RollbackFails, ReverifyFails,
              Goto, GiveUp, Return
  <1>12. CASE CommitSameFile \/ CommitReplace \/ Verify \/ Inventory
    BY <1>12 DEF CommitSameFile, CommitReplace, Verify, Inventory, Goto, Return
  <1>13. CASE InventoryCommit
    BY <1>13 DEF InventoryCommit, Return
  <1>14. CASE InventoryStaged \/ InventoryStageWrite
    BY <1>14 DEF InventoryStaged, InventoryStageWrite, Goto, Return
  <1>15. CASE Precheck \/ CleanupSkip \/ Cleanup
    <2>1. CleanupNext[1] \in {"cleanup", "cleanupEnd"} BY DEF CleanupNext
    <2> QED BY <1>15, <2>1 DEF Precheck, CleanupSkip, Cleanup, Goto, Return
  <1>16. CASE RollbackSkip \/ Rollback
    <2>1. RollbackNext[1] \notin Guarded BY DEF RollbackNext
    <2> QED BY <1>16, <2>1 DEF RollbackSkip, Rollback, Restored, Return
  <1>17. CASE Reverify
    BY <1>17 DEF Reverify, Goto
  <1>18. CASE Unnamed
    <2>1. /\ StageNext[1] \in {"stage", "staged"}
          /\ CommitNext[1] \in {"commit", "verifyStart"}
          /\ RollbackNext[1] \notin Guarded
      BY DEF StageNext, CommitNext, RollbackNext
    <2> QED BY <1>18, <2>1 DEF Unnamed, Goto
  <1> QED BY <1>4, <1>5, <1>6, <1>7, <1>8, <1>9, <1>10, <1>11, <1>12, <1>13, <1>14, <1>15,
             <1>16, <1>17, <1>18 DEF Step

(* What is staged or installed stays so on the way forward.                *)
LEMMA ReadyStays ==
  ASSUME IInv, Step, pc # "rollback", ~StageInvalid, newest \in Journal,
         NEW k \in Payloads(newest), ReadyAt(newest, k, target, stage)
  PROVE  ReadyAt(newest, k, target', stage')
  <1> USE TypeFacts
  <1>1. /\ mem \in Journal /\ mem.txn \in Txn /\ TypeOK /\ pc # "idle"
        /\ stage \in [Txn -> [Index -> File]] /\ target \in [Index -> File] /\ k \in Index
    BY StepActs, MemFacts DEF IInv, TypeOK
  <1>2. CASE target' = target /\ stage' = stage
    BY <1>2
  <1>3. CASE pc \in Committing /\ Named /\ Forward
    <2>1. /\ newest.txn = mem.txn /\ SameFiles(newest.entries[cursor]) /\ cursor \in Index
      BY <1>3, CommitFacts
    <2>2. k = cursor => target'[k] = newest.entries[k].new
      BY <1>1, <1>3, <2>1 DEF Forward, SetDisk, SameFiles
    <2>3. k # cursor => target'[k] = target[k] /\ stage'[mem.txn][k] = stage[mem.txn][k]
      BY <1>1, <1>3, <2>1 DEF Forward, SetDisk
    <2> QED BY <2>1, <2>2, <2>3 DEF ReadyAt
  <1>4. CASE StageWrite \/ InventoryStageWrite
    <2>1. /\ Continues /\ cursor \in Index /\ target' = target
          /\ stage' = [stage EXCEPT ![mem.txn][cursor] = Current.new]
      BY <1>4, TypeFacts
         DEF StageWrite, InventoryStageWrite, IInv, At, Cursor
    <2>2. mem.txn = newest.txn /\ (k = cursor => Current.new = newest.entries[k].new)
      BY <2>1 DEF Continues, Current
    <2>3. stage'[mem.txn][k] = IF k = cursor THEN Current.new ELSE stage[mem.txn][k]
      BY <1>1, <2>1
    <2> QED BY <2>1, <2>2, <2>3 DEF ReadyAt
  <1> QED BY <1>2, <1>3, <1>4, StepFiles

(* Where the later phases are recorded.                                    *)
LEMMA StagingWrites ==
  ASSUME IInv, Step, newest' # newest, newest'.phase \in Staging
  PROVE  pc \in {"staged", "inventoryRecord"} \cup Past
  <1>1. pc # "idle" /\ mem \in Journal BY StepActs, MemFacts
  <1>2. ASSUME NEW p \in Phases PROVE Phase(mem, p).phase = p BY <1>1, PhaseFacts
  <1>3. CASE Prepare \/ InventoryStart \/ InventoryRecord \/ RollbackRecord \/ RollbackLastIntent
    <2>1. /\ Prepare => mem.phase = "prepare"
          /\ RollbackRecord \/ RollbackLastIntent => mem.phase = "rollback"
      BY DEF Prepare, RollbackRecord, RollbackLastIntent, IInv, At, Begins, RollingBack
    <2>2. newest' = mem
      BY <1>3 DEF Prepare, InventoryStart, InventoryRecord, RollbackRecord,
                  RollbackLastIntent, Persist, PersistLast
    <2>3. ~Prepare /\ ~RollbackRecord /\ ~RollbackLastIntent
      BY <2>1, <2>2 DEF Staging
    <2> QED BY <1>3, <2>3 DEF InventoryStart, InventoryRecord, Past
  <1>4. CASE Applied \/ CleanupEnd \/ RollbackStart \/ RollbackEnd
    BY <1>2, <1>4 DEF Applied, CleanupEnd, RollbackStart, RollbackEnd, Persist, PersistLast,
                      Phases, Staging
  <1>5. CASE Staged \/ CommitStart \/ CommitRecord \/ VerifyStart
    BY <1>5 DEF Staged, CommitStart, CommitRecord, VerifyStart, Past
  <1>6. CASE CommitSameFile \/ CommitReplace \/ InventoryCommit \/ Rollback
    BY <1>6 DEF CommitSameFile, CommitReplace, InventoryCommit, Rollback, Goto
  <1>7. CASE StageReuse \/ StageWrite \/ StageFails \/ StageInvalid
             \/ CommitConflict \/ CommitFails \/ Verify \/ VerifyFails
             \/ Inventory \/ InventoryResume \/ InventoryStaged
             \/ InventoryStageWrite \/ InventoryStageConflict
             \/ InventoryConflict \/ InventoryVerify \/ InventoryFails
    BY <1>7 DEF StageReuse, StageWrite, StageFails, StageInvalid,
                CommitConflict, CommitFails, Verify, VerifyFails, Inventory, InventoryResume,
                InventoryStaged, InventoryStageWrite, InventoryStageConflict,
                InventoryConflict, InventoryVerify, InventoryFails, Goto, GiveUp
  <1>8. CASE Precheck \/ PrecheckFails \/ CleanupSkip \/ Cleanup \/ CleanupFails
             \/ RollbackSkip \/ RollbackFails \/ Reverify \/ ReverifyFails \/ Unnamed
    BY <1>8 DEF Precheck, PrecheckFails, CleanupSkip, Cleanup, CleanupFails, RollbackSkip,
                RollbackFails, Reverify, ReverifyFails, Unnamed, Goto, GiveUp
  <1> QED BY <1>3, <1>4, <1>5, <1>6, <1>7, <1>8 DEF Step

(* From the stage record on every payload stays staged or installed.       *)
LEMMA StepReady ==
  ASSUME IInv, Ready, Place, Step PROVE Ready'
  <1> USE TypeFacts
  <1>1. /\ pc # "idle" /\ mem \in Journal /\ newest \in Journal \cup {NoJournal}
    BY StepActs, MemFacts DEF IInv, TypeOK
  <1> SUFFICES ASSUME newest'.phase \in Staging, NEW i \in newest'.named
               PROVE  ReadyAt(newest', i, target', stage')
    BY DEF Ready, ReadyAt
  <1>2. CASE newest' = newest
    <2>1. newest \in Journal BY <1>1, <1>2 DEF NoJournal, Staging
    <2>2. ReadyAt(newest, i, target, stage) /\ i \in Payloads(newest)
      BY <1>2, <2>1 DEF Ready
    <2>3. pc # "rollback" BY <1>2 DEF IInv, At, RollingBack, Staging
    <2>4. ~StageInvalid BY <1>2 DEF StageInvalid, Place, Staging
    <2> QED BY <1>2, <2>1, <2>2, <2>3, <2>4, ReadyStays
  <1>3. CASE newest' # newest
    <2>1. SameLabels(newest', mem) /\ stage' = stage /\ target' = target
      BY <1>3, StepLabels, StepFiles DEF StageWrite, StageInvalid, InventoryStageWrite
    <2>2. pc \in {"staged", "inventoryRecord"} \cup Past
      BY <1>3, StagingWrites
    <2>3. Continues /\ newest.phase \in Open
      BY <2>2 DEF IInv, At, Past, Packaging, Inventorying, Forwarding
    <2>4. newest \in Journal /\ i \in newest.named /\ i \in Index /\ i \in Payloads(newest)
      BY <1>1, <2>1, <2>3 DEF Continues, SameLabels
    <2>5. ReadyAt(newest, i, target, stage)
      <3>1. CASE pc = "staged" BY <2>4, <3>1 DEF Place
      <3>2. CASE pc # "staged"
        <4>1. newest.phase # "prepare"
          BY <2>2, <3>2 DEF IInv, At, Inventorying, Place
        <4> QED BY <2>3, <2>4, <4>1 DEF Open, Staging, Ready
      <3> QED BY <3>1, <3>2
    <2>6. newest'.txn = newest.txn /\ newest'.entries[i].new = newest.entries[i].new
      BY <2>1, <2>3, <2>4 DEF SameLabels, Continues
    <2> QED BY <2>1, <2>5, <2>6 DEF ReadyAt
  <1> QED BY <1>2, <1>3

(* And the command keeps to its place.                                     *)
LEMMA StepPlace ==
  ASSUME IInv, Place, touched = {}, Step PROVE Place'
  <1> USE TypeFacts
  <1>1. /\ pc # "idle" /\ mem \in Journal /\ mem.txn \in Txn
        /\ newest \in Journal \cup {NoJournal}
        /\ target \in [Index -> File] /\ stage \in [Txn -> [Index -> File]]
    BY StepActs, MemFacts DEF IInv, TypeOK
  <1>2. CASE pc' \notin Guarded
    BY <1>2 DEF Guarded, Place
  <1>3. CASE pc' = "stage" /\ Prepare
    <2>1. newest' = mem /\ cursor' = 1 /\ mem.phase = "prepare"
      BY <1>3 DEF Prepare, Persist, Return, IInv, At, Begins
    <2>2. \A i \in newest'.named : ~(i < 1) BY <1>1, <2>1 DEF Package
    <2> QED BY <1>3, <2>1, <2>2 DEF Place, Past
  <1>4. CASE /\ pc = "stage" /\ pc' \in {"stage", "staged"}
             /\ StageReuse \/ StageWrite \/ Unnamed
    <2>1. /\ pc = "stage" /\ newest.phase = "prepare" /\ cursor \in Package /\ Continues
          /\ newest' = newest /\ newest \in Journal /\ newest.named = mem.named
          /\ pc' = StageNext[1] /\ cursor' = StageNext[2]
      BY <1>1, <1>4 DEF StageReuse, StageWrite, Unnamed, Goto, Return, Place, IInv, At, Cursor,
                        Continues
    <2>2. ~StageInvalid
      BY <1>4, <2>1 DEF StageInvalid
    <2>3. ASSUME NEW i \in newest.named, i < cursor PROVE ReadyAt(newest, i, target', stage')
      <3>1. ReadyAt(newest, i, target, stage) BY <2>1, <2>3 DEF Place
      <3> QED BY <2>1, <2>2, <3>1, ReadyStays
    <2>4. ASSUME cursor \in newest.named PROVE ReadyAt(newest, cursor, target', stage')
      <3>1. /\ Current.new = newest.entries[cursor].new /\ mem.txn = newest.txn
            /\ cursor \in Index /\ Named
        BY <1>1, <2>1, <2>4 DEF Continues, Current, Named
      <3>2. target'[cursor] = Current.new \/ stage'[mem.txn][cursor] = Current.new
        <4>1. CASE StageReuse
          BY <4>1 DEF StageReuse, Goto, disk, Target, Stage
        <4>2. CASE StageWrite
          BY <1>1, <3>1, <4>2 DEF StageWrite
        <4> QED BY <1>4, <3>1, <4>1, <4>2 DEF Unnamed
      <3> QED BY <3>1, <3>2 DEF ReadyAt
    <2>5. /\ pc' = "stage" => cursor' = cursor + 1
          /\ pc' = "staged" => cursor = N
      BY <2>1 DEF StageNext
    <2>6. ASSUME NEW i \in newest.named, pc' = "stage" => i < cursor'
          PROVE  ReadyAt(newest, i, target', stage')
      <3>1. i <= cursor /\ i \in Nat /\ cursor \in Nat
        <4>1. i \in Package BY <2>1
        <4> QED BY <1>4, <2>1, <2>5, <2>6, <4>1 DEF Package
      <3> QED BY <2>3, <2>4, <3>1
    <2>7. Place'
      BY <1>4, <2>1, <2>6 DEF Place, Past, ReadyAt
    <2> QED BY <2>7
  <1>5. CASE pc' = "stage" /\ Reverify
    <2>1. cursor' = 1 /\ mem.phase = "prepare" /\ newest' = newest /\ pc = "reverify"
      BY <1>5 DEF Reverify, Goto
    <2>2. newest.phase = "prepare" /\ newest \in Journal
      BY <1>1, <2>1 DEF Place, NoJournal
    <2>3. \A i \in newest.named : ~(i < 1) BY <2>2 DEF Package
    <2> QED BY <1>5, <2>1, <2>2, <2>3 DEF Place, Past
  <1>6. CASE pc' = "commitStart" /\ (Staged \/ Reverify)
    <2>1. newest'.phase # "prepare"
      <3>1. CASE Staged
        <4>1. Phase(mem, "stage").phase = "stage" BY <1>1, PhaseFacts DEF Phases
        <4> QED BY <1>6, <3>1, <4>1 DEF Staged, Persist, Return
      <3>2. CASE Reverify
        BY <1>6, <3>2 DEF Reverify, Goto, Place
      <3> QED BY <1>6, <3>1, <3>2
    <2> QED BY <1>6, <2>1 DEF Place
  <1>7. CASE /\ pc \in Past /\ pc' \in Past
             /\ (newest' = newest \/ newest'.phase \in {"commit", "verify"})
    BY <1>7 DEF Place, Past
  <1>8. CASE pc' = "inventoryCommit" /\ (InventoryStaged \/ InventoryStageWrite)
    <2>1. /\ pc = "inventoryStage" /\ cursor = Inv /\ Continues /\ newest.phase = "inventory"
          /\ mem.phase = "inventory" /\ mem.count = Inv /\ newest' = newest
          /\ newest \in Journal /\ newest.count = Inv
      BY <1>1, <1>8 DEF InventoryStaged, InventoryStageWrite, Goto, IInv, At, Cursor,
                        Inventorying, Continues, Durable, Shaped
    <2>2. Inv \in Payloads(newest) /\ Inv \in Payloads(mem)
      BY <2>1 DEF Payloads, Index
    <2>3. Current.new = newest.entries[Inv].new /\ mem.txn = newest.txn
      BY <2>1, <2>2 DEF Continues, Current
    <2>4. target'[Inv] = Current.new \/ stage'[mem.txn][Inv] = Current.new
      <3>1. CASE InventoryStaged
        <4>1. Current.committed => target[Inv] = Current.new
          BY <2>1, <2>2 DEF IInv, Memory, Truth, NewAt, Forwards, Open, Current
        <4> QED BY <2>1, <3>1, <4>1 DEF InventoryStaged, Goto, disk, Target, Stage
      <3>2. CASE InventoryStageWrite
        BY <1>1, <3>2 DEF InventoryStageWrite
      <3> QED BY <1>8, <3>1, <3>2
    <2>5. ReadyAt(newest, Inv, target', stage') BY <2>3, <2>4 DEF ReadyAt
    <2> QED BY <1>8, <2>1, <2>5 DEF Place, Past, ReadyAt
  <1>9. CASE pc' = "cleanup" /\ (Precheck \/ CleanupSkip \/ Cleanup)
    <2>1. mem' = mem /\ stage' = stage
      BY <1>9 DEF Precheck, CleanupSkip, Cleanup, Rotate, Goto, Return, disk
    <2>2. \A i \in Payloads(mem) : Replaced(mem.entries[i]) => stage[mem.txn][i] = Absent
      <3>1. CASE Precheck BY <3>1 DEF Precheck, AppliedIntact
      <3>2. CASE CleanupSkip \/ Cleanup
        BY <3>2 DEF CleanupSkip, Cleanup, Place
      <3> QED BY <1>9, <3>1, <3>2
    <2> QED BY <1>9, <2>1, <2>2 DEF Place, Past, Payloads, Replaced
  <1> QED BY <1>2, <1>3, <1>4, <1>5, <1>6, <1>7, <1>8, <1>9, StepLeads

(* A crash in the middle of a stream leaves half a file under a stage name *)
(* of the transaction, and nothing else changes.                           *)
LEMMA CrashSmooth ==
  ASSUME IInv, Smooth, Crash PROVE Smooth'
  <1> USE TypeFacts
  <1> SUFFICES ASSUME touched = {} PROVE Smooth'
    BY DEF Crash, Smooth
  <1>1. /\ UNCHANGED <<target, backup, newest, touched>> /\ Return /\ pc # "idle"
        /\ mem.txn \in Txn /\ newest \in Journal \cup {NoJournal}
        /\ stage \in [Txn -> [Index -> File]]
    BY MemFacts DEF Crash, IInv, TypeOK
  <1>2. Kin' /\ Place'
    <2>1. Kin' BY <1>1 DEF Smooth, Kin, KinOf, LeftOf, Return, Payloads, NoJournal
    <2>2. Place' BY <1>1 DEF Return, Place, Past
    <2> QED BY <2>1, <2>2
  <1>3. CASE UNCHANGED stage
    BY <1>1, <1>2, <1>3 DEF Smooth, ClearOf, Payloads, Ready, ReadyAt
  <1>4. CASE /\ pc \in {"stage", "inventoryStage"} /\ Named
             /\ Target # Current.new /\ Stage = Absent
             /\ stage' = [stage EXCEPT ![mem.txn][cursor] = Foreign]
    <2>1. /\ Continues /\ newest \in Journal /\ newest.txn = mem.txn
          /\ cursor \in Index /\ cursor \in Payloads(newest)
      <3>1. Continues
        BY <1>4 DEF IInv, At
      <3>2. newest \in Journal /\ newest.txn = mem.txn
        BY <1>1, <3>1 DEF Continues
      <3>3. CASE pc = "stage"
        <4>1. cursor \in Package /\ mem \in Journal BY <1>1, <3>3, MemFacts DEF IInv, Cursor
        <4>2. cursor \in newest.named
          BY <1>4, <3>1, <4>1 DEF Named, Payloads, Continues, Package
        <4> QED BY <3>1, <3>2, <4>1, <4>2
      <3>4. CASE pc = "inventoryStage"
        <4>1. cursor = Inv /\ newest.phase = "inventory"
          BY <3>4 DEF IInv, At, Cursor, Inventorying
        <4>2. newest.count = Inv
          BY <3>2, <4>1 DEF IInv, Durable, Shaped
        <4>3. cursor \in Payloads(newest) BY <4>1, <4>2 DEF Payloads, Index
        <4> QED BY <3>1, <3>2, <4>1, <4>3
      <3> QED BY <1>4, <3>3, <3>4
    <2>2. \A g \in Txn, i \in Index :
             stage'[g][i] = IF g = newest.txn /\ i = cursor THEN Foreign ELSE stage[g][i]
      <3>1. /\ stage \in [Txn -> [Index -> File]] /\ mem.txn \in Txn /\ cursor \in Index
            /\ stage' = [stage EXCEPT ![mem.txn][cursor] = Foreign] /\ newest.txn = mem.txn
        BY <1>1, <1>4, <2>1
      <3> QED BY <3>1
    <2>3. ClearOf(newest, stage)'
      <3>1. newest.txn \in Txn /\ Txn \subseteq Nat BY <2>1 DEF Txn
      <3>2. ClearOf(newest, stage) BY DEF Smooth
      <3>3. ASSUME NEW g \in Txn, NEW i \in Index, g > newest.txn PROVE stage'[g][i] = Absent
        <4>1. g # newest.txn BY <3>1, <3>3
        <4> QED BY <2>2, <3>2, <3>3, <4>1 DEF ClearOf
      <3>4. ASSUME NEW i \in Index
            PROVE  \/ stage'[newest.txn][i] = Absent
                   \/ /\ i \in Payloads(newest)
                      /\ stage'[newest.txn][i] \in {Foreign, newest.entries[i].new}
        <4>1. CASE i = cursor BY <2>1, <2>2, <3>1, <4>1
        <4>2. CASE i # cursor
          <5>1. stage'[newest.txn][i] = stage[newest.txn][i] BY <2>2, <3>1, <4>2
          <5> QED BY <3>1, <3>2, <5>1, TypeFacts, <2>1 DEF ClearOf
        <4> QED BY <4>1, <4>2
      <3> QED BY <1>1, <3>3, <3>4 DEF ClearOf, Payloads
    <2>4. Ready'
      <3> SUFFICES ASSUME newest.phase \in Staging, NEW i \in newest.named
                   PROVE  ReadyAt(newest, i, target, stage')
        BY <1>1 DEF Ready, ReadyAt
      <3>1. ReadyAt(newest, i, target, stage) /\ i \in Index /\ newest.txn \in Txn
        BY <2>1 DEF Smooth, Ready
      <3>2. i # cursor \/ target[i] = newest.entries[i].new
        <4>1. CASE i = cursor
          <5>1. stage[newest.txn][i] = Absent BY <1>4, <2>1, <4>1 DEF Stage
          <5>2. newest.entries[i].new # Absent
            BY <2>1, TxnAssumption DEF IInv, Durable, Shaped
          <5> QED BY <3>1, <5>1, <5>2 DEF ReadyAt
        <4> QED BY <4>1
      <3> QED BY <2>2, <3>1, <3>2 DEF ReadyAt
    <2> QED BY <1>2, <2>3, <2>4 DEF Smooth
  <1> QED BY <1>3, <1>4 DEF Crash

(* A machine that was never updated is smooth.                             *)
LEMMA SmoothStarts == Init => Smooth
  <1> SUFFICES ASSUME Init PROVE Smooth OBVIOUS
  <1>1. newest = NoJournal /\ mem = NoJournal /\ prior = NoJournal /\ pc = "idle"
    BY DEF Init
  <1>2. Kin
    BY <1>1, TypeFacts DEF Kin, KinOf, LeftOf
  <1>3. ClearOf(newest, stage)
    BY <1>1, TypeFacts DEF Init, ClearOf
  <1>4. Ready /\ Place
    BY <1>1 DEF Ready, Place, Staging, Past, NoJournal
  <1> QED BY <1>2, <1>3, <1>4 DEF Smooth

(* Every step keeps the way of a replay clear.                             *)
LEMMA SmoothKeeps ==
  ASSUME IInv, Smooth, [Next]_vars PROVE Smooth'
  <1> USE TypeFacts
  <1>1. CASE UNCHANGED vars
    BY <1>1 DEF vars, Smooth, Kin, KinOf, LeftOf, ClearOf, Ready, ReadyAt, Place, Payloads, Replaced
  <1>2. CASE Step
    <2>1. touched' = touched BY <1>2, StepActs
    <2> SUFFICES ASSUME touched = {} PROVE Kin' /\ ClearOf(newest, stage)' /\ Ready' /\ Place'
      BY <2>1 DEF Smooth
    <2> QED BY <1>2, StepKin, StepClear, StepReady, StepPlace DEF Smooth
  <1>3. ASSUME NEW named \in (SUBSET Package) \ {{}}, NEW new \in [named -> Content],
         NEW components \in BOOLEAN,
               Apply(named, new, components)
        PROVE  Smooth'
    <2>1. UNCHANGED <<target, stage, newest, touched>> /\ pc' = "prepare"
      BY <1>3 DEF Apply, disk, history
    <2> SUFFICES ASSUME touched = {} PROVE Smooth' BY <2>1 DEF Smooth
    <2>2. Kin' BY <1>3, ApplyKin DEF Smooth
    <2>3. Place' BY <2>1 DEF Place, Past
    <2>4. ClearOf(newest, stage)' /\ Ready'
      BY <2>1 DEF Smooth, ClearOf, Ready, ReadyAt, Payloads
    <2> QED BY <2>2, <2>3, <2>4 DEF Smooth
  <1>4. CASE Resume \/ BootRecovery \/ RollbackLast
    <2>1. /\ UNCHANGED <<target, stage, backup, newest, prior, touched>>
          /\ mem' = newest \/ (mem' = Phase(newest, "rollback") /\ pc' = "lastGood")
          /\ pc' \in {"precheck", "rollbackStart", "inventoryResume", "reverify", "lastGood"}
      BY <1>4 DEF Resume, BootRecovery, RollbackLast, disk, history
    <2> SUFFICES ASSUME touched = {} PROVE Smooth' BY <2>1 DEF Smooth
    <2>2. KinOf(mem', backup)
      <3>1. CASE mem' = newest BY <3>1 DEF Smooth, Kin
      <3>2. CASE mem' = Phase(newest, "rollback") /\ pc' = "lastGood"
        <4>1. newest \in Journal
          BY <1>4, <3>2 DEF Resume, BootRecovery, RollbackLast, IInv, TypeOK, NoJournal
        <4>2. SameLabels(mem', newest)
          BY <3>2, <4>1, PhaseFacts DEF SameLabels, Phases
        <4> QED BY <4>1, <4>2, KinLabels DEF Smooth, Kin
      <3> QED BY <2>1, <3>1, <3>2
    <2>3. Kin'
      BY <2>1, <2>2 DEF Smooth, Kin, KinOf, LeftOf, Payloads, Replaced
    <2>4. Place' BY <2>1 DEF Place, Past
    <2>5. ClearOf(newest, stage)' /\ Ready'
      BY <2>1 DEF Smooth, ClearOf, Ready, ReadyAt, Payloads
    <2> QED BY <2>3, <2>4, <2>5 DEF Smooth
  <1>5. CASE Crash BY <1>5, CrashSmooth
  <1>6. ASSUME NEW i \in Index, Edit(i) PROVE Smooth'
    <2>1. i \in touched' BY <1>6 DEF Edit
    <2> QED BY <2>1 DEF Smooth
  <1>7. CASE Rest BY <1>1, <1>7 DEF Rest
  <1> QED BY <1>1, <1>2, <1>3, <1>4, <1>5, <1>6, <1>7 DEF Next

(* What a replay finds of the payload at hand.                             *)
LEMMA NoConflict == IInv /\ Smooth => NoSelfConflict
  <1> USE TypeFacts
  <1> SUFFICES ASSUME IInv, Smooth, touched = {}, Named, Stage # Foreign,
                      pc \in {"stage", "commit", "inventoryCommit", "rollback", "cleanup"}
      PROVE  /\ pc = "stage" => Target = Current.new \/ Stage \in {Absent, Current.new}
             /\ pc \in {"commit", "inventoryCommit"} /\ Replaced(Current) => ForwardAccepts
             /\ pc \in {"commit", "rollback"} /\ ~Replaced(Current) => Target = Current.new
             /\ pc = "rollback" /\ Replaced(Current) => RollbackAccepts
             /\ pc = "cleanup" /\ Replaced(Current) => CleanupAccepts
    BY DEF NoSelfConflict
  <1>1. /\ mem \in Journal /\ mem.txn \in Txn /\ Continues /\ newest \in Journal
        /\ newest.txn = mem.txn /\ newest.txn # 0 /\ Truth(mem) /\ Shaped(mem)
        /\ Kin /\ ClearOf(newest, stage) /\ Ready /\ Place
    BY MemFacts DEF IInv, TypeOK, Memory, At, Continues, Smooth
  <1>2. cursor \in Payloads(mem) /\ cursor \in Index
    BY <1>1 DEF Named
  <1>3. OldAt(mem, cursor) \/ NewAt(mem, cursor)
    BY <1>1, <1>2 DEF Truth
  <1>4. /\ OldAt(mem, cursor) <=> Target = Current.old /\ Backup = Absent
        /\ Replaced(Current) => (NewAt(mem, cursor) <=> Target = Current.new /\ Backup = Current.old)
        /\ ~Replaced(Current) => (NewAt(mem, cursor) <=> Target = Current.new /\ Backup = Absent)
    BY DEF OldAt, NewAt, Target, Backup, Current
  <1>5. Stage \in {Absent, Current.new}
    <2>1. \/ stage[newest.txn][cursor] = Absent
          \/ cursor \in Payloads(newest)
             /\ stage[newest.txn][cursor] \in {Foreign, newest.entries[cursor].new}
      BY <1>1, <1>2 DEF ClearOf
    <2>2. cursor \in Payloads(newest) => Current.new = newest.entries[cursor].new
      BY <1>1 DEF Continues, Current
    <2> QED BY <1>1, <2>1, <2>2 DEF Stage
  <1>6. CASE pc \in {"stage", "rollback"}
    BY <1>3, <1>4, <1>5, <1>6 DEF Replaced, RollbackAccepts
  <1>7. CASE pc \in {"commit", "inventoryCommit"}
    <2>1. /\ SameFiles(newest.entries[cursor]) /\ Forwarding
          /\ pc = "commit" => cursor \in newest.named
          /\ pc = "inventoryCommit" => cursor = Inv
      <3>1. /\ SameFiles(newest.entries[cursor]) /\ Forwarding
            /\ pc = "commit" => cursor \in Package
            /\ pc = "inventoryCommit" => cursor = Inv
        BY <1>7, CommitFacts DEF Committing
      <3> QED BY <1>1, <1>2, <3>1 DEF Payloads, Package, Continues
    <2>2. ReadyAt(newest, cursor, target, stage)
      <3>1. CASE pc = "inventoryCommit" BY <1>1, <2>1, <3>1 DEF Place
      <3>2. CASE pc = "commit"
        <4>1. newest.phase \in Staging
          BY <1>1, <2>1, <3>2 DEF Place, Past, Forwarding, Open, Staging
        <4> QED BY <1>1, <2>1, <3>2, <4>1 DEF Ready
      <3> QED BY <1>7, <3>1, <3>2
    <2>3. Target = Current.new \/ Stage = Current.new
      BY <1>1, <2>1, <2>2 DEF ReadyAt, SameFiles, Target, Stage
    <2> QED BY <1>3, <1>4, <1>5, <1>7, <2>3 DEF Replaced, ForwardAccepts
  <1>8. CASE pc = "cleanup"
    <2>1. mem.phase = "applied" BY <1>8 DEF IInv, At, CleaningUp
    <2>2. NewAt(mem, cursor)
      BY <1>1, <1>2, <2>1 DEF Truth, Shaped, Committed, Forwards
    <2>3. Replaced(Current) => Stage = Absent
      BY <1>1, <1>2, <1>8 DEF Place, Current, Stage
    <2>4. Current.prev # 0 => backup[Current.prev][cursor] \in {Absent, Current.last}
      BY <1>1, <1>2 DEF Kin, KinOf, Current
    <2> QED BY <1>4, <1>8, <2>2, <2>3, <2>4 DEF CleanupAccepts
  <1> QED BY <1>6, <1>7, <1>8

(* Unless somebody changes a file, replaceFile, rollbackPayload and        *)
(* cleanupPayload accept whatever the crashes and failures of earlier      *)
(* commands left behind; half a stage file is excepted.                    *)
THEOREM TxnNoSelfConflict == Spec => []NoSelfConflict
  BY NoConflict, SmoothStarts, SmoothKeeps, TxnInvariant, PTL DEF Spec

-----------------------------------------------------------------------------
(* What is on record.  A journal on disk is one that a replay accepts; up  *)
(* to the commit phase payloads are installed in the order of their        *)
(* records: whoever comes after a payload without a mark is at most the    *)
(* one that was installed last;                                            *)
Early == {"prepare", "stage", "commit"}
Ordered(j, t) == \A i, k \in Payloads(j) :
                    k \notin touched /\ i < k /\ ~j.entries[i].committed /\ ~j.entries[k].committed
                      => t[k] = j.entries[k].old

(* the marks on disk are those in memory, and a commit has every earlier   *)
(* payload on record before it goes on with the next.                      *)
MarksKept == \A i \in Package : newest.entries[i].committed => mem.entries[i].committed
Marked(j, c) == \A i \in j.named : i < c => j.entries[i].committed
Recorded ==
    /\ newest.txn # 0 => JournalValid(newest)
    /\ newest.phase \in Early => Ordered(newest, target)
    /\ pc = "prepare" => \A k \in mem.named \ touched : target[k] = mem.entries[k].old
    /\ pc \in Packaging => MarksKept
    /\ pc = "commit" => Marked(newest, cursor)
    /\ pc = "commitRecord" => Marked(mem, cursor) /\ mem.entries[cursor].committed

(* What a step of a command writes to the journal.                         *)
LEMMA StepWrites ==
  ASSUME IInv, Step
  PROVE  \/ newest' = newest
         \/ /\ JournalValid(newest')
            /\ \/ newest' = mem /\ mem.phase \notin Early
               \/ newest' = mem /\ pc = "prepare"
               \/ \E p \in Phases \ Early : newest' = Phase(mem, p)
               \/ pc \in Packaging /\ \E p \in Phases : newest' = Phase(mem, p)
  <1>1. CASE Prepare
    BY <1>1 DEF Prepare, Persist
  <1>2. CASE InventoryStart \/ InventoryRecord \/ RollbackRecord \/ RollbackLastIntent
    <2>1. mem.phase \notin Early
      BY <1>2 DEF InventoryStart, InventoryRecord, RollbackRecord, RollbackLastIntent, IInv, At,
                  Inventorying, RollingBack, Early
    <2> QED BY <1>2, <2>1 DEF InventoryStart, InventoryRecord, RollbackRecord,
                              RollbackLastIntent, Persist, PersistLast
  <1>3. CASE Staged \/ CommitStart \/ CommitRecord
    BY <1>3 DEF Staged, CommitStart, CommitRecord, Persist, Goto, Packaging, Phases
  <1>4. CASE VerifyStart \/ Applied \/ RollbackStart
    BY <1>4 DEF VerifyStart, Applied, RollbackStart, Persist, Phases, Early
  <1>5. CASE CleanupEnd \/ RollbackEnd
    BY <1>5 DEF CleanupEnd, RollbackEnd, PersistLast, Phases, Early
  <1>6. CASE StageReuse \/ StageWrite \/ StageFails \/ StageInvalid
             \/ CommitSameFile \/ CommitReplace \/ CommitConflict \/ CommitFails
             \/ Verify \/ VerifyFails \/ Inventory \/ InventoryResume \/ InventoryStaged
             \/ InventoryStageWrite \/ InventoryStageConflict \/ InventoryCommit
             \/ InventoryConflict \/ InventoryVerify \/ InventoryFails
    BY <1>6 DEF StageReuse, StageWrite, StageFails, StageInvalid, CommitSameFile, CommitReplace,
                CommitConflict, CommitFails, Verify, VerifyFails, Inventory, InventoryResume,
                InventoryStaged, InventoryStageWrite, InventoryStageConflict, InventoryCommit,
                InventoryConflict, InventoryVerify, InventoryFails, Goto, GiveUp
  <1>7. CASE Precheck \/ PrecheckFails \/ CleanupSkip \/ Cleanup \/ CleanupFails
             \/ RollbackSkip \/ Rollback \/ RollbackFails \/ Reverify \/ ReverifyFails \/ Unnamed
    BY <1>7 DEF Precheck, PrecheckFails, CleanupSkip, Cleanup, CleanupFails, RollbackSkip,
                Rollback, RollbackFails, Reverify, ReverifyFails, Unnamed, Goto, GiveUp
  <1> QED BY <1>1, <1>2, <1>3, <1>4, <1>5, <1>6, <1>7 DEF Step

(* Marks are made in memory and then on disk.                              *)
LEMMA StepMarks ==
  ASSUME IInv, Recorded, Step
  PROVE  /\ pc' # "prepare"
         /\ pc' \in Packaging => MarksKept'
         /\ pc' = "commit" => Marked(newest, cursor)'
         /\ pc' = "commitRecord" => Marked(mem, cursor)' /\ (mem.entries[cursor].committed)'
  <1> USE TypeFacts
  <1>1. ASSUME NEW j, NEW next \in Steps \ {"prepare", "commit", "commitRecord"}, NEW at,
               Persist(j, next, at)
        PROVE  pc' \notin {"prepare", "commit", "commitRecord"} /\ (pc' \in Packaging => MarksKept')
    BY <1>1 DEF Persist, Return, MarksKept, Packaging
  <1>2. /\ RollbackNext[1] \in Steps \ {"prepare", "commit", "commitRecord"}
        /\ RollbackNext[1] \in {"rollback", "rollbackEnd"}
        /\ CleanupNext[1] \in {"cleanup", "cleanupEnd"}
        /\ StageNext[1] \in {"stage", "staged"}
    BY DEF RollbackNext, CleanupNext, StageNext, Steps, Packaging
  <1>3. CASE Prepare \/ Staged \/ VerifyStart \/ InventoryStart \/ InventoryRecord \/ Applied
             \/ RollbackStart \/ RollbackRecord
    BY <1>1, <1>2, <1>3
       DEF Prepare, Staged, VerifyStart, InventoryStart, InventoryRecord, Applied,
           RollbackStart, RollbackRecord, Steps
  <1>4. CASE CommitStart
    <2>1. \/ pc' = "idle"
          \/ pc' = "commit" /\ cursor' = 1 /\ newest' = mem'
      BY <1>4 DEF CommitStart, Persist, Return
    <2>2. CASE pc' = "commit" /\ cursor' = 1 /\ newest' = mem'
      <3>1. \A i \in newest'.named : ~(i < 1)
        <4>1. mem \in Journal /\ newest' = Phase(mem, "commit")
          BY <1>4, <2>2, MemFacts DEF CommitStart, Persist, Return
        <4>2. newest'.named \subseteq Package BY <4>1, PhaseFacts DEF Phases
        <4> QED BY <4>2 DEF Package
      <3> QED BY <2>2, <3>1 DEF MarksKept, Marked
    <2> QED BY <2>1, <2>2 DEF Packaging
  <1>5. CASE CommitRecord
    <2>1. CASE cursor = N
      BY <1>1, <1>5, <2>1 DEF CommitRecord, CommitNext, Steps
    <2>2. CASE cursor # N
      <3>1. pc = "commitRecord" /\ mem \in Journal /\ cursor \in Package
        BY <1>5, MemFacts DEF CommitRecord, IInv, Cursor
      <3>2. Phase(mem, "commit").entries = mem.entries /\ Phase(mem, "commit").named = mem.named
        BY <3>1, PhaseFacts DEF Phases
      <3>3. \/ pc' = "idle"
            \/ /\ pc' = "commit" /\ cursor' = cursor + 1 /\ newest' = mem'
               /\ newest'.entries = mem.entries /\ newest'.named = mem.named
        BY <1>5, <2>2, <3>2 DEF CommitRecord, CommitNext, Persist, Return
      <3>4. \A i \in mem.named : i < cursor + 1 => mem.entries[i].committed
        BY <3>1 DEF Recorded, Marked, Package
      <3> QED BY <3>3, <3>4 DEF MarksKept, Marked, Packaging
    <2> QED BY <2>1, <2>2
  <1>6. CASE CommitSameFile \/ CommitReplace
    <2>1. pc = "commit" /\ newest' = newest
      BY <1>6 DEF CommitSameFile, CommitReplace, Goto
    <2>2. \/ pc' \in {"idle", "rollbackStart"}
          \/ pc' = "commitRecord" /\ cursor' = cursor /\ mem' = MarkInstalled(mem, cursor)
      BY <1>6 DEF CommitSameFile, CommitReplace, Goto, Return
    <2>3. mem \in Journal /\ cursor \in Payloads(mem) /\ cursor \in Package
      BY <1>6, <2>1, ActNamed, CommitFacts DEF Committing
    <2> DEFINE m == MarkInstalled(mem, cursor)
    <2>4. /\ \A i \in Package : m.entries[i].committed <=> i = cursor \/ mem.entries[i].committed
          /\ m.named = mem.named /\ mem.named \subseteq Package
      BY <2>3, InstalledFacts
    <2>5. \A i \in Package : newest.entries[i].committed => mem.entries[i].committed
      BY <2>1 DEF Recorded, MarksKept, Packaging
    <2>6. \A i \in mem.named : i < cursor => newest.entries[i].committed
      BY <2>1 DEF Recorded, Marked, IInv, At, Continues
    <2> HIDE DEF m
    <2>7. CASE pc' = "commitRecord" /\ cursor' = cursor /\ mem' = m
      BY <2>1, <2>3, <2>4, <2>5, <2>6, <2>7 DEF MarksKept, Marked
    <2> QED BY <2>2, <2>7 DEF Packaging, m
  <1>7. CASE StageReuse \/ StageWrite \/ StageInvalid \/ Verify \/ Reverify
    <2>1. /\ newest' = newest /\ pc \in Packaging
          /\ \/ pc' = "idle"
             \/ mem' = mem /\ pc' \notin {"prepare", "commit", "commitRecord"}
      BY <1>2, <1>7 DEF StageReuse, StageWrite, StageInvalid, Verify, Reverify, Goto, Return, Packaging
    <2> QED BY <2>1 DEF Recorded, MarksKept, Packaging
  <1>8. CASE StageFails \/ CommitConflict \/ CommitFails \/ VerifyFails
             \/ Inventory \/ InventoryResume \/ InventoryStaged
             \/ InventoryStageWrite \/ InventoryStageConflict \/ InventoryCommit
             \/ InventoryConflict \/ InventoryVerify \/ InventoryFails
    BY <1>8 DEF StageFails, CommitConflict, CommitFails, VerifyFails, Inventory, InventoryResume,
                InventoryStaged, InventoryStageWrite, InventoryStageConflict, InventoryCommit,
                InventoryConflict, InventoryVerify, InventoryFails, Goto, GiveUp, Return, Packaging
  <1>9. CASE Precheck \/ CleanupSkip \/ Cleanup \/ RollbackSkip \/ Rollback
    <2>1. pc' \in {"idle", "cleanup", "cleanupEnd", "rollback", "rollbackRecord", "rollbackEnd"}
      BY <1>2, <1>9 DEF Precheck, CleanupSkip, Cleanup, RollbackSkip, Rollback, Restored, Goto, Return
    <2> QED BY <2>1 DEF Packaging
  <1>10. CASE PrecheckFails \/ CleanupFails \/ CleanupEnd \/ RollbackFails \/ RollbackEnd
              \/ ReverifyFails \/ RollbackLastIntent
    BY <1>10 DEF PrecheckFails, CleanupFails, CleanupEnd, RollbackFails, RollbackEnd,
           ReverifyFails, RollbackLastIntent, PersistLast, GiveUp, Return, Packaging
  <1>11. CASE Unnamed
    <2>1. newest' = newest /\ mem' = mem /\ pc' # "prepare" /\ pc' # "commitRecord"
      BY <1>2, <1>11 DEF Unnamed, CommitNext, Goto
    <2>2. pc' \in Packaging => pc \in Packaging
      BY <1>2, <1>11 DEF Unnamed, Goto, Packaging
    <2>3. ASSUME pc' = "commit" PROVE Marked(newest, cursor)'
      <3>1. pc = "commit" /\ cursor' = cursor + 1 /\ cursor \notin Payloads(mem)
        BY <1>2, <1>11, <2>3 DEF Unnamed, Named, CommitNext, Goto
      <3>2. /\ mem \in Journal /\ newest.named = mem.named /\ cursor \in Package
            /\ Marked(newest, cursor)
        BY <3>1, MemFacts DEF IInv, At, Continues, Cursor, Recorded
      <3>3. \A i \in newest.named : i \in Package /\ i # cursor
        BY <3>1, <3>2
      <3>4. \A i \in newest.named : i < cursor + 1 => newest.entries[i].committed
        BY <3>2, <3>3 DEF Marked, Package
      <3> QED BY <2>1, <3>1, <3>4 DEF Marked
    <2> QED BY <2>1, <2>2, <2>3 DEF Recorded, MarksKept
  <1> QED BY <1>3, <1>4, <1>5, <1>6, <1>7, <1>8, <1>9, <1>10, <1>11 DEF Step

(* A step of a command installs payloads in the order of the records.      *)
LEMMA StepOrder ==
  ASSUME IInv, Recorded, Step, newest'.phase \in Early
  PROVE  Ordered(newest, target)'
  <1> USE TypeFacts
  <1>1. /\ touched' = touched /\ mem \in Journal /\ pc # "idle"
        /\ newest \in Journal \cup {NoJournal} /\ target \in [Index -> File]
    BY StepActs, MemFacts DEF IInv, TypeOK
  <1>2. CASE newest' = newest /\ target' = target
    BY <1>1, <1>2 DEF Recorded, MarksKept, Ordered, Payloads
  <1>3. CASE newest' = newest /\ pc \in Committing /\ Replaced(Current) /\ Forward
    <2>1. pc = "commit" /\ cursor \in Index /\ newest \in Journal /\ newest.phase \in Early
      BY <1>3, ReplacedNamed, CommitFacts DEF Committing, Early
    <2>2. newest.count = N
      BY <2>1 DEF IInv, Durable, Shaped, Early, Open
    <2>3. \A k \in Index : k # cursor => target'[k] = target[k]
      BY <1>1, <1>3 DEF Forward, SetDisk
    <2>4. \A i \in Payloads(newest) : i < cursor => newest.entries[i].committed
      BY <2>1, <2>2 DEF Recorded, MarksKept, Marked, Payloads, Package
    <2>5. Payloads(newest) \subseteq Index
      BY <2>1
    <2>6. Ordered(newest, target)
      BY <2>1 DEF Recorded, MarksKept
    <2> QED BY <1>1, <1>3, <2>3, <2>4, <2>5, <2>6 DEF Ordered, Payloads
  <1>4. CASE newest' = newest /\ pc = "rollback" /\ Replaced(Current) /\ RollBack
    BY <1>4, ReplacedNamed, RollbackFacts DEF Early
  <1>5. CASE newest' # newest
    <2>1. target' = target BY <1>5, StepActs
    <2>2. CASE newest' = mem /\ pc = "prepare"
      <3>1. Shaped(mem) /\ mem.phase = "prepare" /\ mem.txn # 0
        BY <1>1, <2>2, MemFacts DEF IInv, Memory, At, Begins
      <3>2. Payloads(mem) = mem.named
        BY <1>1, <3>1 DEF Shaped, Open, Payloads, Package
      <3>3. \A k \in mem.named \ touched : target[k] = mem.entries[k].old
        BY <2>2 DEF Recorded
      <3> QED BY <1>1, <2>1, <2>2, <3>2, <3>3 DEF Ordered, Payloads
    <2>3. ASSUME pc \in Packaging, NEW p \in Phases, newest' = Phase(mem, p)
          PROVE  Ordered(newest, target)'
      <3>1. /\ Phase(mem, p).entries = mem.entries /\ Payloads(Phase(mem, p)) = Payloads(mem)
        BY <1>1, PhaseFacts
      <3>2. Continues /\ Forwarding /\ mem.count = N
        BY <2>3 DEF IInv, At, Packaging
      <3>3. newest \in Journal /\ Shaped(newest) /\ newest.count <= N /\ newest.count \in {N, Inv}
        BY <1>1, <3>2 DEF Continues, NoJournal, IInv, Durable, Journal
      <3>4. /\ Payloads(mem) = mem.named /\ Payloads(newest) = mem.named
            /\ mem.named \subseteq Package
        BY <1>1, <3>2, <3>3 DEF Continues, Payloads, Package
      <3>5. \A i \in mem.named : /\ mem.entries[i].old = newest.entries[i].old
                                 /\ newest.entries[i].committed => mem.entries[i].committed
        BY <2>3, <3>2, <3>4 DEF Continues, Recorded, MarksKept
      <3>6. \A i, k \in mem.named :
               k \notin touched /\ i < k /\ ~newest.entries[i].committed /\ ~newest.entries[k].committed
                 => target[k] = newest.entries[k].old
        <4>1. CASE newest.phase \in Early
          BY <3>4, <4>1 DEF Recorded, MarksKept, Ordered
        <4>2. CASE newest.phase = "verify"
          BY <3>3, <3>4, <4>2 DEF Recorded, MarksKept, JournalValid, PhaseValid, Committed
        <4>3. CASE newest.phase = "inventory"
          BY <3>3, <4>3 DEF Shaped, Open
        <4> QED BY <3>2, <4>1, <4>2, <4>3 DEF Forwarding, Open, Early
      <3>7. \A i, k \in mem.named :
               k \notin touched /\ i < k /\ ~mem.entries[i].committed /\ ~mem.entries[k].committed
                 => target[k] = mem.entries[k].old
        BY <3>5, <3>6
      <3>8. newest'.entries = mem.entries /\ Payloads(newest') = mem.named
        BY <2>3, <3>1, <3>4
      <3> QED BY <1>1, <2>1, <3>7, <3>8 DEF Ordered, Payloads
    <2>4. CASE newest' = mem /\ mem.phase \notin Early
      BY <2>4
    <2>5. ASSUME NEW p \in Phases \ Early, newest' = Phase(mem, p) PROVE FALSE
      BY <1>1, <2>5, PhaseFacts
    <2> QED BY <1>5, <2>2, <2>3, <2>4, <2>5, StepWrites
  <1> QED BY <1>2, <1>3, <1>4, <1>5, StepActs

LEMMA RecordedStarts == Init => Recorded
  BY DEF Init, Recorded, NoJournal, Early, Packaging

(* Every step keeps the record in order.                                   *)
LEMMA RecordedKeeps ==
  ASSUME IInv, Recorded, [Next]_vars PROVE Recorded'
  <1> USE TypeFacts
  <1>1. CASE UNCHANGED vars
    BY <1>1 DEF vars, Recorded, MarksKept, Ordered, Marked, Payloads
  <1>2. CASE Step
    <2>1. (newest.txn # 0 => JournalValid(newest))'
      <3>1. CASE newest' = newest BY <3>1 DEF Recorded, MarksKept
      <3> QED BY <1>2, <3>1, StepWrites
    <2>2. (newest.phase \in Early => Ordered(newest, target))'
      BY <1>2, StepOrder
    <2> QED BY <1>2, <2>1, <2>2, StepMarks DEF Recorded, MarksKept
  <1>3. ASSUME NEW named \in (SUBSET Package) \ {{}}, NEW new \in [named -> Content],
         NEW components \in BOOLEAN,
               Apply(named, new, components)
        PROVE  Recorded'
    <2>1. UNCHANGED <<target, newest, touched>> /\ pc' = "prepare"
      BY <1>3 DEF Apply, disk, history
    <2>2. ASSUME NEW k \in mem'.named PROVE mem'.entries[k].old = target[k]
      <3>1. k \in named /\ k \in Index /\ target[k] \in File /\ new[k] \in File
            /\ newest \in Journal \cup {NoJournal}
        BY <1>3 DEF Apply, IInv, TypeOK, Package
      <3>2. mem'.entries[k] = NewEntry(k, target[k], new[k], newest)
        BY <1>3, <3>1 DEF Apply
      <3> DEFINE e == NewEntry(k, target[k], new[k], newest)
      <3>3. target[k] \in File /\ new[k] \in File /\ k \in Index BY <3>1
      <3>4. e.old = target[k] BY <3>1, <3>3, InheritFacts
      <3> QED BY <3>2, <3>4
    <2> QED BY <2>1, <2>2 DEF Recorded, MarksKept, Ordered, Payloads, Packaging
  <1>4. CASE Resume \/ BootRecovery \/ RollbackLast
    <2>1. /\ UNCHANGED <<target, newest, touched>>
          /\ \/ /\ mem' = newest
                /\ pc' \in {"precheck", "rollbackStart", "inventoryResume", "reverify"}
             \/ pc' = "lastGood"
      BY <1>4 DEF Resume, BootRecovery, RollbackLast, disk, history
    <2> QED BY <2>1 DEF Recorded, MarksKept, Ordered, Payloads, Packaging
  <1>5. CASE Crash
    BY <1>5 DEF Crash, Return, Recorded, MarksKept, Ordered, Payloads, Packaging
  <1>6. ASSUME NEW i \in Index, Edit(i) PROVE Recorded'
    <2>1. /\ UNCHANGED <<newest, mem, pc, cursor>> /\ touched' = touched \cup {i}
          /\ \A k \in Index : k # i => target'[k] = target[k]
          /\ Payloads(newest) \subseteq Index /\ newest \in Journal \cup {NoJournal}
      BY <1>6 DEF Edit, IInv, TypeOK
    <2>2. pc = "prepare" => mem.named \subseteq Index
      <3>1. pc = "prepare" => mem \in Journal BY MemFacts
      <3>2. Package \subseteq Index OBVIOUS
      <3> QED BY <3>1, <3>2 DEF Journal
    <2>3. (newest.phase \in Early => Ordered(newest, target))'
      BY <2>1 DEF Recorded, Ordered, Payloads
    <2>4. (pc = "prepare" => \A k \in mem.named \ touched : target[k] = mem.entries[k].old)'
      BY <2>1, <2>2 DEF Recorded
    <2> QED BY <2>1, <2>3, <2>4 DEF Recorded, MarksKept, Marked
  <1>7. CASE Rest BY <1>1, <1>7 DEF Rest
  <1> QED BY <1>1, <1>2, <1>3, <1>4, <1>5, <1>6, <1>7 DEF Next

(* The journal is ahead of the files by one payload at most.               *)
LEMMA RecordTrue == IInv /\ Recorded => JournalTruth
  <1> USE TypeFacts
  <1> SUFFICES ASSUME IInv, Recorded, NEW i \in Payloads(newest) \ touched,
                      NEW k \in Payloads(newest) \ touched
      PROVE  LET e == newest.entries[i]
                 f == newest.entries[k]
             IN  /\ e.committed /\ newest.phase # "rollback" => target[i] = e.new
                 /\ e.undone => target[i] = e.old
                 /\ newest.phase # "rollback" /\ i < k /\ ~e.committed /\ ~f.committed
                      => target[k] = f.old
    BY DEF JournalTruth
  <1>1. /\ newest \in Journal /\ newest.txn # 0 /\ JournalValid(newest)
        /\ Truth(newest) /\ Shaped(newest) /\ newest.phase \in Phases
        /\ newest.count \in {N, Inv} /\ i \in 1 .. newest.count /\ k \in 1 .. newest.count
    BY DEF IInv, TypeOK, Durable, Recorded, MarksKept, Journal, Payloads
  <1> DEFINE e == newest.entries[i]
             f == newest.entries[k]
  <1>2. e.undone => target[i] = e.old
    BY <1>1 DEF Truth, OldAt
  <1>3. ASSUME e.committed, newest.phase # "rollback" PROVE target[i] = e.new
    <2>1. newest.phase # "rolled_back"
      BY <1>1, <1>3 DEF JournalValid, PhaseValid, Committed
    <2>2. newest.phase \in Forwards
      BY <1>1, <1>3, <2>1 DEF Forwards, Open, Phases
    <2> QED BY <1>1, <1>3, <2>2 DEF Truth, NewAt
  <1>4. ASSUME newest.phase # "rollback", i < k, ~e.committed, ~f.committed
        PROVE  target[k] = f.old
    <2>1. CASE newest.phase \in Early
      BY <1>4, <2>1 DEF Recorded, MarksKept, Ordered
    <2>2. CASE newest.phase \in {"verify", "inventory"}
      <3>1. newest.named \subseteq Committed(newest)
        BY <1>1, <2>2 DEF JournalValid, PhaseValid
      <3>2. i \notin newest.named
        BY <1>4, <3>1 DEF Committed
      <3>3. i = Inv /\ k <= Inv /\ k \in Nat
        BY <1>1, <3>2 DEF Payloads
      <3> QED BY <1>4, <3>3
    <2>3. CASE newest.phase \in {"applied", "cleanup"}
      BY <1>1, <1>4, <2>3 DEF Shaped, Committed
    <2>4. CASE newest.phase = "rolled_back"
      BY <1>1, <2>4 DEF Shaped, Undone, Truth, OldAt
    <2> QED BY <1>1, <1>4, <2>1, <2>2, <2>3, <2>4 DEF Early, Phases
  <1> QED BY <1>2, <1>3, <1>4

(* What the journal records as installed or restored is so, and at most    *)
(* one installed payload is not on record: commitTransaction writes one    *)
(* record per payload before it goes on.                                   *)
THEOREM TxnJournalTruth == Spec => []JournalTruth
  BY RecordTrue, RecordedStarts, RecordedKeeps, TxnInvariant, PTL DEF Spec

-----------------------------------------------------------------------------
(* From the check of the complete applied state on, the targets and the    *)
(* last-good copies of the transaction stay as they were checked; what     *)
(* somebody changes later is excepted.                                     *)
Checked == pc = "cleanup" =>
             \A k \in Payloads(mem) \ late :
                /\ target[k] = mem.entries[k].new
                /\ Replaced(mem.entries[k]) => backup[mem.txn][k] = mem.entries[k].old

LEMMA CheckedKeeps ==
  ASSUME IInv, Checked, [Next]_vars PROVE Checked'
  <1> USE TypeFacts
  <1>1. CASE UNCHANGED vars
    BY <1>1 DEF vars, Checked, Payloads, Replaced
  <1>2. CASE pc' # "cleanup"
    BY <1>2 DEF Checked
  <1>3. CASE pc' = "cleanup" /\ Step
    <2>1. pc' \in {"cleanup", "cleanupEnd"} BY <1>3
    <2>2. \/ Precheck
          \/ pc = "cleanup" /\ (CleanupSkip \/ Cleanup)
      <3>1. ASSUME NEW j, NEW next \in Steps \ {"cleanup"}, NEW at, Persist(j, next, at)
            PROVE  FALSE
        BY <1>3, <3>1 DEF Persist, Return
      <3>2. /\ StageNext[1] \in {"stage", "staged"}
            /\ CommitNext[1] \in {"commit", "verifyStart"}
            /\ RollbackNext[1] \in {"rollback", "rollbackEnd"}
        BY DEF StageNext, CommitNext, RollbackNext
      <3>3. CASE Prepare \/ Staged \/ CommitStart \/ CommitRecord \/ VerifyStart \/ InventoryStart
                 \/ InventoryRecord \/ Applied \/ RollbackStart \/ RollbackRecord
        BY <3>1, <3>2, <3>3
           DEF Prepare, Staged, CommitStart, CommitRecord, VerifyStart, InventoryStart,
               InventoryRecord, Applied, RollbackStart, RollbackRecord, Steps
      <3>4. CASE CleanupEnd \/ RollbackEnd \/ RollbackLastIntent
        BY <1>3, <3>4 DEF CleanupEnd, RollbackEnd, RollbackLastIntent, PersistLast, Return
      <3>5. CASE StageReuse \/ StageWrite \/ StageFails \/ StageInvalid \/ CommitSameFile
                 \/ CommitReplace \/ CommitConflict \/ CommitFails \/ Verify \/ VerifyFails
        BY <1>3, <3>2, <3>5 DEF StageReuse, StageWrite, StageFails, StageInvalid, CommitSameFile,
                  CommitReplace, CommitConflict, CommitFails, Verify, VerifyFails,
                  Goto, GiveUp, Return
      <3>6. CASE Inventory \/ InventoryResume \/ InventoryStaged
                 \/ InventoryStageWrite \/ InventoryStageConflict \/ InventoryCommit
                 \/ InventoryConflict \/ InventoryVerify \/ InventoryFails
        BY <1>3, <3>6 DEF Inventory, InventoryResume, InventoryStaged,
                  InventoryStageWrite, InventoryStageConflict, InventoryCommit,
                  InventoryConflict, InventoryVerify, InventoryFails, Goto, GiveUp, Return
      <3>7. CASE PrecheckFails \/ CleanupFails \/ RollbackSkip \/ Rollback \/ RollbackFails
                 \/ Reverify \/ ReverifyFails \/ Unnamed
        BY <1>3, <3>2, <3>7 DEF PrecheckFails, CleanupFails, RollbackSkip, Rollback, Restored,
                  RollbackFails, Reverify, ReverifyFails, Unnamed, Goto, GiveUp, Return
      <3>8. CASE CleanupSkip \/ Cleanup
        BY <3>8 DEF CleanupSkip, Cleanup
      <3> QED BY <1>3, <3>3, <3>4, <3>5, <3>6, <3>7, <3>8 DEF Step
    <2>3. CASE Precheck
      <3>1. UNCHANGED <<target, backup, mem>> /\ AppliedIntact(mem)
        BY <2>3 DEF Precheck, disk
      <3> QED BY <3>1 DEF AppliedIntact, Checked, Payloads, Replaced
    <2>4. CASE pc = "cleanup" /\ CleanupSkip
      BY <2>4 DEF CleanupSkip, Goto, disk, history, Checked, Payloads, Replaced
    <2>5. CASE pc = "cleanup" /\ Cleanup
      <3>1. /\ mem \in Journal /\ mem.txn \in Txn /\ cursor \in Index /\ TypeOK /\ Shaped(mem)
            /\ Payloads(mem) \subseteq Index
        BY <2>5, MemFacts DEF IInv, Cursor, Memory
      <3>2. Current.prev \in 0 .. MaxTxn /\ Current.prev < mem.txn
        BY <2>5, <3>1, MemFacts, EntryFacts DEF Current, Shaped
      <3>3. Rotate /\ mem' = mem /\ late' = late
        BY <1>3, <2>5 DEF Cleanup, Return, history
      <3>4. target' = target /\ \A k \in Index : backup'[mem.txn][k] = backup[mem.txn][k]
        <4>1. mem.txn # Current.prev BY <3>1, <3>2 DEF Txn
        <4> QED BY <3>1, <3>2, <3>3, <4>1, RotateFacts
      <3> QED BY <2>5, <3>1, <3>3, <3>4 DEF Checked, Payloads, Replaced
    <2> QED BY <2>2, <2>3, <2>4, <2>5
  <1>4. CASE \/ \E named \in (SUBSET Package) \ {{}}, components \in BOOLEAN :
                    \E new \in [named -> Content] : Apply(named, new, components)
             \/ Resume \/ BootRecovery \/ RollbackLast \/ Crash
    <2>1. pc' # "cleanup"
      BY <1>4 DEF Apply, Resume, BootRecovery, RollbackLast, Crash, Return
    <2> QED BY <2>1 DEF Checked
  <1>5. ASSUME pc' = "cleanup", NEW i \in Index, Edit(i) PROVE Checked'
    <2>1. /\ UNCHANGED <<mem, pc>> /\ late' = late \cup {i} /\ mem.txn \in Txn
          /\ \A k \in Index \ {i} : /\ target'[k] = target[k]
                                    /\ backup'[mem.txn][k] = backup[mem.txn][k]
          /\ Payloads(mem) \subseteq Index
      <3>1. pc # "idle" /\ TypeOK BY <1>5 DEF Edit, IInv
      <3>2. mem \in Journal /\ mem.txn \in Txn BY <3>1, MemFacts
      <3>3. \A k \in Index \ {i} : /\ target'[k] = target[k]
                                   /\ backup'[mem.txn][k] = backup[mem.txn][k]
        BY <1>5, <3>1, <3>2 DEF Edit, TypeOK
      <3> QED BY <1>5, <3>2, <3>3 DEF Edit
    <2> QED BY <1>5, <2>1 DEF Checked, Payloads, Replaced
  <1>6. CASE Rest BY <1>1, <1>6 DEF Rest
  <1> QED BY <1>1, <1>2, <1>3, <1>4, <1>5, <1>6 DEF Next

(* The rotation proper.                                                    *)
Rotation ==
    \A g \in Txn, i \in Index :
       edits' = edits /\ g # newest.txn /\ backup[g][i] # Absent /\ backup'[g][i] = Absent
         => /\ newest.phase = "applied"
            /\ \A k \in Payloads(newest) \ late :
                 /\ target[k] = newest.entries[k].new
                 /\ Replaced(newest.entries[k]) => backup[newest.txn][k] = newest.entries[k].old

(* Only the cleanup loop lets go of copies of other transactions.          *)
LEMMA RotationHolds ==
  ASSUME IInv, Checked, [Next]_vars PROVE Rotation
  <1> USE TypeFacts
  <1> SUFFICES ASSUME NEW g \in Txn, NEW i \in Index, edits' = edits, g # newest.txn,
                      backup[g][i] # Absent, backup'[g][i] = Absent
      PROVE  /\ newest.phase = "applied"
             /\ \A k \in Payloads(newest) \ late :
                  /\ target[k] = newest.entries[k].new
                  /\ Replaced(newest.entries[k]) => backup[newest.txn][k] = newest.entries[k].old
    BY DEF Rotation
  <1>1. Step
    <2>1. edits' # edits + 1 BY DEF IInv, TypeOK
    <2> QED BY <2>1 DEF Next, Apply, Resume, BootRecovery, RollbackLast, Crash, Edit, Rest, vars, disk
  <1>3. pc = "cleanup"
    BY <1>1, StepBackups
  <1>4. /\ newest.phase = "applied" /\ mem.phase = "applied" /\ Continues
    BY <1>3 DEF IInv, At, CleaningUp
  <1>5. Payloads(newest) \subseteq Payloads(mem)
    <2>1. newest.count \in Nat /\ mem.count \in Nat /\ newest.count <= mem.count
      BY <1>3, <1>4, MemFacts DEF Continues
    <2> QED BY <1>4, <2>1 DEF Payloads, Continues
  <1> QED BY <1>3, <1>4, <1>5 DEF Checked, Continues, Replaced

(* removePreviousBackups: an older last-good copy goes only when the whole *)
(* update was checked as applied and intact.                               *)
THEOREM TxnRotatesOnlyApplied == Spec => RotatesOnlyApplied
  <1>1. Init => Checked BY DEF Init, Checked
  <1>2. IInv /\ Checked /\ [Next]_vars => [Rotation]_vars
    BY RotationHolds
  <1>3. [Rotation]_vars <=> [\A g \in Txn, i \in Index :
         /\ edits' = edits
         /\ g # newest.txn
         /\ backup[g][i] # Absent /\ backup'[g][i] = Absent
         => /\ newest.phase = "applied"
            /\ \A k \in Payloads(newest) \ late :
                 /\ target[k] = newest.entries[k].new
                 /\ Replaced(newest.entries[k]) =>
                      backup[newest.txn][k] = newest.entries[k].old]_vars
    BY DEF Rotation
  <1>4. IInv /\ Checked /\ [Next]_vars => Checked'
    BY CheckedKeeps
  <1> QED BY <1>1, <1>2, <1>3, <1>4, TxnInvariant, PTL DEF Spec, RotatesOnlyApplied

-----------------------------------------------------------------------------
(* No payload is new content that nobody would know: what the journals     *)
(* describe as new is from the package, or a rendered inventory.           *)
KnownNew(j) == \A i \in Payloads(j) : j.entries[i].new \in Content \cup Versions
NewsKnown == KnownNew(newest) /\ KnownNew(mem)

LEMMA NewsKeep ==
  ASSUME IInv, NewsKnown, [Next]_vars PROVE NewsKnown'
  <1> USE TypeFacts
  <1>1. ASSUME NEW j, NEW k, KnownNew(k), SameLabels(j, k), Payloads(k) \subseteq Index
        PROVE  KnownNew(j)
    BY <1>1 DEF KnownNew, SameLabels, Payloads
  <1>2. KnownNew(NoJournal)
    BY DEF KnownNew
  <1>3. CASE UNCHANGED vars \/ Rest \/ \E i \in Index : Edit(i)
    BY <1>3 DEF vars, Rest, Edit, NewsKnown, KnownNew, Payloads
  <1>4. CASE Step
    <2>1. mem \in Journal BY <1>4, StepActs, MemFacts
    <2>2. KnownNew(newest')
      <3>1. CASE newest' = newest BY <3>1 DEF NewsKnown
      <3>2. CASE SameLabels(newest', mem) BY <1>1, <2>1, <3>2 DEF NewsKnown
      <3> QED BY <1>4, <3>1, <3>2, StepLabels
    <2>3. KnownNew(mem')
      <3>1. CASE mem' = NoJournal BY <1>2, <3>1
      <3>2. CASE SameLabels(mem', mem) BY <1>1, <2>1, <3>2 DEF NewsKnown
      <3>3. CASE Inventory /\ InventoryReady
        <4>1. /\ mem' = [mem EXCEPT !.phase = "inventory", !.count = Inv,
                                    !.entries[Inv] = InventoryEntry]
              /\ pc = "inventory"
          BY <3>3 DEF Inventory
        <4>2. mem.entries \in [Index -> Entry] /\ mem.count = N /\ mem.txn # 0 /\ Shaped(mem)
          BY <2>1, <4>1 DEF Journal, IInv, At, Packaging, Memory
        <4>3. \A i \in mem.named : mem.entries[i].new \in Content
          BY <4>2 DEF Shaped
        <4>4. Rendered \in Versions
          BY <3>3, <4>3 DEF InventoryReady, Rendered, Versions
        <4>5. InventoryEntry.new = Rendered
          <5>1. target[Inv] \in File /\ prior \in Journal \cup {NoJournal} /\ Rendered \in File
            BY <4>4 DEF IInv, TypeOK
          <5> QED BY <5>1, InheritFacts DEF InventoryEntry
        <4>6. /\ mem'.entries[Inv].new = Rendered /\ mem'.count = Inv /\ mem'.named = mem.named
              /\ \A i \in Index \ {Inv} : mem'.entries[i] = mem.entries[i]
          BY <2>1, <4>1, <4>2, <4>5 DEF Journal
        <4>7. /\ Payloads(mem') = mem.named \cup {Inv} /\ Inv \notin Package
              /\ mem.named \subseteq Index \ {Inv}
          <5>1. mem.named \subseteq Package /\ Inv \notin Package
            BY <2>1 DEF Package
          <5> QED BY <4>6, <5>1 DEF Payloads, Package
        <4> QED BY <4>3, <4>4, <4>6, <4>7 DEF KnownNew
      <3> QED BY <1>4, <3>1, <3>2, <3>3, StepLabels
    <2> QED BY <2>2, <2>3 DEF NewsKnown, KnownNew, Payloads
  <1>5. ASSUME NEW named \in (SUBSET Package) \ {{}}, NEW new \in [named -> Content],
         NEW components \in BOOLEAN,
               Apply(named, new, components)
        PROVE  NewsKnown'
    <2>1. newest' = newest /\ mem'.count = N /\ mem'.named = named
      BY <1>5 DEF Apply
    <2>2. ASSUME NEW k \in named PROVE mem'.entries[k].new \in Content
      <3>1. k \in Index /\ target[k] \in File /\ new[k] \in File /\ new[k] \in Content
            /\ newest \in Journal \cup {NoJournal}
        BY DEF IInv, TypeOK, Package
      <3>2. mem'.entries[k] = NewEntry(k, target[k], new[k], newest)
        BY <1>5, <3>1 DEF Apply
      <3> DEFINE e == NewEntry(k, target[k], new[k], newest)
      <3>3. e.new = new[k] BY <3>1, InheritFacts
      <3> QED BY <3>1, <3>2, <3>3
    <2> QED BY <2>1, <2>2 DEF NewsKnown, KnownNew, Payloads, Package
  <1>6. CASE Resume \/ BootRecovery \/ RollbackLast
    <2>1. newest' = newest /\ (mem' = newest \/ mem' = Phase(newest, "rollback"))
      BY <1>6 DEF Resume, BootRecovery, RollbackLast
    <2>2. newest \in Journal
      BY <1>6 DEF Resume, BootRecovery, RollbackLast, IInv, TypeOK, NoJournal, phaseTerminal
    <2>3. SameLabels(Phase(newest, "rollback"), newest)
      BY <2>2, PhaseFacts DEF SameLabels, Phases
    <2>4. KnownNew(newest) /\ KnownNew(Phase(newest, "rollback"))
      BY <1>1, <2>2, <2>3 DEF NewsKnown
    <2> QED BY <2>1, <2>4 DEF NewsKnown, KnownNew, Payloads
  <1>7. CASE Crash
    BY <1>2, <1>7 DEF Crash, Return, NewsKnown, KnownNew, Payloads
  <1> QED BY <1>3, <1>4, <1>5, <1>6, <1>7 DEF Next

(* What nobody but the journal's own entries lets a step remove.           *)
Keeping ==
    edits' = edits =>
       \A i \in Index :
          /\ target[i] = Foreign /\ target'[i] # Foreign => mem.entries[i].old = Foreign
          /\ \A g \in Txn : stage[g][i] = Foreign => stage'[g][i] = Foreign
          /\ \A g \in Txn : backup[g][i] = Foreign /\ backup'[g][i] # Foreign =>
               Foreign \in {mem.entries[i].old, mem.entries[i].last}

(* The checked operations remove only what the journal describes, and it   *)
(* describes foreign content as old at most.                               *)
LEMMA StepForeign ==
  ASSUME IInv, NewsKnown, Step PROVE Keeping
  <1> USE TypeFacts
  <1> SUFFICES ASSUME NEW i \in Index
      PROVE  /\ target[i] = Foreign /\ target'[i] # Foreign => mem.entries[i].old = Foreign
             /\ \A g \in Txn : stage[g][i] = Foreign => stage'[g][i] = Foreign
             /\ \A g \in Txn : backup[g][i] = Foreign /\ backup'[g][i] # Foreign =>
                  Foreign \in {mem.entries[i].old, mem.entries[i].last}
    BY DEF Keeping
  <1>1. /\ mem \in Journal /\ mem.txn \in Txn /\ TypeOK /\ Foreign # Absent
        /\ \A k \in Payloads(mem) : mem.entries[k].new # Foreign
    <2>1. Foreign \notin Content \cup Versions BY TxnAssumption, ForeignAssumption
    <2> QED BY <2>1, StepActs, MemFacts, TxnAssumption DEF IInv, NewsKnown, KnownNew
  <1>2. CASE pc \in Committing /\ Named /\ Forward
    <2>1. cursor \in Index /\ Current.new # Foreign
      BY <1>1, <1>2, CommitFacts DEF Current
    <2> QED BY <1>1, <1>2, <2>1 DEF Forward, ForwardAccepts, SetDisk, TypeOK, Target, Stage, Backup, Current
  <1>3. CASE pc = "rollback" /\ Named /\ RollBack
    <2>1. cursor \in Index /\ Current.new # Foreign
      BY <1>1, <1>3, RollbackFacts DEF Current
    <2> QED BY <1>1, <1>3, <2>1 DEF RollBack, RollbackAccepts, SetDisk, TypeOK, Target, Stage, Backup, Current
  <1>4. CASE pc = "cleanup" /\ Named /\ Rotate
    <2>1. cursor \in Index /\ Current.prev \in 0 .. MaxTxn
      BY <1>1, <1>4, EntryFacts DEF IInv, Cursor, Current
    <2>2. target' = target /\ stage' = stage
      BY <1>4 DEF Rotate
    <2>3. \/ backup' = backup
          \/ /\ backup[Current.prev][cursor] \in {Absent, Current.last}
             /\ backup' = [backup EXCEPT ![Current.prev][cursor] = Absent]
      BY <1>4, <2>1 DEF Rotate, CleanupAccepts
    <2>4. \A g \in Txn : backup'[g][i] = backup[g][i]
             \/ (i = cursor /\ backup[g][i] \in {Absent, Current.last})
      BY <1>1, <2>1, <2>3 DEF TypeOK
    <2>5. i = cursor => Current.last = mem.entries[i].last
      BY DEF Current
    <2> QED BY <1>1, <2>2, <2>4, <2>5
  <1>5. CASE StageWrite \/ InventoryStageWrite
    <2>1. /\ target' = target /\ backup' = backup /\ stage[mem.txn][cursor] = Absent
          /\ \/ stage' = [stage EXCEPT ![mem.txn][cursor] = Current.new]
             \/ cursor = Inv /\ stage' = [stage EXCEPT ![mem.txn][Inv] = Current.new]
      <3>1. pc = "inventoryStage" => cursor = Inv BY DEF IInv, Cursor
      <3>2. CASE StageWrite BY <3>2 DEF StageWrite, Stage
      <3>3. CASE InventoryStageWrite BY <3>1, <3>3 DEF InventoryStageWrite, Stage
      <3> QED BY <1>5, <3>2, <3>3
    <2>2. \A g \in Txn : g # mem.txn \/ i # cursor => stage'[g][i] = stage[g][i]
      BY <1>1, <2>1 DEF TypeOK
    <2> QED BY <1>1, <2>1, <2>2
  <1>6. CASE StageInvalid
    <2>1. PICK gone \in SUBSET {k \in mem.named : stage[mem.txn][k] = mem.entries[k].new} :
             stage' = [stage EXCEPT ![mem.txn] = [k \in Index |-> IF k \in gone THEN Absent ELSE @[k]]]
      BY <1>6 DEF StageInvalid
    <2>2. \A k \in mem.named : mem.entries[k].new # Foreign
      BY <1>1
    <2>3. target' = target /\ backup' = backup
      BY <1>6 DEF StageInvalid
    <2> QED BY <1>1, <2>1, <2>2, <2>3 DEF TypeOK
  <1>7. CASE UNCHANGED <<target, stage, backup>>
    BY <1>7
  <1> QED BY <1>2, <1>3, <1>4, <1>5, <1>6, <1>7, StepDisk

THEOREM TxnForeignKept == Spec => ForeignKept
  <1>1. Init => NewsKnown
    BY TypeFacts DEF Init, NewsKnown, KnownNew
  <1>2. IInv /\ NewsKnown /\ [Next]_vars => [Keeping]_vars
    <2>1. CASE Step BY <2>1, StepForeign
    <2>2. CASE \E i \in Index : Edit(i)
      BY <2>2 DEF Edit, IInv, TypeOK, Keeping
    <2>3. CASE \/ \E named \in (SUBSET Package) \ {{}}, components \in BOOLEAN :
                    \E new \in [named -> Content] : Apply(named, new, components)
               \/ Resume \/ BootRecovery \/ RollbackLast \/ Rest
      BY <2>3 DEF Apply, Resume, BootRecovery, RollbackLast, Rest, vars, disk, Keeping
    <2>4. CASE Crash
      BY <2>4, TypeFacts, MemFacts, TxnAssumption DEF Crash, Keeping, IInv, TypeOK, Stage
    <2> QED BY <2>1, <2>2, <2>3, <2>4 DEF Next
  <1>3. [Keeping]_vars <=> [edits' = edits =>
         \A i \in Index :
            /\ target[i] = Foreign /\ target'[i] # Foreign => mem.entries[i].old = Foreign
            /\ \A g \in Txn : stage[g][i] = Foreign => stage'[g][i] = Foreign
            /\ \A g \in Txn : backup[g][i] = Foreign /\ backup'[g][i] # Foreign =>
                 Foreign \in {mem.entries[i].old, mem.entries[i].last}]_vars
    BY DEF Keeping
  <1>4. IInv /\ NewsKnown /\ [Next]_vars => NewsKnown'
    BY NewsKeep
  <1> QED BY <1>1, <1>2, <1>3, <1>4, TxnInvariant, PTL DEF Spec, ForeignKept

-----------------------------------------------------------------------------
(* What the command is about to write is valid.  Marks in memory are in    *)
(* order, installed from the first payload on and restored from the last;  *)
(* there are none before the commit phase, all of the package after it,    *)
(* and a rollback goes on where the restored ones begin.                   *)
UndoneFrom(j, c) == \A k \in Payloads(j) : k >= c => j.entries[k].undone
Ahead(j, p, c) ==
    /\ p \in {"prepare", "stage", "staged"} => j.phase = "prepare"
    /\ p \in {"commit", "commitRecord"} => j.phase = "commit"
    /\ p \in {"verifyStart", "inventory"} \cup Inventorying => j.named \subseteq Committed(j)
    /\ p \in {"inventoryRecord", "inventoryVerify"} => j.entries[Inv].committed
    /\ p = "applied" => Committed(j) = Payloads(j)
    /\ p = "rollback" => UndoneFrom(j, c + 1)
    /\ p = "rollbackRecord" => UndoneFrom(j, c)
    /\ p = "rollbackEnd" => UndoneFrom(j, 1)
Fresh(j) == j.phase \in {"prepare", "stage"} => Committed(j) = {} /\ Undone(j) = {}
Writable == pc # "idle" => FlagsValid(mem) /\ Fresh(mem) /\ Ahead(mem, pc, cursor)

(* The same marks, perhaps of another phase.                               *)
SameMarks(j, k) == /\ j.count = k.count /\ j.named = k.named
                   /\ \A i \in Index : /\ j.entries[i].committed = k.entries[i].committed
                                       /\ j.entries[i].undone = k.entries[i].undone
LEMMA SameMarksFacts ==
  ASSUME NEW j \in Journal, NEW k \in Journal, SameMarks(j, k)
  PROVE  /\ FlagsValid(k) => FlagsValid(j)
         /\ Committed(j) = Committed(k) /\ Undone(j) = Undone(k) /\ Payloads(j) = Payloads(k)
         /\ \A c : UndoneFrom(k, c) => UndoneFrom(j, c)
  <1>1. Payloads(j) = Payloads(k) /\ Payloads(k) \subseteq Index
    BY TypeFacts DEF SameMarks, Payloads
  <1>2. \A i \in Payloads(k) : /\ j.entries[i].committed = k.entries[i].committed
                               /\ j.entries[i].undone = k.entries[i].undone
    BY <1>1 DEF SameMarks
  <1>3. Committed(j) = Committed(k) /\ Undone(j) = Undone(k)
    BY <1>1, <1>2 DEF Committed, Undone
  <1>4. \A c : UndoneFrom(k, c) => UndoneFrom(j, c)
    BY <1>1, <1>2 DEF UndoneFrom
  <1>5. FlagsValid(k) => FlagsValid(j)
    BY <1>1, <1>2 DEF FlagsValid
  <1> QED BY <1>1, <1>3, <1>4, <1>5

(* The marks of a commit loop stay a prefix,                               *)
LEMMA InstalledValid ==
  ASSUME NEW j \in Journal, NEW i \in Payloads(j), FlagsValid(j), ~j.entries[i].undone,
         \A h \in Payloads(j) : h < i => j.entries[h].committed
  PROVE  FlagsValid(MarkInstalled(j, i))
  <1> USE TypeFacts
  <1> DEFINE m == MarkInstalled(j, i)
  <1>1. Payloads(m) = Payloads(j) /\ Payloads(j) \subseteq Index
    BY InstalledFacts
  <1>2. ASSUME NEW k \in Payloads(j)
        PROVE  /\ m.entries[k].committed <=> k = i \/ j.entries[k].committed
               /\ m.entries[k].undone <=> j.entries[k].undone
    BY <1>1, InstalledFacts
  <1> HIDE DEF m
  <1>3. ASSUME NEW k \in Payloads(j), NEW h \in Payloads(j)
        PROVE  /\ ~(m.entries[k].committed /\ m.entries[k].undone)
               /\ h < k /\ m.entries[k].committed => m.entries[h].committed
               /\ k < h /\ m.entries[k].undone => m.entries[h].undone
    BY <1>2 DEF FlagsValid
  <1>4. FlagsValid(m)
    BY <1>1, <1>3 DEF FlagsValid
  <1> QED BY <1>4 DEF m

(* and those of a rollback a suffix.                                       *)
LEMMA RestoredValid ==
  ASSUME NEW j \in Journal, NEW i \in Payloads(j), FlagsValid(j), UndoneFrom(j, i + 1)
  PROVE  FlagsValid(MarkRestored(j, i)) /\ UndoneFrom(MarkRestored(j, i), i)
  <1> USE TypeFacts
  <1> DEFINE m == MarkRestored(j, i)
  <1>1. /\ Payloads(m) = Payloads(j) /\ Payloads(j) \subseteq Index /\ Index \subseteq Nat
        /\ i \in Nat
    BY RestoredFacts DEF Index
  <1>2. ASSUME NEW k \in Payloads(j)
        PROVE  /\ m.entries[k].committed <=> k # i /\ j.entries[k].committed
               /\ m.entries[k].undone <=> k = i \/ j.entries[k].undone
    BY <1>1, RestoredFacts
  <1> HIDE DEF m
  <1>3. UndoneFrom(m, i)
    <2> SUFFICES ASSUME NEW k \in Payloads(j), k >= i PROVE m.entries[k].undone
      BY <1>1 DEF UndoneFrom
    <2>1. k = i \/ k >= i + 1 BY <1>1
    <2> QED BY <1>2, <2>1 DEF UndoneFrom
  <1>4. \A k \in Payloads(j) : k >= i => ~m.entries[k].committed
    <2> SUFFICES ASSUME NEW k \in Payloads(j), k >= i PROVE ~m.entries[k].committed
      OBVIOUS
    <2>1. k = i \/ k >= i + 1 BY <1>1
    <2> QED BY <1>2, <2>1 DEF UndoneFrom, FlagsValid
  <1>5. ASSUME NEW k \in Payloads(j), NEW h \in Payloads(j)
        PROVE  /\ ~(m.entries[k].committed /\ m.entries[k].undone)
               /\ h < k /\ m.entries[k].committed => m.entries[h].committed
               /\ k < h /\ m.entries[k].undone => m.entries[h].undone
    <2>1. ~(m.entries[k].committed /\ m.entries[k].undone)
      BY <1>2 DEF FlagsValid
    <2>2. ASSUME h < k, m.entries[k].committed PROVE m.entries[h].committed
      <3>1. h # i BY <1>1, <1>4, <2>2
      <3> QED BY <1>2, <2>2, <3>1 DEF FlagsValid
    <2>3. ASSUME k < h, m.entries[k].undone PROVE m.entries[h].undone
      <3>1. CASE h >= i BY <1>1, <1>3, <3>1 DEF UndoneFrom
      <3>2. CASE ~(h >= i)
        <4>1. k # i /\ h # i BY <1>1, <2>3, <3>2
        <4> QED BY <1>2, <2>3, <4>1 DEF FlagsValid
      <3> QED BY <3>1, <3>2
    <2> QED BY <2>1, <2>2, <2>3
  <1>6. FlagsValid(m)
    BY <1>1, <1>5 DEF FlagsValid
  <1> QED BY <1>3, <1>6 DEF m

(* A record that was written is valid, whatever was known before;          *)
LEMMA PersistWritable ==
  ASSUME NEW j, NEW next, NEW at, Persist(j, next, at), JournalValid(j) => Ahead(j, next, at)
  PROVE  Writable'
  <1>1. CASE Return
    BY <1>1 DEF Return, Writable
  <1>2. CASE JournalValid(j) /\ mem' = j /\ pc' = next /\ cursor' = at
    <2>1. FlagsValid(j) /\ Fresh(j)
      BY <1>2 DEF JournalValid, PhaseValid, Fresh
    <2> QED BY <1>2, <2>1 DEF Writable
  <1> QED BY <1>1, <1>2 DEF Persist

LEMMA RecordsWritable ==
  ASSUME IInv, Recorded, Writable,
         \/ Prepare \/ Staged \/ CommitStart \/ CommitRecord \/ VerifyStart \/ InventoryStart
         \/ InventoryRecord \/ Applied \/ RollbackStart \/ RollbackRecord
  PROVE  Writable'
  <1> USE TypeFacts
  <1>1. /\ pc # "idle" /\ mem \in Journal /\ mem.count \in Nat
        /\ Payloads(mem) \subseteq 1 .. mem.count /\ mem.named \subseteq Payloads(mem)
        /\ FlagsValid(mem) /\ Ahead(mem, pc, cursor)
        /\ \A p \in Phases : Phase(mem, p).entries = mem.entries /\ Phase(mem, p).phase = p
                             /\ Phase(mem, p).named = mem.named
                             /\ Payloads(Phase(mem, p)) = Payloads(mem)
                             /\ Committed(Phase(mem, p)) = Committed(mem)
    <2>1. pc # "idle"
      BY DEF Prepare, Staged, CommitStart, CommitRecord, VerifyStart, InventoryStart,
             InventoryRecord, Applied, RollbackStart, RollbackRecord
    <2>2. mem \in Journal BY <2>1, MemFacts
    <2> QED BY <2>1, <2>2, PhaseFacts DEF Writable
  <1>2. CASE Prepare
    <2>1. Ahead(mem, "stage", 1)
      BY <1>1, <1>2 DEF Prepare, Ahead, Inventorying
    <2> QED BY <1>2, <2>1, PersistWritable DEF Prepare
  <1>3. CASE Staged
    <2>1. Ahead(Phase(mem, "stage"), "commitStart", 0)
      BY DEF Ahead, Inventorying
    <2> QED BY <1>3, <2>1, PersistWritable DEF Staged
  <1>4. CASE CommitStart
    <2>1. Ahead(Phase(mem, "commit"), "commit", 1)
      BY <1>1 DEF Ahead, Inventorying, Phases
    <2> QED BY <1>4, <2>1, PersistWritable DEF CommitStart
  <1>5. CASE CommitRecord
    <2> DEFINE j == Phase(mem, "commit")
    <2>1. pc = "commitRecord" /\ Marked(mem, cursor) /\ mem.entries[cursor].committed
      BY <1>5 DEF CommitRecord, Recorded
    <2>2. j.phase = "commit" /\ Committed(j) = Committed(mem) /\ j.named = mem.named
      BY <1>1 DEF Phases
    <2> HIDE DEF j
    <2>3. CASE cursor = N
      <3>1. mem.named \subseteq Committed(mem)
        <4>1. \A i \in mem.named : i \in Payloads(mem) /\ (i < N \/ i = N)
          BY <1>1 DEF Package
        <4> QED BY <2>1, <2>3, <4>1 DEF Marked, Committed
      <3>2. Ahead(j, "verifyStart", 0)
        BY <2>2, <3>1 DEF Ahead, Inventorying
      <3> QED BY <1>5, <2>3, <3>2, PersistWritable DEF CommitRecord, CommitNext, j
    <2>4. CASE cursor # N
      <3>1. Ahead(j, "commit", cursor + 1)
        BY <2>2 DEF Ahead, Inventorying
      <3> QED BY <1>5, <2>4, <3>1, PersistWritable DEF CommitRecord, CommitNext, j
    <2> QED BY <2>3, <2>4
  <1>6. CASE VerifyStart
    <2>1. Ahead(Phase(mem, "verify"), "verify", 0)
      BY DEF Ahead, Inventorying
    <2> QED BY <1>6, <2>1, PersistWritable DEF VerifyStart
  <1>7. CASE InventoryStart
    <2>1. Ahead(mem, "inventoryStage", Inv)
      BY <1>1, <1>7 DEF InventoryStart, Ahead, Inventorying
    <2> QED BY <1>7, <2>1, PersistWritable DEF InventoryStart
  <1>8. CASE InventoryRecord
    <2>1. Ahead(mem, "inventoryVerify", Inv)
      BY <1>1, <1>8 DEF InventoryRecord, Ahead, Inventorying
    <2> QED BY <1>8, <2>1, PersistWritable DEF InventoryRecord
  <1>9. CASE Applied
    <2>1. Ahead(Phase(mem, "applied"), "precheck", 0)
      BY DEF Ahead, Inventorying
    <2> QED BY <1>9, <2>1, PersistWritable DEF Applied
  <1>10. CASE RollbackStart
    <2> DEFINE j == Phase(mem, "rollback")
    <2>1. Payloads(j) \subseteq 1 .. mem.count BY <1>1 DEF Phases
    <2> HIDE DEF j
    <2>2. UndoneFrom(j, mem.count + 1) BY <1>1, <2>1 DEF UndoneFrom
    <2>3. Ahead(j, "rollback", mem.count)
      BY <2>2 DEF Ahead, Inventorying
    <2> QED BY <1>10, <2>3, PersistWritable DEF RollbackStart, j
  <1>11. CASE RollbackRecord
    <2>1. UndoneFrom(mem, cursor) /\ cursor \in Nat
      BY <1>1, <1>11 DEF RollbackRecord, Ahead, IInv, TypeOK
    <2>2. CASE cursor = 1
      <3>1. Ahead(mem, "rollbackEnd", 0) BY <2>1, <2>2 DEF Ahead, Inventorying
      <3> QED BY <1>11, <2>2, <3>1, PersistWritable DEF RollbackRecord, RollbackNext
    <2>3. CASE cursor # 1
      <3>1. cursor - 1 + 1 = cursor BY <2>1
      <3>2. Ahead(mem, "rollback", cursor - 1) BY <2>1, <3>1 DEF Ahead, Inventorying
      <3> QED BY <1>11, <2>3, <3>2, PersistWritable DEF RollbackRecord, RollbackNext
    <2> QED BY <2>2, <2>3
  <1> QED BY <1>2, <1>3, <1>4, <1>5, <1>6, <1>7, <1>8, <1>9, <1>10, <1>11

(* a step that leaves the journal in memory alone finds it so;             *)
LEMMA WalksWritable ==
  ASSUME IInv, Recorded, Writable, mem' = mem,
         \/ StageReuse \/ StageWrite \/ StageInvalid \/ CommitSameFile \/ CommitConflict \/ Verify
         \/ Inventory \/ InventoryResume \/ InventoryStaged \/ InventoryStageWrite
         \/ InventoryStageConflict \/ InventoryConflict \/ InventoryVerify
         \/ Precheck \/ CleanupSkip \/ Cleanup \/ Reverify \/ Unnamed
  PROVE  Writable'
  <1> USE TypeFacts
  <1>1. pc # "idle"
    BY DEF StageReuse, StageWrite, StageInvalid, CommitSameFile, CommitConflict, Verify,
           Inventory, InventoryResume, InventoryStaged, InventoryStageWrite, InventoryStageConflict,
           InventoryConflict, InventoryVerify, Precheck, CleanupSkip, Cleanup, Reverify, Unnamed
  <1>2. /\ mem \in Journal /\ mem # NoJournal /\ mem.named \subseteq Package
        /\ mem.named \subseteq Payloads(mem)
        /\ FlagsValid(mem) /\ Fresh(mem) /\ Ahead(mem, pc, cursor)
    BY <1>1, MemFacts DEF Writable
  <1>3. ~Return
    BY <1>2 DEF Return
  <1> SUFFICES Ahead(mem, pc', cursor')
    BY <1>2 DEF Writable
  <1>4. CASE pc' \in {"idle", "rollbackStart", "commitStart", "precheck", "cleanup", "cleanupEnd"}
    BY <1>4 DEF Ahead, Inventorying
  <1>5. CASE StageReuse \/ StageWrite
    <2>1. pc = "stage" /\ pc' \in {"stage", "staged"}
      BY <1>3, <1>5 DEF StageReuse, StageWrite, Goto, StageNext
    <2> QED BY <1>2, <2>1 DEF Ahead, Inventorying
  <1>6. CASE StageInvalid
    BY <1>4, <1>6 DEF StageInvalid
  <1>7. CASE CommitSameFile
    <2>1. pc = "commit" /\ pc' \in {"rollbackStart", "commitRecord"}
      BY <1>7 DEF CommitSameFile, Goto
    <2> QED BY <1>2, <2>1 DEF Ahead, Inventorying
  <1>8. CASE CommitConflict \/ InventoryStageConflict \/ InventoryConflict
    BY <1>4, <1>8 DEF CommitConflict, InventoryStageConflict, InventoryConflict, Goto
  <1>9. CASE Verify
    <2>1. CASE pc' = "rollbackStart" BY <1>4, <2>1
    <2>2. CASE pc' # "rollbackStart"
      <3>1. /\ pc' \in {"inventory", "applied"} /\ pc = "verify"
            /\ \A i \in mem.named : mem.entries[i].committed
        BY <1>9, <2>2 DEF Verify, Goto
      <3>2. mem.count = N BY <3>1 DEF IInv, At, Packaging
      <3>3. Committed(mem) = mem.named /\ Payloads(mem) = mem.named
        <4>1. Payloads(mem) = mem.named BY <1>2, <3>2 DEF Payloads, Package
        <4> QED BY <3>1, <4>1 DEF Committed
      <3> QED BY <3>1, <3>3 DEF Ahead, Inventorying
    <2> QED BY <2>1, <2>2
  <1>10. CASE Inventory
    <2>1. mem.phase # "inventory"
      <3>1. pc = "inventory" BY <1>10 DEF Inventory
      <3>2. mem.count = N /\ Shaped(mem) /\ mem.txn # 0
        BY <1>1, <3>1, MemFacts DEF IInv, At, Packaging, Memory
      <3> QED BY <3>2 DEF Shaped, Open
    <2>2. pc' = "rollbackStart"
      <3>1. CASE InventoryReady
        <4>1. mem' = [mem EXCEPT !.phase = "inventory", !.count = Inv,
                                 !.entries[Inv] = InventoryEntry]
          BY <1>10, <3>1 DEF Inventory
        <4>2. mem'.phase = "inventory" BY <1>2, <4>1 DEF Journal
        <4> QED BY <2>1, <4>2
      <3>2. CASE ~InventoryReady
        BY <1>10, <3>2 DEF Inventory, Goto
      <3> QED BY <3>1, <3>2
    <2> QED BY <1>4, <2>2
  <1>11. CASE InventoryResume \/ InventoryStaged \/ InventoryStageWrite
    <2>1. /\ pc \in {"inventoryResume", "inventoryStage"}
          /\ pc' \in {"rollbackStart", "inventoryStage", "inventoryCommit"}
      BY <1>3, <1>11 DEF InventoryResume, InventoryStaged, InventoryStageWrite, Goto
    <2> QED BY <1>2, <2>1 DEF Ahead, Inventorying
  <1>12. CASE InventoryVerify
    <2>1. CASE pc' = "rollbackStart" BY <1>4, <2>1
    <2>2. CASE pc' # "rollbackStart"
      <3>1. pc' = "applied" /\ pc = "inventoryVerify"
        BY <1>12, <2>2 DEF InventoryVerify, Goto
      <3>2. mem.count = Inv BY <3>1 DEF IInv, At, Inventorying
      <3>3. mem.named \subseteq Committed(mem) /\ mem.entries[Inv].committed
        BY <1>2, <3>1 DEF Ahead, Inventorying
      <3>4. Committed(mem) = Payloads(mem)
        BY <3>3 DEF Committed, Payloads
      <3> QED BY <3>1, <3>4 DEF Ahead, Inventorying
    <2> QED BY <2>1, <2>2
  <1>13. CASE Precheck \/ CleanupSkip \/ Cleanup
    BY <1>3, <1>4, <1>13 DEF Precheck, CleanupSkip, Cleanup, CleanupNext, Goto
  <1>14. CASE Reverify
    <2>1. CASE pc' = "stage" /\ mem.phase = "prepare"
      BY <2>1 DEF Ahead, Inventorying
    <2> QED BY <1>4, <1>14, <2>1 DEF Reverify, Goto
  <1>15. CASE Unnamed
    <2>1. CASE pc = "stage"
      <3>1. pc' \in {"stage", "staged"} BY <1>15, <2>1 DEF Unnamed, Goto, StageNext
      <3> QED BY <1>2, <2>1, <3>1 DEF Ahead, Inventorying
    <2>2. CASE pc = "commit"
      <3>1. CASE cursor = N
        <4>1. pc' = "verifyStart" BY <1>15, <2>2, <3>1 DEF Unnamed, Goto, CommitNext
        <4>2. /\ \A i \in mem.named : i \in Package /\ i # N
              /\ newest.named = mem.named /\ Marked(newest, N) /\ MarksKept
          BY <1>2, <1>15, <2>2, <3>1
             DEF Unnamed, Named, IInv, At, Continues, Recorded, Packaging
        <4>3. \A i \in mem.named : mem.entries[i].committed
          BY <4>2 DEF Marked, MarksKept, Package
        <4>4. mem.named \subseteq Committed(mem)
          BY <1>2, <4>3 DEF Committed
        <4> QED BY <4>1, <4>4 DEF Ahead, Inventorying
      <3>2. CASE cursor # N
        <4>1. pc' = "commit" BY <1>15, <2>2, <3>2 DEF Unnamed, Goto, CommitNext
        <4> QED BY <1>2, <2>2, <4>1 DEF Ahead, Inventorying
      <3> QED BY <3>1, <3>2
    <2>3. CASE pc = "rollback"
      <3>1. pc' = RollbackNext[1] /\ cursor' = RollbackNext[2] /\ cursor \notin Payloads(mem)
        BY <1>15, <2>3 DEF Unnamed, Named, Goto
      <3>2. UndoneFrom(mem, cursor + 1) /\ cursor \in Nat /\ \A k \in Payloads(mem) : k \in Nat
        BY <1>2, <2>3 DEF Ahead, IInv, TypeOK, Index
      <3>3. UndoneFrom(mem, cursor)
        BY <3>1, <3>2 DEF UndoneFrom
      <3>4. CASE cursor = 1 BY <3>1, <3>3, <3>4 DEF RollbackNext, Ahead, Inventorying
      <3>5. CASE cursor # 1
        <4>1. pc' = "rollback" /\ cursor' = cursor - 1 /\ cursor - 1 + 1 = cursor
          BY <3>1, <3>2, <3>5 DEF RollbackNext
        <4> QED BY <3>3, <4>1 DEF Ahead, Inventorying
      <3> QED BY <3>4, <3>5
    <2> QED BY <1>15, <2>1, <2>2, <2>3 DEF Unnamed
  <1> QED BY <1>5, <1>6, <1>7, <1>8, <1>9, <1>10, <1>11, <1>12, <1>13, <1>14, <1>15

(* the commit loops mark the next payload,                                 *)
LEMMA InstallsWritable ==
  ASSUME IInv, Recorded, Writable, pc \in Committing, Named, mem' = MarkInstalled(mem, cursor),
         pc' = IF pc = "commit" THEN "commitRecord" ELSE "inventoryRecord"
  PROVE  Writable'
  <1> USE TypeFacts
  <1> DEFINE m == MarkInstalled(mem, cursor)
  <1>1. /\ mem \in Journal /\ cursor \in Payloads(mem) /\ cursor \in Index /\ ~Current.undone
        /\ FlagsValid(mem) /\ Ahead(mem, pc, cursor) /\ pc # "idle"
        /\ mem.named \subseteq Package /\ mem.named \subseteq Payloads(mem)
        /\ newest.named = mem.named
        /\ pc = "commit" => cursor \in Package /\ mem.count = N
        /\ pc = "inventoryCommit" => cursor = Inv /\ mem.count = Inv /\ mem.phase = "inventory"
    BY CommitFacts DEF Committing, Continues, Writable, IInv, At, Inventorying
  <1>2. ASSUME NEW h \in Payloads(mem), h < cursor PROVE mem.entries[h].committed
    <2>1. CASE pc = "commit"
      <3>1. h \in mem.named BY <1>1, <2>1 DEF Payloads, Package
      <3> QED BY <1>1, <1>2, <2>1, <3>1 DEF Recorded, MarksKept, Marked, Packaging
    <2>2. CASE pc = "inventoryCommit"
      <3>1. h \in mem.named BY <1>1, <1>2, <2>2 DEF Payloads
      <3> QED BY <1>1, <2>2, <3>1 DEF Ahead, Inventorying, Committed
    <2> QED BY <2>1, <2>2 DEF Committing
  <1>3. FlagsValid(m)
    BY <1>1, <1>2, InstalledValid DEF Current
  <1>4. /\ m.phase = mem.phase /\ m.entries[cursor].committed /\ Payloads(m) = Payloads(mem)
        /\ m.named = mem.named
        /\ \A k \in Index \ {cursor} : m.entries[k] = mem.entries[k]
    BY <1>1, InstalledFacts
  <1> HIDE DEF m
  <1>5. CASE pc = "commit"
    <2>1. mem.phase = "commit" BY <1>1, <1>5 DEF Ahead
    <2>2. Fresh(m) /\ Ahead(m, "commitRecord", cursor')
      BY <1>4, <2>1 DEF Fresh, Ahead, Inventorying
    <2> QED BY <1>3, <1>5, <2>2 DEF Writable, m
  <1>6. CASE pc = "inventoryCommit"
    <2>1. mem.named \subseteq Committed(mem) BY <1>1, <1>6 DEF Ahead, Inventorying
    <2>2. \A k \in mem.named : m.entries[k].committed
      BY <1>1, <1>4, <1>6, <2>1 DEF Committed
    <2>3. m.named \subseteq Committed(m) /\ m.entries[Inv].committed
      BY <1>1, <1>4, <1>6, <2>2 DEF Committed
    <2>4. Fresh(m) /\ Ahead(m, "inventoryRecord", cursor')
      BY <1>1, <1>4, <1>6, <2>3 DEF Fresh, Ahead, Inventorying
    <2> QED BY <1>3, <1>6, <2>4 DEF Writable, m
  <1> QED BY <1>5, <1>6 DEF Committing

(* the inventory joins without a mark,                                     *)
LEMMA InventoryWritable ==
  ASSUME IInv, Writable, Inventory, InventoryReady PROVE Writable'
  <1> USE TypeFacts
  <1>1. /\ pc = "inventory" /\ pc' = "inventoryStart"
        /\ mem' = [mem EXCEPT !.phase = "inventory", !.count = Inv, !.entries[Inv] = InventoryEntry]
    BY DEF Inventory
  <1>2. /\ mem \in Journal /\ mem.count = N /\ mem.entries \in [Index -> Entry]
        /\ FlagsValid(mem) /\ mem.named \subseteq Committed(mem)
        /\ mem.named \subseteq Package /\ Inv \notin Package
    BY <1>1, MemFacts DEF IInv, At, Packaging, Writable, Ahead, Journal, Package
  <1>3. ~InventoryEntry.undone
    <2>1. target[Inv] \in File /\ prior \in Journal \cup {NoJournal}
      BY DEF IInv, TypeOK
    <2>2. Rendered \in File
      <3>1. \A i \in mem.named : mem.entries[i].new \in Content
        BY <1>1, <1>2, MemFacts DEF IInv, Memory, Shaped
      <3> QED BY <3>1 DEF InventoryReady, Rendered, Versions
    <2> QED BY <2>1, <2>2, InheritFacts DEF InventoryEntry
  <1> DEFINE m == mem'
  <1>4. /\ m.phase = "inventory" /\ m.count = Inv /\ m.entries[Inv] = InventoryEntry
        /\ m.named = mem.named /\ \A i \in Package : m.entries[i] = mem.entries[i]
    BY <1>1, <1>2 DEF Journal, Package
  <1> HIDE DEF m
  <1>5. Payloads(m) = mem.named \cup {Inv}
    BY <1>2, <1>4 DEF Payloads, Package
  <1>6. \A i \in mem.named : m.entries[i].committed /\ ~m.entries[i].undone
    BY <1>2, <1>4 DEF Committed, FlagsValid
  <1>7. FlagsValid(m)
    <2>1. \A i \in Payloads(m) : ~m.entries[i].undone /\ (i # Inv => m.entries[i].committed)
      BY <1>3, <1>4, <1>5, <1>6
    <2>2. ASSUME NEW i \in Payloads(m), NEW k \in Payloads(m), k < i
          PROVE  m.entries[k].committed
      <3>1. k # Inv BY <1>2, <1>5, <2>2 DEF Package
      <3> QED BY <2>1, <3>1
    <2> QED BY <2>1, <2>2 DEF FlagsValid
  <1>8. Fresh(m) /\ Ahead(m, "inventoryStart", cursor')
    <2>1. m.named \subseteq Committed(m) BY <1>4, <1>5, <1>6 DEF Committed
    <2> QED BY <1>4, <2>1 DEF Fresh, Ahead, Inventorying
  <1> QED BY <1>1, <1>7, <1>8 DEF Writable, m

(* and a rollback marks from the last payload on.                          *)
LEMMA RestoresWritable ==
  ASSUME IInv, Writable, pc = "rollback", Named, Restored PROVE Writable'
  <1> USE TypeFacts
  <1>1. /\ mem \in Journal /\ cursor \in Payloads(mem) /\ cursor \in Nat
        /\ \A k \in Payloads(mem) : k \in Nat
        /\ mem.phase = "rollback" /\ FlagsValid(mem) /\ UndoneFrom(mem, cursor + 1)
    BY RollbackFacts DEF Writable, Ahead, Index
  <1>2. CASE Current.undone
    <2>1. mem' = mem /\ pc' = RollbackNext[1] /\ cursor' = RollbackNext[2]
      BY <1>2 DEF Restored
    <2>2. UndoneFrom(mem, cursor)
      BY <1>1, <1>2 DEF UndoneFrom, Current
    <2>3. Ahead(mem, pc', cursor')
      <3>1. CASE cursor = 1 BY <2>1, <2>2, <3>1 DEF RollbackNext, Ahead, Inventorying
      <3>2. CASE cursor # 1
        <4>1. pc' = "rollback" /\ cursor' = cursor - 1 /\ cursor - 1 + 1 = cursor
          BY <1>1, <2>1, <3>2 DEF RollbackNext
        <4> QED BY <2>2, <4>1 DEF Ahead, Inventorying
      <3> QED BY <3>1, <3>2
    <2>4. Fresh(mem) BY <1>1 DEF Fresh
    <2> QED BY <1>1, <2>1, <2>3, <2>4 DEF Writable
  <1>3. CASE ~Current.undone
    <2> DEFINE m == MarkRestored(mem, cursor)
    <2>1. mem' = m /\ pc' = "rollbackRecord" /\ cursor' = cursor
      BY <1>3 DEF Restored
    <2>2. FlagsValid(m) /\ UndoneFrom(m, cursor) /\ m.phase = "rollback"
      BY <1>1, RestoredValid, RestoredFacts
    <2> HIDE DEF m
    <2>3. Fresh(m) /\ Ahead(m, "rollbackRecord", cursor)
      BY <2>2 DEF Fresh, Ahead, Inventorying
    <2> QED BY <2>1, <2>2, <2>3 DEF Writable
  <1> QED BY <1>2, <1>3

(* Every step keeps the marks in memory writable.                          *)
LEMMA WritableKeeps ==
  ASSUME IInv, Recorded, Writable, [Next]_vars PROVE Writable'
  <1> USE TypeFacts
  <1>1. CASE UNCHANGED vars
    BY <1>1 DEF vars, Writable, FlagsValid, Fresh, Ahead, UndoneFrom, Committed, Undone, Payloads
  <1>2. CASE Return \/ pc' = "idle"
    BY <1>2 DEF Return, Writable
  <1>3. CASE Step
    <2>1. CASE Prepare \/ Staged \/ CommitStart \/ CommitRecord \/ VerifyStart \/ InventoryStart
               \/ InventoryRecord \/ Applied \/ RollbackStart \/ RollbackRecord
      BY <2>1, RecordsWritable
    <2>2. CASE CleanupEnd \/ RollbackEnd \/ RollbackLastIntent \/ StageFails \/ CommitFails
               \/ VerifyFails \/ InventoryFails \/ PrecheckFails \/ CleanupFails
               \/ RollbackFails \/ ReverifyFails
      BY <1>2, <2>2 DEF CleanupEnd, RollbackEnd, RollbackLastIntent, StageFails, CommitFails,
         VerifyFails, InventoryFails, PrecheckFails, CleanupFails, RollbackFails, ReverifyFails,
         PersistLast, GiveUp
    <2>3. CASE StageReuse \/ CommitConflict \/ Verify \/ InventoryResume \/ InventoryStaged
               \/ InventoryStageConflict \/ InventoryConflict \/ InventoryVerify
               \/ Precheck \/ CleanupSkip \/ Reverify \/ StageInvalid \/ Unnamed
      <3>1. mem' = mem
        BY <2>3 DEF StageReuse, CommitConflict, Verify, InventoryResume, InventoryStaged,
           InventoryStageConflict, InventoryConflict, InventoryVerify, Precheck, CleanupSkip,
           Reverify, StageInvalid, Unnamed, Goto
      <3> QED BY <2>3, <3>1, WalksWritable
    <2>4. CASE StageWrite \/ InventoryStageWrite \/ Cleanup
      <3>1. mem' = mem \/ Return
        BY <2>4 DEF StageWrite, InventoryStageWrite, Cleanup
      <3> QED BY <1>2, <2>4, <3>1, WalksWritable
    <2>5. CASE CommitSameFile \/ CommitReplace \/ InventoryCommit
      <3>1. \/ Return
            \/ CommitSameFile /\ mem' = mem
            \/ /\ pc \in Committing /\ mem' = MarkInstalled(mem, cursor)
               /\ pc' = IF pc = "commit" THEN "commitRecord" ELSE "inventoryRecord"
        <4>1. CASE CommitSameFile
          BY <4>1 DEF CommitSameFile, Goto, Committing
        <4>2. CASE CommitReplace
          BY <4>2 DEF CommitReplace, Committing
        <4>3. CASE InventoryCommit
          <5>1. pc = "inventoryCommit" /\ cursor = Inv
            BY <4>3 DEF InventoryCommit, IInv, Cursor
          <5> QED BY <4>3, <5>1 DEF InventoryCommit, Committing
        <4> QED BY <2>5, <4>1, <4>2, <4>3
      <3> QED BY <1>2, <2>5, <3>1, ActNamed, WalksWritable, InstallsWritable
    <2>6. CASE Inventory
      <3>1. InventoryReady \/ mem' = mem
        BY <2>6 DEF Inventory, Goto
      <3> QED BY <2>6, <3>1, WalksWritable, InventoryWritable
    <2>7. CASE RollbackSkip \/ Rollback
      <3>1. pc = "rollback" /\ (Restored \/ Return)
        BY <2>7 DEF RollbackSkip, Rollback
      <3> QED BY <1>2, <2>7, <3>1, ActNamed, RestoresWritable
    <2> QED BY <1>3, <2>1, <2>2, <2>3, <2>4, <2>5, <2>6, <2>7 DEF Step
  <1>4. ASSUME NEW named \in (SUBSET Package) \ {{}}, NEW new \in [named -> Content],
         NEW components \in BOOLEAN,
               Apply(named, new, components)
        PROVE  Writable'
    <2>1. pc' = "prepare" /\ mem'.phase = "prepare" /\ mem'.count = N /\ mem'.named = named
      BY <1>4 DEF Apply
    <2>2. ASSUME NEW k \in named
          PROVE  ~mem'.entries[k].committed /\ ~mem'.entries[k].undone
      <3>1. k \in Index /\ target[k] \in File /\ new[k] \in File
            /\ newest \in Journal \cup {NoJournal}
        BY DEF IInv, TypeOK, Package
      <3>2. mem'.entries[k] = NewEntry(k, target[k], new[k], newest)
        BY <1>4, <3>1 DEF Apply
      <3> DEFINE e == NewEntry(k, target[k], new[k], newest)
      <3>3. ~e.committed /\ ~e.undone BY <3>1, InheritFacts
      <3> QED BY <3>2, <3>3
    <2> DEFINE m == mem'
    <2>3. Payloads(m) = named BY <2>1 DEF Payloads, Package
    <2> HIDE DEF m
    <2>4. FlagsValid(m) /\ Committed(m) = {} /\ Undone(m) = {}
      BY <2>2, <2>3 DEF FlagsValid, Committed, Undone, m
    <2>5. Fresh(m) /\ Ahead(m, "prepare", cursor')
      BY <2>1, <2>4 DEF Fresh, Ahead, Inventorying, m
    <2> QED BY <2>1, <2>4, <2>5 DEF Writable, m
  <1>5. CASE Resume \/ BootRecovery
    <2>1. /\ ~phaseTerminal(newest.phase) /\ mem' = newest
          /\ pc' \in {"precheck", "rollbackStart", "reverify"}
             \/ (pc' = "inventoryResume" /\ newest.phase = "inventory")
      BY <1>5 DEF Resume, BootRecovery
    <2>2. newest \in Journal /\ newest.txn # 0
      BY <2>1 DEF IInv, TypeOK, phaseTerminal, NoJournal
    <2>3. JournalValid(newest) BY <2>2 DEF Recorded
    <2>4. FlagsValid(newest) /\ Fresh(newest)
      BY <2>3 DEF JournalValid, PhaseValid, Fresh
    <2>5. newest.phase = "inventory" => newest.named \subseteq Committed(newest)
      BY <2>3 DEF JournalValid, PhaseValid
    <2>6. Ahead(newest, pc', cursor')
      BY <2>1, <2>5 DEF Ahead, Inventorying
    <2> QED BY <2>1, <2>4, <2>6 DEF Writable
  <1>6. CASE RollbackLast
    <2> DEFINE m == Phase(newest, "rollback")
    <2>1. mem' = m /\ pc' = "lastGood" /\ newest.phase \in {"applied", "cleanup"}
      BY <1>6 DEF RollbackLast
    <2>2. newest \in Journal /\ newest.txn # 0
      BY <2>1 DEF IInv, TypeOK, NoJournal
    <2>3. FlagsValid(newest) BY <2>2 DEF Recorded, JournalValid
    <2>4. /\ m \in Journal /\ m.phase = "rollback" /\ SameMarks(m, newest)
      BY <2>2, PhaseFacts DEF SameMarks, Phases
    <2> HIDE DEF m
    <2>5. FlagsValid(m) BY <2>2, <2>3, <2>4, SameMarksFacts
    <2>6. Fresh(m) /\ Ahead(m, "lastGood", cursor')
      BY <2>4 DEF Fresh, Ahead, Inventorying
    <2> QED BY <2>1, <2>5, <2>6 DEF Writable
  <1>7. CASE Crash
    BY <1>2, <1>7 DEF Crash
  <1>8. ASSUME NEW i \in Index, Edit(i) PROVE Writable'
    BY <1>8 DEF Edit, Writable, FlagsValid, Fresh, Ahead, UndoneFrom, Committed, Undone, Payloads
  <1>9. CASE Rest BY <1>1, <1>9 DEF Rest
  <1> QED BY <1>1, <1>3, <1>4, <1>5, <1>6, <1>7, <1>8, <1>9 DEF Next

(* So whatever record is next is one that a replay accepts.                *)
LEMMA NextRecordValid == IInv /\ Recorded /\ Writable => NeverUnwritable
  <1> USE TypeFacts
  <1> SUFFICES ASSUME IInv, Recorded, Writable PROVE Pending = NoJournal \/ JournalValid(Pending)
    BY DEF NeverUnwritable
  <1>1. CASE pc \in {"idle", "stage", "commit", "verify", "reverify", "inventory",
                     "inventoryResume", "inventoryStage", "inventoryCommit", "inventoryVerify",
                     "precheck", "cleanup", "rollback"}
    BY <1>1 DEF Pending
  <1> SUFFICES ASSUME pc # "idle", pc \in {"prepare", "inventoryStart", "inventoryRecord",
                        "rollbackRecord", "lastGood", "staged", "commitStart", "commitRecord",
                        "verifyStart", "applied", "cleanupEnd", "rollbackStart", "rollbackEnd"}
      PROVE  JournalValid(Pending)
    BY <1>1 DEF IInv, TypeOK, Steps
  <1>2. /\ mem \in Journal /\ mem.txn # 0 /\ \A k \in Payloads(mem) : k >= 1
        /\ mem.named \subseteq Package
        /\ FlagsValid(mem) /\ Fresh(mem) /\ Ahead(mem, pc, cursor) /\ Shaped(mem)
        /\ Committed(mem) \subseteq Payloads(mem) /\ Undone(mem) \subseteq Payloads(mem)
        /\ Committed(mem) \cap Undone(mem) = {}
    BY MemFacts DEF Writable, IInv, Memory, Committed, Undone, FlagsValid, Index
  <1>3. ASSUME NEW p \in Phases
        PROVE  LET j == Phase(mem, p)
               IN  /\ j.phase = p /\ j.txn # 0 /\ j.count = mem.count /\ FlagsValid(j)
                   /\ Payloads(j) = Payloads(mem)
                   /\ Committed(j) = Committed(mem) /\ Undone(j) = Undone(mem)
    <2> DEFINE j == Phase(mem, p)
    <2>1. /\ j \in Journal /\ j.phase = p /\ j.txn # 0 /\ j.count = mem.count
          /\ Payloads(j) = Payloads(mem) /\ Committed(j) = Committed(mem) /\ Undone(j) = Undone(mem)
          /\ SameMarks(j, mem)
      BY <1>2, PhaseFacts DEF SameMarks
    <2> HIDE DEF j
    <2>2. FlagsValid(j) BY <1>2, <2>1, SameMarksFacts
    <2> QED BY <2>1, <2>2 DEF j
  <1>4. pc \in {"staged", "commitStart", "commitRecord", "verifyStart", "inventoryStart",
                "inventoryRecord", "applied"} => Undone(mem) = {}
    BY <1>2 DEF IInv, At, Packaging, Inventorying, Forwarding, Shaped
  <1>5. CASE pc = "prepare"
    <2>1. Pending = mem /\ mem.phase = "prepare" BY <1>2, <1>5 DEF Pending, Ahead
    <2> QED BY <1>2, <2>1 DEF Fresh, JournalValid, PhaseValid
  <1>6. CASE pc \in {"inventoryStart", "inventoryRecord"}
    <2>1. Pending = mem /\ mem.phase = "inventory" /\ mem.count = Inv
      BY <1>6 DEF Pending, IInv, At, Inventorying
    <2>2. mem.named \subseteq Committed(mem) BY <1>2, <1>6 DEF Ahead, Inventorying
    <2> QED BY <1>2, <1>4, <1>6, <2>1, <2>2 DEF JournalValid, PhaseValid
  <1>7. CASE pc \in {"rollbackRecord", "lastGood"}
    <2>1. Pending = mem /\ mem.phase = "rollback"
      BY <1>7 DEF Pending, IInv, At, RollingBack
    <2> QED BY <1>2, <2>1 DEF JournalValid, PhaseValid
  <1>8. CASE pc = "staged"
    <2> DEFINE j == Phase(mem, "stage")
    <2>1. Committed(mem) = {} /\ Undone(mem) = {}
      BY <1>2, <1>8 DEF Ahead, Fresh
    <2>2. /\ j.phase = "stage" /\ j.txn # 0 /\ FlagsValid(j)
          /\ Committed(j) = {} /\ Undone(j) = {}
      BY <1>3, <2>1 DEF Phases
    <2>3. Pending = j BY <1>8 DEF Pending
    <2> HIDE DEF j
    <2> QED BY <2>2, <2>3 DEF JournalValid, PhaseValid
  <1>9. CASE pc \in {"commitStart", "commitRecord"}
    <2> DEFINE j == Phase(mem, "commit")
    <2>1. j.phase = "commit" /\ j.txn # 0 /\ FlagsValid(j) /\ Undone(j) = {}
      BY <1>3, <1>4, <1>9 DEF Phases
    <2>2. Pending = j BY <1>9 DEF Pending
    <2> HIDE DEF j
    <2> QED BY <2>1, <2>2 DEF JournalValid, PhaseValid
  <1>10. CASE pc = "verifyStart"
    <2> DEFINE j == Phase(mem, "verify")
    <2>1. /\ j.phase = "verify" /\ j.txn # 0 /\ FlagsValid(j) /\ Undone(j) = {}
          /\ j.count = mem.count /\ Committed(j) = Committed(mem) /\ Payloads(j) = Payloads(mem)
      BY <1>3, <1>4, <1>10 DEF Phases
    <2>2. mem.count = N /\ mem.named \subseteq Committed(mem)
      BY <1>2, <1>10 DEF IInv, At, Packaging, Ahead
    <2>3. Committed(mem) = Payloads(mem)
      <3>1. Payloads(mem) \subseteq mem.named BY <2>2 DEF Payloads
      <3> QED BY <1>2, <2>2, <3>1
    <2>4. Pending = j BY <1>10 DEF Pending
    <2> HIDE DEF j
    <2> QED BY <2>1, <2>2, <2>3, <2>4 DEF JournalValid, PhaseValid
  <1>11. CASE pc = "applied"
    <2> DEFINE j == Phase(mem, "applied")
    <2>1. /\ j.phase = "applied" /\ j.txn # 0 /\ FlagsValid(j) /\ Undone(j) = {}
          /\ Committed(j) = Committed(mem) /\ Payloads(j) = Payloads(mem)
      BY <1>3, <1>4, <1>11 DEF Phases
    <2>2. Committed(mem) = Payloads(mem) BY <1>2, <1>11 DEF Ahead
    <2>3. Pending = j BY <1>11 DEF Pending
    <2> HIDE DEF j
    <2> QED BY <2>1, <2>2, <2>3 DEF JournalValid, PhaseValid
  <1>12. CASE pc = "cleanupEnd"
    <2> DEFINE j == Phase(mem, "cleanup")
    <2>1. /\ j.phase = "cleanup" /\ j.txn # 0 /\ FlagsValid(j) /\ Undone(j) = Undone(mem)
          /\ Committed(j) = Committed(mem) /\ Payloads(j) = Payloads(mem)
      BY <1>3 DEF Phases
    <2>2. Committed(mem) = Payloads(mem) BY <1>2, <1>12 DEF IInv, At, CleaningUp, Shaped
    <2>3. Undone(mem) = {} BY <1>2, <2>2
    <2>4. Pending = j BY <1>12 DEF Pending
    <2> HIDE DEF j
    <2> QED BY <2>1, <2>2, <2>3, <2>4 DEF JournalValid, PhaseValid
  <1>13. CASE pc = "rollbackStart"
    <2> DEFINE j == Phase(mem, "rollback")
    <2>1. j.phase = "rollback" /\ j.txn # 0 /\ FlagsValid(j)
      BY <1>3 DEF Phases
    <2>2. Pending = j BY <1>13 DEF Pending
    <2> HIDE DEF j
    <2> QED BY <2>1, <2>2 DEF JournalValid, PhaseValid
  <1>14. CASE pc = "rollbackEnd"
    <2> DEFINE j == Phase(mem, "rolled_back")
    <2>1. /\ j.phase = "rolled_back" /\ j.txn # 0 /\ FlagsValid(j) /\ Undone(j) = Undone(mem)
          /\ Committed(j) = Committed(mem) /\ Payloads(j) = Payloads(mem)
      BY <1>3 DEF Phases
    <2>2. Undone(mem) = Payloads(mem)
      BY <1>2, <1>14 DEF Ahead, UndoneFrom, Undone
    <2>3. Committed(mem) = {} BY <1>2, <2>2
    <2>4. Pending = j BY <1>14 DEF Pending
    <2> HIDE DEF j
    <2> QED BY <2>1, <2>2, <2>3, <2>4 DEF JournalValid, PhaseValid
  <1> QED BY <1>5, <1>6, <1>7, <1>8, <1>9, <1>10, <1>11, <1>12, <1>13, <1>14

(* The journal that a command is about to write is one that                *)
(* serializeJournal and a later replay accept.                             *)
THEOREM TxnNeverUnwritable == Spec => []NeverUnwritable
  <1>1. Init => Writable
    BY DEF Init, Writable
  <1> QED BY <1>1, NextRecordValid, WritableKeeps, RecordedStarts, RecordedKeeps, TxnInvariant, PTL
          DEF Spec

=============================================================================
