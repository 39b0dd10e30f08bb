------------------------- MODULE RestartBatchProofs -------------------------
(***************************************************************************)
(* Proofs about RestartBatch, for any processes, packages and number of    *)
(* faults.                                                                 *)
(*                                                                         *)
(* The invariant says what the batch's newest record and the transaction   *)
(* say of each other, what the transaction says of the files, and what the *)
(* older record may be, which an interrupted ABORT-BATCH can bring back.   *)
(* A write that is not acknowledged leaves the old or the new record, so   *)
(* both must satisfy it.                                                   *)
(***************************************************************************)
EXTENDS RestartBatch, TLAPS

-----------------------------------------------------------------------------
(* The invariant.                                                          *)

\* Transaction t was made for record r; their outcomes agree.
For(t, r) == t.batch /\ t.id = r.id /\ t.pkgs = r.pkgs /\ t.source = r.source
Agrees(t, r) == /\ t.id = r.id
                /\ r.phase = "installed" => t.phase = "cleanup" /\ t.pkgs = r.pkgs
                /\ r.phase = "rolled_back" => t.phase = "rolled_back"

\* The newest batch waits for its verdict, and the transaction is its own.
OwnNow == Readable /\ Newest.phase \notin phaseTerminal /\ For(txn, Newest)

\* What a transaction's journal says is true of the files.
TxnOk(t) ==
    IF t.batch THEN
        /\ t.changed \subseteq Payloads(t)
        /\ t.phase \in {"post_boot", "applied", "cleanup"} => t.done = Payloads(t)
        /\ t.phase \in {"applied", "cleanup"} => t.marked
        /\ t.phase \notin {"rollback", "rolled_back"} => t.done \subseteq installed
        /\ t.phase = "rolled_back" => t.changed \cap installed = {}
        /\ t.marked /\ t.phase \in {"commit", "post_boot"} =>
               t.pkgs \subseteq t.done /\ (Kernel \in t.pkgs => active)
        /\ t.marked => t.phase # "stage"
        /\ Ver \in t.changed \cap installed => t.pkgs \subseteq installed
    ELSE t.changed = {}

Valid == Readable \/ \A i \in {0, 1} : slot[i] \notin Record

\* What the newest record and the transaction say of each other.
NewestOk(t) ==
    /\ Readable /\ Newest.phase \in Underway => For(t, Newest)
    /\ t.batch /\ Open(t) => Readable /\ Newest.phase \notin phaseTerminal /\ t.id = Newest.id
    /\ Readable /\ Newest.phase \in phaseTerminal /\ t.batch => Agrees(t, Newest)

\* The other record, which an interrupted ABORT-BATCH can bring back.
Other == slot[1 - newest]
OtherOk(t) ==
    Readable /\ Newest.phase \in Preparing /\ Other \in Record =>
        /\ Other.phase \in Preparing \cup phaseTerminal
        /\ Other.phase \in phaseTerminal =>
               /\ Newest.phase = "staged"
               /\ t.batch => Agrees(t, Other) /\ t.id # Newest.id

\* What holds where the holder of the lease is.
AtInv ==
    /\ at \in {"recheck", "plan", "progress", "bind", "restore"} => lease \in Procs
    /\ at \in {"plan", "progress", "bind", "restore"} =>
           /\ Readable /\ Newest.phase \in Preparing
           /\ Other \notin Record \/ Other.phase \notin phaseTerminal
    /\ at \in {"plan", "progress", "bind"} =>
           seen[lease] \in Record /\ seen[lease].pkgs = Newest.pkgs
    /\ at \in {"progress", "bind", "restage"} => ~Open(txn)
    /\ at \in {"restage"} => Readable /\ Newest.phase \in Preparing
    /\ at \in {"committing", "forward", "undoing", "undo", "verdict", "failed", "pending",
               "finalize", "mark", "markForward", "applied", "cleanup", "installed"} => OwnNow
    /\ at \in {"committing", "forward"} => txn.phase \in {"stage", "commit"}
    /\ at \in {"pending", "finalize", "mark", "applied"} => txn.phase = "post_boot"
    /\ at = "mark" => ~txn.marked /\ (Kernel \in txn.pkgs => active)
    /\ at = "markForward" => txn.phase = "commit" /\ txn.marked
    /\ at = "applied" => txn.marked
    /\ at = "cleanup" => txn.phase = "applied"
    /\ at = "installed" => txn.phase = "cleanup"
    /\ at = "undoing" => txn.phase = "commit"
    /\ at = "undo" => txn.phase \in {"commit", "rollback"}
    /\ at = "verdict" => txn.phase = "rolled_back"
    /\ at = "dispatch" => Readable /\ Newest.phase \notin phaseTerminal
    /\ at = "intent" => RollbackAllowed /\ txn.batch
    /\ at = "decide" => IF txn.batch THEN OwnNow /\ Newest.phase = "rolling_back"
                                          /\ txn.phase \notin {"rollback", "rolled_back", "stage"}
                        ELSE TRUE
    /\ at = "abortRest" => ~Open(txn) /\ newest = 1 /\ Other = Absent
                           /\ (Readable => Newest.phase \in Preparing \cup phaseTerminal)
    /\ at = "single" => ~txn.batch
    /\ at \in {"bootForward", "bootUndo", "bootCleanup"} => txn.batch
    /\ at = "bootForward" => txn.phase \in {"stage", "commit"}
    /\ at = "bootUndo" => txn.phase \in {"commit", "rollback"}
    /\ at = "bootCleanup" => txn.phase = "applied"

HolderInv == /\ lease \in Procs => pc[lease] = "holding"
             /\ \A p \in Procs : seen[p] \in Record => seen[p].phase = "staged"

JournalsInv == Valid /\ TxnOk(txn) /\ NewestOk(txn) /\ OtherOk(txn)
IInv == TypeOK /\ JournalsInv /\ AtInv /\ HolderInv

-----------------------------------------------------------------------------
(* What the building blocks of the actions do.                             *)

Stops == {"none", "again"}

\* The holder went on at l.
Led(l) == /\ at' = IF l \in Stops THEN "none" ELSE l
          /\ l \notin Stops => lease' = lease /\ seen' = seen

\* The newest record is r, or it is the one it was.
PutDone(r) == /\ Newest' = r /\ Readable'
              /\ (Readable /\ Other' = Newest) \/ Other' \notin Record
Kept == /\ Readable' = Readable /\ (Readable => Newest' = Newest)
        /\ Other' = Other \/ Other' \notin Record

\* Going on keeps the holder's state well-formed.
LEMMA GotoEffect ==
    ASSUME TypeOK, HolderInv, NEW l \in Labels \cup {"again"}, Goto(l)
    PROVE  /\ lease' \in Procs \cup {Nobody, Recovery} /\ at' \in Labels
           /\ pc' \in [Procs -> {"idle", "stage", "verified", "commit", "again", "holding"}]
           /\ seen' \in [Procs -> Record \cup {Absent}]
           /\ HolderInv' /\ Led(l)
  <1>1. CASE l \in Stops
    BY <1>1, BatchAssumption DEF Stops, TypeOK, HolderInv, Goto, After, Led, Labels
  <1>2. CASE l \notin Stops
    BY <1>2 DEF Stops, TypeOK, HolderInv, Goto, Led, Labels
  <1> QED  BY <1>1, <1>2

\* A fault is counted within its bound.
LEMMA FaultType == ASSUME TypeOK, Fault \/ UNCHANGED faults
                   PROVE  faults' \in 0 .. MaxFaults
  BY BatchAssumption DEF TypeOK, Fault

\* Writing the batch's record.
LEMMA WriteEffect ==
    ASSUME TypeOK, HolderInv, Valid, NEW r \in Record,
           NEW l \in Labels \cup {"again"}, NEW m \in Labels \cup {"again"},
           writeInactiveBatchJournal(r, l, m)
    PROVE  /\ TypeOK' /\ HolderInv' /\ Valid' /\ UNCHANGED <<txn, installed, active>>
           /\ \/ PutDone(r) /\ (Led(l) \/ Led(m))
              \/ Kept /\ Led(m)
  <1>1. Spare \in {0, 1}
    BY DEF Spare, TypeOK
  <1>2. ASSUME Put(r)
        PROVE  PutDone(r) /\ slot' \in [{0, 1} -> Record \cup {Absent, Torn}]
               /\ newest' \in {0, 1} /\ Valid'
    BY <1>1, <1>2 DEF Put, PutDone, TypeOK, Valid, Newest, Other, Readable, Spare
  <1>3. ASSUME Tear \/ UNCHANGED batch
        PROVE  Kept /\ slot' \in [{0, 1} -> Record \cup {Absent, Torn}]
               /\ newest' \in {0, 1} /\ Valid'
    <2>1. CASE UNCHANGED batch
      BY <2>1 DEF batch, Kept, TypeOK, Valid, Newest, Other, Readable
    <2>2. CASE Tear
      <3>1. slot' = [slot EXCEPT ![Spare] = Torn] /\ newest' = newest
        BY <2>2 DEF Tear
      <3>2. slot' \in [{0, 1} -> Record \cup {Absent, Torn}] /\ newest' \in {0, 1}
        BY <1>1, <3>1 DEF TypeOK
      <3>3. Torn \notin Record
        BY BatchAssumption
      <3>4. CASE Readable
        <4>1. Spare = 1 - newest
          BY <3>4 DEF Spare
        <4>2. slot'[newest'] = slot[newest] /\ slot'[1 - newest'] = Torn
          BY <3>1, <4>1 DEF TypeOK
        <4> QED  BY <3>2, <3>3, <3>4, <4>2 DEF Kept, Valid, Newest, Other, Readable
      <3>5. CASE ~Readable
        <4>1. \A i \in {0, 1} : slot'[i] \notin Record
          BY <1>1, <3>1, <3>3, <3>5 DEF Valid, TypeOK
        <4> QED  BY <3>1, <3>2, <3>5, <4>1 DEF Kept, Valid, Newest, Other, Readable, TypeOK
      <3> QED  BY <3>4, <3>5
    <2> QED  BY <1>3, <2>1, <2>2
  <1>4. UNCHANGED <<txn, installed, active>> /\ (Fault \/ UNCHANGED faults) /\ (Goto(l) \/ Goto(m))
        /\ (Put(r) \/ Tear \/ UNCHANGED batch)
        /\ (Put(r) \/ Goto(m))
    BY DEF writeInactiveBatchJournal
  <1>5. faults' \in 0 .. MaxFaults
    BY <1>4, FaultType
  <1>6. HolderInv' /\ (Goto(l) => Led(l)) /\ (Goto(m) => Led(m))
        /\ lease' \in Procs \cup {Nobody, Recovery} /\ at' \in Labels
        /\ pc' \in [Procs -> {"idle", "stage", "verified", "commit", "again", "holding"}]
        /\ seen' \in [Procs -> Record \cup {Absent}]
    BY <1>4, GotoEffect
  <1>7. TypeOK'
    BY <1>2, <1>3, <1>4, <1>5, <1>6 DEF TypeOK
  <1> QED  BY <1>2, <1>3, <1>4, <1>6, <1>7

\* Writing the transaction's journal.
LEMMA PersistEffect ==
    ASSUME TypeOK, HolderInv, NEW t \in Transaction,
           NEW l \in Labels \cup {"again"}, NEW m \in Labels \cup {"again"},
           persist(t, l, m)
    PROVE  /\ TypeOK' /\ HolderInv' /\ UNCHANGED <<slot, newest, installed, active>>
           /\ \/ txn' = t /\ (Led(l) \/ Led(m))
              \/ txn' = txn /\ Led(m)
  <1>1. UNCHANGED <<slot, newest, installed, active>> /\ (Fault \/ UNCHANGED faults)
        /\ \/ txn' = t /\ (Goto(l) \/ Goto(m))
           \/ txn' = txn /\ Goto(m)
    BY DEF persist, batch
  <1>2. faults' \in 0 .. MaxFaults
    BY <1>1, FaultType
  <1>3. HolderInv' /\ (Goto(l) => Led(l)) /\ (Goto(m) => Led(m))
        /\ lease' \in Procs \cup {Nobody, Recovery} /\ at' \in Labels
        /\ pc' \in [Procs -> {"idle", "stage", "verified", "commit", "again", "holding"}]
        /\ seen' \in [Procs -> Record \cup {Absent}]
    BY <1>1, GotoEffect
  <1>4. TypeOK'
    BY <1>1, <1>2, <1>3 DEF TypeOK
  <1> QED  BY <1>1, <1>3, <1>4

\* Deciding what to do next.
LEMMA TurnEffect ==
    ASSUME TypeOK, HolderInv, NEW l \in Labels \cup {"again"}, Turn(l)
    PROVE  /\ TypeOK' /\ HolderInv' /\ UNCHANGED <<slot, newest, txn, installed, active>>
           /\ Led(l)
  BY GotoEffect DEF Turn, Stay, TypeOK, batch

\* A command takes the lease.
LEMMA AcquireEffect ==
    ASSUME TypeOK, HolderInv, NEW p \in Procs, NEW l \in Labels, Acquire(p, l)
    PROVE  /\ TypeOK' /\ HolderInv' /\ UNCHANGED <<slot, newest, txn, installed, active, seen>>
           /\ at' = l /\ lease' = p
  BY BatchAssumption DEF Acquire, Stay, TypeOK, HolderInv, batch

-----------------------------------------------------------------------------
(* What has to be shown of a record or of a transaction that is written.   *)

\* A record may follow the newest one.
MayFollow(r) ==
    /\ r.phase \in Underway => For(txn, r)
    /\ txn.batch /\ Open(txn) => r.phase \notin phaseTerminal /\ txn.id = r.id
    /\ r.phase \in phaseTerminal /\ txn.batch => Agrees(txn, r)
    /\ r.phase \in Preparing /\ Readable =>
           /\ Newest.phase \in Preparing \cup phaseTerminal
           /\ Newest.phase \in phaseTerminal =>
                  r.phase = "staged" /\ (txn.batch => txn.id # r.id)

\* The journals stay true when a record that may follow is written, or is not.
LEMMA WriteJournals ==
    ASSUME IInv, NEW r \in Record, MayFollow(r), UNCHANGED <<txn, installed, active>>,
           PutDone(r) \/ Kept, Valid'
    PROVE  JournalsInv'
  <1>1. TxnOk(txn)'
    BY DEF IInv, JournalsInv, TxnOk, Payloads
  <1>2. CASE PutDone(r)
    <2>1. NewestOk(txn)'
      BY <1>2 DEF PutDone, MayFollow, NewestOk, For, Agrees, Open
    <2>2. OtherOk(txn)'
      BY <1>2 DEF PutDone, MayFollow, OtherOk, NewestOk, IInv, JournalsInv, Agrees
    <2> QED  BY <1>1, <2>1, <2>2 DEF JournalsInv
  <1>3. CASE Kept
    <2>1. NewestOk(txn)'
      BY <1>3 DEF Kept, NewestOk, IInv, JournalsInv, For, Agrees, Open
    <2>2. OtherOk(txn)'
      BY <1>3 DEF Kept, OtherOk, IInv, JournalsInv, Agrees
    <2> QED  BY <1>1, <2>1, <2>2 DEF JournalsInv
  <1> QED  BY <1>2, <1>3

\* Journals whose records did not change, but perhaps the transaction.
LEMMA TxnJournals ==
    ASSUME IInv, UNCHANGED <<slot, newest>>, TxnOk(txn)', NewestOk(txn'), OtherOk(txn')
    PROVE  JournalsInv'
  <1>1. Newest' = Newest /\ Other' = Other /\ Readable' = Readable
    BY DEF Newest, Other, Readable
  <1>2. Valid'
    BY <1>1 DEF IInv, JournalsInv, Valid
  <1>3. NewestOk(txn)'
    BY <1>1 DEF NewestOk, For, Agrees, Open
  <1>4. OtherOk(txn)'
    BY <1>1 DEF OtherOk, Agrees
  <1> QED  BY <1>2, <1>3, <1>4 DEF JournalsInv

\* The transaction moves on while its batch waits for the verdict.
LEMMA ServingJournals ==
    ASSUME IInv, UNCHANGED <<slot, newest>>,
           Readable, Newest.phase \notin phaseTerminal, txn.batch, txn.id = Newest.id,
           txn'.batch, txn'.id = txn.id, txn'.pkgs = txn.pkgs, txn'.source = txn.source,
           TxnOk(txn)'
    PROVE  JournalsInv'
  <1>1. NewestOk(txn')
    BY DEF NewestOk, For, IInv, JournalsInv
  <1>2. OtherOk(txn')
    BY DEF OtherOk, IInv, JournalsInv
  <1> QED  BY <1>1, <1>2, TxnJournals

\* Nothing changed but who does what.
LEMMA SameJournals ==
    ASSUME IInv, UNCHANGED <<slot, newest, txn, installed, active>>
    PROVE  JournalsInv'
  <1>1. TxnOk(txn)'
    BY DEF IInv, JournalsInv, TxnOk, Payloads
  <1>2. NewestOk(txn') /\ OtherOk(txn')
    BY DEF IInv, JournalsInv
  <1> QED  BY <1>1, <1>2, TxnJournals

-----------------------------------------------------------------------------
(* The three kinds of write the commands make.                             *)

\* A record with another phase is still a record of the same batch.
LEMMA Rephased ==
    ASSUME Readable, NEW ph \in Phases
    PROVE  LET r == [Newest EXCEPT !.phase = ph] IN
           r \in Record /\ r.phase = ph /\ r.pkgs = Newest.pkgs
           /\ r.source = Newest.source /\ r.id = Newest.id
  BY DEF Readable, Record

Serving == Readable /\ Newest.phase \notin phaseTerminal /\ txn.batch /\ txn.id = Newest.id

\* An open batch transaction has its batch.
LEMMA OpenServes == ASSUME IInv, txn.batch, Open(txn) PROVE Serving
  BY DEF IInv, JournalsInv, NewestOk, Serving

\* A batch with its transaction enters a phase that is not a preparing one.
LEMMA OwnWrite ==
    ASSUME IInv, OwnNow, NEW ph \in Phases \ Preparing,
           ph = "installed" => txn.phase = "cleanup",
           ph = "rolled_back" => txn.phase = "rolled_back",
           NEW l \in Labels \cup {"again"}, NEW m \in Labels \cup {"again"},
           WritePhase(ph, l, m)
    PROVE  /\ TypeOK' /\ HolderInv' /\ JournalsInv' /\ UNCHANGED <<txn, installed, active>>
           /\ Led(l) \/ Led(m)
           /\ ph \notin phaseTerminal => OwnNow'
           /\ Newest'.phase = ph \/ Led(m)
  <1> DEFINE r == [Newest EXCEPT !.phase = ph]
  <1>1. /\ r \in Record /\ r.phase = ph /\ r.pkgs = Newest.pkgs
        /\ r.source = Newest.source /\ r.id = Newest.id
    BY Rephased DEF OwnNow
  <1> HIDE DEF r
  <1>2. /\ TypeOK' /\ HolderInv' /\ Valid' /\ UNCHANGED <<txn, installed, active>>
        /\ \/ PutDone(r) /\ (Led(l) \/ Led(m))
           \/ Kept /\ Led(m)
    BY <1>1, WriteEffect DEF WritePhase, r, IInv, JournalsInv
  <1>3. MayFollow(r)
    BY <1>1 DEF MayFollow, OwnNow, For, Agrees, Open, phaseTerminal
  <1>4. JournalsInv'
    BY <1>1, <1>2, <1>3, WriteJournals
  <1>5. ph \notin phaseTerminal => OwnNow'
    <2>1. CASE PutDone(r)
      BY <1>1, <1>2, <2>1 DEF PutDone, OwnNow, For
    <2>2. CASE Kept
      BY <1>2, <2>2 DEF Kept, OwnNow, For
    <2> QED  BY <1>2, <2>1, <2>2
  <1> QED  BY <1>1, <1>2, <1>4, <1>5 DEF PutDone

\* A preparing batch stays one.
LEMMA PrepWrite ==
    ASSUME IInv, Readable, Newest.phase \in Preparing, NEW ph \in Preparing,
           NEW l \in Labels \cup {"again"}, NEW m \in Labels \cup {"again"},
           WritePhase(ph, l, m)
    PROVE  /\ TypeOK' /\ HolderInv' /\ JournalsInv' /\ UNCHANGED <<txn, installed, active>>
           /\ Readable' /\ Newest'.phase \in Preparing /\ Newest'.pkgs = Newest.pkgs
           /\ \/ (Led(l) \/ Led(m)) /\ (Other' \notin Record \/ Other'.phase \notin phaseTerminal)
              \/ Led(m) /\ (Other' = Other \/ Other' \notin Record)
  <1> DEFINE r == [Newest EXCEPT !.phase = ph]
  <1>0. ph \in Phases
    BY DEF Phases
  <1>1. /\ r \in Record /\ r.phase = ph /\ r.pkgs = Newest.pkgs
        /\ r.source = Newest.source /\ r.id = Newest.id
    BY <1>0, Rephased
  <1> HIDE DEF r
  <1>2. /\ TypeOK' /\ HolderInv' /\ Valid' /\ UNCHANGED <<txn, installed, active>>
        /\ \/ PutDone(r) /\ (Led(l) \/ Led(m))
           \/ Kept /\ Led(m)
    BY <1>1, WriteEffect DEF WritePhase, r, IInv, JournalsInv
  <1>3. MayFollow(r)
    BY <1>1 DEF MayFollow, IInv, JournalsInv, NewestOk, Preparing, phaseTerminal, Underway
  <1>4. JournalsInv'
    BY <1>1, <1>2, <1>3, WriteJournals
  <1>5. Newest.phase \notin phaseTerminal
    BY DEF Preparing, phaseTerminal
  <1> QED  BY <1>1, <1>2, <1>4, <1>5 DEF PutDone, Kept

\* The transaction of a batch moves on.
LEMMA ServingPersist ==
    ASSUME IInv, Serving, NEW t \in Transaction, t.batch, t.id = txn.id,
           t.pkgs = txn.pkgs, t.source = txn.source, TxnOk(t),
           NEW l \in Labels \cup {"again"}, NEW m \in Labels \cup {"again"},
           persist(t, l, m)
    PROVE  /\ TypeOK' /\ HolderInv' /\ JournalsInv'
           /\ UNCHANGED <<slot, newest, installed, active>>
           /\ \/ txn' = t /\ (Led(l) \/ Led(m))
              \/ txn' = txn /\ Led(m)
           /\ Newest' = Newest /\ Readable' = Readable /\ Serving'
           /\ OwnNow => OwnNow'
  <1>1. /\ TypeOK' /\ HolderInv' /\ UNCHANGED <<slot, newest, installed, active>>
        /\ \/ txn' = t /\ (Led(l) \/ Led(m))
           \/ txn' = txn /\ Led(m)
    BY PersistEffect DEF IInv
  <1>2. TxnOk(txn)'
    BY <1>1 DEF IInv, JournalsInv, TxnOk, Payloads
  <1>3. JournalsInv'
    BY <1>1, <1>2, ServingJournals DEF Serving
  <1>4. Newest' = Newest /\ Readable' = Readable /\ Serving' /\ (OwnNow => OwnNow')
    BY <1>1 DEF Newest, Readable, Serving, OwnNow, For
  <1> QED  BY <1>1, <1>3, <1>4

-----------------------------------------------------------------------------
(* Every action keeps the invariant.                                       *)

\* Nothing is claimed of a command that has only just begun.
LEMMA AtFree == ASSUME at' \in {"none", "reboot", "stage", "check", "abort"} PROVE AtInv'
  BY DEF AtInv

\* Nothing is claimed of the lease when it is free.
LEMMA Stopped == ASSUME Led("none") \/ Led("again") PROVE AtInv'
  BY AtFree DEF Led, Stops

\* The invariant holds of a machine that never had a batch.
LEMMA InitInv == ASSUME Init PROVE IInv
  <1>1. TypeOK
    <2>1. /\ slot \in [{0, 1} -> Record \cup {Absent, Torn}] /\ newest \in {0, 1}
          /\ installed \subseteq Pkgs \cup {Ver} /\ active \in BOOLEAN
          /\ lease \in Procs \cup {Nobody, Recovery} /\ at \in Labels
          /\ pc \in [Procs -> {"idle", "stage", "verified", "commit", "again", "holding"}]
          /\ seen \in [Procs -> Record \cup {Absent}]
      BY DEF Init, Labels
    <2>2. txn \in Transaction
      BY DEF Init, Transaction
    <2>3. faults \in 0 .. MaxFaults
      BY BatchAssumption DEF Init
    <2> QED  BY <2>1, <2>2, <2>3 DEF TypeOK
  <1>2. ~Readable /\ \A i \in {0, 1} : slot[i] \notin Record
    BY BatchAssumption DEF Init, Readable, Newest
  <1>3. JournalsInv
    BY <1>2 DEF Init, JournalsInv, Valid, TxnOk, NewestOk, OtherOk
  <1>4. AtInv /\ HolderInv
    BY BatchAssumption DEF Init, AtInv, HolderInv
  <1> QED  BY <1>1, <1>3, <1>4 DEF IInv

\* Commands that do not hold the lease yet.
LEMMA BeginInv ==
    ASSUME IInv, NEW p \in Procs,
           BeginStage(p) \/ BeginCommit(p) \/ LookCommit(p) \/ GiveUp(p)
    PROVE  IInv'
  <1>1. UNCHANGED <<slot, newest, txn, installed, active, faults, lease, at>> /\ pc[p] # "holding"
    BY DEF BeginStage, BeginCommit, LookCommit, GiveUp, Stay, batch
  <1>2. /\ pc' \in [Procs -> {"idle", "stage", "verified", "commit", "again", "holding"}]
        /\ seen' \in [Procs -> Record \cup {Absent}]
        /\ \A q \in Procs : q # p => pc'[q] = pc[q] /\ seen'[q] = seen[q]
        /\ seen'[p] \in Record => seen'[p].phase = "staged"
    <2> USE DEF IInv, TypeOK, HolderInv
    <2>1. CASE BeginStage(p)
      BY <2>1 DEF BeginStage
    <2>2. CASE BeginCommit(p)
      BY <2>2 DEF BeginCommit, Readable
    <2>3. CASE LookCommit(p)
      BY <2>3, BatchAssumption DEF LookCommit
    <2>4. CASE GiveUp(p)
      BY <2>4 DEF GiveUp
    <2> QED  BY <2>1, <2>2, <2>3, <2>4
  <1>3. TypeOK'
    BY <1>1, <1>2 DEF IInv, TypeOK
  <1>4. lease \in Procs => lease # p
    BY <1>1 DEF IInv, HolderInv
  <1>5. HolderInv'
    BY <1>1, <1>2, <1>4 DEF IInv, HolderInv
  <1>6. JournalsInv'
    BY <1>1, SameJournals
  <1>7. AtInv'
    <2>1. lease \in Procs => seen'[lease] = seen[lease]
      BY <1>2, <1>4
    <2> QED  BY <1>1, <2>1 DEF IInv, AtInv, Readable, Newest, Other, OwnNow, For, Open,
                               RollbackAllowed, lastGoodBatchMatches, Payloads, Ended, Blocked
  <1> QED  BY <1>3, <1>5, <1>6, <1>7 DEF IInv

\* Commands that take the lease.
LEMMA TakeInv ==
    ASSUME IInv, NEW p \in Procs,
           \/ TakeLease(p) \/ Resume(p) \/ RollbackLast(p) \/ AbortBatch(p) \/ resumeTransaction(p)
    PROVE  IInv'
  <1>1. CASE TakeLease(p)
    <2>1. TypeOK' /\ HolderInv' /\ UNCHANGED <<slot, newest, txn, installed, active>>
      BY <1>1 DEF TakeLease, Stay, IInv, TypeOK, HolderInv, Labels, batch
    <2>2. at' \in {"stage", "recheck"} /\ lease' \in Procs
      BY <1>1 DEF TakeLease
    <2>3. AtInv'
      BY <2>2 DEF AtInv
    <2> QED  BY <2>1, <2>3, SameJournals DEF IInv
  <1>2. CASE Resume(p)
    <2>1. TypeOK' /\ HolderInv' /\ UNCHANGED <<slot, newest, txn, installed, active>> /\ at' = "dispatch"
      BY <1>2, AcquireEffect DEF Resume, IInv, Labels
    <2>2. AtInv'
      BY <1>2, <2>1 DEF AtInv, Resume, Readable, Newest
    <2> QED  BY <2>1, <2>2, SameJournals DEF IInv
  <1>3. CASE RollbackLast(p)
    <2>1. TypeOK' /\ HolderInv' /\ UNCHANGED <<slot, newest, txn, installed, active>> /\ at' = "check"
      BY <1>3, AcquireEffect DEF RollbackLast, IInv, Labels
    <2> QED  BY <2>1, AtFree, SameJournals DEF IInv
  <1>4. CASE AbortBatch(p)
    <2>1. TypeOK' /\ HolderInv' /\ UNCHANGED <<slot, newest, txn, installed, active>> /\ at' = "abort"
      BY <1>4, AcquireEffect DEF AbortBatch, IInv, Labels
    <2> QED  BY <2>1, AtFree, SameJournals DEF IInv
  <1>5. CASE resumeTransaction(p)
    <2>1. TypeOK' /\ HolderInv' /\ UNCHANGED <<slot, newest, txn, installed, active>> /\ at' = "single"
      BY <1>5, AcquireEffect DEF resumeTransaction, IInv, Labels
    <2>2. AtInv'
      BY <1>5, <2>1 DEF AtInv, resumeTransaction
    <2> QED  BY <2>1, <2>2, SameJournals DEF IInv
  <1> QED  BY <1>1, <1>2, <1>3, <1>4, <1>5

\* STAGE adds a package to the batch, or begins one.
LEMMA StageInv == ASSUME IInv, stageRestartPackage PROVE IInv'
  <1>1. PICK k \in Pkgs :
           \/ /\ StageAdmits(k)
              /\ writeInactiveBatchJournal([Collecting EXCEPT !.pkgs = @ \cup {k}], "none", "none")
           \/ ~StageAdmits(k) /\ Turn("none")
    BY DEF stageRestartPackage
  <1>2. CASE Turn("none")
    BY <1>2, TurnEffect, Stopped, SameJournals DEF IInv, Labels
  <1>3. CASE /\ StageAdmits(k)
             /\ writeInactiveBatchJournal([Collecting EXCEPT !.pkgs = @ \cup {k}], "none", "none")
    <2> DEFINE r == [Collecting EXCEPT !.pkgs = @ \cup {k}]
    <2>1. Collecting \in Record
      BY DEF Collecting, Readable, Record, Phases, Preparing, Release, IInv, TypeOK, Transaction
    <2>2. r \in Record /\ r.phase = "staged" /\ r.id = Collecting.id
      BY <1>3, <2>1 DEF Record, StageAdmits
    <2>3. IF Readable /\ Newest.phase \notin phaseTerminal
          THEN Newest.phase = "staged" /\ r.id = Newest.id
          ELSE r.id # txn.id
      BY <1>3, <2>2 DEF Collecting, StageAdmits, IInv, TypeOK, Transaction
    <2> HIDE DEF r
    <2>4. /\ TypeOK' /\ HolderInv' /\ Valid' /\ UNCHANGED <<txn, installed, active>>
          /\ PutDone(r) \/ Kept
          /\ Led("none")
      BY <1>3, <2>2, WriteEffect DEF r, IInv, JournalsInv, Labels
    <2>5. MayFollow(r)
      <3>1. r.phase \notin Underway /\ r.phase \notin phaseTerminal
        BY <2>2 DEF Underway, phaseTerminal
      <3>2. txn.batch /\ Open(txn) => txn.id = r.id
        BY <2>3, OpenServes DEF Serving
      <3>3. Readable => /\ Newest.phase \in Preparing \cup phaseTerminal
                        /\ Newest.phase \in phaseTerminal => txn.id # r.id
        BY <2>3 DEF Preparing
      <3> QED  BY <2>2, <3>1, <3>2, <3>3 DEF MayFollow
    <2> QED  BY <2>2, <2>4, <2>5, WriteJournals, Stopped DEF IInv
  <1> QED  BY <1>1, <1>2, <1>3

\* COMMIT, up to the transaction.
LEMMA VerifyInv == ASSUME IInv, commitBatchCommand PROVE IInv'
  <1>1. CASE Turn("none")
    BY <1>1, TurnEffect, Stopped, SameJournals DEF IInv, Labels
  <1>2. CASE sameBatchSnapshot /\ WritePhase("verifying", "plan", "none")
    <2>1. lease \in Procs
      BY DEF commitBatchCommand, IInv, AtInv
    <2>2. Readable /\ Newest.phase = "staged" /\ seen[lease] = Newest
      BY <1>2, <2>1 DEF sameBatchSnapshot, Readable, IInv, HolderInv
    <2>3. /\ TypeOK' /\ HolderInv' /\ JournalsInv' /\ UNCHANGED <<txn, installed, active>>
          /\ Readable' /\ Newest'.phase \in Preparing /\ Newest'.pkgs = Newest.pkgs
          /\ \/ (Led("plan") \/ Led("none")) /\ (Other' \notin Record \/ Other'.phase \notin phaseTerminal)
             \/ Led("none") /\ (Other' = Other \/ Other' \notin Record)
      BY <1>2, <2>2, PrepWrite DEF Preparing, Labels
    <2>4. CASE Led("none")
      BY <2>3, <2>4, Stopped DEF IInv
    <2>5. CASE Led("plan") /\ (Other' \notin Record \/ Other'.phase \notin phaseTerminal)
      <3>1. at' = "plan" /\ lease' = lease /\ seen' = seen
        BY <2>5 DEF Led, Stops
      <3>2. seen'[lease'] \in Record /\ seen'[lease'].pkgs = Newest'.pkgs
        BY <2>2, <2>3, <3>1 DEF Readable
      <3>3. AtInv'
        BY <2>1, <2>3, <2>5, <3>1, <3>2 DEF AtInv
      <3> QED  BY <2>3, <3>3 DEF IInv
    <2> QED  BY <2>3, <2>4, <2>5
  <1> QED  BY <1>1, <1>2 DEF commitBatchCommand

\* Where a preparation can stand.
PrepAt(l) == /\ at' = l /\ lease' = lease /\ seen' = seen
             /\ UNCHANGED txn /\ Readable' /\ Newest'.phase \in Preparing /\ Newest'.pkgs = Newest.pkgs
             /\ Other' \notin Record \/ Other'.phase \notin phaseTerminal

\* A preparation that goes on keeps what is claimed of it.
LEMMA PrepGoesOn ==
    ASSUME IInv, at \in {"plan", "progress", "bind"}, NEW l \in {"progress", "bind", "restore"},
           PrepAt(l), l # "restore" => ~Open(txn)
    PROVE  AtInv'
  BY DEF IInv, AtInv, PrepAt, Open

\* COMMIT plans and stages its packages.
LEMMA PlanInv == ASSUME IInv, Plan \/ Progress PROVE IInv'
  <1>1. at \in {"plan", "progress"} /\ Readable /\ Newest.phase \in Preparing
        /\ (Other \notin Record \/ Other.phase \notin phaseTerminal)
    BY DEF Plan, Progress, IInv, AtInv
  <1>2. ASSUME NEW l \in {"progress", "bind"}, ~Open(txn), WritePhase("staging", l, "restore")
        PROVE  IInv'
    <2>1. /\ TypeOK' /\ HolderInv' /\ JournalsInv' /\ UNCHANGED <<txn, installed, active>>
          /\ Readable' /\ Newest'.phase \in Preparing /\ Newest'.pkgs = Newest.pkgs
          /\ \/ (Led(l) \/ Led("restore")) /\ (Other' \notin Record \/ Other'.phase \notin phaseTerminal)
             \/ Led("restore") /\ (Other' = Other \/ Other' \notin Record)
      BY <1>1, <1>2, PrepWrite DEF Preparing, Labels
    <2>2. PrepAt(l) \/ PrepAt("restore")
      BY <1>1, <2>1 DEF PrepAt, Led, Stops
    <2>3. AtInv'
      BY <1>1, <1>2, <2>2, PrepGoesOn
    <2> QED  BY <2>1, <2>3 DEF IInv
  <1>3. CASE Turn("restore")
    <2>1. /\ TypeOK' /\ HolderInv' /\ UNCHANGED <<slot, newest, txn, installed, active>> /\ Led("restore")
      BY <1>3, TurnEffect DEF IInv, Labels
    <2>2. PrepAt("restore")
      BY <1>1, <2>1 DEF PrepAt, Led, Stops, Readable, Newest, Other
    <2> QED  BY <1>1, <2>1, <2>2, PrepGoesOn, SameJournals DEF IInv
  <1>4. CASE Goto("restore") /\ Fault /\ UNCHANGED <<batch, txn, installed, active>>
    <2>1. UNCHANGED <<slot, newest, txn, installed, active>> /\ Led("restore") /\ HolderInv'
      BY <1>4, GotoEffect DEF IInv, Labels, batch
    <2>2. TypeOK'
      BY <1>4, <2>1, GotoEffect, FaultType DEF IInv, TypeOK, Labels
    <2>3. PrepAt("restore")
      BY <1>1, <2>1 DEF PrepAt, Led, Stops, Readable, Newest, Other
    <2> QED  BY <1>1, <2>1, <2>2, <2>3, PrepGoesOn, SameJournals DEF IInv
  <1> QED  BY <1>1, <1>2, <1>3, <1>4 DEF Plan, Progress, IInv, AtInv

\* COMMIT binds its packages into one transaction.
LEMMA BindInv == ASSUME IInv, Bind PROVE IInv'
  <1>1. /\ lease \in Procs /\ Readable /\ Newest.phase \in Preparing /\ ~Open(txn)
        /\ Other \notin Record \/ Other.phase \notin phaseTerminal
    BY DEF Bind, IInv, AtInv
  <1>2. Bound \in Transaction /\ Newest.pkgs \subseteq Pkgs
    BY <1>1 DEF Bound, Transaction, Readable, Record
  <1>3. /\ TypeOK' /\ HolderInv' /\ UNCHANGED <<slot, newest, installed, active>>
        /\ \/ txn' = Bound /\ (Led("committing") \/ Led("restore"))
           \/ txn' = txn /\ Led("restore")
    BY <1>2, PersistEffect DEF Bind, IInv, Labels
  <1>4. Newest' = Newest /\ Readable' = Readable /\ Other' = Other
    BY <1>3 DEF Newest, Readable, Other
  <1>5. JournalsInv'
    <2>1. CASE txn' = txn
      BY <1>3, <2>1, SameJournals
    <2>2. CASE txn' = Bound
      <3>1. /\ txn'.batch /\ txn'.phase = "stage" /\ txn'.pkgs = Newest.pkgs /\ txn'.id = Newest.id
            /\ ~txn'.marked /\ txn'.done = {} /\ txn'.changed = Newest.pkgs \ installed
        BY <2>2 DEF Bound
      <3>2. TxnOk(txn)'
        BY <1>2, <1>3, <3>1, BatchAssumption DEF TxnOk, Payloads
      <3>3. NewestOk(txn')
        BY <1>1, <3>1 DEF NewestOk, Preparing, Underway, phaseTerminal
      <3>4. OtherOk(txn')
        BY <1>1, <3>1 DEF OtherOk, IInv, JournalsInv
      <3> QED  BY <1>3, <3>2, <3>3, <3>4, TxnJournals
    <2> QED  BY <1>3, <2>1, <2>2
  <1>6. AtInv'
    <2>1. CASE Led("committing") /\ txn' = Bound
      <3>1. at' = "committing"
        BY <2>1 DEF Led, Stops
      <3>2. OwnNow' /\ txn'.phase = "stage"
        BY <1>1, <1>4, <2>1 DEF OwnNow, For, Bound, Preparing, phaseTerminal
      <3> QED  BY <3>1, <3>2 DEF AtInv
    <2>2. CASE Led("restore")
      <3>1. at' = "restore" /\ lease' = lease
        BY <2>2 DEF Led, Stops
      <3> QED  BY <1>1, <1>4, <3>1 DEF AtInv
    <2> QED  BY <1>3, <2>1, <2>2
  <1> QED  BY <1>3, <1>5, <1>6 DEF IInv

\* COMMIT gives a preparation back.
LEMMA RestoreInv == ASSUME IInv, restoreRetryableBatchPreparation \/ Restage PROVE IInv'
  <1>1. Readable /\ Newest.phase \in Preparing
    BY DEF restoreRetryableBatchPreparation, Restage, IInv, AtInv
  <1>2. CASE WritePhase("staged", "none", "none")
    BY <1>1, <1>2, PrepWrite, Stopped DEF IInv, Preparing, Labels
  <1>3. CASE WritePhase("staged", "again", "none")
    BY <1>1, <1>3, PrepWrite, Stopped DEF IInv, Preparing, Labels
  <1> QED  BY <1>2, <1>3 DEF restoreRetryableBatchPreparation, Restage

\* The phases of a batch that has its transaction.
LEMMA PhaseInv ==
    ASSUME IInv, Committing \/ Pending \/ StartRollback \/ Verdict \/ Failed \/ Install
    PROVE  IInv'
  <1>1. OwnNow
    BY DEF IInv, AtInv, Committing, Pending, StartRollback, Verdict, Failed, Install
  <1>0. /\ "committing" \in (Phases \ Preparing) \ phaseTerminal
        /\ "pending_restart" \in Phases \ Preparing
        /\ "rolling_back" \in (Phases \ Preparing) \ phaseTerminal
        /\ {"forward", "reboot", "undo", "none"} \subseteq Labels
    BY DEF Phases, Preparing, phaseTerminal, Labels
  <1>2. CASE Committing
    <2>1. /\ TypeOK' /\ HolderInv' /\ JournalsInv' /\ UNCHANGED txn /\ OwnNow'
          /\ Led("forward") \/ Led("none")
      BY <1>0, <1>1, <1>2, OwnWrite DEF Committing
    <2>2. ASSUME Led("forward") PROVE AtInv'
      <3>1. at' = "forward"
        BY <2>2 DEF Led, Stops
      <3> QED  BY <1>2, <2>1, <3>1 DEF AtInv, IInv, Committing
    <2> QED  BY <2>1, <2>2, Stopped DEF IInv
  <1>3. CASE Pending
    <2>1. /\ TypeOK' /\ HolderInv' /\ JournalsInv'
          /\ Led("reboot") \/ Led("none")
      BY <1>0, <1>1, <1>3, OwnWrite DEF Pending
    <2> QED  BY <2>1, AtFree, Stopped DEF IInv, Led, Stops
  <1>4. CASE StartRollback
    <2>1. /\ TypeOK' /\ HolderInv' /\ JournalsInv' /\ UNCHANGED txn /\ OwnNow' /\ Led("undo")
      BY <1>0, <1>1, <1>4, OwnWrite DEF StartRollback
    <2>2. at' = "undo"
      BY <2>1 DEF Led, Stops
    <2>3. AtInv'
      BY <1>4, <2>1, <2>2 DEF AtInv, IInv, StartRollback
    <2> QED  BY <2>1, <2>3 DEF IInv
  <1>5. CASE Verdict
    <2>1. txn.phase = "rolled_back"
      BY <1>5 DEF Verdict, IInv, AtInv
    <2> QED  BY <1>1, <1>5, <2>1, OwnWrite, Stopped DEF Verdict, Phases, Preparing, phaseTerminal,
                                                       Labels, IInv
  <1>6. CASE Failed
    BY <1>1, <1>6, OwnWrite, Stopped DEF Failed, Phases, Preparing, Labels, IInv
  <1>7. CASE Install
    <2>1. txn.phase = "cleanup"
      BY <1>7 DEF Install, IInv, AtInv
    <2> QED  BY <1>1, <1>7, <2>1, OwnWrite, Stopped DEF Install, Phases, Preparing, phaseTerminal,
                                                       Labels, IInv
  <1> QED  BY <1>2, <1>3, <1>4, <1>5, <1>6, <1>7

\* Whoever carries a transaction forward or back serves a batch.
LEMMA Serves ==
    ASSUME IInv, at \in Forwarding \cup Undoing
    PROVE  /\ Serving /\ (at \notin {"bootForward", "bootUndo"} => OwnNow)
           /\ at \in Forwarding => txn.phase \in {"stage", "commit"}
           /\ at \in Undoing => txn.phase \in {"commit", "rollback"}
           /\ at = "markForward" => txn.phase = "commit" /\ txn.marked
  <1>1. CASE at \in {"forward", "markForward", "undo"}
    BY <1>1 DEF IInv, AtInv, OwnNow, Serving, For, Forwarding, Undoing
  <1>2. CASE at \in {"bootForward", "bootUndo"}
    <2>1. /\ txn.batch /\ (at = "bootForward" => txn.phase \in {"stage", "commit"})
          /\ at = "bootUndo" => txn.phase \in {"commit", "rollback"}
      BY <1>2 DEF IInv, AtInv
    <2>2. Open(txn)
      BY <1>2, <2>1 DEF Open
    <2> QED  BY <1>2, <2>1, <2>2, OpenServes DEF Forwarding, Undoing
  <1> QED  BY <1>1, <1>2 DEF Forwarding, Undoing

\* A transaction that goes forward stays where it is.
LEMMA StillForward ==
    ASSUME IInv, at \in Forwarding, at' = at, txn'.batch, txn'.phase = "commit",
           txn'.marked = txn.marked, OwnNow => OwnNow'
    PROVE  AtInv'
  BY Serves DEF AtInv, Forwarding

\* A transaction that goes back stays where it is.
LEMMA StillUndoing ==
    ASSUME IInv, at \in Undoing, at' = at, txn'.batch, txn'.phase \in {"commit", "rollback"},
           OwnNow => OwnNow'
    PROVE  AtInv'
  BY Serves DEF AtInv, Undoing

\* A transaction is begun, and counts its payloads.
LEMMA ForwardInv == ASSUME IInv, Enter \/ Committed PROVE IInv'
  <1>1. at \in Forwarding /\ at \in Labels \cup {"again"}
    BY DEF Enter, Committed, Forwarding, Labels
  <1>2. /\ Serving /\ (at \notin {"bootForward", "bootUndo"} => OwnNow)
        /\ at = "markForward" => txn.phase = "commit"
    BY <1>1, Serves
  <1>3. ASSUME NEW t \in Transaction, t.batch, t.id = txn.id, t.pkgs = txn.pkgs,
               t.source = txn.source, t.marked = txn.marked, t.phase = "commit", TxnOk(t),
               persist(t, at, "none")
        PROVE  IInv'
    <2>1. /\ TypeOK' /\ HolderInv' /\ JournalsInv'
          /\ (txn' = t /\ Led(at)) \/ Led("none")
          /\ OwnNow => OwnNow'
      BY <1>1, <1>2, <1>3, ServingPersist DEF Labels
    <2>2. CASE txn' = t /\ Led(at)
      <3>1. at' = at
        BY <1>1, <2>2 DEF Led, Stops, Forwarding
      <3> QED  BY <1>1, <1>3, <2>1, <2>2, <3>1, StillForward DEF IInv
    <2> QED  BY <2>1, <2>2, Stopped DEF IInv
  <1>4. txn \in Transaction /\ txn.batch /\ TxnOk(txn)
    BY <1>2 DEF IInv, TypeOK, JournalsInv, Serving
  <1>5. CASE Enter
    <2> DEFINE t == [txn EXCEPT !.phase = "commit"]
    <2>1. /\ t \in Transaction /\ t.batch /\ t.id = txn.id /\ t.pkgs = txn.pkgs /\ t.done = txn.done
          /\ t.source = txn.source /\ t.marked = txn.marked /\ t.phase = "commit"
          /\ t.changed = txn.changed /\ txn.phase = "stage"
      BY <1>4, <1>5 DEF Transaction, Enter
    <2>2. persist(t, at, "none")
      BY <1>5 DEF Enter
    <2> HIDE DEF t
    <2>3. TxnOk(t)
      BY <1>4, <2>1 DEF TxnOk, Payloads
    <2> QED  BY <1>3, <2>1, <2>2, <2>3
  <1>6. CASE Committed
    <2>1. PICK x \in installed : MayCommit(x)
                                 /\ persist([txn EXCEPT !.done = @ \cup {x}], at, "none")
      BY <1>6 DEF Committed
    <2> DEFINE t == [txn EXCEPT !.done = @ \cup {x}]
    <2>2. /\ t \in Transaction /\ t.batch /\ t.id = txn.id /\ t.pkgs = txn.pkgs
          /\ t.done = txn.done \cup {x}
          /\ t.source = txn.source /\ t.marked = txn.marked /\ t.phase = "commit"
          /\ t.changed = txn.changed /\ txn.phase = "commit"
      BY <1>4, <1>6 DEF Transaction, Committed, IInv, TypeOK
    <2> HIDE DEF t
    <2>3. TxnOk(t)
      BY <1>4, <2>1, <2>2 DEF TxnOk, Payloads
    <2> QED  BY <1>3, <2>1, <2>2, <2>3 DEF t
  <1> QED  BY <1>5, <1>6

\* All payloads are committed.
LEMMA PostBootInv == ASSUME IInv, PostBoot PROVE IInv'
  <1>1. at \in Forwarding /\ ForwardEnd \in {"pending", "applied", "none"}
        /\ (at = "forward" => ForwardEnd = "pending")
        /\ (at = "markForward" => ForwardEnd = "applied")
        /\ (at = "bootForward" => ForwardEnd = "none")
    BY DEF PostBoot, ForwardEnd, Forwarding
  <1>2. /\ Serving /\ (at \notin {"bootForward", "bootUndo"} => OwnNow)
        /\ at = "markForward" => txn.marked
    BY <1>1, Serves
  <1> DEFINE t == [txn EXCEPT !.phase = "post_boot"]
  <1>3. txn \in Transaction /\ txn.batch /\ TxnOk(txn)
    BY <1>2 DEF IInv, TypeOK, JournalsInv, Serving
  <1>4. /\ t \in Transaction /\ t.batch /\ t.id = txn.id /\ t.pkgs = txn.pkgs /\ t.done = Payloads(txn)
        /\ t.source = txn.source /\ t.marked = txn.marked /\ t.phase = "post_boot"
        /\ t.changed = txn.changed /\ txn.phase = "commit" /\ txn.done = t.done
    BY <1>3 DEF Transaction, PostBoot
  <1> HIDE DEF t
  <1>5. TxnOk(t)
    BY <1>3, <1>4 DEF TxnOk, Payloads
  <1>6. /\ TypeOK' /\ HolderInv' /\ JournalsInv'
        /\ (txn' = t /\ Led(ForwardEnd)) \/ Led("none")
        /\ OwnNow => OwnNow'
    BY <1>1, <1>2, <1>4, <1>5, ServingPersist DEF PostBoot, t, Labels
  <1>7. CASE txn' = t /\ Led(ForwardEnd) /\ ForwardEnd # "none"
    <2>1. at' = ForwardEnd /\ at \in {"forward", "markForward"}
      BY <1>1, <1>7 DEF Led, Stops, Forwarding
    <2>2. OwnNow' /\ txn'.phase = "post_boot"
      BY <1>2, <1>4, <1>6, <1>7, <2>1
    <2>3. AtInv'
      BY <1>1, <1>2, <1>4, <1>7, <2>1, <2>2 DEF AtInv
    <2> QED  BY <1>6, <2>3 DEF IInv
  <1> QED  BY <1>6, <1>7, Stopped DEF IInv

\* A payload is renamed into place.
LEMMA CommitInv == ASSUME IInv, commitPayload PROVE IInv'
  <1>1. PICK x \in Pkgs \cup {Ver} : MayCommit(x) /\ x \notin installed
                                     /\ installed' = installed \cup {x}
    BY DEF commitPayload
  <1>2. at \in Forwarding /\ txn.phase = "commit" /\ UNCHANGED <<slot, newest, txn, active>>
        /\ UNCHANGED <<lease, at, pc, seen, faults>>
    BY DEF commitPayload, batch, procs
  <1>3. Serving
    BY <1>2, Serves
  <1>4. TxnOk(txn) /\ txn.batch /\ txn \in Transaction
    BY <1>3 DEF IInv, JournalsInv, TypeOK, Serving
  <1>5. TypeOK' /\ HolderInv'
    BY <1>1, <1>2 DEF IInv, TypeOK, HolderInv
  <1>6. TxnOk(txn)'
    <2>1. x = Ver => txn.pkgs \subseteq txn.done
      BY <1>1 DEF MayCommit
    <2>2. txn.done \subseteq installed
      BY <1>2, <1>4 DEF TxnOk
    <2> QED  BY <1>1, <1>2, <1>4, <2>1, <2>2 DEF TxnOk, Payloads
  <1>7. JournalsInv'
    BY <1>2, <1>3, <1>6, ServingJournals DEF Serving
  <1>8. OwnNow => OwnNow'
    BY <1>2 DEF OwnNow, For, Readable, Newest
  <1>9. AtInv'
    BY <1>2, <1>4, <1>8, StillForward
  <1> QED  BY <1>5, <1>7, <1>9 DEF IInv

\* A payload is found in neither state.
LEMMA ConflictInv == ASSUME IInv, Conflict \/ UndoConflict PROVE IInv'
  <1>1. PICK l \in {"undoing", "bootUndo", "failed", "none"} :
           /\ Goto(l)
           /\ l = "undoing" => at = "forward" /\ txn.phase = "commit"
           /\ l = "bootUndo" => at = "bootForward" /\ txn.phase = "commit"
           /\ l = "failed" => at = "undo"
    BY DEF Conflict, UndoConflict, Forwarding, Undoing, UndoFailed
  <1>2. Fault /\ UNCHANGED <<slot, newest, txn, installed, active>>
    BY DEF Conflict, UndoConflict, batch
  <1>3. HolderInv' /\ Led(l) /\ TypeOK'
    <2>1. /\ lease' \in Procs \cup {Nobody, Recovery} /\ at' \in Labels
          /\ pc' \in [Procs -> {"idle", "stage", "verified", "commit", "again", "holding"}]
          /\ seen' \in [Procs -> Record \cup {Absent}]
          /\ HolderInv' /\ Led(l)
      BY <1>1, GotoEffect DEF IInv, Labels
    <2>2. faults' \in 0 .. MaxFaults
      BY <1>2, FaultType DEF IInv
    <2> QED  BY <1>2, <2>1, <2>2 DEF IInv, TypeOK
  <1>4. at \in Forwarding \cup Undoing => OwnNow \/ at \in {"bootForward", "bootUndo"}
    BY Serves
  <1>5. OwnNow => OwnNow'
    BY <1>2 DEF OwnNow, For, Readable, Newest
  <1>6. AtInv'
    <2>1. CASE l = "none"
      BY <1>3, <2>1, Stopped
    <2>2. CASE l \in {"undoing", "failed"}
      <3>1. at' = l
        BY <1>3, <2>2 DEF Led, Stops
      <3>2. OwnNow' /\ (l = "undoing" => txn'.phase = "commit")
        BY <1>1, <1>2, <1>4, <1>5, <2>2 DEF Forwarding, Undoing
      <3> QED  BY <2>2, <3>1, <3>2 DEF AtInv
    <2>3. CASE l = "bootUndo"
      <3>1. at' = l
        BY <1>3, <2>3 DEF Led, Stops
      <3>2. txn'.batch /\ txn'.phase = "commit"
        BY <1>1, <1>2, <2>3, Serves DEF Forwarding, Serving
      <3> QED  BY <2>3, <3>1, <3>2 DEF AtInv
    <2> QED  BY <2>1, <2>2, <2>3
  <1> QED  BY <1>2, <1>3, <1>6, SameJournals DEF IInv

\* A payload is restored, in its order.
LEMMA UndoInv == ASSUME IInv, rollbackPayload PROVE IInv'
  <1>1. PICK x \in txn.changed \cap installed :
           /\ x = Ver \/ Ver \notin txn.done \cup (txn.changed \cap installed)
           /\ installed' = installed \ {x}
    BY DEF rollbackPayload
  <1>2. at \in Undoing /\ txn.phase = "rollback" /\ UNCHANGED <<slot, newest, txn, active>>
        /\ UNCHANGED <<lease, at, pc, seen, faults>>
    BY DEF rollbackPayload, batch, procs
  <1>3. Serving
    BY <1>2, Serves
  <1>4. TxnOk(txn) /\ txn.batch
    BY <1>3 DEF IInv, JournalsInv, Serving
  <1>5. TypeOK' /\ HolderInv'
    BY <1>1, <1>2 DEF IInv, TypeOK, HolderInv
  <1>6. TxnOk(txn)'
    BY <1>1, <1>2, <1>4 DEF TxnOk, Payloads
  <1>7. JournalsInv'
    BY <1>2, <1>3, <1>6, ServingJournals DEF Serving
  <1>8. OwnNow => OwnNow'
    BY <1>2 DEF OwnNow, For, Readable, Newest
  <1>9. AtInv'
    BY <1>2, <1>4, <1>8, StillUndoing
  <1> QED  BY <1>5, <1>7, <1>9 DEF IInv

\* A transaction turns round, discounts its payloads, and ends.
LEMMA BackwardInv == ASSUME IInv, StartUndo \/ Undone \/ RolledBack PROVE IInv'
  <1>1. at \in Undoing /\ UndoFailed \in {"failed", "none"} /\ UndoEnd \in {"verdict", "none"}
        /\ (at = "bootUndo" => UndoFailed = "none" /\ UndoEnd = "none")
    BY DEF StartUndo, Undone, RolledBack, UndoFailed, UndoEnd, Undoing
  <1>2. Serving /\ (at # "bootUndo" => OwnNow)
    BY <1>1, Serves DEF Undoing
  <1>3. txn \in Transaction /\ txn.batch /\ TxnOk(txn)
    BY <1>2 DEF IInv, TypeOK, JournalsInv, Serving
  <1>4. ASSUME NEW t \in Transaction, t.batch, t.id = txn.id, t.pkgs = txn.pkgs,
               t.source = txn.source, TxnOk(t), NEW l \in {at, UndoEnd},
               persist(t, l, UndoFailed),
               l = at => t.phase = "rollback",
               l # at => t.phase = "rolled_back"
        PROVE  IInv'
    <2>1. l \in Labels \cup {"again"} /\ UndoFailed \in Labels \cup {"again"}
      BY <1>1, <1>4 DEF Labels, Undoing
    <2>2. /\ TypeOK' /\ HolderInv' /\ JournalsInv'
          /\ (txn' = t /\ Led(l)) \/ Led(UndoFailed)
          /\ OwnNow => OwnNow'
      BY <1>2, <1>4, <2>1, ServingPersist
    <2>3. CASE Led(UndoFailed)
      <3>1. CASE UndoFailed = "failed"
        <4>1. at' = "failed" /\ OwnNow'
          BY <1>1, <1>2, <2>2, <2>3, <3>1 DEF Led, Stops
        <4> QED  BY <2>2, <4>1 DEF IInv, AtInv
      <3>2. CASE UndoFailed = "none"
        BY <2>2, <2>3, <3>2, Stopped DEF IInv
      <3> QED  BY <1>1, <3>1, <3>2
    <2>4. CASE txn' = t /\ Led(l) /\ l = at
      <3>1. at' = at
        BY <1>1, <2>4 DEF Led, Stops, Undoing
      <3> QED  BY <1>1, <1>4, <2>2, <2>4, <3>1, StillUndoing DEF IInv
    <2>5. CASE txn' = t /\ Led(l) /\ l = UndoEnd /\ l # at
      <3>1. CASE UndoEnd = "verdict"
        <4>1. at' = "verdict" /\ OwnNow' /\ txn'.phase = "rolled_back"
          BY <1>1, <1>2, <1>4, <2>2, <2>5, <3>1 DEF Led, Stops
        <4> QED  BY <2>2, <4>1 DEF IInv, AtInv
      <3>2. CASE UndoEnd = "none"
        BY <2>2, <2>5, <3>2, Stopped DEF IInv
      <3> QED  BY <1>1, <3>1, <3>2
    <2> QED  BY <1>4, <2>2, <2>3, <2>4, <2>5
  <1>5. CASE StartUndo
    <2> DEFINE t == [txn EXCEPT !.phase = "rollback"]
    <2>1. /\ t \in Transaction /\ t.batch /\ t.id = txn.id /\ t.pkgs = txn.pkgs /\ t.done = txn.done
          /\ t.source = txn.source /\ t.marked = txn.marked /\ t.phase = "rollback"
          /\ t.changed = txn.changed
      BY <1>3 DEF Transaction
    <2>2. persist(t, at, UndoFailed)
      BY <1>5 DEF StartUndo
    <2> HIDE DEF t
    <2>3. TxnOk(t)
      BY <1>3, <2>1 DEF TxnOk, Payloads
    <2> QED  BY <1>4, <2>1, <2>2, <2>3
  <1>6. CASE Undone
    <2>1. PICK x \in txn.done \ (txn.changed \cap installed) :
             persist([txn EXCEPT !.done = @ \ {x}], at, UndoFailed)
      BY <1>6 DEF Undone
    <2> DEFINE t == [txn EXCEPT !.done = @ \ {x}]
    <2>2. /\ t \in Transaction /\ t.batch /\ t.id = txn.id /\ t.pkgs = txn.pkgs
          /\ t.source = txn.source /\ t.marked = txn.marked /\ t.phase = "rollback"
          /\ t.changed = txn.changed
      BY <1>3, <1>6 DEF Transaction, Undone
    <2> HIDE DEF t
    <2>3. TxnOk(t)
      BY <1>3, <2>2 DEF TxnOk, Payloads
    <2> QED  BY <1>4, <2>1, <2>2, <2>3 DEF t
  <1>7. CASE RolledBack
    <2> DEFINE t == [txn EXCEPT !.phase = "rolled_back"]
    <2>1. /\ t \in Transaction /\ t.batch /\ t.id = txn.id /\ t.pkgs = txn.pkgs
          /\ t.source = txn.source /\ t.marked = txn.marked /\ t.phase = "rolled_back"
          /\ t.changed = txn.changed /\ txn.changed \cap installed = {}
      BY <1>3, <1>7 DEF Transaction, RolledBack
    <2>2. persist(t, UndoEnd, UndoFailed)
      BY <1>7 DEF RolledBack
    <2>3. UndoEnd # at
      BY <1>1 DEF Undoing
    <2> HIDE DEF t
    <2>4. TxnOk(t)
      BY <1>3, <2>1 DEF TxnOk, Payloads
    <2> QED  BY <1>4, <2>1, <2>2, <2>3, <2>4
  <1> QED  BY <1>5, <1>6, <1>7

\* RESUME-BATCH finds where a batch with a transaction of its own stands.
LEMMA DispatchInv == ASSUME IInv, resumeBatchCommand PROVE IInv'
  <1>1. Readable /\ Newest.phase \notin phaseTerminal /\ Newest \in Record /\ txn \in Transaction
    BY DEF resumeBatchCommand, IInv, AtInv, Readable, TypeOK
  <1>2. CASE Newest.phase \in Preparing /\ ~Open(txn)
    <2>1. /\ TypeOK' /\ HolderInv' /\ UNCHANGED <<slot, newest, txn, installed, active>>
          /\ Led("restage")
      BY <1>2, TurnEffect DEF resumeBatchCommand, IInv, Labels
    <2>2. at' = "restage" /\ ~Open(txn)' /\ Readable' /\ Newest'.phase \in Preparing
      BY <1>1, <1>2, <2>1 DEF Led, Stops, Open, Readable, Newest
    <2>3. AtInv'
      BY <2>2 DEF AtInv
    <2> QED  BY <2>1, <2>3, SameJournals DEF IInv
  <1>3. CASE ~(Newest.phase \in Preparing /\ ~Open(txn)) /\ txn.batch /\ lastGoodBatchMatches
    <2>1. OwnNow
      <3>1. txn.id = Newest.id
        <4>1. CASE Newest.phase \in Underway
          BY <1>1, <4>1 DEF IInv, JournalsInv, NewestOk, For
        <4>2. CASE Open(txn)
          BY <1>3, <4>2, OpenServes DEF Serving
        <4> QED  BY <1>1, <1>3, <4>1, <4>2 DEF Record, Phases, Underway
      <3> QED  BY <1>1, <1>3, <3>1 DEF OwnNow, For, lastGoodBatchMatches
    <2>2. PICK l \in {"none", "committing", "finalize", "cleanup", "verdict", "installed"} :
             /\ Turn(l)
             /\ l = "committing" => txn.phase \in {"stage", "commit"}
             /\ l = "finalize" => txn.phase = "post_boot"
             /\ l = "cleanup" => txn.phase = "applied"
             /\ l = "verdict" => txn.phase = "rolled_back"
             /\ l = "installed" => txn.phase = "cleanup"
      <3>1. Turn(ResumeAt)
        BY <1>3 DEF resumeBatchCommand
      <3> HIDE DEF Turn
      <3> QED  BY <3>1 DEF ResumeAt
    <2>3. /\ TypeOK' /\ HolderInv' /\ UNCHANGED <<slot, newest, txn, installed, active>>
          /\ Led(l)
      BY <2>2, TurnEffect DEF IInv, Labels
    <2>4. OwnNow'
      BY <2>1, <2>3 DEF OwnNow, For, Readable, Newest
    <2>5. CASE l = "none"
      BY <2>3, <2>5, Stopped, SameJournals DEF IInv
    <2>6. CASE l # "none"
      <3>1. at' = l
        BY <2>3, <2>6 DEF Led, Stops
      <3>2. AtInv'
        BY <2>2, <2>3, <2>4, <2>6, <3>1 DEF AtInv
      <3> QED  BY <2>3, <3>2, SameJournals DEF IInv
    <2> QED  BY <2>5, <2>6
  <1>4. CASE ~(Newest.phase \in Preparing /\ ~Open(txn)) /\ ~(txn.batch /\ lastGoodBatchMatches)
    <2>1. Turn("none")
      BY <1>4 DEF resumeBatchCommand
    <2> QED  BY <2>1, TurnEffect, Stopped, SameJournals DEF IInv, Labels
  <1> QED  BY <1>2, <1>3, <1>4

\* RESUME-BATCH gives the running release its verdict.
LEMMA FinalizeInv == ASSUME IInv, finalizeBatchPostBoot PROVE IInv'
  <1>1. OwnNow /\ txn.phase = "post_boot"
    BY DEF finalizeBatchPostBoot, IInv, AtInv
  <1>2. PICK l \in {"none", "applied", "mark"} :
           /\ Turn(l)
           /\ l # "none" => PostBootVerified
           /\ l = "applied" => txn.marked
           /\ l = "mark" => ~txn.marked
    <2>1. CASE ~PostBootVerified
      BY <2>1 DEF finalizeBatchPostBoot
    <2>2. CASE PostBootVerified /\ txn.marked
      BY <2>2 DEF finalizeBatchPostBoot
    <2>3. CASE PostBootVerified /\ ~txn.marked
      BY <2>3 DEF finalizeBatchPostBoot
    <2> QED  BY <2>1, <2>2, <2>3
  <1>3. /\ TypeOK' /\ HolderInv' /\ UNCHANGED <<slot, newest, txn, installed, active>>
        /\ Led(l)
    BY <1>2, TurnEffect DEF IInv, Labels
  <1>4. OwnNow'
    BY <1>1, <1>3 DEF OwnNow, For, Readable, Newest
  <1>5. CASE l = "none"
    BY <1>3, <1>5, Stopped, SameJournals DEF IInv
  <1>6. CASE l # "none"
    <2>1. at' = l
      BY <1>3, <1>6 DEF Led, Stops
    <2>2. Kernel \in txn.pkgs => active
      BY <1>2, <1>6 DEF PostBootVerified
    <2>3. AtInv'
      BY <1>1, <1>2, <1>3, <1>4, <1>6, <2>1, <2>2 DEF AtInv
    <2> QED  BY <1>3, <2>3, SameJournals DEF IInv
  <1> QED  BY <1>5, <1>6

\* The release marker is bound.
LEMMA MarkInv == ASSUME IInv, Mark PROVE IInv'
  <1> DEFINE t == [txn EXCEPT !.phase = "commit", !.marked = TRUE,
                              !.changed = @ \cup ({Ver} \ installed)]
  <1>1. /\ OwnNow /\ txn.phase = "post_boot" /\ ~txn.marked
        /\ Kernel \in txn.pkgs => active
    BY DEF Mark, IInv, AtInv
  <1>2. txn \in Transaction /\ txn.batch /\ TxnOk(txn) /\ Serving
    BY <1>1 DEF IInv, TypeOK, JournalsInv, OwnNow, For, Serving
  <1>3. /\ t \in Transaction /\ t.batch /\ t.id = txn.id /\ t.pkgs = txn.pkgs
        /\ t.source = txn.source /\ t.marked /\ t.phase = "commit" /\ t.done = txn.done
        /\ t.changed = txn.changed \cup ({Ver} \ installed) /\ txn.pkgs \subseteq Pkgs
    BY <1>2 DEF Transaction
  <1>4. persist(t, "markForward", "none")
    BY DEF Mark
  <1> HIDE DEF t
  <1>5. TxnOk(t)
    <2>1. txn.done = txn.pkgs /\ txn.changed \subseteq txn.pkgs /\ txn.done \subseteq installed
      BY <1>1, <1>2 DEF TxnOk, Payloads
    <2> QED  BY <1>1, <1>3, <2>1, BatchAssumption DEF TxnOk, Payloads
  <1>6. /\ TypeOK' /\ HolderInv' /\ JournalsInv'
        /\ (txn' = t /\ Led("markForward")) \/ Led("none")
        /\ OwnNow'
    BY <1>1, <1>2, <1>3, <1>4, <1>5, ServingPersist DEF Labels
  <1>7. CASE txn' = t /\ Led("markForward")
    <2>1. at' = "markForward"
      BY <1>7 DEF Led, Stops
    <2>2. AtInv'
      BY <1>3, <1>6, <1>7, <2>1 DEF AtInv
    <2> QED  BY <1>6, <2>2 DEF IInv
  <1> QED  BY <1>6, <1>7, Stopped DEF IInv

\* The transaction is applied, then cleaned up.
LEMMA AppliedInv == ASSUME IInv, Applied \/ cleanupTransaction PROVE IInv'
  <1>1. ASSUME NEW ph \in {"applied", "cleanup"}, NEW l \in {"cleanup", "installed", "none"},
               Serving, l # "none" => OwnNow, txn.marked,
               txn.phase \in {"post_boot", "applied"},
               l = "cleanup" => ph = "applied", l = "installed" => ph = "cleanup",
               persist([txn EXCEPT !.phase = ph], l, "none")
        PROVE  IInv'
    <2> DEFINE t == [txn EXCEPT !.phase = ph]
    <2>1. txn \in Transaction /\ txn.batch /\ TxnOk(txn)
      BY <1>1 DEF IInv, TypeOK, JournalsInv, Serving
    <2>2. /\ t \in Transaction /\ t.batch /\ t.id = txn.id /\ t.pkgs = txn.pkgs
          /\ t.source = txn.source /\ t.marked /\ t.phase = ph /\ t.done = txn.done
          /\ t.changed = txn.changed
      BY <1>1, <2>1 DEF Transaction
    <2>3. persist(t, l, "none")
      BY <1>1
    <2> HIDE DEF t
    <2>4. TxnOk(t)
      BY <1>1, <2>1, <2>2 DEF TxnOk, Payloads
    <2>5. /\ TypeOK' /\ HolderInv' /\ JournalsInv'
          /\ (txn' = t /\ Led(l)) \/ Led("none")
          /\ OwnNow => OwnNow'
      BY <1>1, <2>1, <2>2, <2>3, <2>4, ServingPersist DEF Labels
    <2>6. CASE txn' = t /\ Led(l) /\ l # "none"
      <3>1. at' = l
        BY <1>1, <2>6 DEF Led, Stops
      <3>2. AtInv'
        BY <1>1, <2>2, <2>5, <2>6, <3>1 DEF AtInv
      <3> QED  BY <2>5, <3>2 DEF IInv
    <2> QED  BY <2>5, <2>6, Stopped DEF IInv
  <1>2. CASE Applied
    <2>1. OwnNow /\ txn.marked /\ txn.phase = "post_boot"
      BY <1>2 DEF Applied, IInv, AtInv
    <2> QED  BY <1>1, <1>2, <2>1 DEF Applied, OwnNow, For, Serving
  <1>3. CASE cleanupTransaction /\ at = "cleanup"
    <2>1. OwnNow /\ txn.phase = "applied"
      BY <1>3 DEF IInv, AtInv
    <2>2. Serving /\ txn.marked
      BY <2>1 DEF OwnNow, For, Serving, IInv, JournalsInv, TxnOk
    <2> QED  BY <1>1, <1>3, <2>1, <2>2 DEF cleanupTransaction
  <1>4. CASE cleanupTransaction /\ at = "bootCleanup"
    <2>1. txn.batch /\ txn.phase = "applied"
      BY <1>4 DEF IInv, AtInv
    <2>2. Serving /\ txn.marked
      BY <2>1, OpenServes DEF Open, IInv, JournalsInv, TxnOk
    <2>3. persist([txn EXCEPT !.phase = "cleanup"], "none", "none")
      BY <1>4 DEF cleanupTransaction
    <2> QED  BY <1>1, <2>1, <2>2, <2>3
  <1> QED  BY <1>2, <1>3, <1>4 DEF cleanupTransaction

\* ROLLBACK-LAST decides under the lease.
LEMMA RollbackInv == ASSUME IInv, rollbackLastCommand PROVE IInv'
  <1>1. PICK l \in {"none", "intent", "decide"} :
           /\ Turn(l)
           /\ l = "intent" => RollbackAllowed /\ txn.batch
           /\ l = "decide" => ~txn.batch
    <2>1. CASE ~RollbackAllowed
      BY <2>1 DEF rollbackLastCommand
    <2>2. CASE RollbackAllowed /\ txn.batch
      BY <2>2 DEF rollbackLastCommand
    <2>3. CASE RollbackAllowed /\ ~txn.batch
      BY <2>3 DEF rollbackLastCommand
    <2> QED  BY <2>1, <2>2, <2>3
  <1>2. /\ TypeOK' /\ HolderInv' /\ UNCHANGED <<slot, newest, txn, installed, active>>
        /\ Led(l)
    BY <1>1, TurnEffect DEF IInv, Labels
  <1>3. AtInv'
    <2>1. CASE l = "none"
      BY <1>2, <2>1, Stopped
    <2>2. CASE l = "intent"
      <3>1. at' = "intent"
        BY <1>2, <2>2 DEF Led, Stops
      <3>2. RollbackAllowed' /\ txn'.batch
        BY <1>1, <1>2, <2>2 DEF RollbackAllowed, Readable, Newest, lastGoodBatchMatches, Payloads
      <3> QED  BY <3>1, <3>2 DEF AtInv
    <2>3. CASE l = "decide"
      <3>1. at' = "decide" /\ ~txn'.batch
        BY <1>1, <1>2, <2>3 DEF Led, Stops
      <3> QED  BY <3>1 DEF AtInv
    <2> QED  BY <2>1, <2>2, <2>3
  <1> QED  BY <1>2, <1>3, SameJournals DEF IInv

\* The batch is marked before its transaction is turned round.
LEMMA IntentInv == ASSUME IInv, Intent PROVE IInv'
  <1> DEFINE r == [Newest EXCEPT !.phase = "rolling_back"]
  <1>1. /\ txn.batch /\ Readable /\ Newest.phase \in {"installed", "pending_restart", "rolling_back"}
        /\ txn.pkgs = Newest.pkgs /\ txn.source = Newest.source
        /\ txn.phase \in {"post_boot", "applied", "cleanup"}
    BY DEF Intent, IInv, AtInv, RollbackAllowed, lastGoodBatchMatches
  <1>2. txn.id = Newest.id
    BY <1>1 DEF IInv, JournalsInv, NewestOk, For, Agrees, Underway, phaseTerminal
  <1>3. /\ r \in Record /\ r.phase = "rolling_back" /\ r.pkgs = Newest.pkgs
        /\ r.source = Newest.source /\ r.id = Newest.id
    BY <1>1, Rephased DEF Phases
  <1> HIDE DEF r
  <1>4. /\ TypeOK' /\ HolderInv' /\ Valid' /\ UNCHANGED <<txn, installed, active>>
        /\ \/ PutDone(r) /\ (Led("decide") \/ Led("none"))
           \/ Kept /\ Led("none")
    <2>1. writeInactiveBatchJournal(r, "decide", "none")
      BY DEF Intent, WritePhase, r
    <2> QED  BY <1>3, <2>1, WriteEffect DEF IInv, JournalsInv, Labels
  <1>5. MayFollow(r)
    BY <1>1, <1>2, <1>3 DEF MayFollow, For, Preparing, phaseTerminal
  <1>6. JournalsInv'
    BY <1>3, <1>4, <1>5, WriteJournals
  <1>7. CASE PutDone(r) /\ Led("decide")
    <2>1. at' = "decide"
      BY <1>7 DEF Led, Stops
    <2>2. OwnNow' /\ Newest'.phase = "rolling_back" /\ txn' = txn
      BY <1>1, <1>2, <1>3, <1>4, <1>7 DEF PutDone, OwnNow, For, phaseTerminal
    <2>3. AtInv'
      BY <1>1, <2>1, <2>2 DEF AtInv
    <2> QED  BY <1>4, <1>6, <2>3 DEF IInv
  <1> QED  BY <1>4, <1>6, <1>7, Stopped DEF IInv

\* The journals, when the transaction of a single package takes a step.
LEMMA SingleJournals ==
    ASSUME IInv, UNCHANGED <<slot, newest>>, ~(Readable /\ Newest.phase \in Underway),
           ~txn'.batch, txn'.changed = {}
    PROVE  JournalsInv'
  <1>1. TxnOk(txn)'
    BY DEF TxnOk
  <1>2. NewestOk(txn') /\ OtherOk(txn')
    BY DEF NewestOk, OtherOk, IInv, JournalsInv
  <1> QED  BY <1>1, <1>2, TxnJournals

\* The transaction is turned round by ROLLBACK-LAST.
LEMMA DecideInv == ASSUME IInv, Decide PROVE IInv'
  <1> DEFINE t == [txn EXCEPT !.phase = "rollback"]
  <1>1. txn \in Transaction /\ TxnOk(txn)
    BY DEF IInv, TypeOK, JournalsInv
  <1>2. /\ t \in Transaction /\ t.batch = txn.batch /\ t.id = txn.id /\ t.pkgs = txn.pkgs
        /\ t.source = txn.source /\ t.marked = txn.marked /\ t.phase = "rollback"
        /\ t.done = txn.done /\ t.changed = txn.changed
    BY <1>1 DEF Transaction
  <1>3. persist(t, "reboot", "none")
    BY DEF Decide
  <1> HIDE DEF t
  <1>4. CASE txn.batch
    <2>1. Serving
      BY <1>4 DEF Decide, IInv, AtInv, OwnNow, For, Serving
    <2>2. TxnOk(t)
      BY <1>1, <1>2, <1>4 DEF TxnOk, Payloads
    <2>3. /\ TypeOK' /\ HolderInv' /\ JournalsInv'
          /\ Led("reboot") \/ Led("none")
      BY <1>2, <1>3, <1>4, <2>1, <2>2, ServingPersist DEF Labels
    <2> QED  BY <2>3, AtFree DEF IInv, Led, Stops
  <1>5. CASE ~txn.batch
    <2>1. /\ TypeOK' /\ HolderInv' /\ UNCHANGED <<slot, newest, installed, active>>
          /\ Led("reboot") \/ Led("none")
          /\ txn' = t \/ txn' = txn
      BY <1>2, <1>3, PersistEffect DEF IInv, Labels
    <2>2. ~txn'.batch /\ txn'.changed = {}
      BY <1>1, <1>2, <1>5, <2>1 DEF TxnOk
    <2>3. ~(Readable /\ Newest.phase \in Underway)
      BY <1>5 DEF IInv, JournalsInv, NewestOk, For
    <2> QED  BY <2>1, <2>2, <2>3, SingleJournals, AtFree DEF IInv, Led, Stops
  <1> QED  BY <1>4, <1>5

\* A single package.
LEMMA SingleInv == ASSUME IInv, EndSingle \/ \E p \in Procs : applyCommand(p) PROVE IInv'
  <1>1. ASSUME NEW p \in Procs, applyCommand(p) PROVE IInv'
    <2>1. txn \in Transaction
      BY DEF IInv, TypeOK
    <2>2. /\ Single \in Transaction /\ ~Single.batch /\ Single.changed = {}
      BY <2>1 DEF Single, Transaction
    <2>3. /\ txn' = Single /\ UNCHANGED <<slot, newest, installed, active, seen, faults>>
          /\ lease' = p /\ at' = "single" /\ pc' = [pc EXCEPT ![p] = "holding"]
      BY <1>1 DEF applyCommand, batch
    <2>4. TypeOK' /\ HolderInv'
      BY <2>2, <2>3 DEF IInv, TypeOK, HolderInv, Labels
    <2>5. ~(Readable /\ Newest.phase \in Underway)
      BY <1>1 DEF applyCommand, ApplyAllowed, Ended, phaseTerminal, Underway
    <2>6. AtInv'
      BY <2>2, <2>3 DEF AtInv
    <2> QED  BY <2>2, <2>3, <2>4, <2>5, <2>6, SingleJournals DEF IInv
  <1>2. CASE EndSingle
    <2>1. PICK ph \in {"cleanup", "rolled_back"} : persist([txn EXCEPT !.phase = ph], "none", "none")
      BY <1>2 DEF EndSingle
    <2>2. txn \in Transaction /\ ~txn.batch /\ txn.changed = {}
      BY <1>2 DEF EndSingle, IInv, AtInv, TypeOK, JournalsInv, TxnOk
    <2> DEFINE t == [txn EXCEPT !.phase = ph]
    <2>3. t \in Transaction /\ ~t.batch /\ t.changed = {}
      BY <2>2 DEF Transaction
    <2>4. persist(t, "none", "none")
      BY <2>1
    <2> HIDE DEF t
    <2>5. /\ TypeOK' /\ HolderInv' /\ UNCHANGED <<slot, newest, installed, active>>
          /\ Led("none")
          /\ txn' = t \/ txn' = txn
      BY <2>3, <2>4, PersistEffect DEF IInv, Labels
    <2>6. ~(Readable /\ Newest.phase \in Underway)
      BY <2>2 DEF IInv, JournalsInv, NewestOk, For
    <2> QED  BY <2>2, <2>3, <2>5, <2>6, SingleJournals, Stopped DEF IInv
  <1> QED  BY <1>1, <1>2

\* What deleting a slot does to the holder and the types.
LEMMA DeleteEffect ==
    ASSUME TypeOK, HolderInv, NEW i \in {0, 1}, NEW l \in Labels, Delete(i, l)
    PROVE  /\ TypeOK' /\ HolderInv' /\ UNCHANGED <<txn, installed, active>>
           /\ slot' = [slot EXCEPT ![i] = Absent] /\ newest' = 1 - i
           /\ Led(l) \/ Led("none")
  <1>1. /\ UNCHANGED <<txn, installed, active>> /\ (Fault \/ UNCHANGED faults)
        /\ slot' = [slot EXCEPT ![i] = Absent] /\ newest' = 1 - i
        /\ Goto(l) \/ Goto("none")
    BY DEF Delete
  <1>2. /\ lease' \in Procs \cup {Nobody, Recovery} /\ at' \in Labels
        /\ pc' \in [Procs -> {"idle", "stage", "verified", "commit", "again", "holding"}]
        /\ seen' \in [Procs -> Record \cup {Absent}]
        /\ HolderInv' /\ (Led(l) \/ Led("none"))
    BY <1>1, GotoEffect DEF Labels
  <1>3. faults' \in 0 .. MaxFaults
    BY <1>1, FaultType
  <1>4. slot' \in [{0, 1} -> Record \cup {Absent, Torn}] /\ newest' \in {0, 1}
    BY <1>1 DEF TypeOK
  <1> QED  BY <1>1, <1>2, <1>3, <1>4 DEF TypeOK

\* ABORT-BATCH deletes the first slot: the other record may come back.
LEMMA AbortInv == ASSUME IInv, abortPreparedBatchCommand PROVE IInv'
  <1>1. CASE ~batchPreparationAbortable
    <2>1. Turn("none")
      BY <1>1 DEF abortPreparedBatchCommand
    <2> QED  BY <2>1, TurnEffect, Stopped, SameJournals DEF IInv, Labels
  <1>2. CASE batchPreparationAbortable
    <2>1. Delete(0, "abortRest")
      BY <1>2 DEF abortPreparedBatchCommand
    <2>2. /\ TypeOK' /\ HolderInv' /\ UNCHANGED <<txn, installed, active>>
          /\ slot' = [slot EXCEPT ![0] = Absent] /\ newest' = 1
          /\ Led("abortRest") \/ Led("none")
      BY <2>1, DeleteEffect DEF IInv, Labels
    <2>3. Readable /\ Newest.phase \in Preparing /\ ~Open(txn) /\ newest \in {0, 1}
      BY <1>2 DEF batchPreparationAbortable, IInv, TypeOK
    <2>4. Other' = Absent /\ Newest' = slot[1] /\ slot'[0] = Absent /\ slot'[1] = slot[1]
      BY <2>2 DEF Newest, Other, IInv, TypeOK
    <2>5. Newest' = Newest \/ Newest' = Other
      BY <2>3, <2>4 DEF Newest, Other
    <2>6. Other' \notin Record
      BY <2>4, BatchAssumption
    <2>7. Readable' => /\ Newest'.phase \in Preparing \cup phaseTerminal
                       /\ Newest'.phase \in phaseTerminal /\ txn.batch => Agrees(txn, Newest')
      <3>1. CASE Newest' = Newest
        BY <2>3, <3>1 DEF Preparing, phaseTerminal
      <3>2. CASE Newest' = Other
        BY <2>3, <3>2 DEF IInv, JournalsInv, OtherOk, Readable
      <3> QED  BY <2>5, <3>1, <3>2
    <2>8. TxnOk(txn)'
      BY <2>2 DEF IInv, JournalsInv, TxnOk, Payloads
    <2>9. Valid'
      BY <2>2, <2>4, BatchAssumption DEF Valid, Readable, Newest
    <2>10. NewestOk(txn)'
      BY <2>2, <2>3, <2>7 DEF NewestOk, Open, Agrees, Underway, Preparing, phaseTerminal
    <2>11. OtherOk(txn)'
      BY <2>6 DEF OtherOk
    <2>12. AtInv'
      <3>1. CASE Led("abortRest")
        <4>1. at' = "abortRest"
          BY <3>1 DEF Led, Stops
        <4>2. ~Open(txn)'
          BY <2>2, <2>3 DEF Open
        <4> QED  BY <2>2, <2>4, <2>7, <4>1, <4>2 DEF AtInv
      <3> QED  BY <2>2, <3>1, Stopped
    <2> QED  BY <2>2, <2>8, <2>9, <2>10, <2>11, <2>12 DEF IInv, JournalsInv
  <1> QED  BY <1>1, <1>2

\* ABORT-BATCH deletes the second slot: no record is left.
LEMMA AbortRestInv == ASSUME IInv, AbortRest PROVE IInv'
  <1>1. Delete(1, "none")
    BY DEF AbortRest
  <1>2. /\ TypeOK' /\ HolderInv' /\ UNCHANGED <<txn, installed, active>>
        /\ slot' = [slot EXCEPT ![1] = Absent] /\ newest' = 0
        /\ Led("none")
    BY <1>1, DeleteEffect DEF IInv, Labels
  <1>3. ~Open(txn) /\ slot[0] = Absent
    BY DEF AbortRest, IInv, AtInv, Other
  <1>4. ~Readable' /\ \A i \in {0, 1} : slot'[i] \notin Record
    BY <1>2, <1>3, BatchAssumption DEF Readable, Newest, IInv, TypeOK
  <1>5. TxnOk(txn)'
    BY <1>2 DEF IInv, JournalsInv, TxnOk, Payloads
  <1>6. JournalsInv'
    BY <1>2, <1>3, <1>4, <1>5 DEF JournalsInv, Valid, NewestOk, OtherOk, Open
  <1> QED  BY <1>2, <1>6, Stopped DEF IInv

\* A command is killed.
LEMMA KillInv == ASSUME IInv, NEW p \in Procs, Kill(p) PROVE IInv'
  <1>1. /\ UNCHANGED <<slot, newest, txn, installed, active>> /\ Fault
        /\ pc' = [pc EXCEPT ![p] = "idle"] /\ seen' = [seen EXCEPT ![p] = Absent]
        /\ IF lease = p THEN lease' = Nobody /\ at' = "none" ELSE UNCHANGED <<lease, at>>
    BY DEF Kill, batch
  <1>2. faults' \in 0 .. MaxFaults
    BY <1>1, FaultType DEF IInv
  <1>3. TypeOK' /\ HolderInv'
    BY <1>1, <1>2, BatchAssumption DEF IInv, TypeOK, HolderInv, Labels
  <1>4. CASE lease = p
    BY <1>1, <1>3, <1>4, AtFree, SameJournals DEF IInv
  <1>5. CASE lease # p
    <2>1. UNCHANGED <<lease, at>> /\ (lease \in Procs => seen'[lease] = seen[lease])
      BY <1>1, <1>5 DEF IInv, TypeOK
    <2>2. AtInv'
      BY <1>1, <2>1 DEF IInv, AtInv, Readable, Newest, Other, OwnNow, For, Open,
                        RollbackAllowed, lastGoodBatchMatches, Payloads, Ended, Blocked
    <2> QED  BY <1>1, <1>3, <2>2, SameJournals DEF IInv
  <1> QED  BY <1>4, <1>5

\* The machine starts: what was installed runs.
LEMMA BootInv == ASSUME IInv, Boot PROVE IInv'
  <1>1. /\ UNCHANGED <<slot, newest, txn, installed>> /\ (Fault \/ UNCHANGED faults)
        /\ active' = (Kernel \in installed) /\ at' = BootAt
        /\ lease' = IF BootAt = "none" THEN Nobody ELSE Recovery
        /\ pc' = [p \in Procs |-> "idle"] /\ seen' = [p \in Procs |-> Absent]
    BY DEF Boot, batch
  <1>2. faults' \in 0 .. MaxFaults
    BY <1>1, FaultType DEF IInv
  <1>3. BootAt \in Labels
    BY DEF BootAt, Labels
  <1>4. TypeOK'
    <2>1. active' \in BOOLEAN /\ lease' \in Procs \cup {Nobody, Recovery}
      BY <1>1
    <2>2. pc' \in [Procs -> {"idle", "stage", "verified", "commit", "again", "holding"}]
          /\ seen' \in [Procs -> Record \cup {Absent}]
      BY <1>1
    <2> QED  BY <1>1, <1>2, <1>3, <2>1, <2>2 DEF IInv, TypeOK
  <1>5. HolderInv'
    BY <1>1, BatchAssumption DEF HolderInv
  <1>6. TxnOk(txn)'
    <2>1. CASE txn.batch
      <3>1. /\ txn.marked /\ txn.phase \in {"commit", "post_boot"} =>
                 txn.pkgs \subseteq txn.done /\ txn.done \subseteq installed
        BY <2>1 DEF IInv, JournalsInv, TxnOk
      <3> QED  BY <1>1, <2>1, <3>1 DEF IInv, JournalsInv, TxnOk, Payloads
    <2>2. CASE ~txn.batch
      BY <1>1, <2>2 DEF IInv, JournalsInv, TxnOk
    <2> QED  BY <2>1, <2>2
  <1>7. JournalsInv'
    <2>1. NewestOk(txn') /\ OtherOk(txn')
      BY <1>1 DEF IInv, JournalsInv
    <2> QED  BY <1>1, <1>6, <2>1, TxnJournals
  <1>8. AtInv'
    <2>1. /\ at' \in {"none", "single", "bootForward", "bootUndo", "bootCleanup"}
          /\ at' = "single" => ~txn'.batch
          /\ at' \in {"bootForward", "bootUndo", "bootCleanup"} => txn'.batch
          /\ at' = "bootForward" => txn'.phase \in {"stage", "commit"}
          /\ at' = "bootUndo" => txn'.phase \in {"commit", "rollback"}
          /\ at' = "bootCleanup" => txn'.phase = "applied"
      BY <1>1 DEF BootAt
    <2> QED  BY <2>1 DEF AtInv
  <1> QED  BY <1>4, <1>5, <1>7, <1>8 DEF IInv

-----------------------------------------------------------------------------

\* A step that changes nothing.
LEMMA StutterInv == ASSUME IInv, UNCHANGED vars PROVE IInv'
  <1>1. UNCHANGED <<slot, newest, txn, installed, active, lease, at, pc, seen, faults>>
    BY DEF vars, batch, procs
  <1>2. TypeOK' /\ HolderInv'
    BY <1>1 DEF IInv, TypeOK, HolderInv
  <1>3. AtInv'
    BY <1>1 DEF IInv, AtInv, Readable, Newest, Other, OwnNow, For, Open,
                RollbackAllowed, lastGoodBatchMatches, Payloads, Ended, Blocked
  <1> QED  BY <1>1, <1>2, <1>3, SameJournals DEF IInv

\* Every step of the program, of the medium and of the machine.
LEMMA NextInv == ASSUME IInv, Next PROVE IInv'
  <1>1. CASE CommitStep
    BY <1>1, StageInv, VerifyInv, PlanInv, BindInv, RestoreInv, PhaseInv DEF CommitStep
  <1>2. CASE Replay
    BY <1>2, ForwardInv, CommitInv, PostBootInv, ConflictInv, BackwardInv, UndoInv, PhaseInv
    DEF Replay
  <1>3. CASE ResumeStep
    BY <1>3, DispatchInv, RestoreInv, FinalizeInv, MarkInv, AppliedInv, PhaseInv DEF ResumeStep
  <1>4. CASE OtherStep
    BY <1>4, RollbackInv, IntentInv, DecideInv, AbortInv, AbortRestInv, SingleInv DEF OtherStep
  <1>5. CASE Boot
    BY <1>5, BootInv
  <1>6. ASSUME NEW p \in Procs, Begin(p) \/ Kill(p) PROVE IInv'
    BY <1>6, BeginInv, TakeInv, SingleInv, KillInv DEF Begin
  <1> QED  BY <1>1, <1>2, <1>3, <1>4, <1>5, <1>6 DEF Next, Step

\* The invariant holds in every reachable state.
LEMMA Invariance == Spec => []IInv
  <1>1. IInv /\ [Next]_vars => IInv'
    BY NextInv, StutterInv
  <1> QED  BY InitInv, <1>1, PTL DEF Spec

-----------------------------------------------------------------------------
(* The theorems.                                                           *)

\* Both journals, the holder of the lease and every command's snapshot stay
\* well-formed, through torn writes, kills and resets.
THEOREM TypeCorrect == Spec => []TypeOK
  <1>1. IInv => TypeOK
    BY DEF IInv
  <1> QED  BY <1>1, Invariance, PTL

\* RESUME-BATCH of a batch that is on its way always finds the transaction
\* that was made for it, with the same packages (lastGoodBatchMatches).
THEOREM OwnTransactionFound == Spec => []OwnTransaction
  <1>1. IInv => OwnTransaction
    BY DEF IInv, JournalsInv, NewestOk, For, OwnTransaction, lastGoodBatchMatches
  <1> QED  BY <1>1, Invariance, PTL

\* No crash between the two journals leaves an open batch transaction that no
\* batch record answers for.
THEOREM OpenTransactionHasBatch == Spec => []OpenHasBatch
  <1>1. IInv => OpenHasBatch
    BY DEF IInv, JournalsInv, NewestOk, OpenHasBatch
  <1> QED  BY <1>1, Invariance, PTL

\* "installed" is only on the disk for a batch whose files and marker are in
\* place, "rolled_back" only for one whose files are all restored.
THEOREM VerdictIsTrue == Spec => []VerdictTrue
  <1>1. ASSUME IInv, Readable, txn.batch, txn.id = Newest.id, Newest.phase = "installed"
        PROVE  txn.phase = "cleanup" /\ Newest.pkgs \cup {Ver} \subseteq installed
    <2>1. txn.phase = "cleanup" /\ txn.pkgs = Newest.pkgs
      BY <1>1 DEF IInv, JournalsInv, NewestOk, Agrees, phaseTerminal
    <2>2. txn.marked /\ txn.done = Payloads(txn) /\ txn.done \subseteq installed
      BY <1>1, <2>1 DEF IInv, JournalsInv, TxnOk
    <2> QED  BY <2>1, <2>2 DEF Payloads
  <1>2. ASSUME IInv, Readable, txn.batch, txn.id = Newest.id, Newest.phase = "rolled_back"
        PROVE  txn.phase = "rolled_back" /\ txn.changed \cap installed = {}
    <2>1. txn.phase = "rolled_back"
      BY <1>2 DEF IInv, JournalsInv, NewestOk, Agrees, phaseTerminal
    <2> QED  BY <1>2, <2>1 DEF IInv, JournalsInv, TxnOk
  <1>3. IInv => VerdictTrue
    BY <1>1, <1>2 DEF VerdictTrue
  <1> QED  BY <1>3, Invariance, PTL

\* While RELEASE_VERSION names the new release, every package of the batch
\* that brought it is in place, during recovery and rollback too.
THEOREM MarkerIsLast == Spec => []MarkerLast
  <1>1. IInv => MarkerLast
    BY DEF IInv, JournalsInv, TxnOk, MarkerLast
  <1> QED  BY <1>1, Invariance, PTL

-----------------------------------------------------------------------------
(* What a step may never do.                                               *)

\* Only commitPayload brings new content to a target.
LEMMA OnlyCommitInstalls == ASSUME Next, ~commitPayload PROVE installed' \subseteq installed
  <1> USE DEF WritePhase, writeInactiveBatchJournal, persist, Turn, Stay, Acquire, Delete
  <1>1. CASE CommitStep
    BY <1>1 DEF CommitStep, stageRestartPackage, commitBatchCommand, Plan, Progress, Bind,
                restoreRetryableBatchPreparation, Committing, Pending
  <1>2. CASE Replay
    BY <1>2 DEF Replay, Enter, Committed, PostBoot, Conflict, StartUndo, rollbackPayload, Undone,
                RolledBack, UndoConflict, StartRollback, Verdict, Failed
  <1>3. CASE ResumeStep
    BY <1>3 DEF ResumeStep, resumeBatchCommand, Restage, finalizeBatchPostBoot, Mark, Applied,
                cleanupTransaction, Install
  <1>4. CASE OtherStep
    BY <1>4 DEF OtherStep, rollbackLastCommand, Intent, Decide, abortPreparedBatchCommand,
                AbortRest, EndSingle
  <1>5. CASE Boot
    BY <1>5 DEF Boot
  <1>6. ASSUME NEW p \in Procs, Begin(p) \/ Kill(p) PROVE installed' \subseteq installed
    BY <1>6 DEF Begin, BeginStage, BeginCommit, LookCommit, GiveUp, TakeLease, Resume,
                RollbackLast, AbortBatch, applyCommand, resumeTransaction, Kill
  <1> QED  BY <1>1, <1>2, <1>3, <1>4, <1>5, <1>6 DEF Next, Step

\* RELEASE_VERSION is written by a kernel that the batch itself installed, if
\* it has one: finalizeBatchPostBoot looks at the running kernel first.
THEOREM MarkerWaitsForBoot == Spec => MarkerAfterBoot
  <1>1. ASSUME IInv, [Next]_vars, Ver \in installed' \ installed, Kernel \in txn.pkgs
        PROVE  active
    <2>1. commitPayload
      BY <1>1, OnlyCommitInstalls DEF vars
    <2>2. at \in Forwarding /\ txn.phase = "commit" /\ Ver \in Payloads(txn)
      BY <1>1, <2>1 DEF commitPayload, MayCommit
    <2>3. txn.marked
      BY <1>1, <2>2, BatchAssumption DEF Payloads, IInv, TypeOK, Transaction
    <2>4. txn.batch
      BY <1>1, <2>2, Serves DEF Serving
    <2> QED  BY <1>1, <2>2, <2>3, <2>4 DEF IInv, JournalsInv, TxnOk
  <1>2. IInv /\ [Next]_vars =>
            [(Ver \in installed' \ installed) /\ Kernel \in txn.pkgs => active]_vars
    BY <1>1
  <1> QED  BY <1>2, Invariance, PTL DEF Spec, MarkerAfterBoot

\* Only Bind makes a batch transaction.
LEMMA OnlyBindStages ==
    ASSUME IInv, Next, ~Bind
    PROVE  txn' = txn \/ ~txn'.batch \/ txn'.phase # "stage"
  <1>0. txn \in Transaction
    BY DEF IInv, TypeOK
  <1> USE DEF WritePhase, writeInactiveBatchJournal, persist, Turn, Stay, Acquire, Delete
  <1>1. CASE CommitStep
    BY <1>1 DEF CommitStep, stageRestartPackage, commitBatchCommand, Plan, Progress,
                restoreRetryableBatchPreparation, Committing, Pending
  <1>2. CASE Replay
    BY <1>0, <1>2 DEF Replay, Enter, commitPayload, Committed, PostBoot, Conflict, StartUndo,
                rollbackPayload, Undone, RolledBack, UndoConflict, StartRollback, Verdict, Failed,
                Transaction
  <1>3. CASE ResumeStep
    <2>1. CASE resumeBatchCommand \/ Restage \/ finalizeBatchPostBoot \/ Install
      BY <2>1 DEF resumeBatchCommand, Restage, finalizeBatchPostBoot, Install
    <2>2. CASE Mark
      <3> DEFINE t == [txn EXCEPT !.phase = "commit", !.marked = TRUE,
                                  !.changed = @ \cup ({Ver} \ installed)]
      <3>1. t.phase = "commit"
        BY <1>0 DEF Transaction
      <3>2. persist(t, "markForward", "none")
        BY <2>2 DEF Mark
      <3> HIDE DEF t
      <3> QED  BY <3>1, <3>2
    <2>3. CASE Applied \/ cleanupTransaction
      BY <1>0, <2>3 DEF Applied, cleanupTransaction, Transaction
    <2> QED  BY <1>3, <2>1, <2>2, <2>3 DEF ResumeStep
  <1>4. CASE OtherStep
    BY <1>0, <1>4 DEF OtherStep, rollbackLastCommand, Intent, Decide, abortPreparedBatchCommand,
                AbortRest, EndSingle, Transaction
  <1>5. CASE Boot
    BY <1>5 DEF Boot
  <1>6. ASSUME NEW p \in Procs, Begin(p) \/ Kill(p)
        PROVE  txn' = txn \/ ~txn'.batch
    BY <1>0, <1>6 DEF Begin, BeginStage, BeginCommit, LookCommit, GiveUp, TakeLease, Resume,
                RollbackLast, AbortBatch, applyCommand, resumeTransaction, Kill, Single, Transaction
  <1> QED  BY <1>1, <1>2, <1>3, <1>4, <1>5, <1>6 DEF Next, Step

\* COMMIT binds the packages it verified before it had the lease, whatever
\* the other processes did to the batch meanwhile.
THEOREM CommitBindsVerified == Spec => CommitsVerified
  <1>1. ASSUME IInv, [Next]_vars, txn'.batch, txn'.phase = "stage", txn' # txn
        PROVE  seen[lease] \in Record /\ txn'.pkgs = seen[lease].pkgs
    <2>1. Bind
      BY <1>1, OnlyBindStages DEF vars
    <2>2. txn' = Bound
      BY <1>1, <2>1 DEF Bind, persist
    <2>3. txn'.pkgs = Newest.pkgs
      BY <2>2 DEF Bound
    <2> QED  BY <1>1, <2>1, <2>3 DEF Bind, IInv, AtInv
  <1>2. IInv /\ [Next]_vars =>
            [txn'.batch /\ txn'.phase = "stage" /\ txn' # txn
                 => seen[lease] \in Record /\ txn'.pkgs = seen[lease].pkgs]_vars
    BY <1>1
  <1> QED  BY <1>2, Invariance, PTL DEF Spec, CommitsVerified

\* A write changes one slot, and a record that comes to it is the one written.
LEMMA WrittenSlot ==
    ASSUME TypeOK, NEW r, NEW l, NEW m, writeInactiveBatchJournal(r, l, m),
           NEW i \in {0, 1}, slot'[i] # slot[i], slot'[i] \in Record
    PROVE  slot'[i] = r
  <1>1. slot' = [slot EXCEPT ![Spare] = r] \/ slot' = [slot EXCEPT ![Spare] = Torn] \/ slot' = slot
    BY DEF writeInactiveBatchJournal, Put, Tear, batch
  <1> QED  BY <1>1, BatchAssumption DEF TypeOK

\* Only these write the batch's record.
LEMMA RecordWriters ==
    ASSUME IInv, Next, NEW i \in {0, 1}, slot'[i] # slot[i], slot'[i] \in Record
    PROVE  \/ slot'[i].phase \notin phaseTerminal
           \/ (Verdict \/ Install) /\ slot'[i].id = Newest.id
  <1>0. TypeOK
    BY DEF IInv
  <1>1. ASSUME NEW ph \in Phases, NEW l, NEW m, WritePhase(ph, l, m), Readable
        PROVE  slot'[i].phase = ph /\ slot'[i].id = Newest.id
    <2> DEFINE r == [Newest EXCEPT !.phase = ph]
    <2>1. r.phase = ph /\ r.id = Newest.id
      BY <1>1, Rephased
    <2>2. writeInactiveBatchJournal(r, l, m)
      BY <1>1 DEF WritePhase
    <2> HIDE DEF r
    <2>3. slot'[i] = r
      BY <1>0, <2>2, WrittenSlot
    <2> QED  BY <2>1, <2>3
  <1>2. ASSUME UNCHANGED slot PROVE FALSE
    BY <1>2
  <1>3. CASE CommitStep
    <2>1. CASE stageRestartPackage
      <3>1. PICK k \in Pkgs : StageAdmits(k) /\ writeInactiveBatchJournal(
                                  [Collecting EXCEPT !.pkgs = @ \cup {k}], "none", "none")
        BY <1>2, <2>1 DEF stageRestartPackage, Turn, Stay, batch
      <3>2. slot'[i] = [Collecting EXCEPT !.pkgs = @ \cup {k}]
        BY <1>0, <3>1, WrittenSlot
      <3>3. Collecting \in Record
        BY <1>0 DEF Collecting, Readable, Record, Phases, Preparing, Release, TypeOK, Transaction
      <3> QED  BY <3>1, <3>2, <3>3 DEF StageAdmits, Record, phaseTerminal
    <2>2. CASE commitBatchCommand
      BY <1>1, <1>2, <2>2 DEF commitBatchCommand, sameBatchSnapshot, Turn, Stay, batch, Phases,
                              Preparing, phaseTerminal
    <2>3. CASE Plan \/ Progress
      <3>1. Readable
        BY <2>3 DEF Plan, Progress, IInv, AtInv
      <3> QED  BY <1>1, <1>2, <2>3, <3>1 DEF Plan, Progress, Turn, Stay, batch, Phases, Preparing,
                                             phaseTerminal
    <2>4. CASE Bind
      BY <1>2, <2>4 DEF Bind, persist, batch
    <2>5. CASE restoreRetryableBatchPreparation
      <3>1. Readable
        BY <2>5 DEF restoreRetryableBatchPreparation, IInv, AtInv
      <3> QED  BY <1>1, <2>5, <3>1 DEF restoreRetryableBatchPreparation, Phases, Preparing, phaseTerminal
    <2>6. CASE Committing \/ Pending
      <3>1. Readable
        BY <2>6 DEF Committing, Pending, IInv, AtInv, OwnNow
      <3> QED  BY <1>1, <2>6, <3>1 DEF Committing, Pending, Phases, Preparing, phaseTerminal
    <2> QED  BY <1>3, <2>1, <2>2, <2>3, <2>4, <2>5, <2>6 DEF CommitStep
  <1>4. CASE Replay
    <2>1. CASE StartRollback \/ Verdict \/ Failed
      <3>1. Readable
        BY <2>1 DEF StartRollback, Verdict, Failed, IInv, AtInv, OwnNow
      <3> QED  BY <1>1, <2>1, <3>1 DEF StartRollback, Verdict, Failed, Phases, Preparing, phaseTerminal
    <2>2. CASE ~(StartRollback \/ Verdict \/ Failed)
      BY <1>2, <1>4, <2>2 DEF Replay, Enter, commitPayload, Committed, PostBoot, Conflict, StartUndo,
                              rollbackPayload, Undone, RolledBack, UndoConflict, persist, batch
    <2> QED  BY <2>1, <2>2
  <1>5. CASE ResumeStep
    <2>1. CASE Restage \/ Install
      <3>1. Readable
        BY <2>1 DEF Restage, Install, IInv, AtInv, OwnNow
      <3> QED  BY <1>1, <2>1, <3>1 DEF Restage, Install, Phases, Preparing, phaseTerminal
    <2>2. CASE ~(Restage \/ Install)
      BY <1>2, <1>5, <2>2 DEF ResumeStep, resumeBatchCommand, finalizeBatchPostBoot, Mark, Applied,
                              cleanupTransaction, persist, Turn, Stay, batch
    <2> QED  BY <2>1, <2>2
  <1>6. CASE OtherStep
    <2>1. CASE Intent
      <3>1. Readable
        BY <2>1 DEF Intent, IInv, AtInv, RollbackAllowed
      <3> QED  BY <1>1, <2>1, <3>1 DEF Intent, Phases, phaseTerminal
    <2>2. CASE abortPreparedBatchCommand \/ AbortRest
      <3>1. ASSUME NEW j \in {0, 1}, NEW l, Delete(j, l) PROVE FALSE
        BY <1>0, <3>1, BatchAssumption DEF Delete, TypeOK
      <3> QED  BY <1>2, <2>2, <3>1 DEF abortPreparedBatchCommand, AbortRest, Turn, Stay, batch
    <2>3. CASE rollbackLastCommand \/ Decide \/ EndSingle
      BY <1>2, <2>3 DEF rollbackLastCommand, Decide, EndSingle, persist, Turn, Stay, batch
    <2> QED  BY <1>6, <2>1, <2>2, <2>3 DEF OtherStep
  <1>7. CASE Boot
    BY <1>2, <1>7 DEF Boot, batch
  <1>8. ASSUME NEW p \in Procs, Begin(p) \/ Kill(p) PROVE FALSE
    BY <1>2, <1>8 DEF Begin, BeginStage, BeginCommit, LookCommit, GiveUp, TakeLease, Resume,
                RollbackLast, AbortBatch, applyCommand, resumeTransaction, Kill, Acquire, Stay, batch
  <1> QED  BY <1>3, <1>4, <1>5, <1>6, <1>7, <1>8 DEF Next, Step

\* "installed" and "rolled_back" are only written for the batch whose own
\* transaction is the newest: an earlier batch of the same packages does not
\* lend it its outcome (resumeBatchCommand, the preparatory case).
THEOREM VerdictIsOwn == Spec => NoBorrowedVerdict
  <1>1. ASSUME IInv, [Next]_vars, NEW i \in {0, 1}, slot'[i] # slot[i], slot'[i] \in Record,
               slot'[i].phase \in phaseTerminal
        PROVE  txn.batch /\ txn.id = slot'[i].id
    <2>1. (Verdict \/ Install) /\ slot'[i].id = Newest.id
      BY <1>1, RecordWriters DEF vars, batch
    <2>2. OwnNow
      BY <1>1, <2>1 DEF Verdict, Install, IInv, AtInv
    <2> QED  BY <2>1, <2>2 DEF OwnNow, For
  <1>2. IInv /\ [Next]_vars =>
            [\A i \in {0, 1} : slot'[i] # slot[i] /\ slot'[i] \in Record
                 => (slot'[i].phase \in phaseTerminal => txn.batch /\ txn.id = slot'[i].id)]_vars
    BY <1>1
  <1> QED  BY <1>2, Invariance, PTL DEF Spec, NoBorrowedVerdict
=============================================================================
