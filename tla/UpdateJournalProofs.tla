------------------------- MODULE UpdateJournalProofs -------------------------
(***************************************************************************)
(* Proofs about UpdateJournal for any set of processes and any generation  *)
(* limit.                                                                  *)
(***************************************************************************)
EXTENDS UpdateJournal, TLAPS

(* Whoever is past the lease owns it.                                      *)
LeaseHeld == \A p \in Procs : pc[p] \in Holding => lease = p

(* Under the lease nobody else writes, so a scan stays true.               *)
ScanFresh == \A p \in Procs : pc[p] = "scan" =>
                \A s \in Slot : seen[p][s] \in {Unread, slots[s]}

BaseFresh == \A p \in Procs : pc[p] \in {"held", "write", "writing"} =>
                base[p] = Newest(slots).gen

DraftNext == \A p \in Procs : pc[p] \in {"write", "writing"} =>
                /\ draft[p].rec \in Record
                /\ draft[p].rec.gen = Newest(slots).gen + 1
                /\ draft[p].slot = IF Newest(slots) = Missing THEN 0
                                   ELSE 1 - NewestSlot(slots)

TornFirst == \A p \in Procs : /\ pc[p] = "write" => Selectable(slots)
                              /\ pc[p] = "writing" => slots[draft[p].slot] = Torn

ReadbackKnows == \A p \in Procs : pc[p] = "readback" =>
                    /\ draft[p].rec \in Record
                    /\ \/ OnDisk(p) /\ Newest(slots) = draft[p].rec
                       \/ ~OnDisk(p) /\ base[p] = Newest(slots).gen

IInv == /\ TypeOK
        /\ LeaseHeld
        /\ ScanFresh
        /\ BaseFresh
        /\ DraftNext
        /\ TornFirst
        /\ ReadbackKnows
        /\ NeverAmbiguous
        /\ AckedSurvives

-----------------------------------------------------------------------------
(* Two records of the journal are compared by their fields.                *)
LEMMA ContentFacts ==
  /\ Missing.gen = 0 /\ Torn.gen = 0 /\ Unread.gen = MaxGen + 1
  /\ Missing # Torn
  /\ \A r \in Record : r.gen \in 1 .. MaxGen /\ r # Missing /\ r # Torn /\ r # Unread
  /\ Missing # Unread /\ Torn # Unread
  /\ \A c \in Content : c.gen \in 0 .. MaxGen /\ (c.gen > 0 <=> c \in Record)
  BY JournalAssumption DEF Missing, Torn, Unread, Record, Content

(* What selectNewestSlot says of two slots with different generations.     *)
LEMMA NewestFacts ==
  ASSUME NEW sc \in [Slot -> Content]
  PROVE  /\ NewestSlot(sc) \in Slot
         /\ Newest(sc) \in Record \cup {Missing}
         /\ \A s \in Slot : sc[s].gen <= Newest(sc).gen
         /\ Newest(sc) = Missing <=> Newest(sc).gen = 0
         /\ Newest(sc) # Missing => Newest(sc) = sc[NewestSlot(sc)]
  <1>1. 0 \in Slot /\ 1 \in Slot /\ sc[0] \in Content /\ sc[1] \in Content
        /\ \A s \in Slot : s = 0 \/ s = 1
    BY DEF Slot
  <1> QED
    BY <1>1, ContentFacts DEF Newest, NewestSlot, Valid

Distinct(sc) == Valid(sc[0]) => sc[0].gen # sc[1].gen

(* Writing to the slot that is not the newest leaves the newest alone; a   *)
(* complete record with the next generation becomes the newest.            *)
LEMMA WriteOther ==
  ASSUME NEW sc \in [Slot -> Content], NEW s \in Slot, NEW r \in Record,
         Distinct(sc),
         s = IF Newest(sc) = Missing THEN 0 ELSE 1 - NewestSlot(sc)
  PROVE  /\ Newest([sc EXCEPT ![s] = Torn]) = Newest(sc)
         /\ Newest(sc) # Missing => Selectable([sc EXCEPT ![s] = Torn])
         /\ r.gen > Newest(sc).gen =>
              /\ Newest([sc EXCEPT ![s] = r]) = r
              /\ Selectable([sc EXCEPT ![s] = r])
              /\ Distinct([sc EXCEPT ![s] = r])
  <1>1. 0 \in Slot /\ 1 \in Slot /\ sc[0] \in Content /\ sc[1] \in Content
        /\ \A x \in Slot : x = 0 \/ x = 1
    BY DEF Slot
  <1>2. CASE s = 0
    <2>1. /\ [sc EXCEPT ![s] = Torn][0] = Torn /\ [sc EXCEPT ![s] = Torn][1] = sc[1]
          /\ [sc EXCEPT ![s] = r][0] = r /\ [sc EXCEPT ![s] = r][1] = sc[1]
      BY <1>1, <1>2
    <2>2. /\ Newest([sc EXCEPT ![s] = Torn]) = Newest(sc)
          /\ Newest(sc) # Missing => Selectable([sc EXCEPT ![s] = Torn])
      BY <1>1, <1>2, <2>1, ContentFacts, NewestFacts
         DEF Newest, NewestSlot, Valid, Selectable, Distinct
    <2>3. ASSUME r.gen > Newest(sc).gen
          PROVE  /\ Newest([sc EXCEPT ![s] = r]) = r
                 /\ Selectable([sc EXCEPT ![s] = r])
                 /\ Distinct([sc EXCEPT ![s] = r])
      <3>1. r.gen > sc[1].gen /\ r.gen > 0 /\ Valid(r)
        BY <1>1, <2>3, NewestFacts, ContentFacts DEF Valid
      <3> QED BY <1>1, <2>1, <3>1, ContentFacts DEF Newest, NewestSlot, Valid, Selectable, Distinct
    <2> QED BY <2>2, <2>3
  <1>3. CASE s = 1
    <2>1. /\ [sc EXCEPT ![s] = Torn][1] = Torn /\ [sc EXCEPT ![s] = Torn][0] = sc[0]
          /\ [sc EXCEPT ![s] = r][1] = r /\ [sc EXCEPT ![s] = r][0] = sc[0]
      BY <1>1, <1>3
    <2>2. /\ Newest([sc EXCEPT ![s] = Torn]) = Newest(sc)
          /\ Newest(sc) # Missing => Selectable([sc EXCEPT ![s] = Torn])
      BY <1>1, <1>3, <2>1, ContentFacts, NewestFacts
         DEF Newest, NewestSlot, Valid, Selectable, Distinct
    <2>3. ASSUME r.gen > Newest(sc).gen
          PROVE  /\ Newest([sc EXCEPT ![s] = r]) = r
                 /\ Selectable([sc EXCEPT ![s] = r])
                 /\ Distinct([sc EXCEPT ![s] = r])
      <3>1. r.gen > sc[0].gen /\ r.gen > 0 /\ Valid(r)
        BY <1>1, <2>3, NewestFacts, ContentFacts DEF Valid
      <3> QED BY <1>1, <2>1, <3>1, ContentFacts DEF Newest, NewestSlot, Valid, Selectable, Distinct
    <2> QED BY <2>2, <2>3
  <1> QED BY <1>1, <1>2, <1>3

-----------------------------------------------------------------------------
(* A machine without journal files satisfies the invariant.                *)
LEMMA InitIInv == Init => IInv
  <1> SUFFICES ASSUME Init PROVE IInv OBVIOUS
  <1> USE JournalAssumption DEF Init
  <1>1. TypeOK
    BY DEF TypeOK, Content, NoDraft, Slot
  <1>2. LeaseHeld /\ ScanFresh /\ BaseFresh /\ DraftNext /\ TornFirst /\ ReadbackKnows
    BY DEF LeaseHeld, ScanFresh, BaseFresh, DraftNext, TornFirst, ReadbackKnows, Holding
  <1>3. NeverAmbiguous /\ AckedSurvives
    BY DEF NeverAmbiguous, AckedSurvives, Valid, Missing, Slot
  <1> QED BY <1>1, <1>2, <1>3 DEF IInv

(* Leaving takes a process out of every claim the invariant makes of it.   *)
LEMMA LeaveKeeps ==
  ASSUME IInv, NEW p \in Procs, Leave(p), UNCHANGED <<slots, acked>>
  PROVE  IInv'
  <1> USE JournalAssumption DEF IInv, Leave
  <1>1. TypeOK'
    BY DEF TypeOK, NoDraft, Slot, Content
  <1>2. LeaseHeld' /\ ScanFresh' /\ BaseFresh' /\ DraftNext' /\ TornFirst' /\ ReadbackKnows'
    BY DEF TypeOK, LeaseHeld, ScanFresh, BaseFresh, DraftNext, TornFirst, ReadbackKnows,
           Holding, OnDisk
  <1>3. NeverAmbiguous' /\ AckedSurvives'
    BY DEF NeverAmbiguous, AckedSurvives
  <1> QED BY <1>1, <1>2, <1>3 DEF IInv

(* Steps that look at the journal files and change neither of them.        *)
LEMMA LookKeeps ==
  ASSUME IInv, NEW p \in Procs,
         \/ BeginApply(p) \/ BeginResume(p) \/ \E s \in Slot : ScanSlot(p, s)
         \/ ScanFails(p) \/ Preflight(p) \/ TakeLease(p) \/ LeaseRefused(p)
         \/ Decide(p) \/ End(p)
  PROVE  IInv'
  <1> USE JournalAssumption
  <1>1. CASE Leave(p) /\ UNCHANGED <<slots, acked>>
    BY <1>1, LeaveKeeps
  <1> SUFFICES ASSUME ~(Leave(p) /\ UNCHANGED <<slots, acked>>) PROVE IInv'
    BY <1>1
  <1>2. UNCHANGED <<slots, acked, draft>>
    BY DEF BeginApply, BeginResume, ScanSlot, ScanFails, Preflight, TakeLease,
           LeaseRefused, Decide, End
  <1>3. NeverAmbiguous' /\ AckedSurvives'
    BY <1>2 DEF IInv, NeverAmbiguous, AckedSurvives
  <1>4. CASE BeginApply(p) \/ BeginResume(p) \/ Preflight(p)
    <2> USE <1>4 DEF IInv, BeginApply, BeginResume, Preflight
    <2>1. TypeOK'
      BY <1>2 DEF TypeOK
    <2>2. pc'[p] \in {"preflight", "lease"} /\ UNCHANGED <<lease, seen, base>>
          /\ \A q \in Procs \ {p} : pc'[q] = pc[q]
      BY DEF TypeOK
    <2>3. LeaseHeld' /\ ScanFresh' /\ BaseFresh'
      BY <1>2, <2>2 DEF LeaseHeld, ScanFresh, BaseFresh, Holding
    <2>4. DraftNext' /\ TornFirst' /\ ReadbackKnows'
      BY <1>2, <2>2 DEF DraftNext, TornFirst, ReadbackKnows, OnDisk
    <2> QED BY <1>3, <2>1, <2>3, <2>4 DEF IInv
  <1>5. CASE \E s \in Slot : ScanSlot(p, s)
    <2> PICK s \in Slot : ScanSlot(p, s) BY <1>5
    <2> USE DEF IInv, ScanSlot
    <2>1. TypeOK'
      BY <1>2 DEF TypeOK
    <2>2. ScanFresh'
      BY <1>2 DEF TypeOK, ScanFresh
    <2>3. LeaseHeld' /\ BaseFresh' /\ DraftNext' /\ TornFirst' /\ ReadbackKnows'
      BY <1>2 DEF LeaseHeld, BaseFresh, DraftNext, TornFirst, ReadbackKnows, OnDisk
    <2> QED BY <1>3, <2>1, <2>2, <2>3 DEF IInv
  <1>6. CASE TakeLease(p)
    <2> USE <1>6 DEF IInv, TakeLease
    <2>1. TypeOK'
      BY <1>2 DEF TypeOK, Holding
    <2>2. ScanFresh'
      BY <1>2 DEF TypeOK, ScanFresh
    <2>3. LeaseHeld'
      BY DEF TypeOK, LeaseHeld
    <2>4. BaseFresh' /\ DraftNext' /\ TornFirst' /\ ReadbackKnows'
      BY <1>2 DEF TypeOK, BaseFresh, DraftNext, TornFirst, ReadbackKnows, OnDisk
    <2> QED BY <1>3, <2>1, <2>2, <2>3, <2>4 DEF IInv
  <1>7. CASE Decide(p)
    <2> USE <1>7 DEF IInv, Decide
    <2>1. seen[p] = slots
      BY DEF TypeOK, ScanFresh, Scanned
    <2>2. Newest(slots).gen \in 0 .. MaxGen
      BY NewestFacts, ContentFacts DEF TypeOK
    <2>3. TypeOK'
      BY <1>2, <2>1, <2>2 DEF TypeOK, Holding
    <2>4. /\ pc'[p] = "held" /\ base'[p] = Newest(slots).gen
          /\ \A q \in Procs \ {p} : pc'[q] = pc[q] /\ base'[q] = base[q]
          /\ UNCHANGED <<lease, seen>>
      BY <2>1 DEF TypeOK
    <2>5. LeaseHeld'
      BY <2>4 DEF LeaseHeld, Holding
    <2>6. ScanFresh' /\ BaseFresh'
      BY <1>2, <2>4 DEF ScanFresh, BaseFresh
    <2>7. DraftNext' /\ TornFirst' /\ ReadbackKnows'
      BY <1>2, <2>4 DEF DraftNext, TornFirst, ReadbackKnows, OnDisk
    <2> QED BY <1>3, <2>3, <2>5, <2>6, <2>7 DEF IInv
  <1> QED
    BY <1>4, <1>5, <1>6, <1>7 DEF ScanFails, Preflight, LeaseRefused, Decide, End

(* Preparing a record and learning what became of it.                      *)
LEMMA DraftKeeps ==
  ASSUME IInv, NEW p \in Procs, NEW o \in BOOLEAN, Draft(p, o)
  PROVE  IInv'
  <1> USE JournalAssumption DEF IInv, Draft
  <1>1. Newest(slots).gen \in Nat /\ NewestSlot(slots) \in Slot
    BY NewestFacts, ContentFacts DEF TypeOK
  <1>2. /\ draft'[p].rec = [gen |-> Newest(slots).gen + 1, open |-> o]
        /\ draft'[p].slot = IF Newest(slots) = Missing THEN 0 ELSE 1 - NewestSlot(slots)
        /\ pc'[p] = "write"
        /\ \A q \in Procs \ {p} : pc'[q] = pc[q] /\ draft'[q] = draft[q]
        /\ UNCHANGED <<slots, lease, seen, base, acked>>
    BY DEF TypeOK
  <1>3. draft'[p].rec \in Record /\ draft'[p].slot \in Slot
    BY <1>1, <1>2 DEF Record, Slot
  <1>4. TypeOK'
    BY <1>1, <1>3 DEF TypeOK, Holding, Record, Slot
  <1>5. LeaseHeld' /\ ScanFresh' /\ BaseFresh'
    BY <1>2 DEF LeaseHeld, ScanFresh, BaseFresh, Holding
  <1>6. DraftNext'
    BY <1>2, <1>3 DEF DraftNext, Record
  <1>7. TornFirst' /\ ReadbackKnows'
    BY <1>2 DEF TornFirst, ReadbackKnows, OnDisk
  <1>8. NeverAmbiguous' /\ AckedSurvives'
    BY <1>2 DEF NeverAmbiguous, AckedSurvives
  <1> QED BY <1>4, <1>5, <1>6, <1>7, <1>8 DEF IInv

(* The process that writes has the slots to itself.                        *)
LEMMA Alone ==
  ASSUME IInv, NEW p \in Procs, pc[p] \in Holding
  PROVE  \A q \in Procs \ {p} : pc[q] \notin Holding
  BY JournalAssumption DEF IInv, LeaseHeld, TypeOK

(* fileWrite begins: the slot it tears is not the newest one, so the newest*)
(* record stays what it was.                                               *)
LEMMA StartWriteKeeps ==
  ASSUME IInv, NEW p \in Procs, StartWrite(p)
  PROVE  IInv'
  <1> USE JournalAssumption DEF IInv, StartWrite
  <1>1. /\ draft[p].slot \in Slot /\ draft[p].rec \in Record
        /\ draft[p].rec.gen = Newest(slots).gen + 1
        /\ draft[p].slot = IF Newest(slots) = Missing THEN 0 ELSE 1 - NewestSlot(slots)
    BY DEF DraftNext, TypeOK
  <1>2. /\ slots' = [slots EXCEPT ![draft[p].slot] = Torn]
        /\ slots \in [Slot -> Content]
    BY DEF TypeOK
  <1>3. /\ Newest(slots') = Newest(slots)
        /\ Newest(slots) # Missing => Selectable(slots')
    <2> DEFINE t == [slots EXCEPT ![draft[p].slot] = Torn]
    <2>1. Newest(t) = Newest(slots) /\ (Newest(slots) # Missing => Selectable(t))
      BY <1>1, <1>2, WriteOther DEF NeverAmbiguous, Distinct
    <2> QED BY <1>2, <2>1 DEF Newest, NewestSlot, Selectable
  <1>4. /\ pc'[p] = "writing"
        /\ \A q \in Procs \ {p} : pc'[q] = pc[q] /\ pc[q] \notin Holding
        /\ UNCHANGED <<lease, seen, base, draft, acked>>
    BY Alone DEF TypeOK, Holding
  <1>5. slots' \in [Slot -> Content] /\ slots'[draft[p].slot] = Torn
    BY <1>1, <1>2 DEF Content
  <1>6. TypeOK'
    BY <1>4, <1>5 DEF TypeOK, Holding
  <1>7. LeaseHeld' /\ ScanFresh'
    BY <1>4 DEF LeaseHeld, ScanFresh, Holding
  <1>8. BaseFresh'
    BY <1>3, <1>4 DEF BaseFresh, Holding
  <1>9. NewestSlot(slots') = NewestSlot(slots) \/ Newest(slots) = Missing
    <2>1. SUFFICES ASSUME Newest(slots) # Missing
                   PROVE  NewestSlot(slots') = NewestSlot(slots)
      OBVIOUS
    <2>2. /\ Newest(slots) = slots[NewestSlot(slots)] /\ Newest(slots).gen # 0
          /\ slots[0].gen \in Nat /\ slots[1].gen \in Nat /\ Torn.gen = 0
          /\ 0 \in Slot /\ 1 \in Slot
      BY <1>2, <2>1, NewestFacts, ContentFacts DEF Slot
    <2>3. CASE NewestSlot(slots) = 0
      <3>1. slots'[1] = Torn /\ slots'[0] = slots[0] BY <1>1, <1>2, <2>1, <2>2, <2>3
      <3> QED BY <2>2, <2>3, <3>1 DEF NewestSlot
    <2>4. CASE NewestSlot(slots) = 1
      <3>1. slots'[0] = Torn /\ slots'[1] = slots[1] BY <1>1, <1>2, <2>1, <2>2, <2>4
      <3> QED BY <2>2, <2>4, <3>1 DEF NewestSlot
    <2> QED BY <2>3, <2>4 DEF NewestSlot
  <1>10. DraftNext'
    BY <1>1, <1>3, <1>4, <1>9 DEF DraftNext, Holding
  <1>11. TornFirst' /\ ReadbackKnows'
    BY <1>4, <1>5 DEF TornFirst, ReadbackKnows, Holding
  <1>12. NeverAmbiguous'
    BY <1>1, <1>2, ContentFacts DEF NeverAmbiguous, Valid, Slot
  <1>13. AckedSurvives'
    BY <1>3, <1>4, ContentFacts, NewestFacts DEF AckedSurvives, TypeOK
  <1> QED BY <1>6, <1>7, <1>8, <1>10, <1>11, <1>12, <1>13 DEF IInv

(* fileWrite is complete: the draft is now the newest record, one number   *)
(* after the one before.                                                   *)
LEMMA FinishWriteKeeps ==
  ASSUME IInv, NEW p \in Procs, FinishWrite(p)
  PROVE  IInv' /\ Newest(slots') = draft[p].rec
         /\ draft[p].rec \in Record /\ draft[p].rec.gen = Newest(slots).gen + 1
  <1> USE JournalAssumption DEF IInv, FinishWrite
  <1>1. /\ draft[p].slot \in Slot /\ draft[p].rec \in Record
        /\ draft[p].rec.gen = Newest(slots).gen + 1
        /\ draft[p].slot = IF Newest(slots) = Missing THEN 0 ELSE 1 - NewestSlot(slots)
    BY DEF DraftNext, TypeOK
  <1>2. /\ slots' = [slots EXCEPT ![draft[p].slot] = draft[p].rec]
        /\ slots \in [Slot -> Content]
    BY DEF TypeOK
  <1>3. Newest(slots).gen \in Nat
    BY <1>2, NewestFacts, ContentFacts
  <1>4. /\ Newest(slots') = draft[p].rec
        /\ Selectable(slots')
        /\ NeverAmbiguous'
    <2> DEFINE t == [slots EXCEPT ![draft[p].slot] = draft[p].rec]
    <2>1. /\ Newest(t) = draft[p].rec
          /\ Selectable(t)
          /\ Distinct(t)
      <3>1. Distinct(slots)
        BY DEF Distinct, NeverAmbiguous
      <3>2. draft[p].rec.gen > Newest(slots).gen
        BY <1>1, <1>3
      <3> QED BY <1>1, <1>2, <3>1, <3>2, WriteOther
    <2>2. slots' = t
      BY <1>2
    <2> HIDE DEF t
    <2>3. Newest(slots') = draft[p].rec
      BY <2>1, <2>2 DEF Newest, NewestSlot
    <2>4. Selectable(slots')
      BY <2>1, <2>2 DEF Selectable
    <2>5. NeverAmbiguous'
      BY <2>1, <2>2 DEF NeverAmbiguous, Distinct
    <2> QED BY <2>3, <2>4, <2>5
  <1>5. /\ pc'[p] = "readback"
        /\ \A q \in Procs \ {p} : pc'[q] = pc[q] /\ pc[q] \notin Holding
        /\ UNCHANGED <<lease, seen, base, draft, acked>>
    BY Alone DEF TypeOK, Holding
  <1>6. slots' \in [Slot -> Content] /\ slots'[draft[p].slot] = draft[p].rec
    BY <1>1, <1>2 DEF Content
  <1>7. TypeOK'
    BY <1>5, <1>6 DEF TypeOK, Holding
  <1>8. LeaseHeld' /\ ScanFresh' /\ BaseFresh' /\ DraftNext' /\ TornFirst'
    BY <1>5 DEF LeaseHeld, ScanFresh, BaseFresh, DraftNext, TornFirst, Holding
  <1>9. ReadbackKnows'
    BY <1>1, <1>4, <1>5, <1>6 DEF ReadbackKnows, OnDisk, Holding
  <1>10. AckedSurvives'
    BY <1>1, <1>3, <1>4, <1>5, ContentFacts DEF AckedSurvives, TypeOK
  <1> QED BY <1>1, <1>4, <1>7, <1>8, <1>9, <1>10 DEF IInv

(* Steps after the attempt: the slots stay as they are.                    *)
LEMMA OutcomeKeeps ==
  ASSUME IInv, NEW p \in Procs,
         WriteFails(p) \/ Readback(p) \/ ReadbackFails(p)
  PROVE  IInv'
  <1> USE JournalAssumption DEF IInv
  <1>1. CASE WriteFails(p)
    <2> USE <1>1 DEF WriteFails
    <2>1. /\ pc'[p] = "readback" /\ pc[p] \in {"write", "writing"}
          /\ \A q \in Procs \ {p} : pc'[q] = pc[q]
          /\ UNCHANGED <<slots, lease, seen, base, draft, acked>>
      BY DEF TypeOK
    <2>2. TypeOK'
      BY DEF TypeOK, Holding
    <2>3. LeaseHeld' /\ ScanFresh' /\ BaseFresh' /\ DraftNext' /\ TornFirst'
      BY <2>1 DEF LeaseHeld, ScanFresh, BaseFresh, DraftNext, TornFirst, Holding
    <2>4. draft[p].slot \in Slot /\ slots[draft[p].slot] \in Content
      BY DEF TypeOK
    <2>5. ~OnDisk(p)
      <3>1. /\ draft[p].rec \in Record
            /\ draft[p].rec.gen = Newest(slots).gen + 1
        BY <2>1 DEF DraftNext
      <3>2. slots[draft[p].slot].gen <= Newest(slots).gen
        BY <2>4, NewestFacts DEF TypeOK
      <3>3. Newest(slots).gen \in Nat
        BY NewestFacts, ContentFacts DEF TypeOK
      <3> QED BY <3>1, <3>2, <3>3 DEF OnDisk
    <2>6. ReadbackKnows'
      BY <2>1, <2>5 DEF ReadbackKnows, DraftNext, BaseFresh, OnDisk
    <2>7. NeverAmbiguous' /\ AckedSurvives'
      BY <2>1 DEF NeverAmbiguous, AckedSurvives
    <2> QED BY <2>2, <2>3, <2>6, <2>7
  <1>2. ASSUME Proceed(p), pc[p] = "readback", UNCHANGED slots,
               AckedSurvives', acked' \in Record \cup {Missing}
        PROVE  IInv'
    <2>1. NeverAmbiguous'
      BY <1>2 DEF NeverAmbiguous
    <2>2. CASE Leave(p)
      <3> USE <2>2 DEF Leave
      <3>1. TypeOK'
        BY <1>2 DEF TypeOK, NoDraft, Slot, Content
      <3>2. LeaseHeld' /\ ScanFresh' /\ BaseFresh' /\ DraftNext' /\ TornFirst' /\ ReadbackKnows'
        BY <1>2 DEF TypeOK, LeaseHeld, ScanFresh, BaseFresh, DraftNext, TornFirst,
                    ReadbackKnows, Holding, OnDisk
      <3> QED BY <1>2, <2>1, <3>1, <3>2
    <2>3. CASE ~Leave(p)
      <3>1. /\ pc' = [pc EXCEPT ![p] = "held"]
            /\ base' = [base EXCEPT ![p] = IF OnDisk(p) THEN draft[p].rec.gen ELSE base[p]]
            /\ draft' = [draft EXCEPT ![p] = NoDraft]
            /\ UNCHANGED <<lease, command, seen>>
        BY <1>2, <2>3 DEF Proceed
      <3>2. draft[p].rec \in Record
            /\ (OnDisk(p) => Newest(slots) = draft[p].rec)
            /\ (~OnDisk(p) => base[p] = Newest(slots).gen)
        BY <1>2 DEF ReadbackKnows
      <3>3. TypeOK'
        BY <1>2, <3>1, <3>2 DEF TypeOK, NoDraft, Slot, Holding, Record
      <3>4. /\ pc'[p] = "held"
            /\ base'[p] = Newest(slots).gen
            /\ \A q \in Procs \ {p} : pc'[q] = pc[q] /\ base'[q] = base[q] /\ draft'[q] = draft[q]
        BY <3>1, <3>2 DEF TypeOK
      <3>5. LeaseHeld' /\ ScanFresh' /\ BaseFresh'
        BY <1>2, <3>1, <3>4 DEF LeaseHeld, ScanFresh, BaseFresh, Holding
      <3>6. DraftNext' /\ TornFirst' /\ ReadbackKnows'
        BY <1>2, <3>1, <3>4 DEF DraftNext, TornFirst, ReadbackKnows, OnDisk
      <3> QED BY <1>2, <2>1, <3>3, <3>5, <3>6
    <2> QED BY <2>2, <2>3
  <1>3. CASE Readback(p)
    <2>1. draft[p].rec \in Record /\ Newest(slots) = draft[p].rec
      BY <1>3 DEF Readback, ReadbackKnows
    <2>2. Selectable(slots)
      <3>1. slots \in [Slot -> Content] /\ 0 \in Slot /\ 1 \in Slot
        BY DEF TypeOK, Slot
      <3>2. \E s \in Slot : Valid(slots[s])
        BY <2>1, <3>1, ContentFacts, NewestFacts DEF Valid
      <3> QED BY <3>1, <3>2, ContentFacts DEF Selectable, NeverAmbiguous, Valid, Slot
    <2>3. AckedSurvives'
      BY <1>3, <2>1, <2>2 DEF Readback, AckedSurvives, Record
    <2> QED BY <1>2, <1>3, <2>1, <2>3 DEF Readback
  <1>4. CASE ReadbackFails(p)
    <2>1. AckedSurvives' /\ acked' \in Record \cup {Missing}
      BY <1>4 DEF ReadbackFails, AckedSurvives, TypeOK
    <2>2. CASE Proceed(p)
      BY <1>2, <1>4, <2>1, <2>2 DEF ReadbackFails
    <2>3. CASE Leave(p)
      BY <1>4, <2>3, LeaveKeeps DEF ReadbackFails
    <2> QED BY <1>4, <2>2, <2>3 DEF ReadbackFails
  <1> QED BY <1>1, <1>3, <1>4

(* Every step of every process keeps the invariant.                        *)
LEMMA NextIInv == IInv /\ [Next]_vars => IInv'
  <1> SUFFICES ASSUME IInv, [Next]_vars PROVE IInv'
    OBVIOUS
  <1>1. CASE UNCHANGED vars
    BY <1>1 DEF vars, IInv, TypeOK, LeaseHeld, ScanFresh, BaseFresh, DraftNext, TornFirst,
                ReadbackKnows, OnDisk, NeverAmbiguous, AckedSurvives
  <1>2. ASSUME NEW p \in Procs,
               \/ BeginApply(p) \/ BeginResume(p) \/ \E s \in Slot : ScanSlot(p, s)
               \/ ScanFails(p) \/ Preflight(p) \/ TakeLease(p) \/ LeaseRefused(p)
               \/ Decide(p) \/ End(p)
        PROVE  IInv'
    BY <1>2, LookKeeps
  <1>3. ASSUME NEW p \in Procs, NEW o \in BOOLEAN, Draft(p, o) PROVE IInv'
    BY <1>3, DraftKeeps
  <1>4. ASSUME NEW p \in Procs, StartWrite(p) \/ FinishWrite(p) PROVE IInv'
    BY <1>4, StartWriteKeeps, FinishWriteKeeps
  <1>5. ASSUME NEW p \in Procs, WriteFails(p) \/ Readback(p) \/ ReadbackFails(p) PROVE IInv'
    BY <1>5, OutcomeKeeps
  <1> QED BY <1>1, <1>2, <1>3, <1>4, <1>5 DEF Next

-----------------------------------------------------------------------------
(* The journal's variables keep their types.                               *)
THEOREM JournalTypeCorrect == Spec => []TypeOK
  <1>1. IInv => TypeOK BY DEF IInv
  <1> QED BY <1>1, InitIInv, NextIInv, PTL DEF Spec

(* The inductive invariant of journal and lease holds in every state that  *)
(* concurrent commands and crashes reach.                                  *)
THEOREM JournalInvariant == Spec => []IInv
  BY InitIInv, NextIInv, PTL DEF Spec

(* A record reported durable by writeInactiveJournal is never lost again.  *)
THEOREM JournalAckedSurvives == Spec => []AckedSurvives
  <1>1. IInv => AckedSurvives BY DEF IInv
  <1> QED BY <1>1, JournalInvariant, PTL

(* selectNewestSlot never meets two valid slots of equal generation.       *)
THEOREM JournalNeverAmbiguous == Spec => []NeverAmbiguous
  <1>1. IInv => NeverAmbiguous BY DEF IInv
  <1> QED BY <1>1, JournalInvariant, PTL

(* Only FinishWrite changes the newest record.                             *)
LEMMA NewestSteps ==
  ASSUME IInv, [Next]_vars
  PROVE  \/ Newest(slots') = Newest(slots)
         \/ \E p \in Procs : FinishWrite(p)
  <1>1. CASE UNCHANGED slots
    BY <1>1 DEF Newest, NewestSlot
  <1>2. CASE \E p \in Procs : StartWrite(p)
    <2> PICK p \in Procs : StartWrite(p) BY <1>2
    <2>1. /\ draft[p].slot \in Slot /\ draft[p].rec \in Record
          /\ draft[p].slot = IF Newest(slots) = Missing THEN 0 ELSE 1 - NewestSlot(slots)
          /\ slots \in [Slot -> Content]
      BY DEF IInv, DraftNext, TypeOK, StartWrite
    <2> DEFINE t == [slots EXCEPT ![draft[p].slot] = Torn]
    <2>2. Newest(t) = Newest(slots)
      BY <2>1, WriteOther DEF IInv, NeverAmbiguous, Distinct
    <2>3. slots' = t
      BY DEF StartWrite
    <2> HIDE DEF t
    <2>4. Newest(slots') = Newest(slots)
      BY <2>2, <2>3 DEF Newest, NewestSlot
    <2> QED BY <2>4
  <1> QED
    BY <1>1, <1>2 DEF Next, vars, BeginApply, BeginResume, ScanSlot, ScanFails, Preflight,
       TakeLease, LeaseRefused, Decide, Draft, WriteFails, Readback, ReadbackFails, End

(* Whoever replaces the newest record had read exactly that record, or     *)
(* written it, and holds the lease.                                        *)
THEOREM JournalNoStaleContinuation == Spec => NoStaleContinuation
  <1>1. ASSUME IInv, [Next]_vars
        PROVE  [Newest(slots') # Newest(slots) =>
                  \E p \in Procs : /\ pc[p] = "writing"
                                   /\ lease = p
                                   /\ base[p] = Newest(slots).gen]_vars
    <2> SUFFICES ASSUME NEW p \in Procs, FinishWrite(p)
                 PROVE  pc[p] = "writing" /\ lease = p /\ base[p] = Newest(slots).gen
      BY <1>1, NewestSteps
    <2> QED BY <1>1 DEF IInv, LeaseHeld, BaseFresh, FinishWrite, Holding
  <1> QED BY <1>1, JournalInvariant, PTL DEF Spec, NoStaleContinuation

(* The two journal files implement the atomic numbered cell.               *)
THEOREM JournalImplementsCell == Spec => CellSpec
  <1>1. Init => Cell!CellInit
    BY DEF Init, Cell!CellInit, Newest, NewestSlot, Valid, Missing, Slot
  <1>2. ASSUME IInv, [Next]_vars
        PROVE  [Cell!Write]_<<Newest(slots).gen, Newest(slots).open>>
    <2>1. CASE Newest(slots') = Newest(slots)
      BY <2>1
    <2>2. ASSUME NEW p \in Procs, FinishWrite(p)
          PROVE  Cell!Write
      <3>1. /\ Newest(slots') = draft[p].rec
            /\ draft[p].rec \in Record
            /\ draft[p].rec.gen = Newest(slots).gen + 1
        BY <1>2, <2>2, FinishWriteKeeps
      <3>2. Newest(slots).gen \in Nat
        BY <1>2, NewestFacts, ContentFacts DEF IInv, TypeOK
      <3> QED BY <3>1, <3>2, JournalAssumption DEF Cell!Write, Record
    <2> QED BY <1>2, <2>1, <2>2, NewestSteps
  <1> QED BY <1>1, <1>2, JournalInvariant, PTL DEF Spec, CellSpec, Cell!CellSpec
=============================================================================
