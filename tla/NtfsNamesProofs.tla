--------------------------- MODULE NtfsNamesProofs ---------------------------
(***************************************************************************)
(* Proofs about NtfsNames for any set of names, objects, starting          *)
(* directories and any number of faults.                                   *)
(***************************************************************************)
EXTENDS NtfsNames, TLAPS

(* What is visible is one of the contents that may be durable.             *)
CurrentPossible == \A n \in Names : index[n] \in mayIndex[n]

(* A move under way knows its object, and finds it under the source name.  *)
OnTheWay == {"mark", "markflush", "canon", "canonflush", "insert", "publish", "detach"}
MoveKnown == /\ to # from
             /\ Moving /\ pc \in OnTheWay => /\ obj # None /\ index[from] = obj
                                             /\ index[to] \in {None, obj}

(* From the flush that follows the dirty bit on, the destination is what   *)
(* it seems: nothing can come back there, and the alias is durable before  *)
(* the source is detached.                                                 *)
Landed == Moving => /\ pc \in {"canon", "canonflush", "insert", "detach"} => Holds(to, index[to])
                    /\ pc = "insert" => index[to] = None
                    /\ pc \in {"publish", "detach", "canonflush"} => index[to] = obj

(* An operation on another object touches no name.                         *)
OtherStays == ~Moving => pc \notin {"canon", "canonflush", "insert", "publish", "detach"}

NamesInv == TypeOK /\ CurrentPossible /\ MoveKnown /\ Landed /\ OtherStays /\ Named

-----------------------------------------------------------------------------
LEMMA AfterMarkLabel == AfterMark \in Labels
  BY DEF AfterMark, Labels

LEMMA PublishCheckAnswer ==
  ASSUME NEW t, NEW s
  PROVE  PublishCheck(t, s) # "go" => PublishCheck(t, s) \in Answers
  BY DEF PublishCheck, Answers

LEMMA CallFields ==
  ASSUME NEW w \in Workloads, NEW c \in w.calls
  PROVE  /\ c.op \in Ops /\ c.to \in Names /\ c.from \in Names /\ c.aside \in Names
         /\ c.to # c.from /\ c.to # c.aside /\ c.from # c.aside
  BY NamesAssumption DEF Call

LEMMA PlacementFields ==
  ASSUME NEW p \in Placements, NEW n \in Names
  PROVE  p[n] \in Objects \cup {None}
  BY NamesAssumption

(* The three kinds of write and the flush keep the volume well typed.      *)
LEMMA VolumeTypes ==
  ASSUME TypeOK,
         \/ \E n \in Names, o \in Objects \cup {None} : WriteIndex(n, o)
         \/ \E o \in Objects \cup {None}, n \in Names \cup {None} : WriteCanon(o, n)
         \/ \E b \in BOOLEAN : WriteDirty(b)
         \/ deviceFlush
         \/ UNCHANGED volume
  PROVE  /\ index' \in [Names -> Objects \cup {None}]
         /\ canon' \in [Objects -> Names \cup {None}]
         /\ dirty' \in BOOLEAN
         /\ mayIndex' \in [Names -> SUBSET (Objects \cup {None})]
         /\ mayCanon' \in [Objects -> SUBSET (Names \cup {None})]
         /\ mayDirty' \in SUBSET BOOLEAN
  <1> USE DEF TypeOK
  <1>1. ASSUME NEW n \in Names, NEW o \in Objects \cup {None}, WriteIndex(n, o)
        PROVE  /\ index' \in [Names -> Objects \cup {None}]
               /\ mayIndex' \in [Names -> SUBSET (Objects \cup {None})]
               /\ UNCHANGED <<canon, dirty, mayCanon, mayDirty>>
    BY <1>1 DEF WriteIndex
  <1>2. ASSUME NEW o \in Objects \cup {None}, NEW n \in Names \cup {None}, WriteCanon(o, n)
        PROVE  /\ canon' \in [Objects -> Names \cup {None}]
               /\ mayCanon' \in [Objects -> SUBSET (Names \cup {None})]
               /\ UNCHANGED <<index, dirty, mayIndex, mayDirty>>
    BY <1>2 DEF WriteCanon
  <1>3. ASSUME NEW b \in BOOLEAN, WriteDirty(b)
        PROVE  /\ dirty' \in BOOLEAN /\ mayDirty' \in SUBSET BOOLEAN
               /\ UNCHANGED <<index, canon, mayIndex, mayCanon>>
    BY <1>3 DEF WriteDirty
  <1>4. CASE deviceFlush
    <2>1. mayIndex' \in [Names -> SUBSET (Objects \cup {None})]
      BY <1>4 DEF deviceFlush
    <2>2. mayCanon' \in [Objects -> SUBSET (Names \cup {None})]
      BY <1>4 DEF deviceFlush
    <2>3. mayDirty' \in SUBSET BOOLEAN /\ UNCHANGED live
      BY <1>4 DEF deviceFlush
    <2> QED BY <2>1, <2>2, <2>3 DEF live
  <1>5. CASE UNCHANGED volume
    BY <1>5 DEF volume, live, image
  <1> QED BY <1>1, <1>2, <1>3, <1>4, <1>5

(* The frame of a call stays well typed, whichever way it goes on.         *)
FrameOK == /\ pc \in Labels /\ call \in work.calls
           /\ to \in Names /\ from \in Names
           /\ obj \in Objects \cup {None}
           /\ more \in BOOLEAN
           /\ more => call.op = "replace" /\ to = call.aside /\ from = call.to
           /\ answer \in Answers
           /\ faults \in 0 .. work.faults /\ faulty \in BOOLEAN
           /\ before \in Placements /\ work \in Workloads

LEMMA FrameTypes ==
  ASSUME FrameOK,
         \/ \E label \in Labels : Goto(label)
         \/ \E result \in Answers : Return(result)
         \/ StartLeg(call.to, call.from, FALSE)
         \/ call.op = "replace" /\ StartLeg(call.aside, call.to, TRUE)
         \/ \E o \in Objects \cup {None} : WorkOn(o)
  PROVE  FrameOK'
  <1> USE DEF FrameOK, counters
  <1>0. call.to \in Names /\ call.from \in Names /\ call.aside \in Names
    BY CallFields
  <1>1. CASE \E label \in Labels : Goto(label)
    BY <1>1 DEF Goto
  <1>2. CASE \E result \in Answers : Return(result)
    BY <1>2 DEF Return, Labels
  <1>3. CASE StartLeg(call.to, call.from, FALSE)
    BY <1>0, <1>3 DEF StartLeg, Labels
  <1>4. CASE call.op = "replace" /\ StartLeg(call.aside, call.to, TRUE)
    BY <1>0, <1>4 DEF StartLeg, Labels
  <1>5. CASE \E o \in Objects \cup {None} : WorkOn(o)
    BY <1>5 DEF WorkOn, Labels
  <1> QED BY <1>1, <1>2, <1>3, <1>4, <1>5

LEMMA FinishTypes ==
  ASSUME FrameOK, Finish
  PROVE  FrameOK'
  <1>1. CASE more
    BY <1>1, FrameTypes DEF Finish
  <1>2. CASE ~more
    <2>1. \E result \in Answers : Return(result)
      BY <1>2 DEF Finish, Answers
    <2> QED BY <2>1, FrameTypes
  <1> QED BY <1>1, <1>2

(* A lookup reads the volume and decides how the call goes on.             *)
LEMMA LookTypes ==
  ASSUME TypeOK, Look
  PROVE  UNCHANGED volume /\ FrameOK'
  <1>0. FrameOK
    BY DEF TypeOK, FrameOK
  <1>a. \A n \in Names : index[n] \in Objects \cup {None}
    BY DEF TypeOK
  <1>b. /\ {"ok", "io", "not_found", "conflict", "exists"} \subseteq Answers
        /\ {"drain", "leg"} \subseteq Labels
    BY DEF Answers, Labels
  <1>c. to \in Names /\ from \in Names /\ call.to \in Names /\ call.from \in Names
    BY CallFields DEF TypeOK
  <1>1. CASE LookReplace
    <2>1. UNCHANGED volume
      BY <1>1 DEF LookReplace
    <2>2. \/ \E label \in Labels : Goto(label)
          \/ \E result \in Answers : Return(result)
          \/ StartLeg(call.to, call.from, FALSE)
          \/ call.op = "replace" /\ StartLeg(call.aside, call.to, TRUE)
      BY <1>1, <1>b DEF LookReplace
    <2> QED BY <2>1, <2>2, <1>0, FrameTypes
  <1>2. CASE LookLeg
    <2>1. \/ \E result \in Answers : Return(result)
          \/ \E o \in Objects \cup {None} : WorkOn(o)
      BY <1>2, <1>a, <1>c, PublishCheckAnswer DEF LookLeg
    <2> QED BY <2>1, <1>0, <1>2, FrameTypes DEF LookLeg
  <1>3. CASE LookRename
    <2>1. \/ \E result \in Answers : Return(result)
          \/ \E o \in Objects \cup {None} : WorkOn(o)
      BY <1>3, <1>a, <1>b, <1>c DEF LookRename
    <2> QED BY <2>1, <1>0, <1>3, FrameTypes DEF LookRename
  <1>4. CASE LookDelete
    <2>1. \/ \E result \in Answers : Return(result)
          \/ \E o \in Objects \cup {None} : WorkOn(o)
      BY <1>4, <1>a, <1>b, <1>c DEF LookDelete
    <2> QED BY <2>1, <1>0, <1>4, FrameTypes DEF LookDelete
  <1>5. CASE LookCreate
    <2>1. \/ \E result \in Answers : Return(result)
          \/ \E o \in Objects \cup {None} : WorkOn(o)
      BY <1>5, <1>b DEF LookCreate
    <2> QED BY <2>1, <1>0, <1>5, FrameTypes DEF LookCreate
  <1>6. CASE LookRecover
    <2>1. \/ \E result \in Answers : Return(result)
          \/ \E o \in Objects \cup {None} : WorkOn(o)
      BY <1>6, <1>a, <1>b, <1>c DEF LookRecover
    <2> QED BY <2>1, <1>0, <1>6, FrameTypes DEF LookRecover
  <1>7. CASE LookOther
    BY <1>7, <1>0, FrameTypes DEF LookOther
  <1> QED BY <1>1, <1>2, <1>3, <1>4, <1>5, <1>6, <1>7 DEF Look

(* A device request is one write, one flush, or nothing.                   *)
LEMMA RequestTypes ==
  ASSUME TypeOK, Request
  PROVE  /\ \/ \E n \in Names, o \in Objects \cup {None} : WriteIndex(n, o)
            \/ \E o \in Objects \cup {None}, n \in Names \cup {None} : WriteCanon(o, n)
            \/ \E b \in BOOLEAN : WriteDirty(b)
            \/ deviceFlush
            \/ UNCHANGED volume
         /\ FrameOK'
  <1>0. FrameOK
    BY DEF TypeOK, FrameOK
  <1>a. Labels = Labels \cup {"insert", "publish", "canon", "canonflush", "detach", "settle",
                              "free", "freeflush", "clear", "clearflush", "markflush"}
    BY DEF Labels
  <1>b. to \in Names /\ from \in Names /\ obj \in Objects \cup {None}
    BY DEF TypeOK
  <1>1. CASE Mark
    BY <1>0, <1>1, <1>a, AfterMarkLabel, FrameTypes DEF Mark
  <1>2. CASE MarkFlush
    BY <1>0, <1>2, AfterMarkLabel, FrameTypes DEF MarkFlush
  <1>3. CASE Canon
    BY <1>0, <1>3, <1>a, <1>b, FrameTypes DEF Canon
  <1>4. CASE CanonFlush
    BY <1>0, <1>4, <1>a, FrameTypes DEF CanonFlush
  <1>5. CASE Insert
    BY <1>0, <1>5, <1>a, <1>b, FrameTypes DEF Insert
  <1>6. CASE Publish
    BY <1>0, <1>6, <1>a, FrameTypes DEF Publish
  <1>7. CASE Detach
    BY <1>0, <1>7, <1>a, <1>b, FrameTypes DEF Detach
  <1>8. CASE Settle
    BY <1>0, <1>8, <1>a, FrameTypes DEF Settle
  <1>9. CASE Free
    BY <1>0, <1>9, <1>a, <1>b, FrameTypes DEF Free
  <1>10. CASE FreeFlush
    BY <1>0, <1>10, <1>a, FrameTypes DEF FreeFlush
  <1>11. CASE Drain
    BY <1>0, <1>11, <1>a, FrameTypes DEF Drain
  <1>12. CASE Clear
    BY <1>0, <1>12, <1>a, FrameTypes, FinishTypes DEF Clear
  <1>13. CASE ClearFlush
    BY <1>0, <1>13, FinishTypes DEF ClearFlush
  <1> QED BY <1>1, <1>2, <1>3, <1>4, <1>5, <1>6, <1>7, <1>8, <1>9, <1>10, <1>11, <1>12,
             <1>13 DEF Request

(* After a loss of power the volume has one of the contents it may have.   *)
LEMMA PowerLossTypes ==
  ASSUME TypeOK, PowerLoss
  PROVE  TypeOK'
  <1> USE DEF TypeOK
  <1>1. /\ index' \in [Names -> Objects \cup {None}]
        /\ canon' \in [Objects -> Names \cup {None}]
        /\ dirty' \in BOOLEAN
    BY DEF PowerLoss
  <1>2. /\ mayIndex' \in [Names -> SUBSET (Objects \cup {None})]
        /\ mayCanon' \in [Objects -> SUBSET (Names \cup {None})]
        /\ mayDirty' \in SUBSET BOOLEAN
    BY <1>1 DEF PowerLoss
  <1>3. faults' \in 0 .. work.faults /\ before' = before /\ work' = work
    BY NamesAssumption DEF PowerLoss, Fault
  <1>4. /\ pc' \in Labels /\ answer' \in Answers /\ more' = FALSE /\ faulty' = FALSE
        /\ UNCHANGED <<call, to, from, obj>>
    BY DEF PowerLoss, Labels, Answers
  <1> QED BY <1>1, <1>2, <1>3, <1>4

LEMMA FaultTypes ==
  ASSUME TypeOK, FailWrite \/ FailWithoutEffect
  PROVE  /\ \/ \E n \in Names, o \in Objects \cup {None} : WriteIndex(n, o)
            \/ \E o \in Objects \cup {None}, n \in Names \cup {None} : WriteCanon(o, n)
            \/ \E b \in BOOLEAN : WriteDirty(b)
            \/ UNCHANGED volume
         /\ FrameOK'
  <1>1. Abandon
    BY DEF FailWrite, FailWithoutEffect
  <1>2. faults' \in 0 .. work.faults /\ before' = before /\ work' = work
    BY <1>1, NamesAssumption DEF Abandon, Fault, TypeOK
  <1>3. FrameOK'
    BY <1>1, <1>2 DEF Abandon, FrameOK, TypeOK, Labels, Answers
  <1>4. to \in Names /\ from \in Names /\ obj \in Objects \cup {None}
    BY DEF TypeOK
  <1> QED BY <1>3, <1>4 DEF FailWrite, FailWithoutEffect

LEMMA TypeStep == TypeOK /\ [Next]_vars => TypeOK'
  <1> SUFFICES ASSUME TypeOK, [Next]_vars
               PROVE  TypeOK'
    OBVIOUS
  <1>1. CASE Begin
    <2>1. PICK c \in work.calls : /\ pc' \in {"leg", "look"}
                             /\ call' = c /\ to' = c.to /\ from' = c.from
                             /\ obj' = None /\ more' = FALSE /\ answer' = "none"
                             /\ faulty' = FALSE
                             /\ UNCHANGED <<volume, faults, before, work>>
      BY <1>1 DEF Begin
    <2>2. c.to \in Names /\ c.from \in Names
      BY CallFields DEF TypeOK
    <2>3. FrameOK'
      BY <2>1, <2>2 DEF TypeOK, FrameOK, Labels, Answers
    <2>4. UNCHANGED volume
      BY <2>1
    <2> QED BY <2>3, <2>4, VolumeTypes DEF TypeOK, FrameOK
  <1>2. CASE Look
    <2>1. UNCHANGED volume /\ FrameOK'
      BY <1>2, LookTypes
    <2> QED BY <2>1, VolumeTypes DEF TypeOK, FrameOK
  <1>3. CASE Request
    BY <1>3, RequestTypes, VolumeTypes DEF TypeOK, FrameOK
  <1>4. CASE FailWrite \/ FailWithoutEffect
    BY <1>4, FaultTypes, VolumeTypes DEF TypeOK, FrameOK
  <1>5. CASE PowerLoss
    BY <1>5, PowerLossTypes
  <1>6. CASE UNCHANGED vars
    BY <1>6 DEF TypeOK, vars, volume, live, image, frame, counters
  <1> QED BY <1>1, <1>2, <1>3, <1>4, <1>5, <1>6 DEF Next

LEMMA TypeInit == Init => TypeOK
  <1> SUFFICES ASSUME Init
               PROVE  TypeOK
    OBVIOUS
  <1>0. work \in Workloads /\ work.calls # {} /\ work.faults \in Nat
    BY NamesAssumption DEF Init
  <1>1. call \in work.calls
    <2>1. call = CHOOSE c \in work.calls : TRUE
      BY Zenon DEF Init
    <2> QED BY <1>0, <2>1
  <1>2. to \in Names /\ from \in Names
    BY <1>0, <1>1, CallFields DEF Init
  <1>3. index \in [Names -> Objects \cup {None}]
    BY NamesAssumption DEF Init
  <1>4. \A o \in Objects : canon[o] \in Names \cup {None}
    BY DEF Init
  <1>5. canon \in [Objects -> Names \cup {None}]
    BY <1>4 DEF Init
  <1>6. \A n \in Names : index[n] \in Objects \cup {None}
    BY <1>3
  <1>a. /\ mayIndex = [n \in Names |-> {index[n]}]
        /\ mayCanon = [o \in Objects |-> {canon[o]}]
        /\ dirty = FALSE /\ mayDirty = {FALSE} /\ pc = "idle" /\ answer = "none"
        /\ obj = None /\ more = FALSE /\ faults = 0 /\ faulty = FALSE
        /\ before \in Placements
    BY Zenon DEF Init
  <1>7. mayIndex \in [Names -> SUBSET (Objects \cup {None})]
    BY <1>6, <1>a
  <1>8. mayCanon \in [Objects -> SUBSET (Names \cup {None})]
    BY <1>4, <1>a
  <1>9. faults \in 0 .. work.faults
    BY <1>0, <1>a
  <1>10. /\ dirty \in BOOLEAN /\ mayDirty \in SUBSET BOOLEAN
         /\ pc \in Labels /\ answer \in Answers
         /\ obj \in Objects \cup {None} /\ more = FALSE
         /\ faulty \in BOOLEAN /\ before \in Placements
    BY <1>a, Zenon DEF Labels, Answers
  <1> QED BY <1>0, <1>1, <1>2, <1>3, <1>5, <1>7, <1>8, <1>9, <1>10 DEF TypeOK

(* Every call leaves the volume and its own frame well typed; the second   *)
(* leg of a replacement is pending only during the first.                  *)
THEOREM TypeCorrect == Spec => []TypeOK
  BY TypeInit, TypeStep, PTL DEF Spec

-----------------------------------------------------------------------------
(* What a step does to the set of contents that a name may have.           *)
LEMMA OtherWritesKeepNames ==
  ASSUME \/ \E o, n : WriteCanon(o, n)
         \/ \E b : WriteDirty(b)
         \/ UNCHANGED volume
  PROVE  UNCHANGED <<index, mayIndex>>
  BY DEF WriteCanon, WriteDirty, volume, live, image

LEMMA FlushKeepsNames ==
  ASSUME TypeOK, CurrentPossible, Named, deviceFlush
  PROVE  /\ index' = index
         /\ \A n \in Names : mayIndex'[n] = {index[n]}
         /\ CurrentPossible'
         /\ \A o : \A n \in Names : Holds(n, o) => Holds(n, o)'
  <1>1. index' = index /\ \A n \in Names : mayIndex'[n] = {index[n]}
    BY DEF deviceFlush, live
  <1> QED BY <1>1 DEF CurrentPossible, Holds

(* The new alias goes where nothing was and nothing can come back.         *)
LEMMA InsertKeeps ==
  ASSUME NamesInv, Moving, pc = "insert", WriteIndex(to, obj), before' = before
  PROVE  CurrentPossible' /\ Named'
  <1>1. /\ to \in Names /\ obj # None /\ mayIndex[to] = {None}
        /\ index \in [Names -> Objects \cup {None}] /\ DOMAIN mayIndex = Names
    BY DEF NamesInv, TypeOK, Landed, MoveKnown, OnTheWay, Holds
  <1>2. \A n \in Names : n # to => index'[n] = index[n] /\ mayIndex'[n] = mayIndex[n]
    BY <1>1 DEF WriteIndex
  <1>3. index'[to] = obj /\ obj \in mayIndex'[to]
    BY <1>1 DEF WriteIndex
  <1>4. CurrentPossible'
    BY <1>2, <1>3 DEF NamesInv, CurrentPossible
  <1>5. ASSUME NEW n \in Names, before[n] # None
        PROVE  \E m \in Names : Holds(m, before[n])'
    <2>1. PICK m \in Names : Holds(m, before[n])
      BY <1>5 DEF NamesInv, Named
    <2>2. m # to
      BY <1>1, <1>5, <2>1 DEF Holds
    <2> QED BY <1>2, <2>1, <2>2 DEF Holds
  <1> QED BY <1>4, <1>5 DEF Named

(* The old alias goes when the new one is durable.                         *)
LEMMA DetachKeeps ==
  ASSUME NamesInv, Moving, pc = "detach", WriteIndex(from, None), before' = before
  PROVE  CurrentPossible' /\ Named'
  <1>1. /\ from \in Names /\ to \in Names /\ to # from
        /\ index[from] = obj /\ mayIndex[to] = {obj}
        /\ index \in [Names -> Objects \cup {None}] /\ DOMAIN mayIndex = Names
    BY DEF NamesInv, TypeOK, Landed, MoveKnown, OnTheWay, Holds
  <1>2. \A n \in Names : n # from => index'[n] = index[n] /\ mayIndex'[n] = mayIndex[n]
    BY <1>1 DEF WriteIndex
  <1>3. index'[from] = None /\ None \in mayIndex'[from]
    BY <1>1 DEF WriteIndex
  <1>4. CurrentPossible'
    BY <1>2, <1>3 DEF NamesInv, CurrentPossible
  <1>5. ASSUME NEW n \in Names, before[n] # None
        PROVE  \E m \in Names : Holds(m, before[n])'
    <2>1. PICK m \in Names : Holds(m, before[n])
      BY <1>5 DEF NamesInv, Named
    <2>2. CASE m # from
      BY <1>2, <2>1, <2>2 DEF Holds
    <2>3. CASE m = from
      <3>1. before[n] = obj
        BY <1>1, <2>1, <2>3 DEF Holds, NamesInv, CurrentPossible
      <3> QED BY <1>1, <1>2, <3>1 DEF Holds
    <2> QED BY <2>2, <2>3
  <1> QED BY <1>4, <1>5 DEF Named

(* A step that leaves the index alone keeps what is said of it.            *)
LEMMA IndexStays ==
  ASSUME NamesInv, UNCHANGED <<index, mayIndex, before>>
  PROVE  /\ CurrentPossible' /\ Named'
         /\ \A o : \A n \in Names : Holds(n, o) => Holds(n, o)'
  BY DEF NamesInv, CurrentPossible, Named, Holds

LEMMA FlushStays ==
  ASSUME NamesInv, deviceFlush, before' = before
  PROVE  /\ CurrentPossible' /\ Named' /\ index' = index
         /\ \A n \in Names : Holds(n, index[n])'
         /\ \A o : \A n \in Names : Holds(n, o) => Holds(n, o)'
  <1>1. TypeOK /\ CurrentPossible /\ Named
    BY DEF NamesInv
  <1> QED BY <1>1, FlushKeepsNames DEF Named, Holds

LEMMA LookKeeps ==
  ASSUME NamesInv, OnlyMoves, Look
  PROVE  CurrentPossible' /\ MoveKnown' /\ Landed' /\ OtherStays' /\ Named'
  <1>0. /\ call \in work.calls /\ to # from
        /\ call.op \in {"replace", "publish", "other"}
        /\ call.to # call.from /\ call.aside # call.to
    BY CallFields DEF NamesInv, TypeOK, MoveKnown, OnlyMoves, Only
  <1>1. UNCHANGED volume
    BY LookTypes DEF NamesInv
  <1>2. UNCHANGED <<call, before>>
    BY DEF Look, LookReplace, LookLeg, LookRename, LookDelete, LookCreate, LookRecover,
           LookOther, Goto, Return, StartLeg, WorkOn, counters
  <1>3. CurrentPossible' /\ Named'
    BY <1>1, <1>2, IndexStays DEF volume, live, image
  <1>4. CASE LookReplace
    <2>1. pc' \in {"idle", "leg", "drain"} /\ to' # from'
      BY <1>0, <1>4 DEF LookReplace, Goto, Return, StartLeg
    <2> QED BY <1>3, <2>1 DEF MoveKnown, Landed, OtherStays, OnTheWay
  <1>5. CASE LookLeg
    <2>1. CASE PublishCheck(to, from) = "go"
      <3>1. /\ pc' = "mark" /\ obj' = index[from] /\ UNCHANGED <<to, from>>
        BY <1>5, <2>1 DEF LookLeg, WorkOn
      <3>2. index[from] # None /\ index[to] \in {None, index[from]}
        BY <2>1 DEF PublishCheck
      <3>3. index' = index
        BY <1>1 DEF volume, live
      <3> QED BY <1>0, <1>3, <3>1, <3>2, <3>3 DEF MoveKnown, Landed, OtherStays, OnTheWay
    <2>2. CASE PublishCheck(to, from) # "go"
      <3>1. pc' = "idle" /\ to' = to /\ from' = from
        BY <1>5, <2>2 DEF LookLeg, Return
      <3> QED BY <1>0, <1>3, <3>1 DEF MoveKnown, Landed, OtherStays, OnTheWay
    <2> QED BY <2>1, <2>2
  <1>6. CASE LookOther
    <2>1. pc' = "mark" /\ ~Moving' /\ to' = to /\ from' = from
      BY <1>2, <1>6 DEF LookOther, WorkOn, Moving
    <2> QED BY <1>0, <1>3, <2>1 DEF MoveKnown, Landed, OtherStays
  <1> QED BY <1>0, <1>4, <1>5, <1>6 DEF Look, LookRename, LookDelete, LookCreate, LookRecover

LEMMA RequestKeeps ==
  ASSUME NamesInv, OnlyMoves, Request
  PROVE  CurrentPossible' /\ MoveKnown' /\ Landed' /\ OtherStays' /\ Named'
  <1>0. /\ call \in work.calls /\ to # from /\ to \in Names
        /\ call.op \in {"replace", "publish", "other"}
        /\ Moving <=> call.op \in {"replace", "publish"}
        /\ call.to # call.from
    BY CallFields DEF NamesInv, TypeOK, MoveKnown, OnlyMoves, Only, Moving
  <1>a. ASSUME UNCHANGED <<index, mayIndex, before>>
        PROVE  /\ CurrentPossible' /\ Named'
               /\ \A o : \A n \in Names : Holds(n, o) => Holds(n, o)'
    BY <1>a, IndexStays
  <1>b. ASSUME deviceFlush, before' = before
        PROVE  /\ CurrentPossible' /\ Named' /\ index' = index
               /\ \A n \in Names : Holds(n, index[n])'
               /\ \A o : \A n \in Names : Holds(n, o) => Holds(n, o)'
    BY <1>b, FlushStays
  <1>c. ASSUME NEW label, Goto(label)
        PROVE  pc' = label /\ UNCHANGED <<call, to, from, obj, before>>
    BY <1>c DEF Goto, counters
  <1>d. ASSUME Finish
        PROVE  /\ pc' \in {"idle", "leg"} /\ to' # from'
               /\ UNCHANGED <<call, before>>
    BY <1>0, <1>d DEF Finish, StartLeg, Return, counters
  <1> USE DEF MoveKnown, Landed, OtherStays, OnTheWay, Moving, NamesInv
  <1>1. CASE Mark
    <2>1. UNCHANGED <<index, mayIndex>>
      BY <1>1, OtherWritesKeepNames DEF Mark
    <2>2. ~Moving => AfterMark = "settle"
      BY <1>0 DEF AfterMark
    <2>3. /\ pc = "mark" /\ UNCHANGED <<call, to, from, obj, before>>
          /\ pc' = "markflush" \/ (~Moving /\ pc' = AfterMark)
      BY <1>1 DEF Mark, Goto, counters
    <2> QED BY <1>0, <1>a, <2>1, <2>2, <2>3
  <1>2. CASE MarkFlush
    <2>1. deviceFlush /\ Goto(AfterMark)
      BY <1>2 DEF MarkFlush
    <2>2. /\ ~Moving => AfterMark = "settle"
          /\ Moving => \/ AfterMark = "canon"
                       \/ AfterMark = "insert" /\ index[to] = None
                       \/ AfterMark = "detach" /\ index[to] # None
      BY <1>0 DEF AfterMark
    <2> QED BY <1>0, <1>b, <1>c, <1>2, <2>1, <2>2 DEF MarkFlush
  <1>3. CASE Canon
    <2>1. UNCHANGED <<index, mayIndex>>
      BY <1>3, OtherWritesKeepNames DEF Canon
    <2>2. PICK label : Goto(label) /\ label = IF Moving /\ index[to] = None
                                              THEN "insert" ELSE "canonflush"
      BY <1>3 DEF Canon
    <2> QED BY <1>0, <1>a, <1>c, <1>3, <2>1, <2>2 DEF Canon
  <1>4. CASE CanonFlush
    BY <1>0, <1>b, <1>c, <1>4 DEF CanonFlush
  <1>5. CASE Insert
    <2>1. Moving /\ WriteIndex(to, obj) /\ Goto("publish") /\ pc = "insert"
      BY <1>5 DEF Insert
    <2>2. before' = before
      BY <1>c, <2>1
    <2>3. CurrentPossible' /\ Named'
      BY <2>1, <2>2, InsertKeeps
    <2>4. index'[to] = obj /\ index'[from] = index[from]
      BY <1>0, <2>1 DEF WriteIndex, TypeOK
    <2> QED BY <1>0, <1>c, <2>1, <2>3, <2>4
  <1>6. CASE Publish
    BY <1>0, <1>b, <1>c, <1>6 DEF Publish
  <1>7. CASE Detach
    <2>1. Moving /\ WriteIndex(from, None) /\ Goto("settle") /\ pc = "detach"
      BY <1>7 DEF Detach
    <2>2. CurrentPossible' /\ Named'
      BY <1>c, <2>1, DetachKeeps
    <2> QED BY <1>0, <1>c, <2>1, <2>2
  <1>8. CASE Settle
    BY <1>0, <1>b, <1>c, <1>8 DEF Settle
  <1>9. CASE Free
    BY <1>0, <1>a, <1>c, <1>9, OtherWritesKeepNames DEF Free
  <1>10. CASE FreeFlush
    BY <1>0, <1>b, <1>c, <1>10 DEF FreeFlush
  <1>11. CASE Drain
    BY <1>0, <1>b, <1>c, <1>11 DEF Drain
  <1>12. CASE Clear
    <2>1. UNCHANGED <<index, mayIndex>>
      BY <1>12, OtherWritesKeepNames DEF Clear
    <2>2. Goto("clearflush") \/ Finish
      BY <1>12 DEF Clear
    <2>3. CASE Goto("clearflush")
      BY <1>0, <1>a, <1>c, <2>1, <2>3
    <2>4. CASE Finish
      BY <1>0, <1>a, <1>d, <2>1, <2>4
    <2> QED BY <2>2, <2>3, <2>4
  <1>13. CASE ClearFlush
    BY <1>0, <1>b, <1>d, <1>13 DEF ClearFlush
  <1> QED BY <1>1, <1>2, <1>3, <1>4, <1>5, <1>6, <1>7, <1>8, <1>9, <1>10, <1>11, <1>12,
             <1>13 DEF Request

LEMMA FaultKeeps ==
  ASSUME NamesInv, OnlyMoves, FailWrite \/ FailWithoutEffect
  PROVE  CurrentPossible' /\ MoveKnown' /\ Landed' /\ OtherStays' /\ Named'
  <1>1. /\ Abandon /\ pc' = "idle"
        /\ UNCHANGED <<call, to, from, obj, before>>
    BY DEF FailWrite, FailWithoutEffect, Abandon, Fault
  <1>2. MoveKnown' /\ Landed' /\ OtherStays'
    BY <1>1 DEF NamesInv, MoveKnown, Landed, OtherStays, OnTheWay
  <1>3. CASE pc = "insert" /\ WriteIndex(to, obj)
    BY <1>1, <1>2, <1>3, InsertKeeps DEF NamesInv, OtherStays
  <1>4. CASE pc = "detach" /\ WriteIndex(from, None)
    BY <1>1, <1>2, <1>4, DetachKeeps DEF NamesInv, OtherStays
  <1>5. CASE \/ \E o, n : WriteCanon(o, n)
             \/ \E b : WriteDirty(b)
             \/ UNCHANGED volume
    BY <1>1, <1>2, <1>5, OtherWritesKeepNames, IndexStays
  <1> QED BY <1>3, <1>4, <1>5 DEF FailWrite, FailWithoutEffect

LEMMA PowerLossKeeps ==
  ASSUME NamesInv, PowerLoss
  PROVE  CurrentPossible' /\ MoveKnown' /\ Landed' /\ OtherStays' /\ Named'
  <1>1. /\ pc' = "idle" /\ UNCHANGED <<call, to, from, obj, before>>
        /\ \A n \in Names : index'[n] \in mayIndex[n] /\ mayIndex'[n] = {index'[n]}
    BY DEF PowerLoss, Fault
  <1>2. MoveKnown' /\ Landed' /\ OtherStays' /\ CurrentPossible'
    BY <1>1 DEF NamesInv, MoveKnown, Landed, OtherStays, OnTheWay, CurrentPossible
  <1>3. Named'
    BY <1>1 DEF NamesInv, Named, Holds
  <1> QED BY <1>2, <1>3

LEMMA NamesStep == OnlyMoves /\ NamesInv /\ [Next]_vars => NamesInv'
  <1> SUFFICES ASSUME OnlyMoves, NamesInv, [Next]_vars
               PROVE  NamesInv'
    OBVIOUS
  <1>0. TypeOK'
    BY TypeStep DEF NamesInv
  <1> SUFFICES CurrentPossible' /\ MoveKnown' /\ Landed' /\ OtherStays' /\ Named'
    BY <1>0 DEF NamesInv
  <1>1. CASE Begin
    <2>1. /\ UNCHANGED <<index, mayIndex, before>>
          /\ pc' \in {"leg", "look"} /\ to' # from'
      BY <1>1, CallFields DEF Begin, volume, live, image, NamesInv, TypeOK
    <2> QED BY <2>1, IndexStays DEF MoveKnown, Landed, OtherStays, OnTheWay
  <1>2. CASE Look
    BY <1>2, LookKeeps
  <1>3. CASE Request
    BY <1>3, RequestKeeps
  <1>4. CASE FailWrite \/ FailWithoutEffect
    BY <1>4, FaultKeeps
  <1>5. CASE PowerLoss
    BY <1>5, PowerLossKeeps
  <1>6. CASE UNCHANGED vars
    BY <1>6 DEF vars, volume, live, image, frame, counters, NamesInv, CurrentPossible,
                MoveKnown, Landed, OtherStays, Named, Holds, Moving
  <1> QED BY <1>1, <1>2, <1>3, <1>4, <1>5, <1>6 DEF Next

LEMMA WorkStays == [Next]_vars => work' = work
  BY DEF Next, Begin, Look, LookReplace, LookLeg, LookRename, LookDelete, LookCreate,
         LookRecover, LookOther, Request, Mark, MarkFlush, Canon, CanonFlush, Insert, Publish,
         Detach, Settle, Free, FreeFlush, Drain, Clear, ClearFlush, Finish, FailWrite,
         FailWithoutEffect, PowerLoss, Abandon, Fault, Goto, Return, StartLeg, WorkOn,
         counters, vars

LEMMA NamesStart == Init => NamesInv
  <1> SUFFICES ASSUME Init
               PROVE  NamesInv
    OBVIOUS
  <1>1. TypeOK
    BY TypeInit
  <1>2. index = before /\ pc = "idle" /\ to # from
    BY <1>1, CallFields DEF Init, TypeOK
  <1>3. \A n \in Names : mayIndex[n] = {index[n]}
    BY DEF Init
  <1> QED BY <1>1, <1>2, <1>3 DEF NamesInv, CurrentPossible, MoveKnown, Landed, OtherStays,
                                 OnTheWay, Named, Holds

(* However often replacements and publications are cut short, repeated and *)
(* mixed with operations on other files, no object loses its last durable  *)
(* name.                                                                   *)
THEOREM MovesKeepNames == Spec => []NeverNameless
  <1>1. Init => (OnlyMoves => NamesInv)
    BY NamesStart
  <1>2. (OnlyMoves => NamesInv) /\ [Next]_vars => (OnlyMoves => NamesInv)'
    <2>1. [Next]_vars => work' = work
      BY WorkStays
    <2>2. work' = work /\ OnlyMoves' => OnlyMoves
      BY DEF OnlyMoves, Only
    <2> QED BY <2>1, <2>2, NamesStep
  <1>3. (OnlyMoves => NamesInv) => NeverNameless
    BY DEF NamesInv, NeverNameless
  <1> QED BY <1>1, <1>2, <1>3, PTL DEF Spec

-----------------------------------------------------------------------------
(* Released records.  A record that some name may refer to is in use,      *)
(* whichever content survives.                                             *)
InUse(o) == o = None \/ None \notin mayCanon[o]
CanonPossible == \A o \in Objects : canon[o] \in mayCanon[o]
Referred == CurrentPossible /\ CanonPossible /\ NoImageDangles

(* What a call knows of its record: one that is moved was found under a    *)
(* name, one that is created is stored before its name is published, and   *)
(* one that is released has no name left.                                  *)
Naming == call.op \in {"replace", "publish", "rename"}
Carried == /\ pc \in {"mark", "markflush", "canon"} /\ Naming => InUse(obj)
           /\ pc \in {"insert", "publish"} => InUse(obj)
           /\ pc = "canonflush" => obj = None \/ canon[obj] # None
           /\ pc = "free" => \A n \in Names : obj \notin mayIndex[n]

RefersInv == TypeOK /\ Referred /\ Carried

LEMMA WritesRefer ==
  ASSUME TypeOK, Referred,
         \/ \E n \in Names, o \in Objects \cup {None} : WriteIndex(n, o) /\ InUse(o)
         \/ \E o \in Objects \cup {None}, n \in Names : WriteCanon(o, n)
         \/ \E o \in Objects \cup {None} : WriteCanon(o, None) /\ \A m \in Names : o \notin mayIndex[m]
         \/ \E b \in BOOLEAN : WriteDirty(b)
         \/ deviceFlush
         \/ UNCHANGED volume
  PROVE  Referred'
  <1>0. None \notin Names /\ None \notin Objects
    BY NamesAssumption
  <1>t. /\ index \in [Names -> Objects \cup {None}]
        /\ canon \in [Objects -> Names \cup {None}]
        /\ mayIndex \in [Names -> SUBSET (Objects \cup {None})]
        /\ mayCanon \in [Objects -> SUBSET (Names \cup {None})]
    BY DEF TypeOK
  <1> USE DEF Referred, CurrentPossible, CanonPossible, NoImageDangles
  <1>1. ASSUME NEW n \in Names, NEW o \in Objects \cup {None}, WriteIndex(n, o), InUse(o)
        PROVE  Referred'
    <2>1. /\ \A m \in Names \ {n} : index'[m] = index[m] /\ mayIndex'[m] = mayIndex[m]
          /\ index'[n] = o /\ mayIndex'[n] = mayIndex[n] \cup {o}
          /\ canon' = canon /\ mayCanon' = mayCanon
      BY <1>1, <1>t DEF WriteIndex
    <2>2. \A m \in Names : mayIndex'[m] \subseteq mayIndex[m] \cup {o}
      BY <2>1
    <2> QED BY <1>1, <2>1, <2>2 DEF InUse
  <1>2. ASSUME NEW o \in Objects \cup {None}, NEW n \in Names \cup {None}, WriteCanon(o, n),
               n # None \/ \A m \in Names : o \notin mayIndex[m]
        PROVE  Referred'
    <2>1. /\ index' = index /\ mayIndex' = mayIndex
          /\ \A p \in Objects \ {o} : canon'[p] = canon[p] /\ mayCanon'[p] = mayCanon[p]
          /\ o \in Objects => canon'[o] = n /\ mayCanon'[o] = mayCanon[o] \cup {n}
      BY <1>2, <1>t DEF WriteCanon
    <2>2. CurrentPossible' /\ CanonPossible'
      BY <2>1
    <2>3. ASSUME NEW m \in Names, NEW p \in mayIndex[m] \ {None}
          PROVE  None \notin mayCanon'[p]
      <3>1. p \in Objects /\ None \notin mayCanon[p]
        BY <1>t, <2>3
      <3> QED BY <1>2, <2>1, <2>3, <3>1
    <2> QED BY <2>1, <2>2, <2>3
  <1>3. CASE deviceFlush
    <2>1. /\ index' = index /\ canon' = canon
          /\ \A m \in Names : mayIndex'[m] = {index[m]}
          /\ \A p \in Objects : mayCanon'[p] = {canon[p]}
      BY <1>3 DEF deviceFlush, live
    <2> QED BY <1>t, <2>1
  <1>4. CASE UNCHANGED volume \/ \E b \in BOOLEAN : WriteDirty(b)
    <2>1. UNCHANGED <<index, canon, mayIndex, mayCanon>>
      BY <1>4 DEF volume, live, image, WriteDirty
    <2> QED BY <2>1
  <1> QED BY <1>0, <1>1, <1>2, <1>3, <1>4

(* A flush, and a write of a name into a record, leave records in use.     *)
LEMMA StaysInUse ==
  ASSUME TypeOK, Referred, NEW o \in Objects \cup {None}, InUse(o),
         \/ deviceFlush \/ UNCHANGED volume
         \/ \E b : WriteDirty(b)
         \/ \E n, p : WriteIndex(n, p)
         \/ \E p : \E n \in Names : WriteCanon(p, n)
  PROVE  InUse(o)'
  <1>0. None \notin Names /\ None \notin Objects /\ mayCanon \in [Objects -> SUBSET (Names \cup {None})]
    BY NamesAssumption DEF TypeOK
  <1>1. CASE deviceFlush
    BY <1>1 DEF InUse, deviceFlush, Referred, CanonPossible
  <1>2. CASE \E p : \E n \in Names : WriteCanon(p, n)
    BY <1>0, <1>2 DEF InUse, WriteCanon
  <1>3. CASE \/ UNCHANGED volume \/ \E b : WriteDirty(b) \/ \E n, p : WriteIndex(n, p)
    <2>1. mayCanon' = mayCanon
      BY <1>3 DEF volume, live, image, WriteDirty, WriteIndex
    <2> QED BY <2>1 DEF InUse
  <1> QED BY <1>1, <1>2, <1>3

LEMMA LookCarries ==
  ASSUME RefersInv, Look
  PROVE  Referred' /\ Carried'
  <1>0. UNCHANGED volume
    BY LookTypes DEF RefersInv
  <1>1. Referred'
    BY <1>0, WritesRefer DEF RefersInv
  <1>2. to \in Names /\ from \in Names
    BY DEF RefersInv, TypeOK
  <1>3. /\ \A n \in Names : InUse(index[n])'
    BY <1>0, <1>1 DEF InUse, Referred, CurrentPossible, NoImageDangles, volume, live, image
  <1>4. index' = index /\ canon' = canon /\ mayCanon' = mayCanon
    BY <1>0 DEF volume, live, image
  <1>5. ASSUME pc' \in {"idle", "leg", "drain"} PROVE Carried'
    BY <1>5 DEF Carried
  <1>6. ASSUME NEW o, WorkOn(o), InUse(o)' PROVE Carried'
    <2>1. pc' = "mark" /\ obj' = o
      BY <1>6 DEF WorkOn
    <2> QED BY <1>6, <2>1 DEF InUse, Carried
  <1>7. ASSUME NEW o, WorkOn(o), call.op \in {"create", "other"} PROVE Carried'
    BY <1>7 DEF WorkOn, Carried, Naming
  <1>8. ASSUME NEW result, Return(result) PROVE Carried'
    BY <1>5, <1>8 DEF Return
  <1>9. ASSUME NEW n \in Names, WorkOn(index[n]) PROVE Carried'
    <2>1. InUse(index[n])'
      BY <1>3, <1>4
    <2>2. InUse(index[n])' <=> index[n] = None \/ None \notin mayCanon'[index[n]]
      BY <1>4 DEF InUse
    <2>3. pc' = "mark" /\ obj' = index[n]
      BY <1>9 DEF WorkOn
    <2> QED BY <2>1, <2>2, <2>3 DEF InUse, Carried
  <1>10. CASE LookReplace
    BY <1>1, <1>5, <1>10 DEF LookReplace, Return, Goto, StartLeg
  <1>11. CASE LookLeg
    BY <1>1, <1>2, <1>8, <1>9, <1>11 DEF LookLeg
  <1>12. CASE LookRename
    BY <1>1, <1>2, <1>8, <1>9, <1>12 DEF LookRename
  <1>13. CASE LookDelete
    BY <1>1, <1>2, <1>8, <1>9, <1>13 DEF LookDelete
  <1>14. CASE LookCreate
    BY <1>1, <1>7, <1>8, <1>14 DEF LookCreate
  <1>15. CASE LookRecover
    BY <1>1, <1>2, <1>8, <1>9, <1>15 DEF LookRecover
  <1>16. CASE LookOther
    BY <1>1, <1>7, <1>16 DEF LookOther
  <1> QED BY <1>1, <1>10, <1>11, <1>12, <1>13, <1>14, <1>15, <1>16 DEF Look

LEMMA RequestCarries ==
  ASSUME RefersInv, Request
  PROVE  Referred' /\ Carried'
  <1>0. /\ TypeOK /\ Referred /\ Carried
        /\ to \in Names /\ from \in Names /\ obj \in Objects \cup {None}
        /\ None \notin Names /\ None \notin Objects
        /\ canon \in [Objects -> Names \cup {None}]
        /\ index \in [Names -> Objects \cup {None}]
    BY NamesAssumption DEF RefersInv, TypeOK
  <1>c. ASSUME NEW label, Goto(label)
        PROVE  pc' = label /\ obj' = obj /\ call' = call
    BY <1>c DEF Goto
  <1>d. Finish => pc' \in {"idle", "leg"}
    BY DEF Finish, StartLeg, Return
  <1>k. ASSUME InUse(obj), obj' = obj,
               \/ deviceFlush \/ UNCHANGED volume
               \/ \E b : WriteDirty(b)
               \/ \E n, p : WriteIndex(n, p)
               \/ \E p : \E n \in Names : WriteCanon(p, n)
        PROVE  InUse(obj)'
    <2>1. InUse(obj)' <=> obj = None \/ None \notin mayCanon'[obj]
      BY <1>k DEF InUse
    <2>2. obj = None \/ None \notin mayCanon'[obj]
      <3>1. ASSUME NEW o \in Objects \cup {None}, o = obj PROVE o = None \/ None \notin mayCanon'[o]
        BY <1>0, <1>k, <3>1, StaysInUse DEF InUse
      <3> QED BY <1>0, <3>1
    <2> QED BY <2>1, <2>2
  <1>n. InUse(None)
    BY DEF InUse
  <1> USE DEF Carried, Naming
  <1>m. /\ AfterMark \in {"canon", "insert", "detach", "clear", "settle"}
        /\ AfterMark = "insert" => Naming
    BY DEF AfterMark, Moving
  <1>1. CASE Mark
    <2>1. UNCHANGED volume \/ \E b \in BOOLEAN : WriteDirty(b)
      BY <1>1 DEF Mark
    <2>2. pc = "mark" /\ (Goto("markflush") \/ Goto(AfterMark))
      BY <1>1 DEF Mark
    <2>3. Referred'
      BY <1>0, <2>1, WritesRefer
    <2>4. Naming => InUse(obj)'
      BY <1>0, <1>c, <1>k, <2>1, <2>2
    <2> QED BY <1>c, <1>m, <2>2, <2>3, <2>4
  <1>2. CASE MarkFlush
    <2>1. pc = "markflush" /\ deviceFlush /\ Goto(AfterMark)
      BY <1>2 DEF MarkFlush
    <2>2. Referred'
      BY <1>0, <2>1, WritesRefer
    <2>3. Naming => InUse(obj)'
      BY <1>0, <1>c, <1>k, <2>1
    <2> QED BY <1>c, <1>m, <2>1, <2>2, <2>3
  <1>3. CASE Canon
    <2>1. /\ pc = "canon" /\ WriteCanon(obj, to)
          /\ \/ Goto("canonflush")
             \/ Moving /\ Goto("insert")
      BY <1>3 DEF Canon
    <2>2. Referred'
      BY <1>0, <2>1, WritesRefer
    <2>3. obj # None => canon'[obj] = to
      BY <1>0, <2>1 DEF WriteCanon
    <2>4. Moving => InUse(obj)'
      BY <1>0, <1>c, <1>k, <2>1 DEF Moving
    <2> QED BY <1>0, <1>c, <2>1, <2>2, <2>3, <2>4
  <1>4. CASE CanonFlush
    <2>1. pc = "canonflush" /\ deviceFlush /\ (Goto("insert") \/ Goto("detach"))
      BY <1>4 DEF CanonFlush
    <2>2. Referred'
      BY <1>0, <2>1, WritesRefer
    <2>3. InUse(obj)'
      BY <1>0, <1>c, <2>1 DEF InUse, deviceFlush
    <2> QED BY <1>c, <2>1, <2>2, <2>3
  <1>5. CASE Insert
    <2>1. pc = "insert" /\ WriteIndex(to, obj) /\ Goto("publish")
      BY <1>5 DEF Insert
    <2>2. InUse(obj)'
      BY <1>0, <1>c, <1>k, <2>1
    <2>3. Referred'
      BY <1>0, <2>1, WritesRefer
    <2> QED BY <1>c, <2>1, <2>2, <2>3
  <1>6. CASE Publish
    <2>1. /\ pc = "publish" /\ deviceFlush
          /\ \/ Goto("detach") \/ Goto("clear")
             \/ Goto("canon")
      BY <1>6 DEF Publish
    <2>2. InUse(obj)'
      BY <1>0, <1>c, <1>k, <2>1
    <2>3. Referred'
      BY <1>0, <2>1, WritesRefer
    <2> QED BY <1>c, <2>1, <2>2, <2>3
  <1>7. CASE Detach
    <2>1. WriteIndex(from, None) /\ Goto("settle")
      BY <1>7 DEF Detach
    <2>2. Referred'
      BY <1>0, <1>n, <2>1, WritesRefer
    <2> QED BY <1>c, <2>1, <2>2
  <1>8. CASE Settle
    <2>1. /\ deviceFlush
          /\ \/ Goto("clear")
             \/ Goto("free") /\ Aliases(obj) = {}
      BY <1>8 DEF Settle
    <2>2. Referred'
      BY <1>0, <2>1, WritesRefer
    <2>3. Aliases(obj) = {} => \A n \in Names : obj \notin mayIndex'[n]
      BY <2>1 DEF Aliases, deviceFlush
    <2> QED BY <1>c, <2>1, <2>2, <2>3
  <1>9. CASE Free
    <2>1. pc = "free" /\ WriteCanon(obj, None) /\ Goto("freeflush")
      BY <1>9 DEF Free
    <2>2. \A n \in Names : obj \notin mayIndex[n]
      BY <1>0, <2>1
    <2>3. Referred'
      BY <1>0, <2>1, <2>2, WritesRefer
    <2> QED BY <1>c, <2>1, <2>3
  <1>10. CASE FreeFlush \/ Drain
    <2>1. deviceFlush /\ Goto("clear")
      BY <1>10 DEF FreeFlush, Drain
    <2> QED BY <1>0, <1>c, <2>1, WritesRefer
  <1>11. CASE Clear
    <2>1. UNCHANGED volume \/ \E b \in BOOLEAN : WriteDirty(b)
      BY <1>11 DEF Clear
    <2>2. pc' \in {"clearflush", "idle", "leg"}
      BY <1>11, <1>c, <1>d DEF Clear
    <2> QED BY <1>0, <2>1, <2>2, WritesRefer
  <1>12. CASE ClearFlush
    BY <1>0, <1>12, <1>d, WritesRefer DEF ClearFlush
  <1> QED BY <1>1, <1>2, <1>3, <1>4, <1>5, <1>6, <1>7, <1>8, <1>9, <1>10, <1>11, <1>12 DEF Request

(* A request that failed may have had its effect; a loss of power picks    *)
(* one of the contents that were possible.                                 *)
LEMMA FaultCarries ==
  ASSUME RefersInv, FailWrite \/ FailWithoutEffect \/ PowerLoss
  PROVE  Referred' /\ Carried'
  <1>0. /\ TypeOK /\ Referred /\ Carried
        /\ to \in Names /\ from \in Names /\ obj \in Objects \cup {None}
    BY DEF RefersInv, TypeOK
  <1>1. pc' = "idle"
    BY DEF FailWrite, FailWithoutEffect, PowerLoss, Abandon
  <1>2. Carried'
    BY <1>1 DEF Carried
  <1>3. CASE FailWithoutEffect
    BY <1>0, <1>2, <1>3, WritesRefer DEF FailWithoutEffect
  <1>4. CASE FailWrite
    <2>1. InUse(None)
      BY DEF InUse
    <2>2. pc = "insert" => InUse(obj)
      BY <1>0 DEF Carried
    <2>3. pc = "free" => \A n \in Names : obj \notin mayIndex[n]
      BY <1>0 DEF Carried
    <2> QED BY <1>0, <1>2, <1>4, <2>1, <2>2, <2>3, WritesRefer DEF FailWrite
  <1>5. CASE PowerLoss
    <2>1. /\ \A n \in Names : index'[n] \in mayIndex[n] /\ mayIndex'[n] = {index'[n]}
          /\ \A o \in Objects : canon'[o] \in mayCanon[o] /\ mayCanon'[o] = {canon'[o]}
      BY <1>5 DEF PowerLoss
    <2>2. \A n \in Names : mayIndex[n] \in SUBSET (Objects \cup {None})
      BY <1>0 DEF TypeOK
    <2> QED BY <1>0, <1>2, <2>1, <2>2 DEF Referred, CurrentPossible, CanonPossible, NoImageDangles
  <1> QED BY <1>3, <1>4, <1>5

LEMMA RefersStep == RefersInv /\ [Next]_vars => RefersInv'
  <1> SUFFICES ASSUME RefersInv, [Next]_vars PROVE RefersInv' OBVIOUS
  <1>0. TypeOK'
    BY TypeStep DEF RefersInv
  <1>1. CASE Begin
    <2>1. UNCHANGED volume /\ pc' \in {"leg", "look"}
      BY <1>1 DEF Begin
    <2> QED BY <1>0, <2>1, WritesRefer DEF RefersInv, Carried
  <1>2. CASE Look
    BY <1>0, <1>2, LookCarries DEF RefersInv
  <1>3. CASE Request
    BY <1>0, <1>3, RequestCarries DEF RefersInv
  <1>4. CASE FailWrite \/ FailWithoutEffect \/ PowerLoss
    BY <1>0, <1>4, FaultCarries DEF RefersInv
  <1>5. CASE UNCHANGED vars
    BY <1>0, <1>5 DEF RefersInv, Referred, Carried, CurrentPossible, CanonPossible, NoImageDangles,
                      InUse, Naming, vars, volume, live, image, frame, counters
  <1> QED BY <1>1, <1>2, <1>3, <1>4, <1>5 DEF Next

LEMMA RefersStart == Init => RefersInv
  <1> SUFFICES ASSUME Init PROVE RefersInv OBVIOUS
  <1>1. TypeOK
    BY TypeInit
  <1>2. /\ pc = "idle" /\ index = before /\ before \in Placements
        /\ mayIndex = [n \in Names |-> {index[n]}]
        /\ mayCanon = [o \in Objects |-> {canon[o]}]
        /\ canon = [o \in Objects |-> IF \E n \in Names : before[n] = o
                                      THEN CHOOSE n \in Names : before[n] = o ELSE None]
    BY Zenon DEF Init
  <1>3. ASSUME NEW n \in Names, NEW o \in Objects, index[n] = o
        PROVE  canon[o] \in Names
    <2>1. canon[o] = CHOOSE m \in Names : before[m] = o
      BY <1>2, <1>3
    <2> QED BY <1>2, <1>3, <2>1
  <1>4. index \in [Names -> Objects \cup {None}] /\ None \notin Names
    BY <1>1, NamesAssumption DEF TypeOK
  <1>5. NoImageDangles
    <2>1. ASSUME NEW n \in Names, NEW o \in mayIndex[n] \ {None}
          PROVE  None \notin mayCanon[o]
      <3>1. index[n] = o /\ o \in Objects
        BY <1>2, <1>4
      <3>2. canon[o] # None /\ mayCanon[o] = {canon[o]}
        BY <1>2, <1>3, <1>4, <3>1
      <3> QED BY <3>2
    <2> QED BY <2>1 DEF NoImageDangles
  <1>6. CurrentPossible /\ CanonPossible /\ Carried
    BY <1>2 DEF CurrentPossible, CanonPossible, Carried
  <1> QED BY <1>1, <1>5, <1>6 DEF RefersInv, Referred

(* Whatever calls are made on the directory and wherever they stop, no     *)
(* name that may survive refers to a record that may have been released.   *)
THEOREM NoNameDangles == Spec => []NoImageDangles
  <1>1. RefersInv => NoImageDangles
    BY DEF RefersInv, Referred
  <1> QED BY <1>1, RefersStart, RefersStep, PTL DEF Spec
-----------------------------------------------------------------------------
(* One replacement: `t' is its target, `s' its stage and `b' its backup    *)
(* name.  What follows says, of every content that may survive, how far it *)
(* has come.                                                               *)
Triple(t, s, b) == /\ t # s /\ t # b /\ s # b
                   /\ \A c \in work.calls : c.op \in {"replace", "publish"} =>
                         c.to = t /\ c.from = s /\ c.aside = b

AsBefore(n) == /\ mayIndex[n] = {before[n]}
               /\ before[n] # None => mayCanon[before[n]] = {n}

(* A move of `o' from `y' to `x': until the alias is durable the old name  *)
(* is, and from then on the new one.                                       *)
Leg(x, y, o) == \/ /\ mayIndex[y] = {o}
                   /\ mayIndex[x] \subseteq {None, o} /\ mayCanon[o] \subseteq {x, y}
                \/ /\ mayIndex[x] = {o} /\ mayCanon[o] = {x}
                   /\ mayIndex[y] \subseteq {None, o}

(* There is something to install, and room for what it replaces.           *)
Startable(t, s, b) == before[s] # None /\ (before[t] = None \/ before[b] = None)

Kept(t, b) == IF before[t] = None THEN AsBefore(b)
              ELSE mayIndex[b] = {before[t]} /\ mayCanon[before[t]] = {b}
First(t, s, b) == before[t] # None /\ Leg(b, t, before[t]) /\ AsBefore(s)
Second(t, s, b) == Leg(t, s, before[s]) /\ Kept(t, b)
Between(t, s, b) == IF Startable(t, s, b) THEN First(t, s, b) \/ Second(t, s, b)
                    ELSE AsBefore(t) /\ AsBefore(s) /\ AsBefore(b)
Elsewhere(t, s, b) == /\ \A n \in Names \ {t, s, b} : AsBefore(n)
                      /\ \A o \in Objects : (\A n \in Names : before[n] # o) => mayCanon[o] = {None}
Volume(t, s, b) == Elsewhere(t, s, b) /\ Between(t, s, b)

(* The ends of the two legs.                                               *)
HalfWay(t, s, b) == /\ Startable(t, s, b) /\ before[t] # None /\ AsBefore(s) /\ Kept(t, b)
                    /\ mayIndex[t] = {None}
Finished(t, s, b) == before[s] # None =>
                        /\ Startable(t, s, b) /\ Kept(t, b)
                        /\ mayIndex[t] = {before[s]} /\ mayCanon[before[s]] = {t}
                        /\ mayIndex[s] = {None}

(* The leg that the running call is on.                                    *)
OnFirst(t, s, b) == to = b /\ from = t /\ more /\ Startable(t, s, b) /\ First(t, s, b)
OnSecond(t, s, b) == to = t /\ from = s /\ ~more /\ Startable(t, s, b)
Riding(t, s, b) == \/ OnFirst(t, s, b) /\ obj = before[t]
                   \/ OnSecond(t, s, b) /\ obj = before[s]
Writing(t, s, b) == \/ OnFirst(t, s, b) /\ obj = before[t]
                    \/ OnSecond(t, s, b) /\ obj = before[s] /\ Second(t, s, b)

AtLeg(t, s, b) == pc = "leg" =>
    /\ Moving
    /\ call.op = "replace" =>
          \/ OnFirst(t, s, b) /\ index[t] = before[t]
          \/ OnSecond(t, s, b) /\ index[s] = before[s] /\ index[t] \in {None, before[s]}
    /\ call.op = "publish" => to = t /\ from = s /\ ~more
AtMark(t, s, b) == pc \in {"mark", "markflush"} /\ Moving =>
    Riding(t, s, b) /\ index[from] = obj /\ index[to] \in {None, obj}
AtWrite(t, s, b) ==
    /\ pc \in {"canon", "canonflush", "insert", "publish", "detach"} =>
          Moving /\ Writing(t, s, b) /\ mayIndex[from] = {obj}
    /\ pc = "insert" => index[to] = None /\ canon[obj] = to
    /\ pc \in {"canonflush", "publish"} => index[to] = obj /\ canon[obj] = to
    /\ pc = "detach" => mayIndex[to] = {obj} /\ mayCanon[obj] = {to}
    /\ pc = "settle" /\ Moving => /\ Writing(t, s, b) /\ index[from] = None
                                  /\ mayIndex[to] = {obj} /\ mayCanon[obj] = {to}
    /\ pc \notin {"free", "freeflush"}
AtDrain(t, s, b) == pc = "drain" =>
    call.op = "replace" /\ ~more /\ index[s] = None /\ index[t] # None
AtClear(t, s, b) == pc \in {"clear", "clearflush"} /\ Moving =>
    IF more THEN HalfWay(t, s, b) ELSE Finished(t, s, b)
AtIdle(t, s, b) ==
    /\ pc \in {"idle", "look"} => ~more
    /\ pc = "idle" /\ call.op = "replace" /\ answer = "ok" => Finished(t, s, b)
    /\ pc = "idle" /\ call.op = "replace" /\ ~faulty /\ answer # "none" =>
          \/ answer = "ok"
          \/ answer = "conflict" /\ before[t] # None /\ before[b] # None
          \/ answer = "not_found" /\ before[t] = None /\ before[s] = None
Where(t, s, b) == /\ AtLeg(t, s, b) /\ AtMark(t, s, b) /\ AtWrite(t, s, b)
                  /\ AtDrain(t, s, b) /\ AtClear(t, s, b) /\ AtIdle(t, s, b)

AloneInv(t, s, b) == Triple(t, s, b) /\ Volume(t, s, b) /\ Where(t, s, b)

(* Objects that were in the directory have one name there.                 *)
LEMMA Placed ==
  ASSUME TypeOK
  PROVE  /\ \A n \in Names : before[n] \in Objects \cup {None}
         /\ \A m, n \in Names : before[m] = before[n] => m = n \/ before[m] = None
         /\ None \notin Objects /\ None \notin Names
  BY NamesAssumption, PlacementFields DEF TypeOK

(* A flush and a loss of power leave fewer contents possible, one at least *)
(* of each sector.                                                         *)
Narrows == /\ before' = before
           /\ \A n \in Names : mayIndex'[n] # {} /\ mayIndex'[n] \subseteq mayIndex[n]
           /\ \A o \in Objects : mayCanon'[o] # {} /\ mayCanon'[o] \subseteq mayCanon[o]

LEMMA NarrowsName ==
  ASSUME TypeOK, Narrows, NEW n \in Names, AsBefore(n)
  PROVE  AsBefore(n)'
  <1>1. mayIndex'[n] = {before[n]}
    BY DEF Narrows, AsBefore
  <1>2. before[n] # None => mayCanon'[before[n]] = {n}
    BY Placed DEF Narrows, AsBefore
  <1> QED BY <1>1, <1>2 DEF AsBefore, Narrows

LEMMA NarrowsLeg ==
  ASSUME TypeOK, Narrows, NEW x \in Names, NEW y \in Names, NEW o \in Objects, Leg(x, y, o)
  PROVE  Leg(x, y, o)'
  BY DEF Narrows, Leg

LEMMA NarrowsKept ==
  ASSUME TypeOK, Narrows, NEW t \in Names, NEW b \in Names, Kept(t, b)
  PROVE  Kept(t, b)'
  <1>1. CASE before[t] = None
    BY <1>1, NarrowsName DEF Kept, Narrows
  <1>2. CASE before[t] # None
    <2>1. before[t] \in Objects
      BY <1>2, Placed
    <2>2. mayIndex'[b] = {before[t]} /\ mayCanon'[before[t]] = {b}
      BY <1>2, <2>1 DEF Kept, Narrows
    <2> QED BY <1>2, <2>2 DEF Kept, Narrows
  <1> QED BY <1>1, <1>2

LEMMA NarrowsVolume ==
  ASSUME TypeOK, Narrows, NEW t \in Names, NEW s \in Names, NEW b \in Names
  PROVE  /\ Startable(t, s, b)' <=> Startable(t, s, b)
         /\ First(t, s, b) => First(t, s, b)'
         /\ Startable(t, s, b) /\ Second(t, s, b) => Second(t, s, b)'
         /\ HalfWay(t, s, b) => HalfWay(t, s, b)'
         /\ Finished(t, s, b) => Finished(t, s, b)'
         /\ Volume(t, s, b) => Volume(t, s, b)'
  <1>1. Startable(t, s, b)' <=> Startable(t, s, b)
    BY DEF Startable, Narrows
  <1>2. First(t, s, b) => First(t, s, b)'
    <2>1. SUFFICES ASSUME First(t, s, b) PROVE First(t, s, b)'
      OBVIOUS
    <2>2. before[t] \in Objects /\ before' = before
      BY <2>1, Placed DEF First, Narrows
    <2>3. Leg(b, t, before[t])' /\ AsBefore(s)'
      <3>1. \A o \in Objects : Leg(b, t, o) => Leg(b, t, o)'
        BY NarrowsLeg
      <3> QED BY <2>1, <2>2, <3>1, NarrowsName DEF First, Leg
    <2> QED BY <2>1, <2>2, <2>3 DEF First
  <1>3. Startable(t, s, b) /\ Second(t, s, b) => Second(t, s, b)'
    <2>1. SUFFICES ASSUME Startable(t, s, b), Second(t, s, b) PROVE Second(t, s, b)'
      OBVIOUS
    <2>2. before[s] \in Objects /\ before' = before
      BY <2>1, Placed DEF Startable, Narrows
    <2>3. Leg(t, s, before[s])'
      <3>1. \A o \in Objects : Leg(t, s, o) => Leg(t, s, o)'
        BY NarrowsLeg
      <3> QED BY <2>1, <2>2, <3>1 DEF Second, Leg
    <2> QED BY <2>1, <2>3, NarrowsKept DEF Second
  <1>4. HalfWay(t, s, b) => HalfWay(t, s, b)'
    <2>1. mayIndex[t] = {None} => mayIndex'[t] = {None}
      BY DEF Narrows
    <2> QED BY <1>1, <2>1, NarrowsKept, NarrowsName DEF HalfWay, Narrows
  <1>5. Finished(t, s, b) => Finished(t, s, b)'
    <2>1. SUFFICES ASSUME Finished(t, s, b), before[s] # None PROVE Finished(t, s, b)'
      BY DEF Finished, Narrows
    <2>2. before[s] \in Objects /\ before' = before
      BY <2>1, Placed DEF Narrows
    <2>3. mayIndex'[t] = {before[s]} /\ mayCanon'[before[s]] = {t} /\ mayIndex'[s] = {None}
      BY <2>1, <2>2 DEF Finished, Narrows
    <2> QED BY <1>1, <2>1, <2>2, <2>3, NarrowsKept DEF Finished
  <1>6. Elsewhere(t, s, b) => Elsewhere(t, s, b)'
    <2>1. \A o \in Objects : mayCanon[o] = {None} => mayCanon'[o] = {None}
      BY DEF Narrows
    <2> QED BY <2>1, NarrowsName DEF Elsewhere, Narrows
  <1> QED BY <1>1, <1>2, <1>3, <1>4, <1>5, <1>6, NarrowsName DEF Volume, Between

(* The writes of a leg keep it a leg, and touch nothing else.              *)
LegWrite(x, y, o) == \/ mayIndex[y] = {o} /\ WriteCanon(o, x)
                     \/ mayIndex[y] = {o} /\ WriteIndex(x, o)
                     \/ mayIndex[x] = {o} /\ mayCanon[o] = {x} /\ WriteIndex(y, None)

LEMMA LegWrites ==
  ASSUME TypeOK, NEW x \in Names, NEW y \in Names, x # y, NEW o \in Objects,
         Leg(x, y, o), LegWrite(x, y, o)
  PROVE  /\ Leg(x, y, o)'
         /\ \A n \in Names \ {x, y} : mayIndex'[n] = mayIndex[n]
         /\ \A p \in Objects \ {o} : mayCanon'[p] = mayCanon[p]
  <1>0. DOMAIN mayIndex = Names /\ DOMAIN mayCanon = Objects
    BY DEF TypeOK
  <1>1. CASE mayIndex[y] = {o} /\ WriteCanon(o, x)
    <2>1. mayIndex' = mayIndex /\ mayCanon'[o] = mayCanon[o] \cup {x}
          /\ \A p \in Objects \ {o} : mayCanon'[p] = mayCanon[p]
      BY <1>0, <1>1 DEF WriteCanon
    <2> QED BY <1>1, <2>1 DEF Leg
  <1>2. CASE mayIndex[y] = {o} /\ WriteIndex(x, o)
    <2>1. mayCanon' = mayCanon /\ mayIndex'[x] = mayIndex[x] \cup {o}
          /\ \A n \in Names \ {x} : mayIndex'[n] = mayIndex[n]
      BY <1>0, <1>2 DEF WriteIndex
    <2> QED BY <1>2, <2>1 DEF Leg
  <1>3. CASE mayIndex[x] = {o} /\ mayCanon[o] = {x} /\ WriteIndex(y, None)
    <2>1. mayCanon' = mayCanon /\ mayIndex'[y] = mayIndex[y] \cup {None}
          /\ \A n \in Names \ {y} : mayIndex'[n] = mayIndex[n]
      BY <1>0, <1>3 DEF WriteIndex
    <2> QED BY <1>3, <2>1 DEF Leg
  <1> QED BY <1>1, <1>2, <1>3 DEF LegWrite

(* The leg that a call writes for.                                         *)
LEMMA WritingLeg ==
  ASSUME TypeOK, NEW t \in Names, NEW s \in Names, NEW b \in Names, Triple(t, s, b),
         Writing(t, s, b)
  PROVE  /\ to \in Names /\ from \in Names /\ to # from /\ obj \in Objects
         /\ Leg(to, from, obj) /\ Startable(t, s, b)
         /\ {to, from} \subseteq {t, s, b}
         /\ \E n \in {t, s} : before[n] = obj /\ n \in {to, from}
  <1>1. before[t] \in Objects \cup {None} /\ before[s] \in Objects \cup {None}
    BY Placed
  <1>2. CASE OnFirst(t, s, b) /\ obj = before[t]
    BY <1>1, <1>2 DEF OnFirst, First, Triple
  <1>3. CASE OnSecond(t, s, b) /\ obj = before[s] /\ Second(t, s, b)
    BY <1>1, <1>3 DEF OnSecond, Second, Startable, Triple
  <1> QED BY <1>2, <1>3 DEF Writing

LEMMA WritingKeeps ==
  ASSUME TypeOK, NEW t \in Names, NEW s \in Names, NEW b \in Names, Triple(t, s, b),
         Volume(t, s, b), Writing(t, s, b), LegWrite(to, from, obj), before' = before
  PROVE  /\ Volume(t, s, b)'
         /\ First(t, s, b) /\ obj = before[t] => First(t, s, b)'
         /\ Second(t, s, b) /\ obj = before[s] => Second(t, s, b)'
  <1>1. /\ to \in Names /\ from \in Names /\ to # from /\ obj \in Objects
        /\ Leg(to, from, obj) /\ Startable(t, s, b) /\ {to, from} \subseteq {t, s, b}
    BY WritingLeg
  <1> PICK x \in Names, y \in Names, o \in Objects : x = to /\ y = from /\ o = obj
    BY <1>1
  <1>2. /\ Leg(x, y, o)'
        /\ \A n \in Names \ {to, from} : mayIndex'[n] = mayIndex[n]
        /\ \A p \in Objects \ {obj} : mayCanon'[p] = mayCanon[p]
    BY <1>1, LegWrites
  <1>3. ASSUME NEW n \in Names \ {to, from}, AsBefore(n), before[n] # obj
        PROVE  AsBefore(n)'
    BY <1>2, <1>3, Placed DEF AsBefore
  <1>4. Startable(t, s, b)'
    BY <1>1 DEF Startable
  <1>5. PICK m \in {t, s} : before[m] = obj
    BY <1>1 DEF Writing
  <1>6. Elsewhere(t, s, b)'
    <2>1. ASSUME NEW n \in Names \ {t, s, b} PROVE AsBefore(n)'
      BY <1>1, <1>3, <1>5, Placed DEF Volume, Elsewhere, Triple
    <2>2. ASSUME NEW p \in Objects, \A n \in Names : before[n] # p PROVE mayCanon'[p] = {None}
      BY <1>2, <1>5, <2>2 DEF Volume, Elsewhere
    <2> QED BY <2>1, <2>2 DEF Elsewhere
  <1>7. before[t] # before[s] /\ before[b] # before[s]
    BY <1>1, Placed DEF Triple, Startable
  <1>8. CASE OnFirst(t, s, b) /\ obj = before[t]
    <2>1. to = b /\ from = t /\ before[t] # None /\ AsBefore(s)
      BY <1>8 DEF OnFirst, First
    <2>2. First(t, s, b)'
      BY <1>2, <1>3, <1>7, <1>8, <2>1 DEF First, Leg, Triple
    <2> QED BY <1>4, <1>6, <1>7, <1>8, <2>2 DEF Volume, Between
  <1>9. CASE OnSecond(t, s, b) /\ obj = before[s] /\ Second(t, s, b)
    <2>1. to = t /\ from = s /\ Kept(t, b)
      BY <1>9 DEF OnSecond, Second
    <2>2. Kept(t, b)'
      <3>1. CASE before[t] = None
        BY <1>3, <1>7, <1>9, <2>1, <3>1 DEF Kept, Triple
      <3>2. CASE before[t] # None
        BY <1>2, <1>7, <1>9, <2>1, <3>2, Placed DEF Kept, Triple
      <3> QED BY <3>1, <3>2
    <2>3. Second(t, s, b)'
      BY <1>2, <1>9, <2>1, <2>2 DEF Second, Leg
    <2> QED BY <1>4, <1>6, <1>7, <1>9, <2>3 DEF Volume, Between
  <1> QED BY <1>8, <1>9 DEF Writing

(* What the current names tell of a replacement.                           *)
LEMMA Seen ==
  ASSUME TypeOK, Referred, NEW t \in Names, NEW s \in Names, NEW b \in Names,
         Triple(t, s, b), Volume(t, s, b)
  PROVE  /\ \A n \in Names : index[n] # None => Live(index[n])
         /\ index[s] \in {None, before[s]}
         /\ index[s] # None /\ before[s] # None =>
               IF Startable(t, s, b)
               THEN \/ First(t, s, b) /\ index[t] \in {None, before[t]}
                                      /\ index[b] \in {None, before[t]}
                    \/ Second(t, s, b) /\ index[t] \in {None, before[s]}
               ELSE index[t] = before[t] /\ index[b] = before[b]
         /\ index[s] = None /\ before[s] # None =>
               Startable(t, s, b) /\ Second(t, s, b) /\ mayIndex[t] = {before[s]}
                                  /\ mayCanon[before[s]] = {t}
         /\ before[s] = None => index[t] = before[t]
  <1>1. \A n \in Names : index[n] \in mayIndex[n] /\ index[n] \in Objects \cup {None}
    BY DEF Referred, CurrentPossible, TypeOK
  <1>2. \A n \in Names : index[n] # None => Live(index[n])
    BY <1>1 DEF Referred, NoImageDangles, CanonPossible, Live
  <1>3. CASE ~Startable(t, s, b)
    <2>1. /\ index[t] = before[t] /\ index[s] = before[s] /\ index[b] = before[b]
      BY <1>1, <1>3 DEF Volume, Between, AsBefore
    <2> QED BY <1>2, <1>3, <2>1
  <1>4. CASE Startable(t, s, b) /\ First(t, s, b)
    <2>1. index[s] = before[s] /\ before[s] # None
      BY <1>1, <1>4 DEF First, AsBefore, Startable
    <2>2. index[t] \in {None, before[t]} /\ index[b] \in {None, before[t]}
      BY <1>1, <1>4 DEF First, Leg
    <2> QED BY <1>2, <1>4, <2>1, <2>2
  <1>5. CASE Startable(t, s, b) /\ Second(t, s, b)
    <2>1. before[s] # None /\ index[s] \in {None, before[s]} /\ index[t] \in {None, before[s]}
      BY <1>1, <1>5 DEF Second, Leg, Startable
    <2>2. index[s] = None => mayIndex[t] = {before[s]} /\ mayCanon[before[s]] = {t}
      BY <1>1, <1>5, <2>1 DEF Second, Leg
    <2> QED BY <1>2, <1>5, <2>1, <2>2
  <1> QED BY <1>3, <1>4, <1>5 DEF Volume, Between

(* A call that is not a move never gets to the volume's names.             *)
LEMMA Calls ==
  ASSUME TypeOK, OnlyMoves, NEW t \in Names, NEW s \in Names, NEW b \in Names, Triple(t, s, b)
  PROVE  /\ call.op \in {"replace", "publish", "other"}
         /\ Moving <=> call.op \in {"replace", "publish"}
         /\ Moving => call.to = t /\ call.from = s /\ call.aside = b
         /\ more => to = b /\ from = t /\ call.op = "replace"
  BY DEF TypeOK, OnlyMoves, Only, Moving, Triple

LEMMA Quiet ==
  ASSUME TypeOK, Referred, UNCHANGED <<index, canon, mayIndex, mayCanon, before>>
  PROVE  Narrows
  BY DEF Narrows, Referred, CurrentPossible, CanonPossible

LEMMA Flushed ==
  ASSUME TypeOK, Referred, deviceFlush, before' = before
  PROVE  /\ Narrows /\ index' = index /\ canon' = canon
         /\ \A n \in Names : mayIndex'[n] = {index[n]}
         /\ \A o \in Objects : mayCanon'[o] = {canon[o]}
  <1>1. /\ index' = index /\ canon' = canon
        /\ \A n \in Names : mayIndex'[n] = {index[n]}
        /\ \A o \in Objects : mayCanon'[o] = {canon[o]}
    BY DEF deviceFlush, live
  <1> QED BY <1>1 DEF Narrows, Referred, CurrentPossible, CanonPossible

LEMMA BeginAlone ==
  ASSUME RefersInv, OnlyMoves, NEW t \in Names, NEW s \in Names, NEW b \in Names,
         AloneInv(t, s, b), Begin
  PROVE  AloneInv(t, s, b)'
  <1>1. /\ UNCHANGED <<index, canon, mayIndex, mayCanon, before, work>>
        /\ pc' = IF call'.op = "publish" THEN "leg" ELSE "look"
        /\ call' \in work.calls /\ to' = call'.to /\ from' = call'.from /\ ~more'
    BY DEF Begin, volume, live, image
  <1>2. Volume(t, s, b)' /\ Triple(t, s, b)'
    BY <1>1, Quiet, NarrowsVolume DEF RefersInv, AloneInv, Triple
  <1>3. call'.op = "publish" => to' = t /\ from' = s
    BY <1>1 DEF AloneInv, Triple
  <1> QED BY <1>1, <1>2, <1>3
          DEF AloneInv, Where, AtLeg, AtMark, AtWrite, AtDrain, AtClear, AtIdle, Moving

(* A call that ends at its lookups, or after them.                         *)
LEMMA Returns ==
  ASSUME RefersInv, OnlyMoves, NEW t \in Names, NEW s \in Names, NEW b \in Names,
         AloneInv(t, s, b), Volume(t, s, b)', before' = before, work' = work, call' = call,
         pc' = "idle", ~more',
         call.op = "replace" =>
            /\ answer' = "ok" => Finished(t, s, b)'
            /\ ~faulty' /\ answer' # "none" =>
                  \/ answer' = "ok"
                  \/ answer' = "conflict" /\ before[t] # None /\ before[b] # None
                  \/ answer' = "not_found" /\ before[t] = None /\ before[s] = None
  PROVE  AloneInv(t, s, b)'
  <1>1. Triple(t, s, b)'
    BY DEF AloneInv, Triple
  <1> QED BY <1>1 DEF AloneInv, Where, AtLeg, AtMark, AtWrite, AtDrain, AtClear, AtIdle

LEMMA LookReplaceAlone ==
  ASSUME RefersInv, OnlyMoves, NEW t \in Names, NEW s \in Names, NEW b \in Names,
         AloneInv(t, s, b), LookReplace
  PROVE  AloneInv(t, s, b)'
  <1>1. /\ UNCHANGED <<index, canon, mayIndex, mayCanon, before, work, call>>
        /\ pc = "look" /\ call.op = "replace" /\ Moving /\ ~more
        /\ call.to = t /\ call.from = s /\ call.aside = b
        /\ TypeOK /\ Referred /\ Triple(t, s, b) /\ Volume(t, s, b) /\ call \in work.calls
    BY DEF LookReplace, Goto, Return, StartLeg, counters, volume, live, image, Moving,
           RefersInv, AloneInv, Where, AtIdle, TypeOK, Triple
  <1>2. /\ Narrows /\ Volume(t, s, b)' /\ Triple(t, s, b)'
        /\ First(t, s, b) => First(t, s, b)'
        /\ Startable(t, s, b)' <=> Startable(t, s, b)
    BY <1>1, Quiet, NarrowsVolume DEF Triple
  <1>3. /\ \A n \in Names : index[n] # None => Live(index[n])
        /\ index[s] \in {None, before[s]}
        /\ index[s] # None /\ before[s] # None =>
               IF Startable(t, s, b)
               THEN \/ First(t, s, b) /\ index[t] \in {None, before[t]}
                                      /\ index[b] \in {None, before[t]}
                    \/ Second(t, s, b) /\ index[t] \in {None, before[s]}
               ELSE index[t] = before[t] /\ index[b] = before[b]
        /\ index[s] = None /\ before[s] # None =>
               Startable(t, s, b) /\ Second(t, s, b) /\ mayIndex[t] = {before[s]}
        /\ before[s] = None => index[t] = before[t]
    BY <1>1, Seen
  <1>4. before[t] = before[s] => before[t] = None
    BY <1>1, Placed DEF Triple
  <1>t. index[t] \in mayIndex[t]
    BY <1>1 DEF Referred, CurrentPossible
  <1>5. CASE \E o \in {index[t], index[s], index[b]} \ {None} : ~Live(o)
    BY <1>3, <1>5
  <1>6. CASE index[s] = None /\ index[t] = None /\ Return("not_found")
    <2>1. before[s] = None /\ before[t] = None
      BY <1>3, <1>6, <1>t
    <2> QED BY <1>1, <1>2, <1>6, <2>1, Returns DEF Return
  <1>7. CASE index[s] = None /\ index[t] # None /\ Goto("drain")
    BY <1>1, <1>2, <1>7
       DEF Goto, AloneInv, Where, AtLeg, AtMark, AtWrite, AtDrain, AtClear, AtIdle
  <1>8. CASE /\ index[s] # None /\ index[t] \in {None, index[s]}
             /\ StartLeg(call.to, call.from, FALSE)
    <2>1. index[s] = before[s] /\ before[s] # None
      BY <1>3, <1>8
    <2>2. Startable(t, s, b)
      BY <1>3, <1>4, <1>t, <1>8, <2>1 DEF Startable
    <2>3. pc' = "leg" /\ to' = t /\ from' = s /\ ~more'
      BY <1>1, <1>8 DEF StartLeg
    <2>4. OnSecond(t, s, b)'
      BY <1>2, <2>2, <2>3 DEF OnSecond
    <2>5. Moving'
      BY <1>1 DEF Moving
    <2> QED BY <1>1, <1>2, <1>8, <2>1, <2>3, <2>4, <2>5
            DEF AloneInv, Where, AtLeg, AtMark, AtWrite, AtDrain, AtClear, AtIdle
  <1>9. CASE /\ index[s] # None /\ index[t] \notin {None, index[s]}
    <2>1. index[s] = before[s] /\ before[s] # None
      BY <1>3, <1>9
    <2>2. CASE FirstLegOpen(index[t], index[b]) /\ StartLeg(call.aside, call.to, TRUE)
      <3>1. Startable(t, s, b) /\ First(t, s, b) /\ index[t] = before[t]
        <4>1. index[t] # None /\ index[b] \in {None, index[t]}
          BY <1>9, <2>1, <2>2 DEF FirstLegOpen
        <4>2. ASSUME ~Startable(t, s, b) PROVE FALSE
          <5>1. before[t] # None /\ before[b] # None /\ before[b] = before[t]
            BY <1>3, <1>9, <2>1, <4>1, <4>2 DEF Startable
          <5> QED BY <1>1, <5>1, Placed DEF Triple
        <4> QED BY <1>3, <1>9, <2>1, <4>1, <4>2
      <3>2. pc' = "leg" /\ to' = b /\ from' = t /\ more'
        BY <1>1, <2>2 DEF StartLeg
      <3>3. OnFirst(t, s, b)' /\ Moving'
        BY <1>1, <1>2, <3>1, <3>2 DEF OnFirst, Moving
      <3> QED BY <1>1, <1>2, <3>1, <3>2, <3>3
              DEF AloneInv, Where, AtLeg, AtMark, AtWrite, AtDrain, AtClear, AtIdle
    <2>3. CASE ~FirstLegOpen(index[t], index[b]) /\ Return("conflict")
      <3>1. before[t] # None /\ before[b] # None
        <4>1. ~Startable(t, s, b)
          BY <1>3, <1>9, <2>1, <2>3 DEF FirstLegOpen
        <4> QED BY <2>1, <4>1 DEF Startable
      <3> QED BY <1>1, <1>2, <2>3, <3>1, Returns DEF Return
    <2> QED BY <1>1, <1>3, <1>5, <1>9, <2>2, <2>3 DEF LookReplace
  <1> QED BY <1>1, <1>5, <1>6, <1>7, <1>8, <1>9 DEF LookReplace

(* What publishFileCreateOnly goes on with.                                *)
LEMMA Goes ==
  ASSUME TypeOK, Referred, NEW x \in Names, NEW y \in Names
  PROVE  PublishCheck(x, y) = "go" <=>
            /\ index[y] # None /\ index[x] \in {None, index[y]}
            /\ Live(index[y]) /\ canon[index[y]] \in {x, y}
  <1>1. CASE index[y] = None
    BY <1>1 DEF PublishCheck
  <1>2. CASE index[y] # None /\ index[x] \notin {None, index[y]}
    BY <1>2 DEF PublishCheck
  <1>3. CASE index[y] # None /\ index[x] \in {None, index[y]}
    BY <1>3 DEF PublishCheck
  <1> QED BY <1>1, <1>2, <1>3

(* A stage that nothing but itself stands in the way of can be installed.  *)
LEMMA CanInstall ==
  ASSUME TypeOK, Referred, NEW t \in Names, NEW s \in Names, NEW b \in Names,
         Triple(t, s, b), Volume(t, s, b),
         index[s] # None, index[t] \in {None, index[s]}
  PROVE  index[s] = before[s] /\ before[s] # None /\ Startable(t, s, b)
  <1>1. index[s] = before[s] /\ before[s] # None
    BY Seen
  <1>2. ASSUME ~Startable(t, s, b) PROVE index[t] = before[t]
    BY <1>1, <1>2, Seen
  <1>3. before[t] = before[s] => before[t] = None
    BY Placed DEF Triple
  <1> QED BY <1>1, <1>2, <1>3 DEF Startable

LEMMA LookLegAlone ==
  ASSUME RefersInv, OnlyMoves, NEW t \in Names, NEW s \in Names, NEW b \in Names,
         AloneInv(t, s, b), LookLeg
  PROVE  AloneInv(t, s, b)'
  <1>1. /\ UNCHANGED <<index, canon, mayIndex, mayCanon, before, work, call>>
        /\ pc = "leg" /\ Moving
        /\ TypeOK /\ Referred /\ Triple(t, s, b) /\ Volume(t, s, b)
        /\ AtLeg(t, s, b) /\ to \in Names /\ from \in Names
    BY DEF LookLeg, WorkOn, Return, counters, volume, live, image,
           RefersInv, AloneInv, Where, AtLeg, TypeOK
  <1>2. /\ Narrows /\ Volume(t, s, b)' /\ Triple(t, s, b)'
        /\ First(t, s, b) => First(t, s, b)'
        /\ Startable(t, s, b)' <=> Startable(t, s, b)
    BY <1>1, Quiet, NarrowsVolume DEF Triple
  <1>3. /\ \A n \in Names : index[n] \in mayIndex[n] /\ index[n] \in Objects \cup {None}
        /\ \A o \in Objects : canon[o] \in mayCanon[o]
        /\ \A n \in Names : index[n] # None => Live(index[n])
    BY <1>1, Seen DEF Referred, CurrentPossible, CanonPossible, TypeOK
  <1>4. CASE call.op = "replace"
    <2>1. CASE OnFirst(t, s, b) /\ index[t] = before[t]
      <3>1. to = b /\ from = t /\ more /\ First(t, s, b) /\ index[from] # None
        BY <2>1 DEF OnFirst, First
      <3>2. index[b] \in {None, before[t]} /\ canon[before[t]] \in {t, b}
        BY <1>3, <2>1, <3>1 DEF First, Leg
      <3>3. PublishCheck(to, from) = "go"
        BY <1>1, <1>3, <2>1, <3>1, <3>2, Goes
      <3>4. WorkOn(index[from]) /\ OnFirst(t, s, b)'
        BY <1>2, <2>1, <3>1, <3>3 DEF LookLeg, WorkOn, OnFirst
      <3>5. pc' = "mark" /\ obj' = before[t] /\ to' = b /\ from' = t
        BY <2>1, <3>1, <3>4 DEF WorkOn
      <3>6. AtMark(t, s, b)'
        BY <1>1, <2>1, <3>2, <3>4, <3>5 DEF AtMark, Riding
      <3> QED BY <1>2, <3>5, <3>6
              DEF AloneInv, Where, AtLeg, AtWrite, AtDrain, AtClear, AtIdle
    <2>2. CASE OnSecond(t, s, b) /\ index[s] = before[s] /\ index[t] \in {None, before[s]}
      <3>1. to = t /\ from = s /\ ~more /\ Startable(t, s, b) /\ index[from] # None
        BY <2>2 DEF OnSecond, Startable
      <3>2. canon[before[s]] \in {t, s}
        BY <1>1, <1>3, <2>2, <3>1 DEF Volume, Between, First, AsBefore, Second, Leg
      <3>3. PublishCheck(to, from) = "go"
        BY <1>1, <1>3, <2>2, <3>1, <3>2, Goes
      <3>4. WorkOn(index[from]) /\ OnSecond(t, s, b)'
        BY <1>2, <2>2, <3>1, <3>3 DEF LookLeg, WorkOn, OnSecond
      <3>5. pc' = "mark" /\ obj' = before[s] /\ to' = t /\ from' = s
        BY <2>2, <3>1, <3>4 DEF WorkOn
      <3>6. AtMark(t, s, b)'
        BY <1>1, <2>2, <3>4, <3>5 DEF AtMark, Riding
      <3> QED BY <1>2, <3>5, <3>6
              DEF AloneInv, Where, AtLeg, AtWrite, AtDrain, AtClear, AtIdle
    <2> QED BY <1>1, <1>4, <2>1, <2>2 DEF AtLeg
  <1>5. CASE call.op = "publish"
    <2>0. to = t /\ from = s /\ ~more
      BY <1>1, <1>5 DEF AtLeg
    <2>1. CASE PublishCheck(to, from) = "go"
      <3>1. index[s] # None /\ index[t] \in {None, index[s]}
        BY <1>1, <2>0, <2>1, Goes
      <3>2. index[s] = before[s] /\ before[s] # None /\ Startable(t, s, b)
        BY <1>1, <3>1, CanInstall
      <3>3. pc' = "mark" /\ obj' = before[s] /\ to' = t /\ from' = s /\ ~more'
        BY <2>0, <2>1, <3>2 DEF LookLeg, WorkOn
      <3>4. OnSecond(t, s, b)'
        BY <1>2, <3>2, <3>3 DEF OnSecond
      <3>5. AtMark(t, s, b)'
        BY <1>1, <3>1, <3>2, <3>3, <3>4 DEF AtMark, Riding
      <3> QED BY <1>2, <3>3, <3>5
              DEF AloneInv, Where, AtLeg, AtWrite, AtDrain, AtClear, AtIdle
    <2>2. CASE PublishCheck(to, from) # "go"
      <3>1. pc' = "idle" /\ ~more'
        BY <2>2 DEF LookLeg, Return
      <3> QED BY <1>1, <1>2, <1>5, <3>1, Returns
    <2> QED BY <2>1, <2>2
  <1> QED BY <1>1, <1>4, <1>5 DEF Moving

LEMMA LookOtherAlone ==
  ASSUME RefersInv, OnlyMoves, NEW t \in Names, NEW s \in Names, NEW b \in Names,
         AloneInv(t, s, b), LookOther
  PROVE  AloneInv(t, s, b)'
  <1>1. /\ UNCHANGED <<index, canon, mayIndex, mayCanon, before, work, call>>
        /\ pc' = "mark" /\ call.op = "other"
        /\ TypeOK /\ Referred
    BY DEF LookOther, WorkOn, counters, volume, live, image, RefersInv
  <1>2. Volume(t, s, b)' /\ Triple(t, s, b)'
    BY <1>1, Quiet, NarrowsVolume DEF AloneInv, Triple
  <1> QED BY <1>1, <1>2
          DEF AloneInv, Where, AtLeg, AtMark, AtWrite, AtDrain, AtClear, AtIdle, Moving

LEMMA LookAlone ==
  ASSUME RefersInv, OnlyMoves, NEW t \in Names, NEW s \in Names, NEW b \in Names,
         AloneInv(t, s, b), Look
  PROVE  AloneInv(t, s, b)'
  <1>1. call.op \in {"replace", "publish", "other"}
    BY Calls DEF RefersInv, AloneInv
  <1>2. LookReplace \/ LookLeg \/ LookOther
    BY <1>1 DEF Look, LookRename, LookDelete, LookCreate, LookRecover
  <1> QED BY <1>2, LookReplaceAlone, LookLegAlone, LookOtherAlone

Waits == UNCHANGED <<call, to, from, obj, more, before, work>>

LEMMA NarrowsRiding ==
  ASSUME TypeOK, Narrows, Waits, NEW t \in Names, NEW s \in Names, NEW b \in Names
  PROVE  /\ Riding(t, s, b) => Riding(t, s, b)'
         /\ Writing(t, s, b) => Writing(t, s, b)'
         /\ Triple(t, s, b) => Triple(t, s, b)'
  <1>1. /\ First(t, s, b) => First(t, s, b)'
        /\ Startable(t, s, b) /\ Second(t, s, b) => Second(t, s, b)'
        /\ Startable(t, s, b)' <=> Startable(t, s, b)
    BY NarrowsVolume
  <1>2. OnFirst(t, s, b) => OnFirst(t, s, b)'
    BY <1>1 DEF OnFirst, Waits
  <1>3. OnSecond(t, s, b) => OnSecond(t, s, b)'
    BY <1>1 DEF OnSecond, Waits
  <1>4. Writing(t, s, b) => Writing(t, s, b)'
    <2>1. OnSecond(t, s, b) /\ Second(t, s, b) => Second(t, s, b)'
      BY <1>1 DEF OnSecond
    <2> QED BY <1>2, <1>3, <2>1 DEF Writing, Waits
  <1> QED BY <1>2, <1>3, <1>4 DEF Riding, Waits, Triple

LEMMA WritesRiding ==
  ASSUME TypeOK, NEW t \in Names, NEW s \in Names, NEW b \in Names, Triple(t, s, b),
         Volume(t, s, b), Writing(t, s, b), LegWrite(to, from, obj), Waits
  PROVE  Volume(t, s, b)' /\ Writing(t, s, b)' /\ Triple(t, s, b)'
  <1>1. /\ Volume(t, s, b)'
        /\ First(t, s, b) /\ obj = before[t] => First(t, s, b)'
        /\ Second(t, s, b) /\ obj = before[s] => Second(t, s, b)'
    BY WritingKeeps DEF Waits
  <1>2. Startable(t, s, b)' <=> Startable(t, s, b)
    BY DEF Waits, Startable
  <1>3. OnFirst(t, s, b) /\ obj = before[t] => OnFirst(t, s, b)' /\ obj' = before'[t]
    BY <1>1, <1>2 DEF OnFirst, Waits
  <1>4. OnSecond(t, s, b) => OnSecond(t, s, b)'
    BY <1>2 DEF OnSecond, Waits
  <1> QED BY <1>1, <1>3, <1>4 DEF Writing, Waits, Triple

LEMMA MarkAlone ==
  ASSUME RefersInv, OnlyMoves, NEW t \in Names, NEW s \in Names, NEW b \in Names,
         AloneInv(t, s, b), Mark
  PROVE  AloneInv(t, s, b)'
  <1>1. /\ UNCHANGED <<index, canon, mayIndex, mayCanon>> /\ Waits
        /\ pc = "mark" /\ TypeOK /\ Referred /\ Triple(t, s, b) /\ Volume(t, s, b)
        /\ AtMark(t, s, b)
    BY DEF Mark, Goto, counters, volume, live, image, WriteDirty, Waits, RefersInv,
           AloneInv, Where
  <1>2. /\ Narrows /\ Volume(t, s, b)' /\ Triple(t, s, b)'
        /\ Riding(t, s, b) => Riding(t, s, b)'
    BY <1>1, Quiet, NarrowsVolume, NarrowsRiding DEF Waits
  <1>3. Moving' <=> Moving
    BY <1>1 DEF Waits, Moving
  <1>4. CASE pc' = "markflush"
    <2>1. AtMark(t, s, b)'
      BY <1>1, <1>2, <1>3 DEF AtMark, Waits
    <2> QED BY <1>2, <1>4, <2>1 DEF AloneInv, Where, AtLeg, AtWrite, AtDrain, AtClear, AtIdle
  <1>5. CASE ~Moving /\ Goto(AfterMark)
    <2>1. call.op = "other"
      BY <1>1, <1>5, Calls
    <2>2. pc' = "settle"
      BY <1>5, <2>1 DEF Goto, AfterMark
    <2> QED BY <1>2, <1>3, <1>5, <2>2
            DEF AloneInv, Where, AtLeg, AtMark, AtWrite, AtDrain, AtClear, AtIdle
  <1> QED BY <1>4, <1>5 DEF Mark, Goto

LEMMA MarkFlushAlone ==
  ASSUME RefersInv, OnlyMoves, NEW t \in Names, NEW s \in Names, NEW b \in Names,
         AloneInv(t, s, b), MarkFlush
  PROVE  AloneInv(t, s, b)'
  <1>1. /\ deviceFlush /\ Waits /\ pc = "markflush" /\ pc' = AfterMark
        /\ TypeOK /\ Referred /\ Triple(t, s, b) /\ Volume(t, s, b)
        /\ AtMark(t, s, b) /\ to \in Names /\ from \in Names
    BY DEF MarkFlush, Goto, counters, Waits, RefersInv, AloneInv, Where, TypeOK
  <1>2. /\ Narrows /\ index' = index /\ canon' = canon
        /\ \A n \in Names : mayIndex'[n] = {index[n]}
        /\ \A o \in Objects : mayCanon'[o] = {canon[o]}
    BY <1>1, Flushed DEF Waits
  <1>3. /\ Volume(t, s, b)' /\ Triple(t, s, b)'
        /\ Writing(t, s, b) => Writing(t, s, b)'
        /\ Riding(t, s, b) => Riding(t, s, b)'
    BY <1>1, <1>2, NarrowsVolume, NarrowsRiding
  <1>4. Moving' <=> Moving
    BY <1>1 DEF Waits, Moving
  <1>5. CASE ~Moving
    <2>1. call.op = "other"
      BY <1>1, <1>5, Calls
    <2>2. pc' = "settle"
      BY <1>1, <1>5, <2>1 DEF AfterMark
    <2> QED BY <1>3, <1>4, <1>5, <2>2
            DEF AloneInv, Where, AtLeg, AtMark, AtWrite, AtDrain, AtClear, AtIdle
  <1>6. CASE Moving
    <2>1. Riding(t, s, b) /\ index[from] = obj /\ index[to] \in {None, obj}
      BY <1>1, <1>6 DEF AtMark
    <2>2. before[t] \in Objects \cup {None} /\ before[s] \in Objects \cup {None}
          /\ (before[t] = before[s] => before[t] = None)
      BY <1>1, Placed DEF Triple
    <2>3. obj \in Objects /\ obj # None
      BY <1>1, <2>1, <2>2, Placed DEF Riding, OnFirst, OnSecond, First, Startable
    <2>4. Writing(t, s, b)'
      <3>1. CASE OnFirst(t, s, b) /\ obj = before[t]
        BY <1>3, <3>1 DEF Writing
      <3>2. CASE OnSecond(t, s, b) /\ obj = before[s] /\ Second(t, s, b)
        BY <1>3, <3>2 DEF Writing
      <3>3. CASE OnSecond(t, s, b) /\ obj = before[s] /\ First(t, s, b)
        <4>1. to = t /\ from = s /\ index[t] = None
          <5>1. index[t] \in mayIndex[t]
            BY <1>1 DEF Referred, CurrentPossible
          <5> QED BY <2>1, <2>2, <3>3, <5>1 DEF OnSecond, First, Leg
        <4>2. mayIndex[b] = {before[t]} /\ mayCanon[before[t]] = {b} /\ before[t] # None
          <5>1. index[t] \in mayIndex[t]
            BY <1>1 DEF Referred, CurrentPossible
          <5> QED BY <3>3, <4>1, <5>1 DEF First, Leg
        <4>3. Kept(t, b)'
          BY <1>1, <1>2, <4>2, NarrowsKept DEF Kept
        <4>4. mayIndex'[t] = {None} /\ mayIndex'[s] = {before[s]}
          BY <1>1, <1>2, <2>1, <3>3, <4>1
        <4>5. mayCanon'[before[s]] = {s}
          <5>1. mayCanon[before[s]] = {s}
            BY <2>3, <3>3 DEF First, AsBefore
          <5> QED BY <1>2, <2>3, <3>3, <5>1 DEF Narrows
        <4>6. Second(t, s, b)'
          BY <1>1, <4>3, <4>4, <4>5 DEF Second, Leg, Waits
        <4>7. OnSecond(t, s, b)'
          BY <1>1, <3>3 DEF OnSecond, Waits, Startable
        <4> QED BY <1>1, <3>3, <4>6, <4>7 DEF Writing, Waits
      <3> QED BY <1>1, <2>1, <3>1, <3>2, <3>3 DEF Riding, OnSecond, Volume, Between
    <2>5. /\ mayIndex'[from] = {obj} /\ mayIndex'[to] = {index[to]}
          /\ mayCanon'[obj] = {canon[obj]}
      BY <1>1, <1>2, <2>1, <2>3
    <2>6. /\ pc' \in {"canon", "insert", "detach"}
          /\ pc' = "insert" => index[to] = None /\ canon[obj] = to
          /\ pc' = "detach" => index[to] = obj /\ canon[obj] = to
      <3>1. call.op \in {"replace", "publish"} /\ Moving
        BY <1>6 DEF Moving
      <3>2. AfterMark = IF canon[obj] # to THEN "canon"
                        ELSE IF index[to] = None THEN "insert" ELSE "detach"
        BY <3>1 DEF AfterMark
      <3> QED BY <1>1, <2>1, <3>2
    <2>7. AtWrite(t, s, b)'
      BY <1>1, <1>2, <1>4, <1>6, <2>4, <2>5, <2>6 DEF AtWrite, Waits
    <2>8. pc' \in {"canon", "insert", "detach"}
      BY <2>6
    <2>9. Where(t, s, b)'
      BY <2>7, <2>8 DEF Where, AtLeg, AtMark, AtDrain, AtClear, AtIdle
    <2> QED BY <1>3, <2>9 DEF AloneInv
  <1> QED BY <1>5, <1>6

(* A call between its alias and the end of its old name.                   *)
LEMMA Underway ==
  ASSUME RefersInv, NEW t \in Names, NEW s \in Names, NEW b \in Names,
         AloneInv(t, s, b), pc \in {"canon", "canonflush", "insert", "publish", "detach"}
  PROVE  /\ TypeOK /\ Referred /\ Triple(t, s, b) /\ Volume(t, s, b) /\ Moving
         /\ Writing(t, s, b) /\ mayIndex[from] = {obj}
         /\ to \in Names /\ from \in Names /\ to # from /\ obj \in Objects /\ obj # None
         /\ index[from] = obj /\ index[to] \in {None, obj}
         /\ DOMAIN index = Names /\ DOMAIN canon = Objects
         /\ DOMAIN mayIndex = Names /\ DOMAIN mayCanon = Objects
  <1>1. /\ TypeOK /\ Referred /\ Triple(t, s, b) /\ Volume(t, s, b) /\ Moving
        /\ Writing(t, s, b) /\ mayIndex[from] = {obj}
    BY DEF RefersInv, AloneInv, Where, AtWrite
  <1>2. /\ to \in Names /\ from \in Names /\ to # from /\ obj \in Objects
        /\ Leg(to, from, obj)
    BY <1>1, WritingLeg
  <1>3. index[from] \in mayIndex[from] /\ index[to] \in mayIndex[to]
    BY <1>1, <1>2 DEF Referred, CurrentPossible
  <1>4. index[from] = obj /\ index[to] \in {None, obj}
    BY <1>1, <1>2, <1>3 DEF Leg
  <1> QED BY <1>1, <1>2, <1>4, NamesAssumption DEF TypeOK

(* Where a call goes that has one write or flush behind it.                *)
LEMMA GoesOn ==
  ASSUME NEW t \in Names, NEW s \in Names, NEW b \in Names,
         Volume(t, s, b)', Triple(t, s, b)', AtWrite(t, s, b)',
         pc' \in {"canonflush", "insert", "publish", "detach", "settle"}
  PROVE  AloneInv(t, s, b)'
  BY DEF AloneInv, Where, AtLeg, AtMark, AtDrain, AtClear, AtIdle

LEMMA CanonAlone ==
  ASSUME RefersInv, OnlyMoves, NEW t \in Names, NEW s \in Names, NEW b \in Names,
         AloneInv(t, s, b), Canon
  PROVE  AloneInv(t, s, b)'
  <1>1. /\ WriteCanon(obj, to) /\ Waits /\ pc = "canon"
        /\ pc' = IF Moving /\ index[to] = None THEN "insert" ELSE "canonflush"
    BY DEF Canon, Goto, counters, Waits
  <1>2. /\ TypeOK /\ Referred /\ Triple(t, s, b) /\ Volume(t, s, b) /\ Moving
        /\ Writing(t, s, b) /\ mayIndex[from] = {obj} /\ to \in Names /\ obj \in Objects
        /\ index[to] \in {None, obj} /\ DOMAIN canon = Objects
    BY <1>1, Underway
  <1>3. LegWrite(to, from, obj)
    BY <1>1, <1>2 DEF LegWrite
  <1>4. Volume(t, s, b)' /\ Writing(t, s, b)' /\ Triple(t, s, b)'
    BY <1>1, <1>2, <1>3, WritesRiding
  <1>5. canon'[obj] = to /\ index' = index /\ mayIndex' = mayIndex
    BY <1>1, <1>2 DEF WriteCanon
  <1>6. Moving'
    BY <1>1, <1>2 DEF Moving, Waits
  <1>7. AtWrite(t, s, b)'
    BY <1>1, <1>2, <1>4, <1>5, <1>6 DEF AtWrite, Waits
  <1> QED BY <1>1, <1>4, <1>7, GoesOn

LEMMA InsertAlone ==
  ASSUME RefersInv, OnlyMoves, NEW t \in Names, NEW s \in Names, NEW b \in Names,
         AloneInv(t, s, b), Insert
  PROVE  AloneInv(t, s, b)'
  <1>1. WriteIndex(to, obj) /\ Waits /\ pc = "insert" /\ pc' = "publish"
    BY DEF Insert, Goto, counters, Waits
  <1>2. /\ TypeOK /\ Referred /\ Triple(t, s, b) /\ Volume(t, s, b) /\ Moving
        /\ Writing(t, s, b) /\ mayIndex[from] = {obj}
        /\ to \in Names /\ from \in Names /\ to # from /\ obj \in Objects
        /\ DOMAIN index = Names /\ DOMAIN mayIndex = Names
    BY <1>1, Underway
  <1>3. LegWrite(to, from, obj)
    BY <1>1, <1>2 DEF LegWrite
  <1>4. Volume(t, s, b)' /\ Writing(t, s, b)' /\ Triple(t, s, b)'
    BY <1>1, <1>2, <1>3, WritesRiding
  <1>5. canon[obj] = to
    BY <1>1 DEF AloneInv, Where, AtWrite
  <1>6. canon' = canon /\ index'[to] = obj /\ mayIndex'[from] = mayIndex[from]
    BY <1>1, <1>2 DEF WriteIndex
  <1>7. Moving'
    BY <1>1, <1>2 DEF Moving, Waits
  <1>8. AtWrite(t, s, b)'
    BY <1>1, <1>2, <1>4, <1>5, <1>6, <1>7 DEF AtWrite, Waits
  <1> QED BY <1>1, <1>4, <1>8, GoesOn

(* The alias is durable, and the old name goes.                            *)
LEMMA PublishAlone ==
  ASSUME RefersInv, OnlyMoves, NEW t \in Names, NEW s \in Names, NEW b \in Names,
         AloneInv(t, s, b), Publish \/ CanonFlush
  PROVE  AloneInv(t, s, b)'
  <1>1. /\ deviceFlush /\ Waits /\ pc \in {"publish", "canonflush"}
        /\ pc = "publish" => pc' = CASE Moving -> "detach"
                                     [] call.op = "rename" -> "canon"
                                     [] OTHER -> "clear"
        /\ pc = "canonflush" => pc' = IF call.op = "create" THEN "insert" ELSE "detach"
    BY DEF Publish, CanonFlush, Goto, counters, Waits
  <1>2. /\ TypeOK /\ Referred /\ Triple(t, s, b) /\ Volume(t, s, b) /\ Moving
        /\ Writing(t, s, b)
        /\ to \in Names /\ from \in Names /\ obj \in Objects /\ index[from] = obj
    BY <1>1, Underway
  <1>3. pc' = "detach"
    BY <1>1, <1>2 DEF Moving
  <1>4. /\ Narrows
        /\ \A n \in Names : mayIndex'[n] = {index[n]}
        /\ \A o \in Objects : mayCanon'[o] = {canon[o]}
    BY <1>1, <1>2, Flushed DEF Waits
  <1>5. Volume(t, s, b)' /\ Writing(t, s, b)' /\ Triple(t, s, b)'
    BY <1>1, <1>2, <1>4, NarrowsVolume, NarrowsRiding
  <1>6. index[to] = obj /\ canon[obj] = to
    BY <1>1 DEF AloneInv, Where, AtWrite
  <1>7. /\ mayIndex'[from] = {obj} /\ mayIndex'[to] = {obj} /\ mayCanon'[obj] = {to}
    BY <1>2, <1>4, <1>6
  <1>8. Moving'
    BY <1>1, <1>2 DEF Moving, Waits
  <1>9. AtWrite(t, s, b)'
    BY <1>1, <1>2, <1>3, <1>5, <1>7, <1>8 DEF AtWrite, Waits
  <1> QED BY <1>3, <1>5, <1>9, GoesOn

LEMMA DetachAlone ==
  ASSUME RefersInv, OnlyMoves, NEW t \in Names, NEW s \in Names, NEW b \in Names,
         AloneInv(t, s, b), Detach
  PROVE  AloneInv(t, s, b)'
  <1>1. WriteIndex(from, None) /\ Waits /\ pc = "detach" /\ pc' = "settle"
    BY DEF Detach, Goto, counters, Waits
  <1>2. /\ TypeOK /\ Referred /\ Triple(t, s, b) /\ Volume(t, s, b)
        /\ Writing(t, s, b)
        /\ to \in Names /\ from \in Names /\ to # from /\ obj \in Objects
        /\ DOMAIN index = Names /\ DOMAIN mayIndex = Names
    BY <1>1, Underway
  <1>3. mayIndex[to] = {obj} /\ mayCanon[obj] = {to}
    BY <1>1 DEF AloneInv, Where, AtWrite
  <1>4. LegWrite(to, from, obj)
    BY <1>1, <1>3 DEF LegWrite
  <1>5. Volume(t, s, b)' /\ Writing(t, s, b)' /\ Triple(t, s, b)'
    BY <1>1, <1>2, <1>4, WritesRiding
  <1>6. mayCanon' = mayCanon /\ index'[from] = None /\ mayIndex'[to] = mayIndex[to]
    BY <1>1, <1>2 DEF WriteIndex
  <1>7. AtWrite(t, s, b)'
    BY <1>1, <1>2, <1>3, <1>5, <1>6 DEF AtWrite, Waits
  <1> QED BY <1>1, <1>5, <1>7, GoesOn

LEMMA SettleAlone ==
  ASSUME RefersInv, OnlyMoves, NEW t \in Names, NEW s \in Names, NEW b \in Names,
         AloneInv(t, s, b), Settle
  PROVE  AloneInv(t, s, b)'
  <1>1. /\ deviceFlush /\ Waits /\ pc = "settle"
        /\ pc' \in {"free", "clear"}
        /\ call.op \notin {"delete", "recover"} => pc' = "clear"
        /\ TypeOK /\ Referred /\ Triple(t, s, b) /\ Volume(t, s, b)
        /\ to \in Names /\ from \in Names
    BY DEF Settle, Goto, counters, Waits, RefersInv, AloneInv, TypeOK
  <1>2. pc' = "clear"
    BY <1>1, Calls
  <1>3. /\ Narrows
        /\ \A n \in Names : mayIndex'[n] = {index[n]}
        /\ \A o \in Objects : mayCanon'[o] = {canon[o]}
    BY <1>1, Flushed DEF Waits
  <1>4. Volume(t, s, b)' /\ Triple(t, s, b)'
        /\ Startable(t, s, b)' = Startable(t, s, b)
    BY <1>1, <1>3, NarrowsVolume, NarrowsRiding DEF Startable, Waits
  <1>5. Moving' <=> Moving
    BY <1>1 DEF Moving, Waits
  <1>6. AtClear(t, s, b)'
    <2>1. CASE ~Moving
      BY <1>5, <2>1 DEF AtClear
    <2>2. CASE Moving
      <3>1. /\ Writing(t, s, b) /\ index[from] = None
            /\ mayIndex[to] = {obj} /\ mayCanon[obj] = {to}
        BY <1>1, <2>2 DEF AloneInv, Where, AtWrite
      <3>2. mayIndex'[from] = {None} /\ obj \in Objects
        BY <1>1, <1>3, <3>1, WritingLeg
      <3>3. mayIndex'[to] = {obj} /\ mayCanon'[obj] = {to}
        BY <1>1, <1>3, <3>1, <3>2 DEF Narrows
      <3>4. CASE OnFirst(t, s, b) /\ obj = before[t]
        <4>1. to = b /\ from = t /\ more /\ before[t] # None /\ AsBefore(s) /\ Startable(t, s, b)
          BY <3>4 DEF OnFirst, First
        <4>2. AsBefore(s)'
          BY <1>1, <1>3, <4>1, NarrowsName
        <4>3. Kept(t, b)'
          BY <1>1, <3>3, <3>4, <4>1 DEF Kept, Waits
        <4>4. HalfWay(t, s, b)'
          BY <1>1, <1>4, <3>2, <4>1, <4>2, <4>3 DEF HalfWay, Waits
        <4> QED BY <1>1, <4>1, <4>4 DEF AtClear, Waits
      <3>5. CASE OnSecond(t, s, b) /\ obj = before[s] /\ Second(t, s, b)
        <4>1. to = t /\ from = s /\ ~more /\ Startable(t, s, b) /\ Kept(t, b)
          BY <3>5 DEF OnSecond, Second
        <4>2. Kept(t, b)'
          BY <1>1, <1>3, <4>1, NarrowsKept
        <4>3. Finished(t, s, b)'
          BY <1>1, <1>4, <3>2, <3>3, <3>5, <4>1, <4>2 DEF Finished, Waits
        <4> QED BY <1>1, <4>1, <4>3 DEF AtClear, Waits
      <3> QED BY <3>1, <3>4, <3>5 DEF Writing
    <2> QED BY <2>1, <2>2
  <1> QED BY <1>2, <1>4, <1>6
          DEF AloneInv, Where, AtLeg, AtMark, AtWrite, AtDrain, AtIdle

(* A lost answer is made durable: the replacement had completed.           *)
LEMMA DrainAlone ==
  ASSUME RefersInv, OnlyMoves, NEW t \in Names, NEW s \in Names, NEW b \in Names,
         AloneInv(t, s, b), Drain
  PROVE  AloneInv(t, s, b)'
  <1>1. /\ deviceFlush /\ Waits /\ pc' = "clear"
        /\ TypeOK /\ Referred /\ Triple(t, s, b) /\ Volume(t, s, b)
        /\ ~more /\ index[s] = None /\ index[t] # None
    BY DEF Drain, Goto, counters, Waits, RefersInv, AloneInv, Where, AtDrain
  <1>2. /\ Narrows
        /\ \A n \in Names : mayIndex'[n] = {index[n]}
    BY <1>1, Flushed DEF Waits
  <1>3. Volume(t, s, b)' /\ Triple(t, s, b)'
        /\ Startable(t, s, b)' = Startable(t, s, b)
    BY <1>1, <1>2, NarrowsVolume, NarrowsRiding DEF Startable, Waits
  <1>4. Finished(t, s, b)'
    <2>1. SUFFICES ASSUME before[s] # None PROVE Finished(t, s, b)'
      BY <1>1 DEF Finished, Waits
    <2>2. /\ Startable(t, s, b) /\ Second(t, s, b) /\ mayIndex[t] = {before[s]}
          /\ mayCanon[before[s]] = {t}
      BY <1>1, <2>1, Seen
    <2>3. before[s] \in Objects
      BY <1>1, <2>1, Placed
    <2>4. mayIndex'[t] = {before[s]} /\ mayCanon'[before[s]] = {t} /\ mayIndex'[s] = {None}
      BY <1>1, <1>2, <2>2, <2>3 DEF Narrows
    <2>5. Kept(t, b)'
      BY <1>1, <1>2, <2>2, NarrowsKept DEF Second
    <2> QED BY <1>1, <1>3, <2>2, <2>4, <2>5 DEF Finished, Waits
  <1> QED BY <1>1, <1>3, <1>4
          DEF AloneInv, Where, AtLeg, AtMark, AtWrite, AtDrain, AtClear, AtIdle, Waits

(* The bracket is closed, the volume being what it was.                    *)
LEMMA FinishAlone ==
  ASSUME RefersInv, OnlyMoves, NEW t \in Names, NEW s \in Names, NEW b \in Names,
         AloneInv(t, s, b), pc \in {"clear", "clearflush"}, Finish,
         index' = index, Narrows
  PROVE  AloneInv(t, s, b)'
  <1>1. /\ TypeOK /\ Referred /\ Triple(t, s, b) /\ Volume(t, s, b) /\ AtClear(t, s, b)
        /\ UNCHANGED <<call, before, work>>
    BY DEF RefersInv, AloneInv, Where, Finish, StartLeg, Return, counters
  <1>2. /\ Volume(t, s, b)' /\ Triple(t, s, b)'
        /\ HalfWay(t, s, b) => HalfWay(t, s, b)'
        /\ Finished(t, s, b) => Finished(t, s, b)'
    BY <1>1, NarrowsVolume DEF Triple
  <1>3. CASE more
    <2>1. Moving /\ Moving' /\ call.op = "replace" /\ call.to = t /\ call.from = s
      BY <1>1, <1>3, Calls DEF Moving
    <2>2. pc' = "leg" /\ to' = t /\ from' = s /\ ~more'
      BY <1>3, <2>1 DEF Finish, StartLeg
    <2>3. HalfWay(t, s, b) /\ HalfWay(t, s, b)'
      BY <1>1, <1>2, <1>3, <2>1 DEF AtClear
    <2>4. OnSecond(t, s, b)'
      BY <2>2, <2>3 DEF OnSecond, HalfWay
    <2>5. index[s] = before[s] /\ index[t] = None
      BY <1>1, <2>3 DEF HalfWay, AsBefore, Referred, CurrentPossible
    <2>6. AtLeg(t, s, b)'
      BY <1>1, <2>1, <2>2, <2>4, <2>5 DEF AtLeg
    <2> QED BY <1>2, <2>2, <2>6 DEF AloneInv, Where, AtMark, AtWrite, AtDrain, AtClear, AtIdle
  <1>4. CASE ~more
    <2>1. pc' = "idle" /\ ~more' /\ answer' \in {"ok", "unlinked"}
          /\ (call.op # "recover" => answer' = "ok")
      BY <1>4 DEF Finish, Return
    <2>2. call.op = "replace" => Finished(t, s, b)'
      BY <1>1, <1>2, <1>4 DEF AtClear, Moving
    <2> QED BY <1>1, <1>2, <2>1, <2>2, Returns
  <1> QED BY <1>3, <1>4

LEMMA ClearAlone ==
  ASSUME RefersInv, OnlyMoves, NEW t \in Names, NEW s \in Names, NEW b \in Names,
         AloneInv(t, s, b), Clear \/ ClearFlush
  PROVE  AloneInv(t, s, b)'
  <1>1. /\ TypeOK /\ Referred /\ Triple(t, s, b) /\ Volume(t, s, b) /\ AtClear(t, s, b)
    BY DEF RefersInv, AloneInv, Where
  <1>2. CASE Clear /\ dirty
    <2>1. /\ UNCHANGED <<index, canon, mayIndex, mayCanon>> /\ Waits
          /\ pc = "clear" /\ pc' = "clearflush"
      BY <1>2 DEF Clear, WriteDirty, Goto, counters, Waits
    <2>2. /\ Volume(t, s, b)' /\ Triple(t, s, b)'
          /\ HalfWay(t, s, b) => HalfWay(t, s, b)'
          /\ Finished(t, s, b) => Finished(t, s, b)'
      BY <1>1, <2>1, Quiet, NarrowsVolume DEF Triple, Waits
    <2>3. AtClear(t, s, b)'
      BY <1>1, <2>1, <2>2 DEF AtClear, Moving, Waits
    <2> QED BY <2>1, <2>2, <2>3 DEF AloneInv, Where, AtLeg, AtMark, AtWrite, AtDrain, AtIdle
  <1>3. CASE Clear /\ ~dirty
    <2>1. /\ UNCHANGED <<index, canon, mayIndex, mayCanon, before>>
          /\ pc = "clear" /\ Finish
      BY <1>3 DEF Clear, volume, live, image, Finish, StartLeg, Return, counters
    <2> QED BY <1>1, <2>1, Quiet, FinishAlone
  <1>4. CASE ClearFlush
    <2>1. deviceFlush /\ before' = before /\ pc = "clearflush" /\ Finish
      BY <1>4 DEF ClearFlush, Finish, StartLeg, Return, counters
    <2> QED BY <1>1, <2>1, Flushed, FinishAlone
  <1> QED BY <1>2, <1>3, <1>4 DEF Clear

(* Wherever a call stops, and whatever survives.                           *)
LEMMA FaultAlone ==
  ASSUME RefersInv, OnlyMoves, NEW t \in Names, NEW s \in Names, NEW b \in Names,
         AloneInv(t, s, b), FailWrite \/ FailWithoutEffect \/ PowerLoss
  PROVE  AloneInv(t, s, b)'
  <1>1. /\ pc' = "idle" /\ ~more' /\ UNCHANGED <<call, before, work>>
        /\ \/ answer' = "none"
           \/ answer' = "io" /\ faulty'
    BY DEF FailWrite, FailWithoutEffect, PowerLoss, Abandon, Fault
  <1>2. TypeOK /\ Referred /\ Triple(t, s, b) /\ Volume(t, s, b)
    BY DEF RefersInv, AloneInv
  <1>3. SUFFICES Volume(t, s, b)'
    BY <1>1, Returns
  <1>4. CASE UNCHANGED <<index, canon, mayIndex, mayCanon>>
    BY <1>1, <1>2, <1>4, Quiet, NarrowsVolume
  <1>5. CASE FailWithoutEffect
    BY <1>4, <1>5 DEF FailWithoutEffect, volume, live, image
  <1>6. CASE FailWrite
    <2>1. CASE \E d : WriteDirty(d)
      BY <1>4, <2>1 DEF WriteDirty
    <2>2. CASE pc \in {"canon", "insert", "detach"} /\ LegWrite(to, from, obj)
      <3>1. Writing(t, s, b)
        BY <2>2, Underway
      <3> QED BY <1>1, <1>2, <2>2, <3>1, WritingKeeps
    <2>3. pc \notin {"free"}
      BY DEF AloneInv, Where, AtWrite
    <2>4. /\ pc = "canon" => mayIndex[from] = {obj}
          /\ pc = "insert" => mayIndex[from] = {obj}
          /\ pc = "detach" => mayIndex[to] = {obj} /\ mayCanon[obj] = {to}
      BY DEF AloneInv, Where, AtWrite
    <2> QED BY <1>6, <2>1, <2>2, <2>3, <2>4 DEF FailWrite, LegWrite
  <1>7. CASE PowerLoss
    <2>1. Narrows
      BY <1>1, <1>2, <1>7 DEF PowerLoss, Narrows
    <2> QED BY <1>2, <2>1, NarrowsVolume
  <1> QED BY <1>5, <1>6, <1>7

LEMMA AloneStep ==
  ASSUME RefersInv, OnlyMoves, NEW t \in Names, NEW s \in Names, NEW b \in Names,
         AloneInv(t, s, b), [Next]_vars
  PROVE  AloneInv(t, s, b)'
  <1>1. pc \notin {"free", "freeflush"}
    BY DEF AloneInv, Where, AtWrite
  <1>2. CASE Request
    BY <1>1, <1>2, MarkAlone, MarkFlushAlone, CanonAlone, InsertAlone, PublishAlone,
       DetachAlone, SettleAlone, DrainAlone, ClearAlone DEF Request, Free, FreeFlush
  <1>3. CASE UNCHANGED vars
    <2>1. UNCHANGED <<index, canon, mayIndex, mayCanon, pc, answer, faulty>> /\ Waits
      BY <1>3 DEF vars, volume, live, image, frame, counters, Waits
    <2>2. Volume(t, s, b)' /\ Triple(t, s, b)'
      BY <1>3 DEF AloneInv, Triple, Volume, Elsewhere, Between, Startable, First, Second, Kept,
             Leg, AsBefore, vars, volume, live, image, counters
    <2>3. AtLeg(t, s, b)' /\ AtMark(t, s, b)'
      BY <1>3 DEF AloneInv, Where, AtLeg, AtMark, Moving, Riding, OnFirst, OnSecond,
             Startable, First, Leg, AsBefore, vars, volume, live, image, frame, counters
    <2>4. AtWrite(t, s, b)'
      BY <1>3 DEF AloneInv, Where, AtWrite, Moving, Writing, OnFirst, OnSecond, Kept,
             Startable, First, Second, Leg, AsBefore, vars, volume, live, image, frame, counters
    <2>5. AtDrain(t, s, b)' /\ AtClear(t, s, b)' /\ AtIdle(t, s, b)'
      BY <1>3 DEF AloneInv, Where, AtDrain, AtClear, AtIdle, Moving, HalfWay, Finished, Kept,
             Startable, AsBefore, vars, volume, live, image, frame, counters
    <2> QED BY <2>2, <2>3, <2>4, <2>5 DEF AloneInv, Where
  <1> QED BY <1>2, <1>3, BeginAlone, LookAlone, FaultAlone DEF Next

LEMMA AloneStart ==
  ASSUME Init, Alone
  PROVE  \E t, s, b \in Names : AloneInv(t, s, b)
  <1>1. /\ TypeOK /\ work \in Workloads /\ index = before /\ pc = "idle" /\ answer = "none"
        /\ ~more
        /\ mayIndex = [n \in Names |-> {index[n]}]
        /\ mayCanon = [o \in Objects |-> {canon[o]}]
        /\ canon = [o \in Objects |-> IF \E n \in Names : before[n] = o
                                      THEN CHOOSE n \in Names : before[n] = o ELSE None]
    BY TypeInit, Zenon DEF Init
  <1>2. PICK c \in work.calls :
           \A d \in work.calls : d.op \in {"replace", "publish"} => SameMove(d, c)
    <2>1. work.calls # {}
      BY <1>1, NamesAssumption
    <2>2. CASE \E d \in work.calls : d.op \in {"replace", "publish"}
      BY <2>2 DEF Alone, OneMove
    <2> QED BY <2>1, <2>2
  <1>3. /\ c.to \in Names /\ c.from \in Names /\ c.aside \in Names
        /\ c.to # c.from /\ c.to # c.aside /\ c.from # c.aside
    BY <1>1, CallFields
  <1> DEFINE t == c.to
             s == c.from
             b == c.aside
  <1>4. Triple(t, s, b)
    BY <1>2, <1>3 DEF Triple, SameMove
  <1>5. ASSUME NEW n \in Names PROVE AsBefore(n)
    <2>1. ASSUME before[n] # None PROVE mayCanon[before[n]] = {n}
      <3>1. before[n] \in Objects
        BY <1>1, <2>1, Placed
      <3>2. canon[before[n]] = CHOOSE m \in Names : before[m] = before[n]
        BY <1>1, <3>1, Zenon
      <3>3. \A m \in Names : before[m] = before[n] => m = n
        BY <1>1, <2>1, Placed
      <3>4. canon[before[n]] = n
        BY <3>2, <3>3
      <3> QED BY <1>1, <3>1, <3>4
    <2> QED BY <1>1, <2>1 DEF AsBefore
  <1>6. Elsewhere(t, s, b)
    <2>1. ASSUME NEW o \in Objects, \A n \in Names : before[n] # o
          PROVE  mayCanon[o] = {None}
      BY <1>1, <2>1
    <2> QED BY <1>5, <2>1 DEF Elsewhere
  <1>7. Between(t, s, b)
    <2>1. AsBefore(t) /\ AsBefore(s) /\ AsBefore(b)
      BY <1>3, <1>5
    <2>2. CASE Startable(t, s, b) /\ before[t] # None
      BY <2>1, <2>2 DEF Between, Startable, First, Leg, AsBefore
    <2>3. CASE Startable(t, s, b) /\ before[t] = None
      BY <2>1, <2>3 DEF Between, Startable, Second, Kept, Leg, AsBefore
    <2> QED BY <2>1, <2>2, <2>3 DEF Between
  <1>8. Where(t, s, b)
    BY <1>1 DEF Where, AtLeg, AtMark, AtWrite, AtDrain, AtClear, AtIdle
  <1>9. AloneInv(t, s, b)
    BY <1>4, <1>6, <1>7, <1>8 DEF AloneInv, Volume
  <1> QED BY <1>3, <1>9

ReplacingInv == RefersInv /\ (Alone => \E t, s, b \in Names : AloneInv(t, s, b))

LEMMA ReplacingStays == Spec => []ReplacingInv
  <1>1. Init => ReplacingInv
    BY RefersStart, AloneStart DEF ReplacingInv
  <1>2. ReplacingInv /\ [Next]_vars => ReplacingInv'
    <2> SUFFICES ASSUME ReplacingInv, [Next]_vars PROVE ReplacingInv' OBVIOUS
    <2>1. RefersInv' /\ work' = work
      BY RefersStep, WorkStays DEF ReplacingInv
    <2>2. ASSUME Alone' PROVE \E t, s, b \in Names : AloneInv(t, s, b)'
      <3>1. Alone /\ OnlyMoves
        BY <2>1, <2>2 DEF Alone, OnlyMoves, Only, OneMove
      <3>2. PICK t \in Names, s \in Names, b \in Names : AloneInv(t, s, b)
        BY <3>1 DEF ReplacingInv
      <3>3. AloneInv(t, s, b)'
        BY <3>1, <3>2, AloneStep DEF ReplacingInv
      <3> QED BY <3>3
    <2> QED BY <2>1, <2>2 DEF ReplacingInv
  <1> QED BY <1>1, <1>2, PTL DEF Spec

(* However often the replacement is cut short and repeated, its target is  *)
(* old or new, or absent while both files are safe.                        *)
THEOREM TargetWhole == Spec => []TargetOldOrNew
  <1>1. ReplacingInv => TargetOldOrNew
    <2> SUFFICES ASSUME ReplacingInv, Alone, NEW c \in Replacing,
                        before[c.to] # None, before[c.from] # None
                 PROVE  \/ mayIndex[c.to] \subseteq {before[c.to], before[c.from]}
                        \/ Holds(c.aside, before[c.to]) /\ Holds(c.from, before[c.from])
      BY DEF TargetOldOrNew
    <2>1. PICK t \in Names, s \in Names, b \in Names : AloneInv(t, s, b)
      BY DEF ReplacingInv
    <2>2. c.to = t /\ c.from = s /\ c.aside = b
      BY <2>1 DEF Replacing, AloneInv, Triple
    <2>3. before[t] # None /\ before[s] # None /\ Between(t, s, b)
      BY <2>1, <2>2 DEF AloneInv, Volume
    <2>4. CASE First(t, s, b)
      BY <2>2, <2>3, <2>4 DEF First, Leg, AsBefore, Holds
    <2>5. CASE Second(t, s, b)
      BY <2>2, <2>3, <2>5 DEF Second, Kept, Leg, Holds
    <2>6. CASE AsBefore(t)
      BY <2>2, <2>6 DEF AsBefore
    <2> QED BY <2>3, <2>4, <2>5, <2>6 DEF Between
  <1> QED BY <1>1, ReplacingStays, PTL

(* A repetition that meets no failure completes what was begun.            *)
THEOREM RepetitionCompletes == Spec => []ReplayCompletes
  <1>1. ReplacingInv => ReplayCompletes
    <2> SUFFICES ASSUME ReplacingInv, Alone, pc = "idle", call.op = "replace", ~faulty,
                        answer # "none"
                 PROVE  \/ answer = "ok"
                        \/ answer = "conflict" /\ before[call.to] # None /\ before[call.aside] # None
                        \/ answer = "not_found" /\ before[call.to] = None /\ before[call.from] = None
      BY DEF ReplayCompletes
    <2>1. PICK t \in Names, s \in Names, b \in Names : AloneInv(t, s, b)
      BY DEF ReplacingInv
    <2>2. call.to = t /\ call.from = s /\ call.aside = b
      BY <2>1 DEF AloneInv, Triple, ReplacingInv, RefersInv, TypeOK
    <2> QED BY <2>1, <2>2 DEF AloneInv, Where, AtIdle
  <1> QED BY <1>1, ReplacingStays, PTL

(* What a replacement answers with ok, no loss of power takes back.        *)
THEOREM OkStays == Spec => []OkMeansReplaced
  <1>1. ReplacingInv => OkMeansReplaced
    <2> SUFFICES ASSUME ReplacingInv, Alone, pc = "idle", call.op = "replace", answer = "ok",
                        before[call.from] # None
                 PROVE  /\ Holds(call.to, before[call.from])
                        /\ Holds(call.from, None)
                        /\ before[call.to] # None => Holds(call.aside, before[call.to])
      BY DEF OkMeansReplaced
    <2>1. PICK t \in Names, s \in Names, b \in Names : AloneInv(t, s, b)
      BY DEF ReplacingInv
    <2>2. call.to = t /\ call.from = s /\ call.aside = b
      BY <2>1 DEF AloneInv, Triple, ReplacingInv, RefersInv, TypeOK
    <2>3. Finished(t, s, b)
      BY <2>1 DEF AloneInv, Where, AtIdle
    <2> QED BY <2>2, <2>3 DEF Finished, Kept, Holds
  <1> QED BY <1>1, ReplacingStays, PTL

-----------------------------------------------------------------------------
(* The dirty bit brackets a leg: it is durable before the first write and  *)
(* is not cleared before the last one is.                                  *)
Complete == \A o \in Objects : Stored(o) \/ Unused(o)
Bracket == /\ dirty \in mayDirty
           /\ FALSE \in mayDirty => Complete
           /\ pc \in {"canon", "canonflush", "insert", "publish", "detach", "settle"} =>
                 mayDirty = {TRUE}
           /\ pc = "markflush" => dirty
BracketedOps == OneMove /\ Only({"replace", "publish"})

(* A directory in which every name and the record under it agree.          *)
LEMMA AgreeingComplete ==
  ASSUME TypeOK,
         \A n \in Names : \E v \in Objects \cup {None} :
            mayIndex[n] = {v} /\ (v # None => mayCanon[v] = {n}),
         \A o \in Objects : mayCanon[o] = {None} \/ \E n \in Names : mayIndex[n] = {o}
  PROVE  Complete
  <1> SUFFICES ASSUME NEW o \in Objects PROVE Stored(o) \/ Unused(o)
    BY DEF Complete
  <1>0. o # None /\ None \notin Names
    BY NamesAssumption
  <1>1. CASE \E n \in Names : mayIndex[n] = {o}
    <2>1. PICK n \in Names : mayIndex[n] = {o}
      BY <1>1
    <2>2. mayCanon[o] = {n}
      BY <1>0, <2>1
    <2>3. ASSUME NEW m \in Names \ {n} PROVE o \notin mayIndex[m]
      <3>1. PICK v \in Objects \cup {None} : mayIndex[m] = {v} /\ (v # None => mayCanon[v] = {m})
        OBVIOUS
      <3>2. v # o
        BY <1>0, <2>2, <2>3, <3>1
      <3> QED BY <3>1, <3>2
    <2> QED BY <2>1, <2>2, <2>3 DEF Stored, Holds
  <1>2. CASE \A n \in Names : mayIndex[n] # {o}
    <2>1. mayCanon[o] = {None}
      BY <1>2
    <2>2. ASSUME NEW n \in Names PROVE o \notin mayIndex[n]
      BY <1>2, <2>2
    <2> QED BY <2>1, <2>2 DEF Unused
  <1> QED BY <1>1, <1>2

(* Between two legs, and after the last, everything is in its place.       *)
LEMMA ClearComplete ==
  ASSUME TypeOK, NEW t \in Names, NEW s \in Names, NEW b \in Names, Triple(t, s, b),
         Volume(t, s, b), HalfWay(t, s, b) \/ Finished(t, s, b)
  PROVE  Complete
  <1>0. /\ \A n \in Names : before[n] \in Objects \cup {None}
        /\ \A m, n \in Names : before[m] = before[n] => m = n \/ before[m] = None
        /\ None \notin Objects
    BY Placed
  <1> DEFINE Agrees(n) == \E v \in Objects \cup {None} :
                             mayIndex[n] = {v} /\ (v # None => mayCanon[v] = {n})
  <1>1. \A n \in Names : AsBefore(n) => Agrees(n)
    BY <1>0 DEF AsBefore
  <1>2. Kept(t, b) => Agrees(b)
    BY <1>0, <1>1 DEF Kept
  <1>3. \A n \in Names \ {t, s, b} : AsBefore(n)
    BY DEF Volume, Elsewhere
  <1>4. /\ Agrees(t) /\ Agrees(s) /\ Agrees(b)
        /\ \A m \in {t, s, b} : before[m] # None => \E n \in Names : mayIndex[n] = {before[m]}
    <2>1. CASE AsBefore(t) /\ AsBefore(s) /\ AsBefore(b)
      BY <1>1, <2>1 DEF AsBefore
    <2>2. CASE HalfWay(t, s, b)
      <3>1. /\ AsBefore(s) /\ Kept(t, b) /\ mayIndex[t] = {None}
            /\ before[t] # None /\ before[b] = None
        BY <2>2 DEF HalfWay, Startable
      <3>2. mayIndex[b] = {before[t]} /\ mayIndex[s] = {before[s]}
        BY <3>1 DEF Kept, AsBefore
      <3> QED BY <1>1, <1>2, <3>1, <3>2
    <2>3. CASE Finished(t, s, b) /\ before[s] # None
      <3>1. /\ Startable(t, s, b) /\ Kept(t, b) /\ mayIndex[t] = {before[s]}
            /\ mayCanon[before[s]] = {t} /\ mayIndex[s] = {None}
        BY <2>3 DEF Finished
      <3>2. Agrees(t) /\ Agrees(s) /\ Agrees(b)
        BY <1>0, <1>2, <3>1
      <3>3. before[t] # None => mayIndex[b] = {before[t]} /\ before[b] = None
        BY <3>1 DEF Kept, Startable
      <3>4. before[t] = None => mayIndex[b] = {before[b]}
        BY <3>1 DEF Kept, AsBefore
      <3> QED BY <3>1, <3>2, <3>3, <3>4
    <2>4. CASE before[s] = None
      <3>1. ~Startable(t, s, b)
        BY <2>4 DEF Startable
      <3> QED BY <2>1, <3>1 DEF Volume, Between
    <2> QED BY <2>2, <2>3, <2>4
  <1>5. \A n \in Names : Agrees(n)
    BY <1>1, <1>3, <1>4
  <1>6. ASSUME NEW o \in Objects
        PROVE  mayCanon[o] = {None} \/ \E n \in Names : mayIndex[n] = {o}
    <2>1. CASE \A n \in Names : before[n] # o
      BY <2>1 DEF Volume, Elsewhere
    <2>2. CASE \E m \in Names : before[m] = o
      <3>1. PICK m \in Names : before[m] = o
        BY <2>2
      <3>2. CASE m \in {t, s, b}
        BY <1>0, <1>4, <3>1, <3>2
      <3>3. CASE m \notin {t, s, b}
        BY <1>3, <3>1, <3>3 DEF AsBefore
      <3> QED BY <3>2, <3>3
    <2> QED BY <2>1, <2>2
  <1> QED BY <1>5, <1>6, AgreeingComplete

LEMMA NarrowsComplete ==
  ASSUME TypeOK, Narrows, Complete
  PROVE  Complete'
  <1> SUFFICES ASSUME NEW o \in Objects PROVE Stored(o)' \/ Unused(o)'
    BY DEF Complete
  <1>1. CASE Stored(o)
    <2>1. PICK n \in Names : /\ mayCanon[o] = {n} /\ mayIndex[n] = {o}
                             /\ \A m \in Names \ {n} : o \notin mayIndex[m]
      BY <1>1 DEF Stored, Holds
    <2>2. mayCanon'[o] = {n} /\ mayIndex'[n] = {o}
      BY <2>1 DEF Narrows
    <2>3. \A m \in Names \ {n} : o \notin mayIndex'[m]
      BY <2>1 DEF Narrows
    <2> QED BY <2>2, <2>3 DEF Stored, Holds
  <1>2. CASE Unused(o)
    BY <1>2 DEF Unused, Narrows
  <1> QED BY <1>1, <1>2 DEF Complete

Brackets == {"markflush", "canon", "canonflush", "insert", "publish", "detach", "settle"}

LEMMA BracketStays ==
  ASSUME Bracket,
         \/ /\ UNCHANGED <<index, canon, mayIndex, mayCanon, dirty, mayDirty>>
            /\ pc' \notin Brackets
         \/ /\ UNCHANGED <<dirty, mayDirty>> /\ mayDirty = {TRUE}
            /\ pc' # "markflush"
         \/ dirty' = TRUE /\ mayDirty' = {TRUE}
         \/ /\ Complete' /\ dirty' \in mayDirty' /\ pc' \notin Brackets
  PROVE  Bracket'
  <1>1. CASE /\ UNCHANGED <<index, canon, mayIndex, mayCanon, dirty, mayDirty>>
             /\ pc' \notin Brackets
    <2>1. Complete' <=> Complete
      BY <1>1 DEF Complete, Stored, Unused, Holds
    <2> QED BY <1>1, <2>1 DEF Bracket, Brackets
  <1>2. CASE UNCHANGED <<dirty, mayDirty>> /\ mayDirty = {TRUE} /\ pc' # "markflush"
    BY <1>2 DEF Bracket
  <1>3. CASE dirty' = TRUE /\ mayDirty' = {TRUE}
    BY <1>3 DEF Bracket
  <1>4. CASE Complete' /\ dirty' \in mayDirty' /\ pc' \notin Brackets
    BY <1>4 DEF Bracket, Brackets
  <1> QED BY <1>1, <1>2, <1>3, <1>4

(* The dirty bit after a flush is what it was, and it was possible.        *)
LEMMA BracketFlush ==
  ASSUME TypeOK, Referred, Bracket, deviceFlush, before' = before,
         dirty \/ pc' \notin Brackets
  PROVE  Bracket'
  <1>1. Narrows /\ dirty' = dirty /\ mayDirty' = {dirty} /\ dirty \in BOOLEAN
    BY Flushed DEF deviceFlush, live, TypeOK
  <1>2. CASE dirty = TRUE
    BY <1>1, <1>2, BracketStays
  <1>3. CASE dirty = FALSE
    <2>1. Complete
      BY <1>3 DEF Bracket
    <2>2. Complete'
      BY <1>1, <2>1, NarrowsComplete
    <2> QED BY <1>1, <1>3, <2>2, BracketStays
  <1> QED BY <1>1, <1>2, <1>3

LEMMA BracketRequest ==
  ASSUME RefersInv, Only({"replace", "publish"}),
         NEW t \in Names, NEW s \in Names, NEW b \in Names, AloneInv(t, s, b),
         Bracket, Request
  PROVE  Bracket'
  <1>1. /\ TypeOK /\ Referred /\ Moving /\ OnlyMoves /\ dirty \in BOOLEAN
        /\ pc \notin {"free", "freeflush"}
        /\ Triple(t, s, b) /\ Volume(t, s, b) /\ AtClear(t, s, b)
    BY DEF RefersInv, TypeOK, Only, OnlyMoves, Moving, AloneInv, Where, AtWrite
  <1>2. CASE Mark
    <2>1. CASE ~dirty /\ WriteDirty(TRUE) /\ Goto("markflush")
      <3>1. dirty' = TRUE /\ mayDirty' = mayDirty \cup {TRUE} /\ pc' = "markflush"
            /\ UNCHANGED <<index, canon, mayIndex, mayCanon>>
        BY <2>1 DEF WriteDirty, Goto
      <3>2. Complete' <=> Complete
        BY <3>1 DEF Complete, Stored, Unused, Holds
      <3> QED BY <3>1, <3>2 DEF Bracket
    <2>2. CASE dirty /\ UNCHANGED volume /\ Goto("markflush")
      <3>1. UNCHANGED <<index, canon, mayIndex, mayCanon, dirty, mayDirty>> /\ pc' = "markflush"
        BY <2>2 DEF volume, live, image, Goto
      <3>2. Complete' <=> Complete
        BY <3>1 DEF Complete, Stored, Unused, Holds
      <3> QED BY <2>2, <3>1, <3>2 DEF Bracket
    <2> QED BY <1>1, <1>2, <2>1, <2>2 DEF Mark
  <1>3. CASE MarkFlush
    <2>1. deviceFlush /\ before' = before /\ dirty
      BY <1>3 DEF MarkFlush, Goto, counters, Bracket
    <2> QED BY <1>1, <2>1, BracketFlush
  <1>4. CASE Canon \/ Insert \/ Detach
    <2>1. UNCHANGED <<dirty, mayDirty>> /\ mayDirty = {TRUE} /\ pc' # "markflush"
      BY <1>4 DEF Canon, Insert, Detach, WriteCanon, WriteIndex, Goto, Bracket
    <2> QED BY <2>1, BracketStays
  <1>5. CASE CanonFlush \/ Publish \/ Settle
    <2>1. deviceFlush /\ before' = before /\ mayDirty = {TRUE}
      BY <1>5 DEF CanonFlush, Publish, Settle, Goto, counters, Bracket
    <2>2. dirty
      BY <2>1 DEF Bracket
    <2> QED BY <1>1, <2>1, <2>2, BracketFlush
  <1>6. CASE Drain
    <2>1. deviceFlush /\ before' = before /\ pc' = "clear"
      BY <1>6 DEF Drain, Goto, counters
    <2>2. pc' \notin Brackets
      BY <2>1 DEF Brackets
    <2> QED BY <1>1, <2>1, <2>2, BracketFlush
  <1>7. CASE Clear /\ dirty
    <2>1. /\ dirty' = FALSE /\ mayDirty' = mayDirty \cup {FALSE} /\ pc = "clear"
          /\ UNCHANGED <<index, canon, mayIndex, mayCanon>> /\ pc' = "clearflush"
      BY <1>7 DEF Clear, WriteDirty, Goto
    <2>2. Complete
      BY <1>1, <2>1, ClearComplete DEF AtClear
    <2>3. Complete'
      BY <2>1, <2>2 DEF Complete, Stored, Unused, Holds
    <2>4. pc' \notin Brackets
      BY <2>1 DEF Brackets
    <2> QED BY <2>1, <2>3, <2>4, BracketStays
  <1>8. CASE Clear /\ ~dirty
    <2>1. UNCHANGED volume /\ pc' \in {"leg", "idle"}
      BY <1>8 DEF Clear, Finish, StartLeg, Return
    <2>2. UNCHANGED <<index, canon, mayIndex, mayCanon, dirty, mayDirty>> /\ pc' \notin Brackets
      BY <2>1 DEF volume, live, image, Brackets
    <2> QED BY <2>2, BracketStays
  <1>9. CASE ClearFlush
    <2>1. deviceFlush /\ before' = before /\ pc' \in {"leg", "idle"}
      BY <1>9 DEF ClearFlush, Finish, StartLeg, Return, counters
    <2>2. pc' \notin Brackets
      BY <2>1 DEF Brackets
    <2> QED BY <1>1, <2>1, <2>2, BracketFlush
  <1>10. ~Free /\ ~FreeFlush
    BY <1>1 DEF Free, FreeFlush
  <1> QED BY <1>2, <1>3, <1>4, <1>5, <1>6, <1>7, <1>8, <1>9, <1>10 DEF Request

LEMMA BracketFault ==
  ASSUME RefersInv, Only({"replace", "publish"}), NEW t \in Names, NEW s \in Names, NEW b \in Names, AloneInv(t, s, b),
         Bracket, FailWrite \/ FailWithoutEffect \/ PowerLoss
  PROVE  Bracket'
  <1>1. /\ TypeOK /\ Referred /\ pc \notin {"free", "freeflush"} /\ dirty \in BOOLEAN
        /\ Triple(t, s, b) /\ Volume(t, s, b) /\ AtClear(t, s, b) /\ Moving
    BY DEF RefersInv, TypeOK, Only, Moving, AloneInv, Where, AtWrite
  <1>2. pc' \notin Brackets /\ pc' # "markflush" /\ before' = before
    BY DEF FailWrite, FailWithoutEffect, PowerLoss, Abandon, Fault, Brackets
  <1>3. CASE FailWithoutEffect
    <2>1. UNCHANGED <<index, canon, mayIndex, mayCanon, dirty, mayDirty>>
      BY <1>3 DEF FailWithoutEffect, volume, live, image
    <2> QED BY <1>2, <2>1, BracketStays
  <1>4. CASE PowerLoss
    <2>1. Narrows /\ dirty' \in mayDirty /\ mayDirty' = {dirty'}
      BY <1>1, <1>2, <1>4 DEF PowerLoss, Narrows
    <2>2. CASE dirty' = FALSE
      <3>1. Complete'
        BY <1>1, <2>1, <2>2, NarrowsComplete DEF Bracket
      <3> QED BY <1>2, <2>1, <3>1, BracketStays
    <2>3. CASE dirty' = TRUE
      BY <2>1, <2>3, BracketStays
    <2> QED BY <1>1, <2>1, <2>2, <2>3 DEF TypeOK
  <1>5. CASE FailWrite /\ pc = "mark"
    <2>1. dirty' = TRUE /\ mayDirty' = mayDirty \cup {TRUE}
          /\ UNCHANGED <<index, canon, mayIndex, mayCanon>>
      BY <1>5 DEF FailWrite, WriteDirty
    <2>2. Complete' <=> Complete
      BY <2>1 DEF Complete, Stored, Unused, Holds
    <2> QED BY <1>2, <2>1, <2>2 DEF Bracket, Brackets
  <1>6. CASE FailWrite /\ pc = "clear"
    <2>1. dirty' = FALSE /\ mayDirty' = mayDirty \cup {FALSE}
          /\ UNCHANGED <<index, canon, mayIndex, mayCanon>>
      BY <1>6 DEF FailWrite, WriteDirty
    <2>2. Complete
      BY <1>1, <1>6, ClearComplete DEF AtClear
    <2>3. Complete'
      BY <2>1, <2>2 DEF Complete, Stored, Unused, Holds
    <2> QED BY <1>2, <2>1, <2>3, BracketStays
  <1>7. CASE FailWrite /\ pc \in {"canon", "insert", "detach"}
    <2>1. UNCHANGED <<dirty, mayDirty>> /\ mayDirty = {TRUE}
      BY <1>7 DEF FailWrite, WriteCanon, WriteIndex, Bracket
    <2> QED BY <1>2, <2>1, BracketStays
  <1> QED BY <1>1, <1>3, <1>4, <1>5, <1>6, <1>7 DEF FailWrite

LEMMA BracketStep ==
  ASSUME RefersInv, Only({"replace", "publish"}),
         NEW t \in Names, NEW s \in Names, NEW b \in Names, AloneInv(t, s, b),
         Bracket, [Next]_vars
  PROVE  Bracket'
  <1>1. CASE Begin \/ Look
    <2>1. UNCHANGED volume /\ pc' \in {"leg", "look", "idle", "drain", "mark"}
      BY <1>1 DEF Begin, Look, LookReplace, LookLeg, LookRename, LookDelete, LookCreate,
                  LookRecover, LookOther, Goto, Return, StartLeg, WorkOn
    <2>2. UNCHANGED <<index, canon, mayIndex, mayCanon, dirty, mayDirty>> /\ pc' \notin Brackets
      BY <2>1 DEF volume, live, image, Brackets
    <2> QED BY <2>2, BracketStays
  <1>2. CASE UNCHANGED vars
    <2>1. UNCHANGED <<index, canon, mayIndex, mayCanon, dirty, mayDirty, pc>>
      BY <1>2 DEF vars, volume, live, image, frame
    <2>2. Complete' <=> Complete
      BY <2>1 DEF Complete, Stored, Unused, Holds
    <2> QED BY <2>1, <2>2 DEF Bracket
  <1> QED BY <1>1, <1>2, BracketRequest, BracketFault DEF Next

LEMMA BracketStart == Init => Bracket
  <1> SUFFICES ASSUME Init PROVE Bracket
    OBVIOUS
  <1>1. /\ TypeOK /\ index = before /\ pc = "idle" /\ dirty = FALSE /\ mayDirty = {FALSE}
        /\ mayIndex = [n \in Names |-> {index[n]}]
        /\ mayCanon = [o \in Objects |-> {canon[o]}]
        /\ canon = [o \in Objects |-> IF \E n \in Names : before[n] = o
                                      THEN CHOOSE n \in Names : before[n] = o ELSE None]
    BY TypeInit, Zenon DEF Init
  <1>2. ASSUME NEW n \in Names
        PROVE  \E v \in Objects \cup {None} :
                  mayIndex[n] = {v} /\ (v # None => mayCanon[v] = {n})
    <2>1. before[n] \in Objects \cup {None} /\ mayIndex[n] = {before[n]}
      BY <1>1, Placed
    <2>2. ASSUME before[n] # None PROVE mayCanon[before[n]] = {n}
      <3>1. before[n] \in Objects
        BY <2>1, <2>2
      <3>2. canon[before[n]] = CHOOSE m \in Names : before[m] = before[n]
        BY <1>1, <3>1, Zenon
      <3>3. \A m \in Names : before[m] = before[n] => m = n
        BY <1>1, <2>2, Placed
      <3>4. canon[before[n]] = n
        BY <3>2, <3>3
      <3> QED BY <1>1, <3>1, <3>4
    <2> QED BY <2>1, <2>2
  <1>3. ASSUME NEW o \in Objects
        PROVE  mayCanon[o] = {None} \/ \E n \in Names : mayIndex[n] = {o}
    BY <1>1
  <1>4. Complete
    BY <1>1, <1>2, <1>3, AgreeingComplete
  <1> QED BY <1>1, <1>4 DEF Bracket

(* A volume that may come up clean has nothing half done on it.            *)
THEOREM CleanIsComplete == Spec => []CleanMeansComplete
  <1>1. Init => (BracketedOps => Bracket)
    BY BracketStart
  <1>2. ReplacingInv /\ (BracketedOps => Bracket) /\ [Next]_vars => (BracketedOps => Bracket)'
    <2> SUFFICES ASSUME ReplacingInv, BracketedOps => Bracket, [Next]_vars, BracketedOps'
                 PROVE  Bracket'
      OBVIOUS
    <2>1. BracketedOps
      BY WorkStays DEF BracketedOps, OneMove, Only
    <2>2. Alone /\ OnlyMoves /\ Only({"replace", "publish"})
      BY <2>1 DEF BracketedOps, Alone, OnlyMoves, Only
    <2>3. PICK t \in Names, s \in Names, b \in Names : AloneInv(t, s, b)
      BY <2>2 DEF ReplacingInv
    <2> QED BY <2>1, <2>2, <2>3, BracketStep DEF ReplacingInv
  <1>3. (BracketedOps => Bracket) => CleanMeansComplete
    BY DEF BracketedOps, Bracket, Complete, CleanMeansComplete
  <1> QED BY <1>1, <1>2, <1>3, ReplacingStays, PTL DEF Spec

-----------------------------------------------------------------------------
(* The replacement as a whole.  A step of the volume narrows what may      *)
(* survive, or is a write of the leg that is under way.                    *)
LEMMA StepKinds ==
  ASSUME RefersInv, OnlyMoves, NEW t \in Names, NEW s \in Names, NEW b \in Names,
         AloneInv(t, s, b), [Next]_vars
  PROVE  /\ before' = before
         /\ \/ Narrows
            \/ Writing(t, s, b) /\ LegWrite(to, from, obj)
  <1>1. /\ TypeOK /\ Referred /\ pc \notin {"free", "freeflush"}
    BY DEF RefersInv, AloneInv, Where, AtWrite
  <1>2. before' = before
    BY DEF Next, Begin, Look, LookReplace, LookLeg, LookRename, LookDelete, LookCreate,
           LookRecover, LookOther, Request, Mark, MarkFlush, Canon, CanonFlush, Insert, Publish,
           Detach, Settle, Free, FreeFlush, Drain, Clear, ClearFlush, Finish, FailWrite,
           FailWithoutEffect, PowerLoss, Abandon, Fault, Goto, Return, StartLeg, WorkOn,
           counters, vars
  <1>3. CASE UNCHANGED volume \/ \E d : WriteDirty(d)
    <2>1. UNCHANGED <<index, canon, mayIndex, mayCanon>>
      <3>1. CASE UNCHANGED volume
        BY <3>1 DEF volume, live, image
      <3>2. CASE \E d : WriteDirty(d)
        BY <3>2 DEF WriteDirty
      <3> QED BY <1>3, <3>1, <3>2
    <2> QED BY <1>1, <1>2, <2>1, Quiet
  <1>4. CASE deviceFlush
    BY <1>1, <1>2, <1>4, Flushed
  <1>5. CASE PowerLoss
    BY <1>1, <1>2, <1>5 DEF PowerLoss, Narrows
  <1>6. CASE \/ pc = "canon" /\ WriteCanon(obj, to)
             \/ pc = "insert" /\ WriteIndex(to, obj)
             \/ pc = "detach" /\ WriteIndex(from, None)
    <2>1. Writing(t, s, b) /\ mayIndex[from] = {obj}
      BY <1>6, Underway
    <2>2. pc = "detach" => mayIndex[to] = {obj} /\ mayCanon[obj] = {to}
      BY DEF AloneInv, Where, AtWrite
    <2> QED BY <1>2, <1>6, <2>1, <2>2 DEF LegWrite
  <1>7. CASE Begin \/ Look \/ FailWithoutEffect
    <2>1. UNCHANGED volume
      BY <1>7 DEF Begin, Look, LookReplace, LookLeg, LookRename, LookDelete, LookCreate,
                  LookRecover, LookOther, FailWithoutEffect
    <2> QED BY <1>3, <2>1
  <1>8. CASE Request
    <2>1. CASE Mark \/ Clear
      <3>1. UNCHANGED volume \/ \E d : WriteDirty(d)
        BY <2>1 DEF Mark, Clear
      <3> QED BY <1>3, <3>1
    <2>2. CASE MarkFlush \/ CanonFlush \/ Publish \/ Settle \/ Drain \/ ClearFlush
      BY <1>4, <2>2 DEF MarkFlush, CanonFlush, Publish, Settle, Drain, ClearFlush
    <2>3. CASE Canon \/ Insert \/ Detach
      BY <1>6, <2>3 DEF Canon, Insert, Detach
    <2> QED BY <1>1, <1>8, <2>1, <2>2, <2>3 DEF Request, Free, FreeFlush
  <1>9. CASE FailWrite
    <2>1. CASE \E d : WriteDirty(d)
      BY <1>3, <2>1
    <2> QED BY <1>1, <1>6, <1>9, <2>1 DEF FailWrite
  <1>10. CASE UNCHANGED vars
    <2>1. UNCHANGED volume
      BY <1>10 DEF vars, volume
    <2> QED BY <1>3, <2>1
  <1> QED BY <1>5, <1>7, <1>8, <1>9, <1>10 DEF Next

(* The first leg does not take a durable backup back, nor the second an    *)
(* installed target.                                                       *)
LEMMA LegsAdvance ==
  ASSUME RefersInv, OnlyMoves, NEW t \in Names, NEW s \in Names, NEW b \in Names,
         AloneInv(t, s, b), [Next]_vars, Startable(t, s, b)
  PROVE  \/ /\ First(t, s, b)
            /\ First(t, s, b)'
            /\ (mayIndex[b] = {before[t]} => mayIndex'[b] = {before[t]})
         \/ /\ Second(t, s, b)
            /\ Second(t, s, b)'
            /\ (mayIndex[t] = {before[s]} => mayIndex'[t] = {before[s]})
  <1>1. /\ TypeOK /\ Triple(t, s, b) /\ Volume(t, s, b) /\ before' = before
        /\ DOMAIN mayIndex = Names
    BY StepKinds DEF RefersInv, AloneInv, TypeOK
  <1>2. CASE Narrows
    <2>1. /\ First(t, s, b) => First(t, s, b)'
          /\ Second(t, s, b) => Second(t, s, b)'
      BY <1>1, <1>2, NarrowsVolume
    <2>2. \A n \in Names, o \in Objects \cup {None} : mayIndex[n] = {o} => mayIndex'[n] = {o}
      BY <1>2 DEF Narrows
    <2>3. First(t, s, b) \/ Second(t, s, b)
      BY <1>1 DEF Volume, Between
    <2>4. before[t] \in Objects \cup {None} /\ before[s] \in Objects \cup {None}
      BY <1>1, Placed
    <2> QED BY <2>1, <2>2, <2>3, <2>4
  <1>3. CASE Writing(t, s, b) /\ LegWrite(to, from, obj)
    <2>1. /\ First(t, s, b) /\ obj = before[t] => First(t, s, b)'
          /\ Second(t, s, b) /\ obj = before[s] => Second(t, s, b)'
      BY <1>1, <1>3, WritingKeeps
    <2>2. to # from
      BY <1>1, <1>3, WritingLeg
    <2>3. to \in Names /\ mayIndex[to] = {obj} => mayIndex'[to] = {obj}
      BY <1>1, <1>3, <2>2 DEF LegWrite, WriteCanon, WriteIndex
    <2>4. CASE OnFirst(t, s, b) /\ obj = before[t]
      BY <1>1, <2>1, <2>3, <2>4 DEF OnFirst
    <2>5. CASE OnSecond(t, s, b) /\ obj = before[s] /\ Second(t, s, b)
      BY <1>1, <2>1, <2>3, <2>5 DEF OnSecond
    <2> QED BY <1>3, <2>4, <2>5 DEF Writing
  <1> QED BY <1>2, <1>3, StepKinds

(* The names that hold an object durably.                                  *)
LEMMA Holders ==
  ASSUME TypeOK, NEW t \in Names, NEW s \in Names, NEW b \in Names, Triple(t, s, b),
         Volume(t, s, b), NEW n \in Names, NEW o, o # None, Holds(n, o)
  PROVE  \/ o = before[n]
         \/ Startable(t, s, b) /\ n = b /\ before[t] # None /\ o = before[t]
         \/ Startable(t, s, b) /\ n = t /\ o = before[s]
  <1>1. CASE n \notin {t, s, b} \/ ~Startable(t, s, b)
    BY <1>1 DEF Volume, Elsewhere, Between, AsBefore, Holds
  <1>2. CASE Startable(t, s, b) /\ First(t, s, b)
    <2>1. CASE n = b
      BY <1>2, <2>1 DEF First, Leg, Holds
    <2>2. CASE n = t
      BY <1>2, <2>2 DEF First, Leg, Holds
    <2>3. CASE n = s
      BY <1>2, <2>3 DEF First, AsBefore, Holds
    <2> QED BY <1>1, <2>1, <2>2, <2>3
  <1>3. CASE Startable(t, s, b) /\ Second(t, s, b)
    <2>1. CASE n = b
      BY <1>3, <2>1 DEF Second, Kept, AsBefore, Holds
    <2>2. CASE n = t
      BY <1>3, <2>2 DEF Second, Leg, Holds
    <2>3. CASE n = s
      BY <1>3, <2>3 DEF Second, Leg, Holds
    <2> QED BY <1>1, <2>1, <2>2, <2>3
  <1> QED BY <1>1, <1>2, <1>3 DEF Volume, Between

LEMMA HomeIs ==
  ASSUME NEW n \in Names, NEW o \in {before[m] : m \in Names} \ {None}, Holds(n, o),
         \A m \in Names \ {n} : Holds(m, o) => Rank(n) < Rank(m)
  PROVE  home[o] = n
  <1>1. \A m \in Names : Rank(m) \in {0, 1, 2}
    BY DEF Rank
  <1>2. home[o] = CHOOSE m \in Names : /\ Holds(m, o)
                                       /\ \A k \in Names : Holds(k, o) => Rank(m) <= Rank(k)
    BY DEF home
  <1>3. /\ Holds(n, o)
        /\ \A k \in Names : Holds(k, o) => Rank(n) <= Rank(k)
    BY <1>1
  <1>4. ASSUME NEW m \in Names, Holds(m, o),
               \A k \in Names : Holds(k, o) => Rank(m) <= Rank(k)
        PROVE  m = n
    BY <1>1, <1>4
  <1> QED BY <1>2, <1>3, <1>4

(* Where each object is, told from the backup name and the target name.    *)
HomeOf(t, s, b, m) ==
    CASE Startable(t, s, b) /\ m = t /\ mayIndex[b] = {before[t]} -> b
      [] Startable(t, s, b) /\ m = s /\ mayIndex[t] = {before[s]} -> t
      [] OTHER -> m

Ranked(t, s, b) == Rank(b) = 0 /\ Rank(t) = 1 /\ Rank(s) = 2

LEMMA HomeVolume ==
  ASSUME TypeOK, NEW t \in Names, NEW s \in Names, NEW b \in Names, Triple(t, s, b),
         Volume(t, s, b), Ranked(t, s, b), NEW m \in Names, before[m] # None
  PROVE  /\ HomeOf(t, s, b, m) \in Names /\ Holds(HomeOf(t, s, b, m), before[m])
         /\ home[before[m]] = HomeOf(t, s, b, m)
  <1>0. /\ \A n \in Names : before[n] = before[m] => n = m
        /\ t # s /\ t # b /\ s # b
        /\ before[m] \in {before[n] : n \in Names} \ {None}
    BY Placed DEF Triple
  <1>1. \A n \in Names : Holds(n, before[m]) =>
           \/ n = m
           \/ Startable(t, s, b) /\ n = b /\ m = t
           \/ Startable(t, s, b) /\ n = t /\ m = s
    BY <1>0, Holders
  <1>2. CASE m \notin {t, s} \/ ~Startable(t, s, b)
    <2>1. HomeOf(t, s, b, m) = m
      BY <1>2 DEF HomeOf
    <2>2. AsBefore(m)
      <3>1. CASE m \notin {t, s, b} \/ ~Startable(t, s, b)
        BY <3>1 DEF Volume, Elsewhere, Between
      <3>2. CASE m = b /\ Startable(t, s, b)
        <4>1. before[t] = None
          BY <3>2 DEF Startable
        <4> QED BY <3>2, <4>1 DEF Volume, Between, First, Second, Kept
      <3> QED BY <1>2, <3>1, <3>2
    <2>3. Holds(m, before[m])
      BY <2>2 DEF AsBefore, Holds
    <2>4. \A n \in Names \ {m} : ~Holds(n, before[m])
      BY <1>1, <1>2
    <2> QED BY <1>0, <2>1, <2>3, <2>4, HomeIs
  <1>3. CASE Startable(t, s, b) /\ m = t
    <2>1. \A n \in Names : Holds(n, before[m]) => n \in {t, b}
      BY <1>0, <1>1, <1>3
    <2>2. CASE mayIndex[b] = {before[t]}
      <3>1. HomeOf(t, s, b, m) = b /\ Holds(b, before[m])
        BY <1>0, <1>3, <2>2 DEF HomeOf, Holds
      <3>2. \A n \in Names \ {b} : Holds(n, before[m]) => Rank(b) < Rank(n)
        BY <2>1 DEF Ranked
      <3> QED BY <1>0, <3>1, <3>2, HomeIs
    <2>3. CASE mayIndex[b] # {before[t]}
      <3>1. First(t, s, b)
        <4>1. before[t] # None
          BY <1>3
        <4>2. ~Kept(t, b)
          BY <2>3, <4>1 DEF Kept
        <4>3. ~Second(t, s, b)
          BY <4>2 DEF Second
        <4> QED BY <1>3, <4>3 DEF Volume, Between
      <3>2. mayIndex[t] = {before[t]}
        BY <2>3, <3>1 DEF First, Leg
      <3>3. HomeOf(t, s, b, m) = t /\ Holds(t, before[m])
        BY <1>0, <1>3, <2>3, <3>2 DEF HomeOf, Holds
      <3>4. \A n \in Names \ {t} : ~Holds(n, before[m])
        BY <1>3, <2>1, <2>3 DEF Holds
      <3> QED BY <1>0, <3>3, <3>4, HomeIs
    <2> QED BY <2>2, <2>3
  <1>4. CASE Startable(t, s, b) /\ m = s
    <2>1. \A n \in Names : Holds(n, before[m]) => n \in {s, t}
      BY <1>0, <1>1, <1>4
    <2>2. CASE mayIndex[t] = {before[s]}
      <3>1. HomeOf(t, s, b, m) = t /\ Holds(t, before[m])
        BY <1>0, <1>4, <2>2 DEF HomeOf, Holds
      <3>2. \A n \in Names \ {t} : Holds(n, before[m]) => Rank(t) < Rank(n)
        BY <2>1 DEF Ranked
      <3> QED BY <1>0, <3>1, <3>2, HomeIs
    <2>3. CASE mayIndex[t] # {before[s]}
      <3>1. mayIndex[s] = {before[s]}
        BY <1>4, <2>3 DEF Volume, Between, First, AsBefore, Second, Leg
      <3>2. HomeOf(t, s, b, m) = s /\ Holds(s, before[m])
        BY <1>0, <1>4, <2>3, <3>1 DEF HomeOf, Holds
      <3>3. \A n \in Names \ {s} : ~Holds(n, before[m])
        BY <1>4, <2>1, <2>3 DEF Holds
      <3> QED BY <1>0, <3>2, <3>3, HomeIs
    <2> QED BY <2>2, <2>3
  <1> QED BY <1>2, <1>3, <1>4

HomeKnown ==
    \A t, s, b, m \in Names :
       TypeOK /\ Triple(t, s, b) /\ Volume(t, s, b) /\ Ranked(t, s, b) /\ before[m] # None =>
          home[before[m]] = HomeOf(t, s, b, m)

LEMMA HomeNow == HomeKnown
  BY HomeVolume DEF HomeKnown

LEMMA HomeThen == HomeKnown'
  BY HomeNow, PTL

(* What the two legs are in the abstract.                                  *)
LEMMA HomeSteps ==
  ASSUME RefersInv, RefersInv', OnlyMoves, NEW t \in Names, NEW s \in Names, NEW b \in Names,
         AloneInv(t, s, b), [Next]_vars, Ranked(t, s, b),
         Replacement.to = t, Replacement.from = s, Replacement.aside = b
  PROVE  [Whole!MoveNext]_home
  <1> DEFINE Dom == {before[n] : n \in Names} \ {None}
  <1>1. /\ TypeOK /\ TypeOK' /\ Triple(t, s, b) /\ Volume(t, s, b) /\ before' = before
        /\ AloneInv(t, s, b)' /\ Volume(t, s, b)' /\ Triple(t, s, b)'
    <2>1. AloneInv(t, s, b)'
      BY AloneStep
    <2> QED BY <2>1, StepKinds DEF RefersInv, AloneInv
  <1>2. Startable(t, s, b)' = Startable(t, s, b) /\ Ranked(t, s, b)'
    BY <1>1 DEF Startable, Ranked, Rank
  <1>3. /\ \A m \in Names : before[m] # None => home[before[m]] = HomeOf(t, s, b, m)
        /\ DOMAIN home = Dom /\ home = [o \in Dom |-> home[o]]
    <2>1. \A m \in Names : before[m] # None => home[before[m]] = HomeOf(t, s, b, m)
      BY <1>1, HomeNow DEF HomeKnown
    <2>2. DOMAIN home = Dom /\ home = [o \in Dom |-> home[o]]
      BY DEF home
    <2> QED BY <2>1, <2>2
  <1>4. /\ \A m \in Names : before[m] # None => home'[before[m]] = HomeOf(t, s, b, m)'
        /\ DOMAIN home' = Dom /\ home' = [o \in Dom |-> home'[o]]
    <2>1. \A m \in Names : before[m] # None => home'[before[m]] = HomeOf(t, s, b, m)'
      <3>1. ASSUME NEW m \in Names, before[m] # None
            PROVE  home'[before[m]] = HomeOf(t, s, b, m)'
        BY <1>1, <1>2, <3>1, HomeThen DEF HomeKnown
      <3> QED BY <3>1
    <2>2. DOMAIN home' = Dom /\ home' = [o \in Dom |-> home'[o]]
      BY <1>1 DEF home
    <2> QED BY <2>1, <2>2
  <1>5. ASSUME \A m \in Names : before[m] # None => HomeOf(t, s, b, m)' = HomeOf(t, s, b, m)
        PROVE  home' = home
    <2>1. \A o \in Dom : home'[o] = home[o]
      BY <1>3, <1>4, <1>5
    <2> QED BY <1>3, <1>4, <2>1
  <1>6. ASSUME NEW m \in Names, before[m] # None, NEW n, HomeOf(t, s, b, m)' = n,
               \A k \in Names \ {m} : before[k] # None =>
                  HomeOf(t, s, b, k)' = HomeOf(t, s, b, k)
        PROVE  before[m] \in Dom /\ home' = [home EXCEPT ![before[m]] = n]
    <2>1. \A k \in Names : before[k] = before[m] => k = m
      BY <1>1, <1>6, Placed
    <2>2. \A o \in Dom : home'[o] = IF o = before[m] THEN n ELSE home[o]
      BY <1>3, <1>4, <1>6, <2>1
    <2> QED BY <1>3, <1>4, <1>6, <2>2
  <1>7. \A n \in Names : Whole!Taken(n) <=> \E m \in Names : before[m] # None /\ HomeOf(t, s, b, m) = n
    BY <1>3 DEF Whole!Taken
  <1>8. /\ t # s /\ t # b /\ s # b
        /\ \A n \in Names : before[n] \in Objects \cup {None}
        /\ before[t] = before[s] => before[t] = None
    BY <1>1, Placed DEF Triple
  <1>9. CASE ~Startable(t, s, b)
    <2>1. ASSUME NEW m \in Names PROVE HomeOf(t, s, b, m)' = HomeOf(t, s, b, m)
      BY <1>2, <1>9 DEF HomeOf
    <2> QED BY <1>5, <2>1
  <1>10. ASSUME Startable(t, s, b), First(t, s, b), First(t, s, b)',
                mayIndex[b] = {before[t]} => mayIndex'[b] = {before[t]}
         PROVE  [Whole!MoveNext]_home
    <2>1. before[t] # None /\ before[s] # None /\ before[b] = None /\ Startable(t, s, b)'
      BY <1>2, <1>10 DEF First, Startable
    <2>2. mayIndex[t] # {before[s]} /\ mayIndex'[t] # {before[s]}
      <3>1. mayIndex[t] # {before[s]}
        BY <1>8, <1>10, <2>1 DEF First, Leg
      <3>2. mayIndex'[t] # {before[s]}
        BY <1>1, <1>8, <1>10, <2>1 DEF First, Leg
      <3> QED BY <3>1, <3>2
    <2>3. ASSUME NEW m \in Names \ {t}
          PROVE  HomeOf(t, s, b, m) = m /\ HomeOf(t, s, b, m)' = m
      <3>1. HomeOf(t, s, b, m) = m
        BY <2>2, <2>3 DEF HomeOf
      <3>2. HomeOf(t, s, b, m)' = m
        BY <1>1, <2>2, <2>3 DEF HomeOf
      <3> QED BY <3>1, <3>2
    <2>4. /\ HomeOf(t, s, b, t) = IF mayIndex[b] = {before[t]} THEN b ELSE t
          /\ HomeOf(t, s, b, t)' = IF mayIndex'[b] = {before[t]} THEN b ELSE t
      BY <1>1, <1>8, <1>10, <2>1 DEF HomeOf
    <2>5. CASE mayIndex[b] # {before[t]} /\ mayIndex'[b] = {before[t]}
      <3>1. HomeOf(t, s, b, t) = t /\ HomeOf(t, s, b, t)' = b
        BY <2>4, <2>5
      <3>2. before[t] \in DOMAIN home /\ home' = [home EXCEPT ![before[t]] = b]
        BY <1>3, <1>6, <2>1, <2>3, <3>1
      <3>3. home[before[t]] = t
        BY <1>3, <2>1, <3>1
      <3>4. Whole!Taken(s)
        BY <1>7, <1>8, <2>1, <2>3
      <3>5. ~Whole!Taken(b)
        BY <1>7, <1>8, <2>1, <2>3, <3>1
      <3>6. Whole!SetAside(before[t])
        BY <3>2, <3>3, <3>4, <3>5 DEF Whole!SetAside
      <3> QED BY <3>2, <3>6 DEF Whole!MoveNext
    <2>6. CASE mayIndex[b] = {before[t]} \/ mayIndex'[b] # {before[t]}
      <3>1. HomeOf(t, s, b, t) = HomeOf(t, s, b, t)'
        BY <1>10, <2>4, <2>6
      <3> QED BY <1>5, <2>3, <3>1
    <2> QED BY <2>5, <2>6
  <1>11. ASSUME Startable(t, s, b), Second(t, s, b), Second(t, s, b)',
                mayIndex[t] = {before[s]} => mayIndex'[t] = {before[s]}
         PROVE  [Whole!MoveNext]_home
    <2>1. before[s] # None /\ Startable(t, s, b)'
      BY <1>2, <1>11 DEF Startable
    <2>2. before[t] # None => mayIndex[b] = {before[t]} /\ mayIndex'[b] = {before[t]}
      <3>1. before[t] # None => mayIndex[b] = {before[t]}
        BY <1>11 DEF Second, Kept
      <3>2. before[t] # None => mayIndex'[b] = {before[t]}
        BY <1>1, <1>11 DEF Second, Kept
      <3> QED BY <3>1, <3>2
    <2>3. ASSUME NEW m \in Names \ {s}, before[m] # None
          PROVE  /\ HomeOf(t, s, b, m) = IF m = t THEN b ELSE m
                 /\ HomeOf(t, s, b, m)' = IF m = t THEN b ELSE m
      <3>1. HomeOf(t, s, b, m) = IF m = t THEN b ELSE m
        BY <1>8, <1>11, <2>2, <2>3 DEF HomeOf
      <3>2. HomeOf(t, s, b, m)' = IF m = t THEN b ELSE m
        BY <1>1, <1>8, <2>1, <2>2, <2>3 DEF HomeOf
      <3> QED BY <3>1, <3>2
    <2>4. /\ HomeOf(t, s, b, s) = IF mayIndex[t] = {before[s]} THEN t ELSE s
          /\ HomeOf(t, s, b, s)' = IF mayIndex'[t] = {before[s]} THEN t ELSE s
      BY <1>1, <1>8, <1>11, <2>1 DEF HomeOf
    <2>5. CASE mayIndex[t] # {before[s]} /\ mayIndex'[t] = {before[s]}
      <3>1. HomeOf(t, s, b, s) = s /\ HomeOf(t, s, b, s)' = t
        BY <2>4, <2>5
      <3>2. before[s] \in DOMAIN home /\ home' = [home EXCEPT ![before[s]] = t]
        BY <1>3, <1>6, <2>1, <2>3, <3>1
      <3>3. home[before[s]] = s
        BY <1>3, <2>1, <3>1
      <3>4. ~Whole!Taken(t)
        BY <1>7, <1>8, <2>3, <3>1
      <3>5. Whole!Install(before[s])
        BY <3>2, <3>3, <3>4 DEF Whole!Install
      <3> QED BY <3>2, <3>5 DEF Whole!MoveNext
    <2>6. CASE mayIndex[t] = {before[s]} \/ mayIndex'[t] # {before[s]}
      <3>1. HomeOf(t, s, b, s) = HomeOf(t, s, b, s)'
        BY <1>11, <2>4, <2>6
      <3> QED BY <1>5, <2>3, <3>1
    <2> QED BY <2>5, <2>6
  <1>12. CASE Startable(t, s, b)
    BY <1>10, <1>11, <1>12, LegsAdvance
  <1> QED BY <1>9, <1>12

LEMMA Ours ==
  ASSUME Whose, NEW t \in Names, NEW s \in Names, NEW b \in Names, Triple(t, s, b)
  PROVE  /\ Replacement.to = t /\ Replacement.from = s /\ Replacement.aside = b
         /\ Ranked(t, s, b)
  <1>1. PICK c \in work.calls : c.op = "replace" /\ SameMove(c, Replacement)
    BY DEF Whose, Replacing
  <1>2. Replacement.to = t /\ Replacement.from = s /\ Replacement.aside = b
    BY <1>1 DEF Triple, SameMove
  <1> QED BY <1>2 DEF Triple, Ranked, Rank

(* Through failures, losses of power and repetitions, the volume moves     *)
(* whole objects, the old target before the new one.                       *)
THEOREM ReplacesAtomically == Spec => ReplaceSpec
  <1>1. Init => (Whose => Whole!MoveInit)
    <2> SUFFICES ASSUME Init, Whose PROVE Whole!MoveInit
      OBVIOUS
    <2>1. PICK t \in Names, s \in Names, b \in Names : AloneInv(t, s, b)
      BY AloneStart DEF Whose
    <2>2. TypeOK /\ Triple(t, s, b) /\ Volume(t, s, b) /\ Ranked(t, s, b)
      BY <2>1, RefersStart, Ours DEF RefersInv, AloneInv
    <2>3. ASSUME NEW m \in Names, before[m] # None
          PROVE  Holds(home[before[m]], before[m])
      BY <2>2, <2>3, HomeVolume
    <2>4. DOMAIN home = {before[n] : n \in Names} \ {None}
      BY DEF home
    <2> QED BY <2>3, <2>4 DEF Whole!MoveInit, Holds
  <1>2. ReplacingInv /\ ReplacingInv' /\ [Next]_vars => [Whose => Whole!MoveNext]_home
    <2> SUFFICES ASSUME ReplacingInv, ReplacingInv', [Next]_vars, Whose
                 PROVE  [Whole!MoveNext]_home
      OBVIOUS
    <2>1. Alone /\ OnlyMoves /\ RefersInv /\ RefersInv'
      BY DEF Whose, Alone, ReplacingInv
    <2>2. PICK t \in Names, s \in Names, b \in Names : AloneInv(t, s, b)
      BY <2>1 DEF ReplacingInv
    <2>3. /\ Replacement.to = t /\ Replacement.from = s /\ Replacement.aside = b
          /\ Ranked(t, s, b)
      BY <2>2, Ours DEF AloneInv
    <2> QED BY <2>1, <2>2, <2>3, HomeSteps
  <1> QED BY <1>1, <1>2, ReplacingStays, PTL DEF Spec, ReplaceSpec
=============================================================================
