------------------------ MODULE AllocatorWaitProofs ------------------------
(***************************************************************************)
(* Theorems about AllocatorWait, for every set of threads and every bound  *)
(* on references; those about sleeping for the lock need a store that is   *)
(* not delayed.                                                            *)
(*                                                                         *)
(* The inductive invariant says, besides the types, along which route a    *)
(* thread passes through the lock (Routes), who has the lock (LockInv),    *)
(* where a thread may hold a ticket (TicketInv), in which states a channel *)
(* may be (ChannelInv, RefsExact), who has the VM operation (TokenInv), and that a    *)
(* thread on its way to sleep for the VM operation has seen one that is    *)
(* still there (VmSleepInv).                                               *)
(***************************************************************************)
EXTENDS AllocatorWait, FiniteSetTheorems, TLAPS

Inside == {"body", "vm", "vmCheck"}
Outside == {"idle", "kernel", "enroll", "park", "dropVm", "acquire"}
AtLock == {"recheck", "reobserve", "dropTaken", "dropWait"}
AtChannel == {"enroll", "create", "observe", "dropEnroll", "park"}
Leaving == {"release", "notify", "prune", "close"}

Routes ==
  \A t \in Threads :
    /\ pc[t] \in AtLock => on[t] = "lock"
    /\ pc[t] = "acquire" \/ pc[t] \in AtLock => then[t] \in Inside
    /\ pc[t] \in AtChannel /\ on[t] = "lock" => then[t] \in Inside
    /\ pc[t] \in AtChannel /\ on[t] = "vm" => then[t] = "body"
    /\ pc[t] \in Leaving => then[t] \in Outside
    /\ pc[t] \in {"idle", "body", "freed", "kernel", "dropVm"} => then[t] = "body"
    /\ pc[t] = "vm" => then[t] \in {"body", "vm"}
    /\ pc[t] = "vmCheck" => then[t] = "vmCheck"

Owns(t) == Holds(t) \/ pending[t]
LockInv ==
  /\ \A t \in Threads : pending[t] =>
       /\ pc[t] \in {"notify", "prune"} \cup Outside
       /\ pc[t] \in {"enroll", "park"} => on[t] = "vm"
  /\ \A t, u \in Threads : Owns(t) /\ Owns(u) => t = u
  /\ lock = 1 <=> \E t \in Threads : Owns(t)

(* Where a thread can hold a ticket of the lock channel, and of the other. *)
LockTicketAt == {"observe", "park", "dropEnroll"} \cup AtLock
VmTicketAt(t) ==
  \/ pc[t] \in {"observe", "dropEnroll", "park"} /\ on[t] = "vm"
  \/ pc[t] = "dropVm"
  \/ then[t] = "vmCheck"
  \/ pc[t] \in Leaving /\ then[t] \in {"park", "dropVm"}
(* On the way to sleep for the VM operation, or asleep.                    *)
Parking(t) == \/ pc[t] \in Leaving /\ then[t] = "park"
              \/ pc[t] = "park" /\ on[t] = "vm"
TicketInv ==
  \A t \in Threads :
    /\ pc[t] \in {"observe", "reobserve", "park"} => on[t] \in ticket[t]
    /\ Parking(t) => "vm" \in ticket[t]
    /\ "lock" \in ticket[t] => pc[t] \in LockTicketAt /\ on[t] = "lock"
    /\ "vm" \in ticket[t] => VmTicketAt(t)
    /\ current[t] \subseteq ticket[t]

RefsExact == \A c \in Channel : refs[c] = Cardinality(Tickets(c))
ChannelInv ==
  /\ \A c \in Channel : /\ refs[c] # 0 => handle[c] # "none" /\ ~changing[c]
                        /\ handle[c] # "none" => active[c]
  /\ \A t \in Threads :
       /\ pc[t] \in {"create", "close"} => changing[on[t]]
       /\ pc[t] = "create" => handle[on[t]] = "none" /\ active[on[t]]
       /\ pc[t] = "close" => handle[on[t]] # "none"
       /\ \A c \in current[t] : handle[c] = "open"
  /\ \A t, u \in Threads :
       pc[t] \in {"create", "close"} /\ pc[u] \in {"create", "close"} /\ on[t] = on[u]
         => t = u

TokenInv == VmTokenKept

VmSleepInv == \A t \in Threads : Parking(t) /\ "vm" \in current[t] => owner # Nobody

IInv == /\ TypeOK /\ Routes /\ LockInv /\ TicketInv /\ RefsExact /\ ChannelInv
        /\ TokenInv /\ VmSleepInv

LockSleepInv ==
  /\ \A t \in Threads : ~pending[t]
  /\ \A t \in Threads : Asleep(t, "lock") =>
       lock = 1 \/ \E u \in Threads : pc[u] = "notify"


-----------------------------------------------------------------------------
Step(t) == Start(t) \/ Run(t) \/ WaitRefused(t) \/ Drain(t)

(* Where a thread goes on after the lock fits where it is.                 *)
LEMMA RoutesKeep ==
  ASSUME TypeOK, Routes, NEW t \in Threads, Step(t)
  PROVE  Routes'
<1> USE DEF TypeOK, Routes, Inside, Outside, AtLock, AtChannel, Leaving, PCs, Drops,
            Channel, Goto, Via, channels
<1>1. CASE Start(t)
  BY <1>1 DEF Start
<1>2. CASE Acquire(t)
  BY <1>2 DEF Acquire, Take, SpinOut, Recheck, Unpark, Awake
<1>3. CASE WaitRefused(t)
  BY <1>3 DEF WaitRefused, Awake
<1>4. CASE Enroll(t)
  BY <1>4 DEF Enroll, EnrollRefused, Borrow, CreateStart, Create, CreateFails, Observe,
              ObserveFails, Enrolled
<1>5. CASE Drop(t)
  BY <1>5 DEF Drop, DropTaken, DropEnroll, DropWait, DropVm, Deinit, Enrolled
<1>6. CASE Body(t)
  BY <1>6 DEF Body, Finish, PublishFree, BeginVm, VmCall, VmReturn, EndVm, WaitForVm,
              VmCheck, Release, Wake
<1>7. CASE Leave(t)
  BY <1>7 DEF Leave, StoreFree, NotifySkip, Notify, PruneSkip, PruneStart, Close,
              CloseFails, Wake, Pruned
<1>8. CASE Drain(t)
  BY <1>8 DEF Drain
<1> QED
  BY <1>1, <1>2, <1>3, <1>4, <1>5, <1>6, <1>7, <1>8 DEF Step, Run

(* One thread at most has the lock, or its release on the way to memory.   *)
LEMMA LockKeeps ==
  ASSUME TypeOK, Routes, LockInv, NEW t \in Threads, Step(t)
  PROVE  LockInv'
<1> USE DEF TypeOK, Routes, LockInv, Owns, Holds, Inside, Outside, AtLock, AtChannel,
            Leaving, PCs, Drops, Channel, Goto, Via, channels
<1>1. CASE Start(t)
  BY <1>1 DEF Start
<1>2. CASE Acquire(t)
  BY <1>2 DEF Acquire, Take, SpinOut, Recheck, Unpark, Awake
<1>3. CASE WaitRefused(t)
  BY <1>3 DEF WaitRefused, Awake
<1>4. CASE Enroll(t)
  BY <1>4 DEF Enroll, EnrollRefused, Borrow, CreateStart, Create, CreateFails, Observe,
              ObserveFails, Enrolled
<1>5. CASE Drop(t)
  BY <1>5 DEF Drop, DropTaken, DropEnroll, DropWait, DropVm, Deinit, Enrolled
<1>6. CASE Body(t)
  BY <1>6 DEF Body, Finish, PublishFree, BeginVm, VmCall, VmReturn, EndVm, WaitForVm,
              VmCheck, Release, Wake
<1>7. CASE Leave(t)
  BY <1>7 DEF Leave, StoreFree, NotifySkip, Notify, PruneSkip, PruneStart, Close,
              CloseFails, Wake, Pruned
<1>8. CASE Drain(t)
  BY <1>8 DEF Drain
<1> QED
  BY <1>1, <1>2, <1>3, <1>4, <1>5, <1>6, <1>7, <1>8 DEF Step, Run

(* Tickets are held only where the code will give them back.               *)
LEMMA TicketKeeps ==
  ASSUME TypeOK, Routes, TicketInv, NEW t \in Threads, Step(t)
  PROVE  TicketInv'
<1> USE DEF TypeOK, Routes, TicketInv, Parking, LockTicketAt, VmTicketAt, Inside,
            Outside, AtLock, AtChannel, Leaving, PCs, Drops, Channel, Goto, Via,
            channels
<1>1. CASE Start(t)
  BY <1>1 DEF Start
<1>2. CASE Acquire(t)
  BY <1>2 DEF Acquire, Take, SpinOut, Recheck, Unpark, Awake
<1>3. CASE WaitRefused(t)
  BY <1>3 DEF WaitRefused, Awake
<1>4. CASE Enroll(t)
  BY <1>4 DEF Enroll, EnrollRefused, Borrow, CreateStart, Create, CreateFails, Observe,
              ObserveFails, Enrolled
<1>5. CASE Drop(t)
  BY <1>5 DEF Drop, DropTaken, DropEnroll, DropWait, DropVm, Deinit, Enrolled
<1>6. CASE Body(t)
  BY <1>6 DEF Body, Finish, PublishFree, BeginVm, VmCall, VmReturn, EndVm, WaitForVm,
              VmCheck, Release, Wake
<1>7. CASE Leave(t)
  BY <1>7 DEF Leave, StoreFree, NotifySkip, Notify, PruneSkip, PruneStart, Close,
              CloseFails, Wake, Pruned
<1>8. CASE Drain(t)
  BY <1>8 DEF Drain
<1> QED
  BY <1>1, <1>2, <1>3, <1>4, <1>5, <1>6, <1>7, <1>8 DEF Step, Run

(* The VM operation stays with the thread that is in a VM call.            *)
LEMMA TokenKeeps ==
  ASSUME TypeOK, Routes, TokenInv, NEW t \in Threads, Step(t)
  PROVE  TokenInv'
<1> USE DEF TypeOK, Routes, TokenInv, VmTokenKept, InVm, Inside, Outside, AtLock,
            AtChannel, Leaving, PCs, Drops, Goto, Via, channels
<1>1. CASE Start(t)
  BY <1>1, WaitAssumption DEF Start
<1>2. CASE Acquire(t)
  BY <1>2, WaitAssumption DEF Acquire, Take, SpinOut, Recheck, Unpark, Awake
<1>3. CASE WaitRefused(t)
  BY <1>3, WaitAssumption DEF WaitRefused, Awake
<1>4. CASE Enroll(t)
  BY <1>4, WaitAssumption DEF Enroll, EnrollRefused, Borrow, CreateStart, Create,
                              CreateFails, Observe, ObserveFails, Enrolled
<1>5. CASE Drop(t)
  BY <1>5, WaitAssumption DEF Drop, DropTaken, DropEnroll, DropWait, DropVm, Deinit,
                              Enrolled
<1>6. CASE Body(t)
  BY <1>6, WaitAssumption DEF Body, Finish, PublishFree, BeginVm, VmCall, VmReturn,
                              EndVm, WaitForVm, VmCheck, Release, Wake
<1>7. CASE Leave(t)
  BY <1>7, WaitAssumption DEF Leave, StoreFree, NotifySkip, Notify, PruneSkip,
                              PruneStart, Close, CloseFails, Wake, Pruned
<1>8. CASE Drain(t)
  BY <1>8, WaitAssumption DEF Drain
<1> QED
  BY <1>1, <1>2, <1>3, <1>4, <1>5, <1>6, <1>7, <1>8 DEF Step, Run

(* References counts: no ticket, no reference.                             *)
LEMMA CountFacts ==
  ASSUME TypeOK, RefsExact, NEW c \in Channel
  PROVE  /\ IsFiniteSet(Tickets(c))
         /\ refs[c] = 0 <=> \A t \in Threads : c \notin ticket[t]
<1>1. IsFiniteSet(Tickets(c))
  <2>1. Tickets(c) \in SUBSET Threads
    BY DEF Tickets
  <2> QED
    BY <2>1, WaitAssumption, FS_Subset
<1>2. refs[c] = 0 <=> Tickets(c) = {}
  BY <1>1, FS_EmptySet DEF RefsExact
<1> QED
  BY <1>1, <1>2 DEF Tickets

(* Enrolling adds the ticket and the reference.                            *)
LEMMA BorrowCounts ==
  ASSUME TypeOK, RefsExact, NEW t \in Threads, NEW c \in Channel, c \notin ticket[t],
         refs' = [refs EXCEPT ![c] = @ + 1],
         ticket' = [ticket EXCEPT ![t] = @ \cup {c}]
  PROVE  RefsExact'
<1>1. IsFiniteSet(Tickets(c)) /\ t \notin Tickets(c)
  BY CountFacts DEF Tickets
<1>2. Tickets(c)' = Tickets(c) \cup {t}
  BY DEF Tickets, TypeOK
<1>3. \A d \in Channel \ {c} : Tickets(d)' = Tickets(d)
  BY DEF Tickets, TypeOK
<1>4. Cardinality(Tickets(c) \cup {t}) = Cardinality(Tickets(c)) + 1
  BY <1>1, FS_AddElement
<1> QED
  BY <1>2, <1>3, <1>4 DEF RefsExact, TypeOK

(* Ticket.deinit takes away both, or nothing.                              *)
LEMMA DeinitCounts ==
  ASSUME TypeOK, RefsExact, NEW t \in Threads, NEW c \in Channel, Deinit(t, c)
  PROVE  RefsExact' /\ refs' \in [Channel -> 0 .. MaxRefs]
<1>1. IsFiniteSet(Tickets(c))
  BY CountFacts
<1>2. \A d \in Channel \ {c} : Tickets(d)' = Tickets(d)
  BY DEF Tickets, TypeOK, Deinit
<1>3. Tickets(c)' = Tickets(c) \ {t}
  BY DEF Tickets, TypeOK, Deinit
<1>4. CASE c \in ticket[t]
  <2>1. Cardinality(Tickets(c) \ {t}) = Cardinality(Tickets(c)) - 1
    BY <1>1, <1>4, FS_RemoveElement DEF Tickets
  <2>2. refs[c] # 0
    BY <1>4, CountFacts
  <2>3. refs' = [refs EXCEPT ![c] = refs[c] - 1]
    BY <1>4 DEF Deinit
  <2>4. refs' \in [Channel -> 0 .. MaxRefs]
    BY <2>2, <2>3, WaitAssumption DEF TypeOK
  <2>5. RefsExact'
    BY <1>2, <1>3, <2>1, <2>3 DEF RefsExact, TypeOK
  <2> QED
    BY <2>4, <2>5
<1>5. CASE c \notin ticket[t]
  <2>1. Tickets(c) \ {t} = Tickets(c)
    BY <1>5 DEF Tickets
  <2> QED
    BY <1>2, <1>3, <1>5, <2>1 DEF RefsExact, TypeOK, Deinit
<1> QED
  BY <1>4, <1>5

(* Every other step leaves tickets and references alone.                   *)
LEMMA SameCounts ==
  ASSUME RefsExact, UNCHANGED <<ticket, refs>>
  PROVE  RefsExact'
BY DEF RefsExact, Tickets

(* The reference count is exact: each ticket was counted once.             *)
LEMMA RefsKeep ==
  ASSUME TypeOK, Routes, TicketInv, RefsExact, NEW t \in Threads, Step(t)
  PROVE  RefsExact'
<1>1. CASE Start(t) \/ Acquire(t) \/ WaitRefused(t) \/ Body(t) \/ Drain(t)
  BY <1>1, SameCounts
     DEF Start, Acquire, Take, SpinOut, Recheck, Unpark, WaitRefused, Body, Finish,
         PublishFree, BeginVm, VmCall, VmReturn, EndVm, WaitForVm, VmCheck, Drain, channels
<1>2. CASE Leave(t)
  BY <1>2, SameCounts
     DEF Leave, StoreFree, NotifySkip, Notify, PruneSkip, PruneStart, Close, CloseFails,
         channels
<1>3. CASE Borrow(t) \/ Create(t)
  <2>1. on[t] \in Channel /\ on[t] \notin ticket[t]
    BY <1>3 DEF Borrow, Create, TicketInv, Routes, TypeOK, Channel, VmTicketAt,
                LockTicketAt, AtLock, AtChannel, Leaving
  <2> QED
    BY <1>3, <2>1, BorrowCounts DEF Borrow, Create
<1>4. CASE Enroll(t) /\ ~Borrow(t) /\ ~Create(t)
  BY <1>4, SameCounts
     DEF Enroll, EnrollRefused, CreateStart, CreateFails, Observe, ObserveFails, channels
<1>5. CASE Drop(t)
  <2>1. PICK c \in Channel : Deinit(t, c)
    BY <1>5 DEF Drop, DropTaken, DropEnroll, DropWait, DropVm, TypeOK, Channel
  <2> QED
    BY <2>1, DeinitCounts
<1> QED
  BY <1>1, <1>2, <1>3, <1>4, <1>5 DEF Step, Run

(* The channel that a thread at create or close changes has no tickets.    *)
LEMMA ChangerFacts ==
  ASSUME TypeOK, RefsExact, ChannelInv, NEW t \in Threads, pc[t] \in {"create", "close"}
  PROVE  /\ on[t] \in Channel /\ changing[on[t]] /\ refs[on[t]] = 0
         /\ \A u \in Threads : on[t] \notin ticket[u]
<1>1. on[t] \in Channel /\ changing[on[t]] /\ refs[on[t]] = 0
  BY DEF TypeOK, ChannelInv
<1> QED
  BY <1>1, CountFacts

(* A notification takes revisions away, and gives none.                    *)
LEMMA WakeFacts ==
  ASSUME TypeOK, NEW c \in Channel, Wake(c)
  PROVE  /\ current' \in [Threads -> SUBSET Channel]
         /\ \A t \in Threads : current'[t] \subseteq current[t]
BY DEF TypeOK, Wake

(* Setting a flag of a channel.                                            *)
LEMMA SetFlag ==
  ASSUME NEW f \in [Channel -> BOOLEAN], NEW c, NEW b \in BOOLEAN
  PROVE  [f EXCEPT ![c] = b] \in [Channel -> BOOLEAN]
OBVIOUS

(* Types are kept, and the count stays within its bound.                   *)
LEMMA TypeKeeps ==
  ASSUME TypeOK, RefsExact, ChannelInv, NEW t \in Threads, Step(t)
  PROVE  TypeOK'
<1> USE DEF TypeOK, Goto, Via, channels, PCs, Drops, Channel
<1>1. CASE Start(t) \/ Acquire(t) \/ WaitRefused(t) \/ Drain(t)
  <2>1. CASE Start(t) \/ Drain(t)
    BY <2>1 DEF Start, Drain
  <2>4. CASE WaitRefused(t)
    BY <2>4 DEF WaitRefused, Awake
  <2>2. CASE Take(t) \/ SpinOut(t)
    BY <2>2 DEF Take, SpinOut
  <2>3. CASE Recheck(t) \/ Unpark(t)
    BY <2>3 DEF Recheck, Unpark, Awake
  <2> QED
    BY <1>1, <2>1, <2>2, <2>3, <2>4 DEF Acquire
<1>2. CASE EnrollRefused(t) \/ CreateStart(t) \/ CreateFails(t) \/ Observe(t) \/ ObserveFails(t)
  <2>1. pc' \in [Threads -> PCs] /\ then' \in [Threads -> PCs]
    <3>1. CASE EnrollRefused(t) \/ CreateStart(t) \/ CreateFails(t)
      BY <3>1 DEF EnrollRefused, CreateStart, CreateFails, Enrolled
    <3>2. CASE Observe(t) \/ ObserveFails(t)
      BY <3>2 DEF Observe, ObserveFails, Enrolled
    <3> QED
      BY <1>2, <3>1, <3>2
  <2>2. active' \in [Channel -> BOOLEAN] /\ changing' \in [Channel -> BOOLEAN]
    <3>1. CASE EnrollRefused(t) \/ Observe(t) \/ ObserveFails(t)
      BY <3>1 DEF EnrollRefused, Observe, ObserveFails
    <3>2. CASE CreateStart(t)
      BY <3>2, SetFlag DEF CreateStart
    <3>3. CASE CreateFails(t)
      BY <3>3, SetFlag DEF CreateFails
    <3> QED
      BY <1>2, <3>1, <3>2, <3>3
  <2>3. /\ current' \in [Threads -> SUBSET Channel]
        /\ UNCHANGED <<lock, pending, owner, handle, refs, ticket, on>>
    BY <1>2 DEF EnrollRefused, CreateStart, CreateFails, Observe, ObserveFails
  <2> QED
    BY <2>1, <2>2, <2>3
<1>3. CASE Borrow(t)
  <2>1. refs' \in [Channel -> 0 .. MaxRefs]
    BY <1>3, WaitAssumption DEF Borrow
  <2> QED
    BY <1>3, <2>1 DEF Borrow
<1>4. CASE Create(t)
  <2>1. refs' \in [Channel -> 0 .. MaxRefs]
    BY <1>4, ChangerFacts, WaitAssumption DEF Create
  <2> QED
    BY <1>4, <2>1 DEF Create
<1>5. CASE Drop(t)
  <2>1. PICK c \in Channel : Deinit(t, c)
    BY <1>5 DEF Drop, DropTaken, DropEnroll, DropWait, DropVm
  <2>2. refs' \in [Channel -> 0 .. MaxRefs]
    BY <2>1, DeinitCounts
  <2>3. /\ ticket' \in [Threads -> SUBSET Channel]
        /\ current' \in [Threads -> SUBSET Channel]
        /\ UNCHANGED <<lock, pending, owner, active, handle, changing>>
    BY <2>1 DEF Deinit
  <2> QED
    BY <1>5, <2>2, <2>3 DEF Drop, DropTaken, DropEnroll, DropWait, DropVm, Enrolled
<1>6. CASE Body(t)
  BY <1>6, WakeFacts DEF Body, Finish, PublishFree, BeginVm, VmCall, VmReturn, EndVm,
                         WaitForVm, VmCheck, Release
<1>7. CASE StoreFree(t) \/ NotifySkip(t) \/ Notify(t)
  <2>1. CASE StoreFree(t)
    BY <2>1 DEF StoreFree
  <2>2. CASE NotifySkip(t)
    BY <2>2 DEF NotifySkip
  <2>3. CASE Notify(t)
    BY <2>3, WakeFacts DEF Notify
  <2> QED
    BY <1>7, <2>1, <2>2, <2>3
<1>8. CASE PruneSkip(t) \/ PruneStart(t) \/ Close(t) \/ CloseFails(t)
  <2>1. /\ pc' \in [Threads -> PCs] /\ then' \in [Threads -> PCs]
        /\ on' \in [Threads -> Channel]
    BY <1>8 DEF PruneSkip, PruneStart, Close, CloseFails, Pruned
  <2>2. active' \in [Channel -> BOOLEAN] /\ changing' \in [Channel -> BOOLEAN]
    BY <1>8, SetFlag DEF PruneSkip, PruneStart, Close, CloseFails
  <2>3. /\ handle' \in [Channel -> {"none", "open", "closed"}]
        /\ UNCHANGED <<lock, pending, owner, refs, ticket, current>>
    BY <1>8 DEF PruneSkip, PruneStart, Close, CloseFails
  <2> QED
    BY <2>1, <2>2, <2>3
<1> QED
  BY <1>1, <1>2, <1>3, <1>4, <1>5, <1>6, <1>7, <1>8 DEF Step, Run, Enroll, Leave

(* A channel is changed by one thread at a time, and never under a ticket. *)
LEMMA ChannelKeeps ==
  ASSUME TypeOK, Routes, TicketInv, RefsExact, ChannelInv, NEW t \in Threads, Step(t)
  PROVE  ChannelInv'
<1> USE DEF TypeOK, Goto, Via, channels, Channel, ChannelInv
<1>1. CASE Start(t) \/ Acquire(t) \/ WaitRefused(t) \/ Drain(t)
  BY <1>1 DEF Routes, AtLock, AtChannel, Inside, Start, Acquire, Take, SpinOut, Recheck,
              Unpark, WaitRefused, Awake, Drain
<1>2. CASE EnrollRefused(t) \/ ObserveFails(t)
  BY <1>2 DEF EnrollRefused, ObserveFails, Enrolled
<1>3. CASE Borrow(t)
  BY <1>3 DEF Borrow
<1>4. CASE CreateStart(t)
  <2>1. /\ on[t] \in Channel /\ ~changing[on[t]] /\ handle[on[t]] = "none"
        /\ refs[on[t]] = 0
        /\ changing' = [changing EXCEPT ![on[t]] = TRUE]
        /\ active' = [active EXCEPT ![on[t]] = TRUE]
        /\ UNCHANGED <<handle, refs, current, on>>
    BY <1>4 DEF CreateStart
  <2>2. \A u \in Threads \ {t} : pc'[u] = pc[u] /\ (pc[u] \in {"create", "close"} => on[u] # on[t])
    BY <1>4, <2>1 DEF CreateStart
  <2> QED
    BY <1>4, <2>1, <2>2 DEF CreateStart
<1>5. CASE Create(t)
  <2>1. /\ on[t] \in Channel /\ refs[on[t]] = 0
        /\ pc'[t] = "observe" /\ UNCHANGED <<on, current>>
        /\ \A u \in Threads \ {t} : pc'[u] = pc[u] /\ (pc[u] \in {"create", "close"} => on[u] # on[t])
    BY <1>5, ChangerFacts DEF Create
  <2>2. /\ changing' = [changing EXCEPT ![on[t]] = FALSE]
        /\ handle' = [handle EXCEPT ![on[t]] = "open"]
        /\ refs' = [refs EXCEPT ![on[t]] = @ + 1]
        /\ active' = active
    BY <1>5 DEF Create
  <2>3. active[on[t]]
    BY <1>5, <2>1 DEF Create
  <2> QED
    BY <2>1, <2>2, <2>3
<1>6. CASE CreateFails(t)
  <2>1. /\ on[t] \in Channel /\ refs[on[t]] = 0 /\ handle[on[t]] = "none"
        /\ pc'[t] \in {"recheck", "acquire"} /\ UNCHANGED <<on, current, handle, refs>>
        /\ \A u \in Threads \ {t} : pc'[u] = pc[u] /\ (pc[u] \in {"create", "close"} => on[u] # on[t])
    BY <1>6, ChangerFacts DEF CreateFails, Enrolled
  <2>2. /\ changing' = [changing EXCEPT ![on[t]] = FALSE]
        /\ active' = [active EXCEPT ![on[t]] = FALSE]
    BY <1>6 DEF CreateFails
  <2> QED
    BY <2>1, <2>2
<1>7. CASE Observe(t)
  BY <1>7 DEF Observe, Enrolled
<1>8. CASE Drop(t)
  <2>1. PICK c \in Channel : Deinit(t, c)
    BY <1>8 DEF Drop, DropTaken, DropEnroll, DropWait, DropVm
  <2>2. /\ \A d \in Channel : refs'[d] # 0 => refs[d] # 0
        /\ \A u \in Threads : current'[u] \subseteq current[u]
        /\ UNCHANGED <<active, handle, changing>>
    BY <2>1, CountFacts DEF Deinit
  <2>3. /\ pc'[t] \notin {"create", "close"}
        /\ \A u \in Threads \ {t} : pc'[u] = pc[u]
        /\ UNCHANGED on
    BY <1>8 DEF Drop, DropTaken, DropEnroll, DropWait, DropVm, Enrolled, Routes, AtLock,
                Inside
  <2> QED
    BY <2>2, <2>3
<1>9. CASE Body(t)
  BY <1>9, WakeFacts DEF Body, Finish, PublishFree, BeginVm, VmCall, VmReturn, EndVm,
                         WaitForVm, VmCheck, Release
<1>10. CASE StoreFree(t) \/ NotifySkip(t) \/ Notify(t)
  BY <1>10, WakeFacts DEF StoreFree, NotifySkip, Notify
<1>11. CASE PruneSkip(t)
  BY <1>11 DEF PruneSkip, Pruned, Routes, Leaving, Outside
<1>12. CASE PruneStart(t)
  BY <1>12 DEF PruneStart
<1>13. CASE Close(t) \/ CloseFails(t)
  <2>1. /\ on[t] \in Channel /\ changing[on[t]] /\ refs[on[t]] = 0
        /\ \A u \in Threads : on[t] \notin current[u]
    BY <1>13, ChangerFacts DEF Close, CloseFails, TicketInv
  <2>2. /\ pc'[t] \notin {"create", "close"}
        /\ \A u \in Threads \ {t} : pc'[u] = pc[u] /\ on'[u] = on[u]
        /\ UNCHANGED <<refs, current>>
    BY <1>13 DEF Close, CloseFails, Pruned, Routes, Leaving, Outside
  <2> QED
    BY <1>13, <2>1, <2>2 DEF Close, CloseFails
<1> QED
  BY <1>1, <1>2, <1>3, <1>4, <1>5, <1>6, <1>7, <1>8, <1>9, <1>10, <1>11, <1>12, <1>13
     DEF Step, Run, Enroll, Leave

(* Who decided to sleep for the VM operation is woken by its end.          *)
LEMMA SleepKeeps ==
  ASSUME TypeOK, Routes, TicketInv, RefsExact, ChannelInv, VmSleepInv, NEW t \in Threads, Step(t)
  PROVE  VmSleepInv'
<1> USE DEF TypeOK, Goto, Via, channels, PCs, Drops, Channel, VmSleepInv, Parking,
            Routes, TicketInv, ChannelInv, Wakes, Inside, Outside, AtLock, AtChannel,
            Leaving
<1>1. CASE Start(t)
  BY <1>1, WaitAssumption, CountFacts DEF Start
<1>2. CASE Acquire(t)
  BY <1>2, WaitAssumption, CountFacts DEF Acquire, Take, SpinOut, Recheck, Unpark, Awake
<1>3. CASE WaitRefused(t)
  BY <1>3, WaitAssumption, CountFacts DEF WaitRefused, Awake
<1>4. CASE Enroll(t)
  BY <1>4, WaitAssumption, CountFacts DEF Enroll, EnrollRefused, Borrow, CreateStart,
              Create, CreateFails, Observe, ObserveFails, Enrolled
<1>5. CASE Drop(t)
  BY <1>5, WaitAssumption, CountFacts DEF Drop, DropTaken, DropEnroll, DropWait, DropVm,
              Deinit, Enrolled
<1>6. CASE Body(t)
  BY <1>6, WaitAssumption, CountFacts DEF Body, Finish, PublishFree, BeginVm, VmCall,
              VmReturn, EndVm, WaitForVm, VmCheck, Release, Wake
<1>7. CASE Leave(t)
  BY <1>7, WaitAssumption, CountFacts DEF Leave, StoreFree, NotifySkip, Notify,
              PruneSkip, PruneStart, Close, CloseFails, Wake, Pruned
<1>8. CASE Drain(t)
  BY <1>8, WaitAssumption, CountFacts DEF Drain
<1> QED
  BY <1>1, <1>2, <1>3, <1>4, <1>5, <1>6, <1>7, <1>8 DEF Step, Run

-----------------------------------------------------------------------------
(* The invariant holds initially.                                          *)
LEMMA InitIInv == Init => IInv
<1> SUFFICES ASSUME Init PROVE IInv
  OBVIOUS
<1> USE DEF Init
<1>1. TypeOK
  BY WaitAssumption DEF TypeOK, PCs, Channel
<1>2. Routes /\ LockInv /\ TicketInv /\ TokenInv /\ VmSleepInv
  BY DEF Routes, AtLock, AtChannel, Leaving, Inside, Outside, LockInv, Owns, Holds,
         TicketInv, LockTicketAt, VmTicketAt, Parking, TokenInv, VmTokenKept, InVm,
         VmSleepInv
<1>3. \A c \in Channel : Tickets(c) = {}
  BY DEF Tickets
<1>4. RefsExact
  BY <1>3, FS_EmptySet DEF RefsExact
<1>5. ChannelInv
  BY DEF ChannelInv, Channel
<1> QED
  BY <1>1, <1>2, <1>4, <1>5 DEF IInv

(* Every step preserves the invariant.                                     *)
LEMMA NextIInv == IInv /\ [Next]_vars => IInv'
<1> SUFFICES ASSUME IInv, [Next]_vars PROVE IInv'
  OBVIOUS
<1>1. CASE Next
  <2>1. PICK t \in Threads : Step(t)
    BY <1>1 DEF Next, Step
  <2> QED
    BY <2>1, TypeKeeps, RoutesKeep, LockKeeps, TicketKeeps, RefsKeep, ChannelKeeps,
       TokenKeeps, SleepKeeps DEF IInv
<1>2. CASE UNCHANGED vars
  BY <1>2 DEF vars, channels, IInv, TypeOK, Routes, LockInv, Owns, Holds, TicketInv,
              VmTicketAt, Parking, RefsExact, Tickets, ChannelInv, TokenInv, VmTokenKept,
              InVm, VmSleepInv
<1> QED
  BY <1>1, <1>2

(* The strengthening that every invariant below follows from.              *)
THEOREM WaitInvariant == Spec => []IInv
BY InitIInv, NextIInv, PTL DEF Spec

(* Channels, tickets and program counters keep their types, "references"   *)
(* its bound included, which enroll tests (enroll and deinit).             *)
THEOREM WaitTypeCorrect == Spec => []TypeOK
BY WaitInvariant, PTL DEF IInv

(* "A notification lives until its last waiter has left": a handle with    *)
(* tickets is neither closed nor being closed (enroll, prune, deinit).     *)
THEOREM WaitTicketKeepsHandle == Spec => []TicketKeepsHandle
<1>1. IInv => TicketKeepsHandle
  BY DEF IInv, RefsExact, ChannelInv, TicketInv, TicketKeepsHandle
<1> QED
  BY <1>1, WaitInvariant, PTL

(* acquireAllocatorLock and releaseAllocatorLock exclude threads from each *)
(* other, delayed store or not.                                            *)
THEOREM WaitLockExclusive == Spec => []LockExclusive
<1>1. IInv => LockExclusive
  BY DEF IInv, LockInv, Owns, LockExclusive
<1> QED
  BY <1>1, WaitInvariant, PTL

(* The asserts of vmReserve, vmCommit, vmDecommit and vmRelease hold.      *)
THEOREM WaitVmTokenKept == Spec => []VmTokenKept
BY WaitInvariant, PTL DEF IInv, TokenInv

(* waitForVm parks only for an operation whose endVm is still to come.     *)
THEOREM WaitSleepsForVm == Spec => []SleepsForVm
<1>1. IInv => SleepsForVm
  BY DEF IInv, VmSleepInv, Parking, Asleep, SleepsForVm
<1> QED
  BY <1>1, WaitInvariant, PTL

-----------------------------------------------------------------------------
(* From here on the store that releases the lock is not delayed.           *)
(* A sleeper for the lock is woken by the notification after its release.  *)
LEMMA LockSleepKeeps ==
  ASSUME ~StoreBuffer, IInv, LockSleepInv, [Next]_vars
  PROVE  LockSleepInv'
<1> USE DEF LockSleepInv, Asleep, IInv, TypeOK, Goto, Via, channels, Channel
<1>1. CASE UNCHANGED vars
  BY <1>1 DEF vars
<1>2. ASSUME NEW t \in Threads, Step(t)
      PROVE  LockSleepInv'
  <2>1. CASE Start(t) \/ WaitRefused(t) \/ Drain(t)
    BY <1>2, <2>1 DEF Start, WaitRefused, Awake, Drain
  <2>2. CASE Acquire(t)
    BY <1>2, <2>2 DEF Acquire, Take, SpinOut, Recheck, Unpark, Awake, Routes, AtLock,
                      Inside
  <2>3. CASE Enroll(t)
    BY <1>2, <2>3 DEF Enroll, EnrollRefused, Borrow, CreateStart, Create, CreateFails,
                      Observe,
                ObserveFails, Enrolled
  <2>4. CASE Drop(t)
    BY <1>2, <2>4 DEF Drop, DropTaken, DropEnroll, DropWait, DropVm, Deinit, Enrolled,
                      Routes,
                AtLock, Inside
  <2>5. CASE Body(t)
    BY <1>2, <2>5, WakeFacts DEF Body, Finish, PublishFree, BeginVm, VmCall, VmReturn,
                                 EndVm,
                           WaitForVm, VmCheck, Release
  <2>6. CASE StoreFree(t)
    BY <1>2, <2>6 DEF StoreFree
  <2>7. CASE NotifySkip(t)
    <3>1. \A u \in Threads : ~Asleep(u, "lock")
      BY <2>7, CountFacts DEF NotifySkip, TicketInv, ChannelInv
    <3> QED
      BY <1>2, <2>7, <3>1 DEF NotifySkip
  <2>8. CASE Notify(t)
    <3>1. (\E u \in Threads : Asleep(u, "lock")) => Wakes("lock")
      BY CountFacts DEF TicketInv, ChannelInv, Wakes
    <3>2. \A u \in Threads : ~Asleep(u, "lock")'
      BY <1>2, <2>8, <3>1 DEF Notify, Wake
    <3> QED
      BY <2>8, <3>2 DEF Notify
  <2>9. CASE PruneSkip(t) \/ PruneStart(t) \/ Close(t) \/ CloseFails(t)
    BY <1>2, <2>9 DEF PruneSkip, PruneStart, Close, CloseFails, Pruned, Routes, Leaving,
                      Outside
  <2> QED
    BY <1>2, <2>1, <2>2, <2>3, <2>4, <2>5, <2>6, <2>7, <2>8, <2>9 DEF Step, Run, Leave
<1> QED
  BY <1>1, <1>2 DEF Next, Step

(* Where stores are not delayed, a release between the check of the lock   *)
(* and the parking is not lost (acquireAllocatorLock, the comment on the   *)
(* observed revision).                                                     *)
THEOREM WaitSleepsForLock == ~StoreBuffer => (Spec => []SleepsForLock)
<1> SUFFICES ASSUME ~StoreBuffer PROVE Spec => []SleepsForLock
  OBVIOUS
<1>1. Init => LockSleepInv
  BY DEF Init, LockSleepInv, Asleep
<1>2. IInv /\ LockSleepInv /\ [Next]_vars => LockSleepInv'
  BY LockSleepKeeps
<1>3. IInv /\ LockSleepInv => SleepsForLock
  BY DEF IInv, LockInv, Owns, LockSleepInv, SleepsForLock
<1> QED
  BY <1>1, <1>2, <1>3, WaitInvariant, PTL DEF Spec

=============================================================================
