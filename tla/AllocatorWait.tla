--------------------------- MODULE AllocatorWait ---------------------------
(***************************************************************************)
(* How the VM allocator waits: the allocator lock and the VM operation     *)
(* token of r4os/vm_allocator.zig, and the two notification channels of    *)
(* r4os/allocator_wait.zig on which threads park for them.                 *)
(*                                                                         *)
(* A channel creates its kernel notification when a first waiter enrolls   *)
(* and closes it when the last one has left; a waiter observes the         *)
(* notification's revision, checks its predicate again, and parks only if  *)
(* that revision is still current.  A channel's own spin lock makes each   *)
(* of its critical sections one step; its kernel calls for creating and    *)
(* closing happen outside of it, under the flag "changing".                *)
(*                                                                         *)
(* What a thread allocates or frees is abstracted to the way it uses the   *)
(* lock and the token.  StoreBuffer says whether the plain store that      *)
(* releases the allocator lock may be delayed past the loads that follow   *)
(* it, as an x86-64 processor does; every other store of these modules is  *)
(* followed by a locked instruction before a load that could tell.         *)
(***************************************************************************)
EXTENDS Naturals, FiniteSets

CONSTANTS
  Threads,
  Nobody,       \* no VM operation: vm_operation = 0
  MaxRefs,      \* the value at which "references" admits no more (maxInt(u32))
  StoreBuffer

ASSUME WaitAssumption ==
  /\ IsFiniteSet(Threads)
  /\ Nobody \notin Threads
  /\ MaxRefs \in Nat \ {0}
  /\ StoreBuffer \in BOOLEAN

VARIABLES
  lock,      \* allocator_lock, in memory
  pending,   \* pending[t]: the store of 0 is still in t's store buffer
  owner,     \* vm_operation: the thread whose VM operation is admitted
  active,    \* the fields of the channels lock_wait and vm_wait
  handle,    \*   "none", "open", or "closed" by a close that failed later
  changing,
  refs,
  ticket,    \* ticket[t]: the channels t holds a ticket of
  current,   \* current[t]: those whose observed revision is the newest
  pc,
  on,        \* the channel t is at
  then       \* where t goes on after it acquired or released the lock

channels == <<active, handle, changing, refs>>
vars == <<lock, pending, owner, active, handle, changing, refs,
          ticket, current, pc, on, then>>

Channel == {"lock", "vm"}
Drops == {"dropTaken", "dropEnroll", "dropWait", "dropVm"}
PCs == {"idle", "acquire", "enroll", "create", "observe", "recheck", "park",
        "reobserve", "body", "freed", "vm", "kernel", "vmCheck",
        "release", "notify", "prune", "close"} \cup Drops

TypeOK ==
  /\ lock \in {0, 1}
  /\ pending \in [Threads -> BOOLEAN]
  /\ owner \in Threads \cup {Nobody}
  /\ active \in [Channel -> BOOLEAN]
  /\ handle \in [Channel -> {"none", "open", "closed"}]
  /\ changing \in [Channel -> BOOLEAN]
  /\ refs \in [Channel -> 0 .. MaxRefs]
  /\ ticket \in [Threads -> SUBSET Channel]
  /\ current \in [Threads -> SUBSET Channel]
  /\ pc \in [Threads -> PCs]
  /\ on \in [Threads -> Channel]
  /\ then \in [Threads -> PCs]

Init ==
  /\ lock = 0
  /\ pending = [t \in Threads |-> FALSE]
  /\ owner = Nobody
  /\ active = [c \in Channel |-> FALSE]
  /\ handle = [c \in Channel |-> "none"]
  /\ changing = [c \in Channel |-> FALSE]
  /\ refs = [c \in Channel |-> 0]
  /\ ticket = [t \in Threads |-> {}]
  /\ current = [t \in Threads |-> {}]
  /\ pc = [t \in Threads |-> "idle"]
  /\ on = [t \in Threads |-> "lock"]
  /\ then = [t \in Threads |-> "body"]

-----------------------------------------------------------------------------
Goto(t, to) == pc' = [pc EXCEPT ![t] = to]
Via(t, to, next) == Goto(t, to) /\ then' = [then EXCEPT ![t] = next]

\* Channel.notify past its test of active: advance the revision, wake all.
Wakes(c) == handle[c] = "open" /\ ~changing[c] /\ refs[c] # 0
Wake(c) == current' = IF Wakes(c) THEN [t \in Threads |-> current[t] \ {c}]
                                  ELSE current

-----------------------------------------------------------------------------
(* acquireAllocatorLock.  The processor's store buffer is empty whenever   *)
(* the thread executes a locked instruction.                               *)
Start(t) ==
  /\ pc[t] = "idle"
  /\ Via(t, "acquire", "body")
  /\ UNCHANGED <<lock, pending, owner, channels, ticket, current, on>>

Take(t) ==
  /\ pc[t] = "acquire" /\ ~pending[t]
  /\ lock = 0
  /\ lock' = 1
  /\ Goto(t, then[t])
  /\ UNCHANGED <<pending, owner, channels, ticket, current, on, then>>

SpinOut(t) ==
  /\ pc[t] = "acquire" /\ ~pending[t]
  /\ lock = 1
  /\ Goto(t, "enroll")
  /\ on' = [on EXCEPT ![t] = "lock"]
  /\ UNCHANGED <<lock, pending, owner, channels, ticket, current, then>>

\* Faulty variant: the predicate is not checked again after the observation.
RecheckSkipped(t) ==
  /\ pc[t] = "recheck"
  /\ Goto(t, IF "lock" \in ticket[t] THEN "park" ELSE "acquire")
  /\ UNCHANGED <<lock, pending, owner, channels, ticket, current, on, then>>

\* The check between observing the revision and parking on it.
Recheck(t) ==
  /\ pc[t] = "recheck"
  /\ IF lock = 0
       THEN /\ lock' = 1
            /\ Goto(t, IF "lock" \in ticket[t] THEN "dropTaken" ELSE then[t])
       ELSE /\ Goto(t, IF "lock" \in ticket[t] THEN "park" ELSE "acquire")
            /\ UNCHANGED lock
  /\ UNCHANGED <<pending, owner, channels, ticket, current, on, then>>

\* notification_wait returns, at once if the revision is not the newest.
Awake(t) == Goto(t, IF on[t] = "lock" THEN "reobserve" ELSE "dropVm")
Unpark(t) ==
  /\ pc[t] = "park"
  /\ on[t] \notin current[t]
  /\ Awake(t)
  /\ UNCHANGED <<lock, pending, owner, channels, ticket, current, on, then>>

\* The kernel cannot enqueue the waiter: a pause instead.
WaitRefused(t) ==
  /\ pc[t] = "park"
  /\ on[t] \in current[t]
  /\ Awake(t)
  /\ UNCHANGED <<lock, pending, owner, channels, ticket, current, on, then>>

-----------------------------------------------------------------------------
(* Channel.enroll and Ticket.deinit.                                       *)
\* With or without a ticket: to the lock's predicate, or back to the lock.
Enrolled(t) == IF on[t] = "lock" THEN Goto(t, "recheck") /\ UNCHANGED then
                                 ELSE Via(t, "acquire", "vmCheck")

EnrollRefused(t) ==
  LET c == on[t]
  IN  /\ pc[t] = "enroll" /\ ~pending[t]
      /\ changing[c] \/ refs[c] = MaxRefs
      /\ Enrolled(t)
      /\ UNCHANGED <<lock, pending, owner, channels, ticket, current, on>>

\* Faulty variant: a handle that is being closed is lent.
BorrowClosing(t) ==
  LET c == on[t]
  IN  /\ pc[t] = "enroll" /\ ~pending[t]
      /\ refs[c] # MaxRefs /\ handle[c] # "none"
      /\ refs' = [refs EXCEPT ![c] = @ + 1]
      /\ ticket' = [ticket EXCEPT ![t] = @ \cup {c}]
      /\ Goto(t, "observe")
      /\ UNCHANGED <<lock, pending, owner, active, handle, changing, current, on, then>>

Borrow(t) ==
  LET c == on[t]
  IN  /\ pc[t] = "enroll" /\ ~pending[t]
      /\ ~changing[c] /\ refs[c] # MaxRefs /\ handle[c] # "none"
      /\ refs' = [refs EXCEPT ![c] = @ + 1]
      /\ ticket' = [ticket EXCEPT ![t] = @ \cup {c}]
      /\ Goto(t, "observe")
      /\ UNCHANGED <<lock, pending, owner, active, handle, changing, current, on, then>>

CreateStart(t) ==
  LET c == on[t]
  IN  /\ pc[t] = "enroll" /\ ~pending[t]
      /\ ~changing[c] /\ refs[c] # MaxRefs /\ handle[c] = "none"
      /\ changing' = [changing EXCEPT ![c] = TRUE]
      /\ active' = [active EXCEPT ![c] = TRUE]
      /\ Goto(t, "create")
      /\ UNCHANGED <<lock, pending, owner, handle, refs, ticket, current, on, then>>

Create(t) ==
  LET c == on[t]
  IN  /\ pc[t] = "create"
      /\ changing' = [changing EXCEPT ![c] = FALSE]
      /\ handle' = [handle EXCEPT ![c] = "open"]
      /\ refs' = [refs EXCEPT ![c] = @ + 1]
      /\ ticket' = [ticket EXCEPT ![t] = @ \cup {c}]
      /\ Goto(t, "observe")
      /\ UNCHANGED <<lock, pending, owner, active, current, on, then>>

CreateFails(t) ==
  LET c == on[t]
  IN  /\ pc[t] = "create"
      /\ changing' = [changing EXCEPT ![c] = FALSE]
      /\ active' = [active EXCEPT ![c] = FALSE]
      /\ Enrolled(t)
      /\ UNCHANGED <<lock, pending, owner, handle, refs, ticket, current, on>>

\* notification_query, after enrolling and after every wait for the lock.
Observe(t) ==
  /\ pc[t] \in {"observe", "reobserve"}
  /\ handle[on[t]] = "open"
  /\ current' = [current EXCEPT ![t] = @ \cup {on[t]}]
  /\ Enrolled(t)
  /\ UNCHANGED <<lock, pending, owner, channels, ticket, on>>

ObserveFails(t) ==
  /\ pc[t] \in {"observe", "reobserve"}
  /\ Goto(t, IF pc[t] = "observe" THEN "dropEnroll" ELSE "dropWait")
  /\ UNCHANGED <<lock, pending, owner, channels, ticket, current, on, then>>

Deinit(t, c) ==
  /\ ticket' = [ticket EXCEPT ![t] = @ \ {c}]
  /\ current' = [current EXCEPT ![t] = @ \ {c}]
  /\ refs' = IF c \in ticket[t] THEN [refs EXCEPT ![c] = @ - 1] ELSE refs
  /\ UNCHANGED <<lock, pending, owner, active, handle, changing>>

DropTaken(t) == /\ pc[t] = "dropTaken"
                /\ Deinit(t, "lock") /\ Goto(t, then[t])
                /\ UNCHANGED <<on, then>>

DropEnroll(t) == /\ pc[t] = "dropEnroll"
                 /\ Deinit(t, on[t]) /\ Enrolled(t)
                 /\ UNCHANGED on

DropWait(t) == /\ pc[t] = "dropWait"
               /\ Deinit(t, "lock") /\ Goto(t, "acquire")
               /\ UNCHANGED <<on, then>>

-----------------------------------------------------------------------------
(* The callers, with the lock held: a fast path, a published free, a VM    *)
(* operation, or a wait for somebody else's.                               *)
Release(t, next) == Via(t, "release", next)

Finish(t) ==
  /\ pc[t] \in {"body", "freed"}
  /\ Release(t, "idle")
  /\ UNCHANGED <<lock, pending, owner, channels, ticket, current, on>>

PublishFree(t) ==
  /\ pc[t] = "body"
  /\ Wake("vm")
  /\ Goto(t, "freed")
  /\ UNCHANGED <<lock, pending, owner, channels, ticket, on, then>>

\* Faulty variant: the token is taken from its owner.
BeginVmUnchecked(t) ==
  /\ pc[t] \in {"body", "freed"}
  /\ owner' = t
  /\ Goto(t, "vm")
  /\ UNCHANGED <<lock, pending, channels, ticket, current, on, then>>

BeginVm(t) ==
  /\ pc[t] \in {"body", "freed"}
  /\ owner = Nobody
  /\ owner' = t
  /\ Goto(t, "vm")
  /\ UNCHANGED <<lock, pending, channels, ticket, current, on, then>>

\* vmReserve, vmCommit, vmDecommit, vmRelease: the lock is given up for the
\* kernel call, the token is kept.
VmCall(t) ==
  /\ pc[t] = "vm"
  /\ Release(t, "kernel")
  /\ UNCHANGED <<lock, pending, owner, channels, ticket, current, on>>

\* Faulty variant: the kernel call returns to metadata it has not locked.
VmReturnUnlocked(t) ==
  /\ pc[t] = "kernel"
  /\ Via(t, "vm", "vm")
  /\ UNCHANGED <<lock, pending, owner, channels, ticket, current, on>>

VmReturn(t) ==
  /\ pc[t] = "kernel"
  /\ Via(t, "acquire", "vm")
  /\ UNCHANGED <<lock, pending, owner, channels, ticket, current, on>>

\* Faulty variant: the token is given back without a notification.
EndVmSilent(t) ==
  /\ pc[t] = "vm"
  /\ owner' = Nobody
  /\ Release(t, "idle")
  /\ UNCHANGED <<lock, pending, channels, ticket, current, on>>

EndVm(t) ==
  /\ pc[t] = "vm"
  /\ owner' = Nobody
  /\ Wake("vm")
  /\ Release(t, "idle")
  /\ UNCHANGED <<lock, pending, channels, ticket, on>>

\* waitForVm.
WaitForVm(t) ==
  /\ pc[t] = "body"
  /\ owner # Nobody
  /\ Release(t, "enroll")
  /\ UNCHANGED <<lock, pending, owner, channels, ticket, current, on>>

VmCheck(t) ==
  /\ pc[t] = "vmCheck"
  /\ Release(t, IF owner # Nobody /\ "vm" \in ticket[t] THEN "park" ELSE "dropVm")
  /\ UNCHANGED <<lock, pending, owner, channels, ticket, current, on>>

DropVm(t) ==
  /\ pc[t] = "dropVm" /\ ~pending[t]
  /\ Deinit(t, "vm")
  /\ Via(t, "prune", "acquire")
  /\ UNCHANGED on

-----------------------------------------------------------------------------
(* releaseAllocatorLock: store, notify, prune both channels.               *)
StoreFree(t) ==
  /\ pc[t] = "release"
  /\ \/ lock' = 0 /\ UNCHANGED pending
     \/ StoreBuffer /\ pending' = [pending EXCEPT ![t] = TRUE] /\ UNCHANGED lock
  /\ Goto(t, "notify")
  /\ UNCHANGED <<owner, channels, ticket, current, on, then>>

Drain(t) ==
  /\ pending[t]
  /\ pending' = [pending EXCEPT ![t] = FALSE]
  /\ lock' = 0
  /\ UNCHANGED <<owner, channels, ticket, current, pc, on, then>>

\* Nobody is enrolled, says the load of active.
NotifySkip(t) ==
  /\ pc[t] = "notify"
  /\ ~active["lock"]
  /\ Goto(t, "prune")
  /\ on' = [on EXCEPT ![t] = "lock"]
  /\ UNCHANGED <<lock, pending, owner, channels, ticket, current, then>>

Notify(t) ==
  /\ pc[t] = "notify"
  /\ active["lock"] /\ ~pending[t]
  /\ Wake("lock")
  /\ Goto(t, "prune")
  /\ on' = [on EXCEPT ![t] = "lock"]
  /\ UNCHANGED <<lock, pending, owner, channels, ticket, then>>

\* The vm channel is the last one to be pruned.
Pruned(t) == /\ on' = [on EXCEPT ![t] = "vm"]
             /\ IF on[t] = "lock" THEN Goto(t, "prune") /\ UNCHANGED then
                                  ELSE Via(t, then[t], "body")

PruneSkip(t) ==
  LET c == on[t]
  IN  /\ pc[t] = "prune"
      /\ \/ ~active[c]
         \/ ~pending[t] /\ (handle[c] = "none" \/ changing[c] \/ refs[c] # 0)
      /\ Pruned(t)
      /\ UNCHANGED <<lock, pending, owner, channels, ticket, current>>

PruneStart(t) ==
  LET c == on[t]
  IN  /\ pc[t] = "prune" /\ ~pending[t]
      /\ active[c] /\ handle[c] # "none" /\ ~changing[c] /\ refs[c] = 0
      /\ changing' = [changing EXCEPT ![c] = TRUE]
      /\ Goto(t, "close")
      /\ UNCHANGED <<lock, pending, owner, active, handle, refs, ticket, current, on, then>>

\* notification_close, in the kernel.
Close(t) ==
  LET c == on[t]
  IN  /\ pc[t] = "close"
      /\ changing' = [changing EXCEPT ![c] = FALSE]
      /\ handle' = [handle EXCEPT ![c] = "none"]
      /\ active' = [active EXCEPT ![c] = FALSE]
      /\ Pruned(t)
      /\ UNCHANGED <<lock, pending, owner, refs, ticket, current>>

\* The handle is kept for a later attempt, whether or not it still works.
CloseFails(t) ==
  LET c == on[t]
  IN  /\ pc[t] = "close"
      /\ changing' = [changing EXCEPT ![c] = FALSE]
      /\ \E h \in {handle[c], "closed"} : handle' = [handle EXCEPT ![c] = h]
      /\ Pruned(t)
      /\ UNCHANGED <<lock, pending, owner, active, refs, ticket, current>>

-----------------------------------------------------------------------------
Enroll(t) == \/ EnrollRefused(t) \/ Borrow(t) \/ CreateStart(t) \/ Create(t)
             \/ CreateFails(t) \/ Observe(t) \/ ObserveFails(t)
Drop(t) == DropTaken(t) \/ DropEnroll(t) \/ DropWait(t) \/ DropVm(t)
Acquire(t) == Take(t) \/ SpinOut(t) \/ Recheck(t) \/ Unpark(t)
Body(t) == \/ Finish(t) \/ PublishFree(t) \/ BeginVm(t) \/ VmCall(t)
           \/ VmReturn(t) \/ EndVm(t) \/ WaitForVm(t) \/ VmCheck(t)
Leave(t) == \/ StoreFree(t) \/ NotifySkip(t) \/ Notify(t) \/ PruneSkip(t)
            \/ PruneStart(t) \/ Close(t) \/ CloseFails(t)

Run(t) == Acquire(t) \/ Enroll(t) \/ Drop(t) \/ Body(t) \/ Leave(t)

Next == \E t \in Threads : Start(t) \/ Run(t) \/ WaitRefused(t) \/ Drain(t)

Spec == Init /\ [][Next]_vars

(* A thread that is not parked runs on and its stores reach memory; a VM   *)
(* operation makes finitely many kernel calls; and who tries for the lock  *)
(* again and again gets it in the end, which neither the spin lock nor the *)
(* wait channel guarantees by itself.                                      *)
Fairness == \A t \in Threads : /\ WF_vars(Run(t))
                               /\ WF_vars(Drain(t))
                               /\ SF_vars(EndVm(t))
                               /\ SF_vars(Take(t) \/ (lock = 0 /\ Recheck(t)))

FairSpec == Spec /\ Fairness

-----------------------------------------------------------------------------
Tickets(c) == {t \in Threads : c \in ticket[t]}

(* The asserts of enroll, prune and deinit, and the module's comment "a    *)
(* notification lives until its last waiter has left": references counts   *)
(* the tickets, a ticket's handle is neither gone nor being closed, and    *)
(* nobody parks on a closed one.                                           *)
TicketKeepsHandle ==
  \A c \in Channel :
    /\ refs[c] = Cardinality(Tickets(c))
    /\ refs[c] # 0 => handle[c] # "none" /\ ~changing[c]
    /\ \A t \in Threads : c \in current[t] => c \in ticket[t] /\ handle[c] = "open"

(* The allocator's metadata belongs to one thread at a time, also while    *)
(* the store that gave it up is on its way to memory.  Everything between  *)
(* acquireAllocatorLock and releaseAllocatorLock relies on it, the steps   *)
(* of this module on the token included.                                   *)
Holds(t) == pc[t] \in {"body", "freed", "vm", "vmCheck", "dropTaken", "release"}
LockExclusive == \A t, u \in Threads : Holds(t) /\ Holds(u) => t = u

(* The asserts around every VM kernel call: whoever gave the lock up for   *)
(* the call still owns the one VM operation when it has the lock again.    *)
InVm(t) == pc[t] \in {"vm", "kernel"} \/ (pc[t] # "idle" /\ then[t] \in {"vm", "kernel"})
VmTokenKept == \A t \in Threads : InVm(t) => owner = t

(* Nobody sleeps for nothing.  A thread that will stay parked for the VM   *)
(* operation can count on one that is still to end and to notify.          *)
Asleep(t, c) == pc[t] = "park" /\ on[t] = c /\ c \in current[t]
SleepsForVm == \A t \in Threads : Asleep(t, "vm") => owner # Nobody

(* The comment of acquireAllocatorLock, "a release between here and        *)
(* parking cannot be lost": a thread that will stay parked for the lock    *)
(* can count on a thread that has it, or has yet to notify of its release. *)
SleepsForLock ==
  \A t \in Threads :
    Asleep(t, "lock") => \E u \in Threads : Holds(u) \/ pc[u] = "notify"

(* Every wait ends.                                                        *)
WakesUp == \A t \in Threads : pc[t] = "park" ~> pc[t] # "park"

=============================================================================
