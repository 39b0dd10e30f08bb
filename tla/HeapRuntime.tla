---------------------------- MODULE HeapRuntime ----------------------------
(***************************************************************************)
(* The C/Rust heap entry points of r4os/heap_runtime.zig: one word "phase" *)
(* that admits calls, one counter "calls" of the calls admitted, and no    *)
(* lock.  A thread reads the phase, counts itself, and reads the phase     *)
(* again; the closing thread moves the phase to 4 and only then reads the  *)
(* counter.  Every atomic access of the code is a step of its own.         *)
(***************************************************************************)
EXTENDS Naturals, FiniteSets

CONSTANTS
  Threads,    \* threads of the process that call the heap
  Owners,     \* identities (api, instance, generation) current() can return
  OwnerOf,    \* the identity each thread presents to the kernel
  NoOwner,    \* nobody is bound; also what current() returns on failure
  MaxCalls,   \* the value at which "calls" admits no more (maxInt(u32))
  MaxLive     \* callers allocate only below this many

ASSUME HeapAssumption ==
  /\ IsFiniteSet(Threads)
  /\ NoOwner \notin Owners
  /\ OwnerOf \in [Threads -> Owners \cup {NoOwner}]
  /\ MaxCalls \in Nat \ {0}
  /\ MaxLive \in Nat \ {0}

VARIABLES
  phase,   \* 0 new, 1 binding, 2 open, 3 frees only, 4 teardown, 5 done
  calls,   \* calls counted in and not yet out
  bound,   \* bound_api, bound_instance and bound_generation
  live,    \* allocations in the callers' hands
  torn,    \* vm.shutdown has begun to release regions
  outcome, \* what vm.shutdown answered the closing thread
  pc,      \* next step of each thread
  op       \* the entry point each thread is in

vars == <<phase, calls, bound, live, torn, outcome, pc, op>>

Calls == {"alloc", "free", "realloc", "stats", "finish"}
Outcomes == {"none", "done", "busy", "pending"}
PCs == {"idle", "publish", "enter", "owner", "count", "recheck", "body",
        "release", "leave", "close", "finishLeave", "exclusive", "drained",
        "backoff", "shutdown", "settle"}

TypeOK ==
  /\ phase \in 0..5
  /\ calls \in 0..MaxCalls
  /\ bound \in Owners \cup {NoOwner}
  /\ live \in Nat
  /\ torn \in BOOLEAN
  /\ outcome \in Outcomes
  /\ pc \in [Threads -> PCs]
  /\ op \in [Threads -> Calls \cup {"bind", "none"}]

Init ==
  /\ phase = 0
  /\ calls = 0
  /\ bound = NoOwner
  /\ live = 0
  /\ torn = FALSE
  /\ outcome = "none"
  /\ pc = [t \in Threads |-> "idle"]
  /\ op = [t \in Threads |-> "none"]

-----------------------------------------------------------------------------
Goto(t, to) == pc' = [pc EXCEPT ![t] = to]

\* The thread leaves its entry point; the result code tells no state apart.
Return(t) ==
  /\ pc' = [pc EXCEPT ![t] = "idle"]
  /\ op' = [op EXCEPT ![t] = "none"]

\* Faulty variant: the frees-only phase admits every call.
AdmitsAnyCall(p, o) == p = 2 \/ p = 3

\* The phases that admit the call: open, or frees only for a call that does
\* not allocate.
Admits(p, o) == p = 2 \/ (p = 3 /\ o \notin {"alloc", "realloc"})

-----------------------------------------------------------------------------
(* R4SdkHeapBind.  The owner is checked before the compare-and-swap; the   *)
(* bound fields are written while the phase is 1 and published by the      *)
(* store of 2.  Every other outcome is a result code and changes nothing.  *)
Bind(t) ==
  /\ pc[t] = "idle" /\ OwnerOf[t] # NoOwner /\ phase = 0
  /\ phase' = 1
  /\ bound' = OwnerOf[t]
  /\ pc' = [pc EXCEPT ![t] = "publish"]
  /\ op' = [op EXCEPT ![t] = "bind"]
  /\ UNCHANGED <<calls, live, torn, outcome>>

BindPublish(t) ==
  /\ pc[t] = "publish"
  /\ phase' = 2
  /\ Return(t)
  /\ UNCHANGED <<calls, bound, live, torn, outcome>>

-----------------------------------------------------------------------------
(* enter and leave, shared by every other entry point.  A finish that      *)
(* finds phase 5 only reports it.                                          *)
Call(t, o) ==
  /\ pc[t] = "idle"
  /\ o = "finish" => phase # 5
  /\ op' = [op EXCEPT ![t] = o]
  /\ Goto(t, "enter")
  /\ UNCHANGED <<phase, calls, bound, live, torn, outcome>>

EnterLoad(t) ==
  /\ pc[t] = "enter"
  /\ IF Admits(phase, op[t]) THEN Goto(t, "owner") /\ UNCHANGED op
                             ELSE Return(t)
  /\ UNCHANGED <<phase, calls, bound, live, torn, outcome>>

EnterOwner(t) ==
  /\ pc[t] = "owner"
  /\ IF OwnerOf[t] # NoOwner /\ bound = OwnerOf[t]
       THEN Goto(t, "count") /\ UNCHANGED op
       ELSE Return(t)
  /\ UNCHANGED <<phase, calls, bound, live, torn, outcome>>

EnterCount(t) ==
  /\ pc[t] = "count"
  /\ IF calls = MaxCalls
       THEN Return(t) /\ UNCHANGED calls
       ELSE calls' = calls + 1 /\ Goto(t, "recheck") /\ UNCHANGED op
  /\ UNCHANGED <<phase, bound, live, torn, outcome>>

\* Faulty variant: counted in, but the phase is not read again.
EnterRecheckSkipped(t) ==
  /\ pc[t] = "recheck"
  /\ Goto(t, IF op[t] = "finish" THEN "close" ELSE "body")
  /\ UNCHANGED <<phase, calls, bound, live, torn, outcome, op>>

EnterRecheck(t) ==
  /\ pc[t] = "recheck"
  /\ Goto(t, IF ~Admits(phase, op[t]) THEN "leave"
             ELSE IF op[t] = "finish" THEN "close" ELSE "body")
  /\ UNCHANGED <<phase, calls, bound, live, torn, outcome, op>>

Leave(t) ==
  /\ pc[t] = "leave"
  /\ calls' = calls - 1
  /\ Return(t)
  /\ UNCHANGED <<phase, bound, live, torn, outcome>>

-----------------------------------------------------------------------------
(* The admitted bodies, each followed by the deferred leave.               *)
Body(t, o, to) ==
  /\ pc[t] = "body" /\ op[t] = o
  /\ Goto(t, to)
  /\ UNCHANGED <<phase, calls, bound, torn, outcome, op>>

AllocBody(t) ==
  /\ Body(t, "alloc", "leave")
  /\ live' \in {live} \cup {n \in {live + 1} : live < MaxLive}

\* A pointer whose header does not check is refused.
FreeBody(t) ==
  /\ Body(t, "free", "leave")
  /\ live' \in {live} \cup {n \in {live - 1} : live > 0}

\* A null pointer allocates; a live block is resized in place, or taken from
\* the caller until the new block is allocated and copied.
ReallocBody(t) ==
  \/ /\ Body(t, "realloc", "leave")
     /\ live' \in {live} \cup {n \in {live + 1} : live < MaxLive}
  \/ /\ Body(t, "realloc", "release")
     /\ live > 0
     /\ live' = live - 1

\* The old block is released and the new one handed to the caller.
ReallocRelease(t) ==
  /\ pc[t] = "release"
  /\ live' = live + 1
  /\ Goto(t, "leave")
  /\ UNCHANGED <<phase, calls, bound, torn, outcome, op>>

StatsBody(t) ==
  /\ Body(t, "stats", "leave")
  /\ UNCHANGED live

-----------------------------------------------------------------------------
(* R4SdkHeapFinish, after its enter.                                       *)
FinishClose(t) ==
  /\ pc[t] = "close"
  /\ phase' = IF phase = 2 THEN 3 ELSE phase
  /\ Goto(t, "finishLeave")
  /\ UNCHANGED <<calls, bound, live, torn, outcome, op>>

FinishLeave(t) ==
  /\ pc[t] = "finishLeave"
  /\ calls' = calls - 1
  /\ Goto(t, "exclusive")
  /\ UNCHANGED <<phase, bound, live, torn, outcome, op>>

FinishExclusive(t) ==
  /\ pc[t] = "exclusive"
  /\ IF phase = 3
       THEN phase' = 4 /\ Goto(t, "drained") /\ UNCHANGED op
       ELSE Return(t) /\ UNCHANGED phase
  /\ UNCHANGED <<calls, bound, live, torn, outcome>>

FinishDrained(t) ==
  /\ pc[t] = "drained"
  /\ Goto(t, IF calls = 0 THEN "shutdown" ELSE "backoff")
  /\ UNCHANGED <<phase, calls, bound, live, torn, outcome, op>>

\* Faulty variant: the back-off restores the open phase.
FinishBackoffOpen(t) ==
  /\ pc[t] = "backoff"
  /\ phase' = 2
  /\ Return(t)
  /\ UNCHANGED <<calls, bound, live, torn, outcome>>

FinishBackoff(t) ==
  /\ pc[t] = "backoff"
  /\ phase' = 3
  /\ Return(t)
  /\ UNCHANGED <<calls, bound, live, torn, outcome>>

\* vm.shutdown: busy while an allocation is live or another user of the
\* allocator is at work; otherwise regions are released, and a failed release
\* leaves the rest for a later call.
Shutdown(t) ==
  LET active == live > 0 \/ \E u \in Threads : pc[u] = "release" IN
  /\ pc[t] = "shutdown"
  /\ outcome' \in {"busy"} \cup {r \in {"done", "pending"} : ~active}
  /\ torn' = (torn \/ outcome' # "busy")
  /\ Goto(t, "settle")
  /\ UNCHANGED <<phase, calls, bound, live, op>>

FinishSettle(t) ==
  /\ pc[t] = "settle"
  /\ phase' = IF outcome = "done" THEN 5 ELSE 3
  /\ outcome' = "none"
  /\ Return(t)
  /\ UNCHANGED <<calls, bound, live, torn>>

-----------------------------------------------------------------------------
Step(t) ==
  \/ BindPublish(t)
  \/ EnterLoad(t) \/ EnterOwner(t) \/ EnterCount(t) \/ EnterRecheck(t)
  \/ AllocBody(t) \/ FreeBody(t) \/ ReallocBody(t) \/ ReallocRelease(t)
  \/ StatsBody(t) \/ Leave(t)
  \/ FinishClose(t) \/ FinishLeave(t) \/ FinishExclusive(t)
  \/ FinishDrained(t) \/ FinishBackoff(t) \/ Shutdown(t) \/ FinishSettle(t)

Next ==
  \E t \in Threads :
    \/ Bind(t)
    \/ \E o \in Calls : Call(t, o)
    \/ Step(t)

Spec == Init /\ [][Next]_vars

-----------------------------------------------------------------------------
(* Properties.                                                             *)

\* Threads that have counted themselves in and not yet out.
Counted == {t \in Threads : pc[t] \in {"recheck", "body", "release", "leave",
                                       "close", "finishLeave"}}

\* Threads admitted by the second phase check and still in their body.
Inside == {t \in Threads : pc[t] \in {"body", "release", "close", "finishLeave"}}

\* Threads that hold the exclusive phase 4.
Closing == {t \in Threads : pc[t] \in {"drained", "backoff", "shutdown", "settle"}}

(* While one thread runs vm.shutdown no admitted call is inside the heap   *)
(* and no second thread is tearing it down: the counter is read after the  *)
(* phase has become 4, and every later entrant reads the phase again after *)
(* counting itself (enter 71-75, R4SdkHeapFinish 188-193).                 *)
TeardownExclusive ==
  \A t \in Threads : pc[t] = "shutdown" => Inside = {} /\ Closing = {t}

(* The counter is exactly the number of calls inside, so leave never       *)
(* traps at zero and no refused call keeps the heap busy (leave 78-81).    *)
CallsExact == calls = Cardinality(Counted)

(* Once a region may have been released nothing is allocated again,        *)
(* although a failed release reopens the heap for frees                    *)
(* (vm_allocator.zig 262-267, R4SdkHeapFinish 193-194).                    *)
NoAllocAfterTeardown == [][torn => live' <= live]_vars

(* A closed heap never opens again: a closing thread that backs off or is  *)
(* told to retry returns to the frees-only phase, and phase 5 is final     *)
(* (R4SdkHeapFinish 188-194).                                              *)
NeverReopens == [][phase >= 3 => phase' >= 3 /\ (phase = 5 => phase' = 5)]_vars

-----------------------------------------------------------------------------
(* The inductive invariant behind the four properties.                     *)

\* One thread at most holds phase 1, and one at most phase 4.
PhaseHeld ==
  /\ \A t \in Threads : pc[t] = "publish" => phase = 1
  /\ \A t, u \in Threads : pc[t] = "publish" /\ pc[u] = "publish" => t = u
  /\ \A t \in Closing : phase = 4
  /\ \A t, u \in Closing : t = u

\* A closing thread that read the counter at zero has the heap to itself.
Drained ==
  \A t \in Threads : pc[t] \in {"shutdown", "settle"} => Inside = {}

\* A thread past its first check saw an open or a frees-only heap, and the
\* admitted finish closes what it saw.
PastFirstCheck ==
  \A t \in Threads :
    /\ pc[t] \in {"owner", "count", "recheck", "exclusive"} \/ t \in Inside
         => phase >= 2
    /\ pc[t] \in {"finishLeave", "exclusive"} => phase >= 3

\* After teardown began only frees and statistics are inside.
TornFreesOnly ==
  torn => /\ phase >= 3
          /\ \A t \in Threads :
               /\ pc[t] # "release"
               /\ pc[t] = "body" => op[t] \in {"free", "stats"}

BodyOps ==
  \A t \in Threads :
    /\ pc[t] \in {"enter", "owner", "count", "recheck"} => op[t] \in Calls
    /\ pc[t] = "body" => op[t] \in Calls \ {"finish"}

IInv ==
  /\ TypeOK
  /\ CallsExact
  /\ PhaseHeld
  /\ Drained
  /\ PastFirstCheck
  /\ TornFreesOnly
  /\ BodyOps
=============================================================================
