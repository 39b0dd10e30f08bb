------------------------- MODULE HeapRuntimeProofs -------------------------
(* Type correctness, exclusivity of the teardown and the one-way phases of *)
(* HeapRuntime, for every number of threads and every bound.               *)
EXTENDS HeapRuntime, FiniteSetTheorems, TLAPS

(* The set of counted threads is finite, so its cardinality is a number.   *)
LEMMA CountedFinite ==
  IsFiniteSet(Counted) /\ Cardinality(Counted) \in Nat
<1>1. IsFiniteSet(Threads)
  BY HeapAssumption
<1>2. Counted \in SUBSET Threads
  BY DEF Counted
<1>3. IsFiniteSet(Counted)
  BY <1>1, <1>2, FS_Subset
<1> QED
  BY <1>3, FS_CardinalityType

(* A thread that enters the counted steps and adds one keeps the count     *)
(* exact (the compare-and-swap of enter).                           *)
LEMMA CountIn ==
  ASSUME TypeOK, CallsExact, NEW t \in Threads, EnterCount(t)
  PROVE  CallsExact'
<1>1. CASE calls = MaxCalls
  <2>1. pc' = [pc EXCEPT ![t] = "idle"] /\ calls' = calls
    BY <1>1 DEF EnterCount, Return
  <2>2. Counted' = Counted
    BY <2>1 DEF Counted, EnterCount, TypeOK
  <2> QED
    BY <2>1, <2>2 DEF CallsExact
<1>2. CASE calls # MaxCalls
  <2>1. pc' = [pc EXCEPT ![t] = "recheck"] /\ calls' = calls + 1
    BY <1>2 DEF EnterCount, Goto
  <2>2. Counted' = Counted \cup {t} /\ t \notin Counted
    BY <2>1 DEF Counted, EnterCount, TypeOK
  <2>3. Cardinality(Counted \cup {t}) = Cardinality(Counted) + 1
    BY <2>2, CountedFinite, FS_AddElement
  <2> QED
    BY <2>1, <2>2, <2>3 DEF CallsExact
<1> QED
  BY <1>1, <1>2

(* A thread that leaves the counted steps and subtracts one keeps the      *)
(* count exact, and the counter was positive (leave).                *)
LEMMA CountOut ==
  ASSUME TypeOK, CallsExact, NEW t \in Threads, Leave(t) \/ FinishLeave(t)
  PROVE  CallsExact' /\ calls' \in 0..MaxCalls
<1>1. calls' = calls - 1 /\ t \in Counted
  BY DEF Leave, FinishLeave, Counted
<1>2. Counted' = Counted \ {t}
  BY DEF Leave, FinishLeave, Return, Goto, Counted, TypeOK
<1>3. Cardinality(Counted \ {t}) = Cardinality(Counted) - 1
  BY <1>1, CountedFinite, FS_RemoveElement
<1>4. Cardinality(Counted \ {t}) \in Nat
  BY CountedFinite, FS_RemoveElement, FS_CardinalityType
<1>5. CallsExact'
  BY <1>1, <1>2, <1>3 DEF CallsExact
<1> QED
  BY <1>1, <1>3, <1>4, <1>5, HeapAssumption DEF CallsExact, TypeOK

(* Any other step leaves the counted threads and the counter alone.        *)
LEMMA CountSame ==
  ASSUME CallsExact, Counted' = Counted, calls' = calls
  PROVE  CallsExact'
BY DEF CallsExact

-----------------------------------------------------------------------------
(* The actions, each preserving the whole inductive invariant.             *)
LEMMA BindKeeps ==
  ASSUME IInv, NEW t \in Threads, Bind(t) \/ BindPublish(t)
  PROVE  IInv'
<1> USE HeapAssumption DEF IInv, TypeOK, Return, Goto, Calls, PCs
<1>1. CASE Bind(t)
  <2>1. Counted' = Counted /\ calls' = calls
    BY <1>1 DEF Bind, Counted
  <2>2. TypeOK'
    BY <1>1 DEF Bind
  <2>3. PhaseHeld' /\ Drained' /\ PastFirstCheck' /\ TornFreesOnly' /\ BodyOps'
    BY <1>1 DEF Bind, PhaseHeld, Drained, PastFirstCheck, TornFreesOnly,
                BodyOps, Closing, Inside
  <2> QED
    BY <2>1, <2>2, <2>3, CountSame
<1>2. CASE BindPublish(t)
  <2>1. Counted' = Counted /\ calls' = calls
    BY <1>2 DEF BindPublish, Counted
  <2>2. TypeOK'
    BY <1>2 DEF BindPublish
  <2>3. PhaseHeld' /\ Drained' /\ PastFirstCheck' /\ TornFreesOnly' /\ BodyOps'
    BY <1>2 DEF BindPublish, PhaseHeld, Drained, PastFirstCheck, TornFreesOnly,
                BodyOps, Closing, Inside
  <2> QED
    BY <2>1, <2>2, <2>3, CountSame
<1> QED
  BY <1>1, <1>2
(* The two phase checks, the owner check and the count of enter.          *)
LEMMA EnterKeeps ==
  ASSUME IInv, NEW t \in Threads, NEW o \in Calls,
         \/ Call(t, o)
         \/ EnterLoad(t)
         \/ EnterOwner(t)
         \/ EnterCount(t)
         \/ EnterRecheck(t)
         \/ Leave(t)
  PROVE  IInv'
<1> USE HeapAssumption DEF IInv, TypeOK, Return, Goto, Calls, PCs
<1>1. CASE Call(t, o)
  <2>1. CallsExact'
    <3>1. Counted' = Counted /\ calls' = calls
      BY <1>1 DEF Call, Counted
    <3> QED
      BY <3>1, CountSame
  <2>2. TypeOK'
    BY <1>1 DEF Call
  <2>3. PhaseHeld' /\ Drained' /\ PastFirstCheck' /\ TornFreesOnly' /\ BodyOps'
    BY <1>1 DEF Call, PhaseHeld, Drained, PastFirstCheck,
           TornFreesOnly, BodyOps, Closing, Inside
  <2> QED
    BY <2>1, <2>2, <2>3
<1>2. CASE EnterLoad(t)
  <2>1. CallsExact'
    <3>1. Counted' = Counted /\ calls' = calls
      BY <1>2 DEF EnterLoad, Counted, Admits
    <3> QED
      BY <3>1, CountSame
  <2>2. TypeOK'
    BY <1>2 DEF EnterLoad
  <2>3. PhaseHeld' /\ Drained' /\ PastFirstCheck' /\ TornFreesOnly' /\ BodyOps'
    BY <1>2 DEF EnterLoad, Admits, PhaseHeld, Drained, PastFirstCheck,
           TornFreesOnly, BodyOps, Closing, Inside
  <2> QED
    BY <2>1, <2>2, <2>3
<1>3. CASE EnterOwner(t)
  <2>1. CallsExact'
    <3>1. Counted' = Counted /\ calls' = calls
      BY <1>3 DEF EnterOwner, Counted
    <3> QED
      BY <3>1, CountSame
  <2>2. TypeOK'
    BY <1>3 DEF EnterOwner
  <2>3. PhaseHeld' /\ Drained' /\ PastFirstCheck' /\ TornFreesOnly' /\ BodyOps'
    BY <1>3 DEF EnterOwner, PhaseHeld, Drained, PastFirstCheck,
           TornFreesOnly, BodyOps, Closing, Inside
  <2> QED
    BY <2>1, <2>2, <2>3
<1>4. CASE EnterCount(t)
  <2>1. CallsExact'
    BY <1>4, CountIn
  <2>2. TypeOK'
    BY <1>4 DEF EnterCount
  <2>3. PhaseHeld' /\ Drained' /\ PastFirstCheck' /\ TornFreesOnly' /\ BodyOps'
    BY <1>4 DEF EnterCount, PhaseHeld, Drained, PastFirstCheck,
           TornFreesOnly, BodyOps, Closing, Inside
  <2> QED
    BY <2>1, <2>2, <2>3
<1>5. CASE EnterRecheck(t)
  <2>1. CallsExact'
    <3>1. Counted' = Counted /\ calls' = calls
      BY <1>5 DEF EnterRecheck, Counted
    <3> QED
      BY <3>1, CountSame
  <2>2. TypeOK'
    BY <1>5 DEF EnterRecheck
  <2>3. PhaseHeld' /\ Drained' /\ PastFirstCheck' /\ TornFreesOnly' /\ BodyOps'
    BY <1>5 DEF EnterRecheck, Admits, PhaseHeld, Drained, PastFirstCheck,
           TornFreesOnly, BodyOps, Closing, Inside
  <2> QED
    BY <2>1, <2>2, <2>3
<1>6. CASE Leave(t)
  <2>1. CallsExact' /\ calls' \in 0..MaxCalls
    BY <1>6, CountOut
  <2>2. TypeOK'
    BY <1>6, <2>1 DEF Leave
  <2>3. PhaseHeld' /\ Drained' /\ PastFirstCheck' /\ TornFreesOnly' /\ BodyOps'
    BY <1>6 DEF Leave, PhaseHeld, Drained, PastFirstCheck,
           TornFreesOnly, BodyOps, Closing, Inside
  <2> QED
    BY <2>1, <2>2, <2>3
<1> QED
  BY <1>1, <1>2, <1>3, <1>4, <1>5, <1>6

(* The admitted bodies.                                                   *)
LEMMA BodyKeeps ==
  ASSUME IInv, NEW t \in Threads,
         \/ AllocBody(t)
         \/ FreeBody(t)
         \/ ReallocBody(t)
         \/ ReallocRelease(t)
         \/ StatsBody(t)
  PROVE  IInv'
<1> USE HeapAssumption DEF IInv, TypeOK, Return, Goto, Calls, PCs, Body
<1>1. CASE AllocBody(t)
  <2>1. CallsExact'
    <3>1. Counted' = Counted /\ calls' = calls
      BY <1>1 DEF AllocBody, Counted
    <3> QED
      BY <3>1, CountSame
  <2>2. TypeOK'
    BY <1>1 DEF AllocBody
  <2>3. PhaseHeld' /\ Drained' /\ PastFirstCheck' /\ TornFreesOnly' /\ BodyOps'
    BY <1>1 DEF AllocBody, PhaseHeld, Drained, PastFirstCheck,
           TornFreesOnly, BodyOps, Closing, Inside
  <2> QED
    BY <2>1, <2>2, <2>3
<1>2. CASE FreeBody(t)
  <2>1. CallsExact'
    <3>1. Counted' = Counted /\ calls' = calls
      BY <1>2 DEF FreeBody, Counted
    <3> QED
      BY <3>1, CountSame
  <2>2. TypeOK'
    BY <1>2 DEF FreeBody
  <2>3. PhaseHeld' /\ Drained' /\ PastFirstCheck' /\ TornFreesOnly' /\ BodyOps'
    BY <1>2 DEF FreeBody, PhaseHeld, Drained, PastFirstCheck,
           TornFreesOnly, BodyOps, Closing, Inside
  <2> QED
    BY <2>1, <2>2, <2>3
<1>3. CASE ReallocBody(t)
  <2>1. CallsExact'
    <3>1. Counted' = Counted /\ calls' = calls
      BY <1>3 DEF ReallocBody, Counted
    <3> QED
      BY <3>1, CountSame
  <2>2. TypeOK'
    BY <1>3 DEF ReallocBody
  <2>3. PhaseHeld' /\ Drained' /\ PastFirstCheck' /\ TornFreesOnly' /\ BodyOps'
    BY <1>3 DEF ReallocBody, PhaseHeld, Drained, PastFirstCheck,
           TornFreesOnly, BodyOps, Closing, Inside
  <2> QED
    BY <2>1, <2>2, <2>3
<1>4. CASE ReallocRelease(t)
  <2>1. CallsExact'
    <3>1. Counted' = Counted /\ calls' = calls
      BY <1>4 DEF ReallocRelease, Counted
    <3> QED
      BY <3>1, CountSame
  <2>2. TypeOK'
    BY <1>4 DEF ReallocRelease
  <2>3. PhaseHeld' /\ Drained' /\ PastFirstCheck' /\ TornFreesOnly' /\ BodyOps'
    BY <1>4 DEF ReallocRelease, PhaseHeld, Drained, PastFirstCheck,
           TornFreesOnly, BodyOps, Closing, Inside
  <2> QED
    BY <2>1, <2>2, <2>3
<1>5. CASE StatsBody(t)
  <2>1. CallsExact'
    <3>1. Counted' = Counted /\ calls' = calls
      BY <1>5 DEF StatsBody, Counted
    <3> QED
      BY <3>1, CountSame
  <2>2. TypeOK'
    BY <1>5 DEF StatsBody
  <2>3. PhaseHeld' /\ Drained' /\ PastFirstCheck' /\ TornFreesOnly' /\ BodyOps'
    BY <1>5 DEF StatsBody, PhaseHeld, Drained, PastFirstCheck,
           TornFreesOnly, BodyOps, Closing, Inside
  <2> QED
    BY <2>1, <2>2, <2>3
<1> QED
  BY <1>1, <1>2, <1>3, <1>4, <1>5

(* The closing thread.                                                    *)
LEMMA FinishKeeps ==
  ASSUME IInv, NEW t \in Threads,
         \/ FinishClose(t)
         \/ FinishLeave(t)
         \/ FinishExclusive(t)
         \/ FinishDrained(t)
         \/ FinishBackoff(t)
         \/ Shutdown(t)
         \/ FinishSettle(t)
  PROVE  IInv'
<1> USE HeapAssumption DEF IInv, TypeOK, Return, Goto, Calls, PCs
<1>1. CASE FinishClose(t)
  <2>1. CallsExact'
    <3>1. Counted' = Counted /\ calls' = calls
      BY <1>1 DEF FinishClose, Counted
    <3> QED
      BY <3>1, CountSame
  <2>2. TypeOK'
    BY <1>1 DEF FinishClose
  <2>3. PhaseHeld' /\ Drained' /\ PastFirstCheck' /\ TornFreesOnly' /\ BodyOps'
    BY <1>1 DEF FinishClose, PhaseHeld, Drained, PastFirstCheck,
           TornFreesOnly, BodyOps, Closing, Inside
  <2> QED
    BY <2>1, <2>2, <2>3
<1>2. CASE FinishLeave(t)
  <2>1. CallsExact' /\ calls' \in 0..MaxCalls
    BY <1>2, CountOut
  <2>2. TypeOK'
    BY <1>2, <2>1 DEF FinishLeave
  <2>3. PhaseHeld' /\ Drained' /\ PastFirstCheck' /\ TornFreesOnly' /\ BodyOps'
    BY <1>2 DEF FinishLeave, PhaseHeld, Drained, PastFirstCheck,
           TornFreesOnly, BodyOps, Closing, Inside
  <2> QED
    BY <2>1, <2>2, <2>3
<1>3. CASE FinishExclusive(t)
  <2>1. CallsExact'
    <3>1. Counted' = Counted /\ calls' = calls
      BY <1>3 DEF FinishExclusive, Counted
    <3> QED
      BY <3>1, CountSame
  <2>2. TypeOK'
    BY <1>3 DEF FinishExclusive
  <2>3. PhaseHeld' /\ Drained' /\ PastFirstCheck' /\ TornFreesOnly' /\ BodyOps'
    BY <1>3 DEF FinishExclusive, PhaseHeld, Drained, PastFirstCheck,
           TornFreesOnly, BodyOps, Closing, Inside
  <2> QED
    BY <2>1, <2>2, <2>3
<1>4. CASE FinishDrained(t)
  <2>1. CallsExact'
    <3>1. Counted' = Counted /\ calls' = calls
      BY <1>4 DEF FinishDrained, Counted
    <3> QED
      BY <3>1, CountSame
  <2>2. TypeOK'
    BY <1>4 DEF FinishDrained
  <2>3. calls = 0 => Counted = {}
    BY CountedFinite, FS_EmptySet DEF CallsExact
  <2>4. Inside \subseteq Counted
    BY DEF Inside, Counted
  <2>5. PhaseHeld' /\ Drained' /\ PastFirstCheck' /\ TornFreesOnly' /\ BodyOps'
    BY <1>4, <2>3, <2>4 DEF FinishDrained, CallsExact, PhaseHeld, Drained, PastFirstCheck,
           TornFreesOnly, BodyOps, Closing, Inside
  <2> QED
    BY <2>1, <2>2, <2>5
<1>5. CASE FinishBackoff(t)
  <2>1. CallsExact'
    <3>1. Counted' = Counted /\ calls' = calls
      BY <1>5 DEF FinishBackoff, Counted
    <3> QED
      BY <3>1, CountSame
  <2>2. TypeOK'
    BY <1>5 DEF FinishBackoff
  <2>3. PhaseHeld' /\ Drained' /\ PastFirstCheck' /\ TornFreesOnly' /\ BodyOps'
    BY <1>5 DEF FinishBackoff, PhaseHeld, Drained, PastFirstCheck,
           TornFreesOnly, BodyOps, Closing, Inside
  <2> QED
    BY <2>1, <2>2, <2>3
<1>6. CASE Shutdown(t)
  <2>1. CallsExact'
    <3>1. Counted' = Counted /\ calls' = calls
      BY <1>6 DEF Shutdown, Counted
    <3> QED
      BY <3>1, CountSame
  <2>2. TypeOK'
    BY <1>6 DEF Shutdown, Outcomes
  <2>3. PhaseHeld' /\ Drained' /\ PastFirstCheck' /\ TornFreesOnly' /\ BodyOps'
    BY <1>6 DEF Shutdown, PhaseHeld, Drained, PastFirstCheck,
           TornFreesOnly, BodyOps, Closing, Inside
  <2> QED
    BY <2>1, <2>2, <2>3
<1>7. CASE FinishSettle(t)
  <2>1. CallsExact'
    <3>1. Counted' = Counted /\ calls' = calls
      BY <1>7 DEF FinishSettle, Counted
    <3> QED
      BY <3>1, CountSame
  <2>2. TypeOK'
    BY <1>7 DEF FinishSettle, Outcomes
  <2>3. PhaseHeld' /\ Drained' /\ PastFirstCheck' /\ TornFreesOnly' /\ BodyOps'
    BY <1>7 DEF FinishSettle, PhaseHeld, Drained, PastFirstCheck,
           TornFreesOnly, BodyOps, Closing, Inside
  <2> QED
    BY <2>1, <2>2, <2>3
<1> QED
  BY <1>1, <1>2, <1>3, <1>4, <1>5, <1>6, <1>7

-----------------------------------------------------------------------------
(* Every step of the heap runtime keeps the invariant.                     *)
LEMMA NextKeeps ==
  IInv /\ [Next]_vars => IInv'
<1> SUFFICES ASSUME IInv, [Next]_vars
             PROVE  IInv'
  OBVIOUS
<1>1. CASE UNCHANGED vars
  BY <1>1 DEF vars, IInv, TypeOK, CallsExact, Counted, PhaseHeld, Drained,
              PastFirstCheck, TornFreesOnly, BodyOps, Closing, Inside
<1>2. ASSUME NEW t \in Threads, Bind(t)
      PROVE  IInv'
  BY <1>2, BindKeeps
<1>3. ASSUME NEW t \in Threads, NEW o \in Calls, Call(t, o)
      PROVE  IInv'
  BY <1>3, EnterKeeps
<1>4. ASSUME NEW t \in Threads, Step(t)
      PROVE  IInv'
  <2>1. CASE BindPublish(t)
    BY <2>1, BindKeeps
  <2>2. CASE EnterLoad(t) \/ EnterOwner(t) \/ EnterCount(t)
             \/ EnterRecheck(t) \/ Leave(t)
    BY <2>2, EnterKeeps DEF Calls
  <2>3. CASE AllocBody(t) \/ FreeBody(t) \/ ReallocBody(t)
             \/ ReallocRelease(t) \/ StatsBody(t)
    BY <2>3, BodyKeeps
  <2>4. CASE FinishClose(t) \/ FinishLeave(t) \/ FinishExclusive(t)
             \/ FinishDrained(t) \/ FinishBackoff(t) \/ Shutdown(t)
             \/ FinishSettle(t)
    BY <2>4, FinishKeeps
  <2> QED
    BY <1>4, <2>1, <2>2, <2>3, <2>4 DEF Step
<1> QED
  BY <1>1, <1>2, <1>3, <1>4 DEF Next

(* An unbound heap satisfies the invariant.                                *)
LEMMA InitHolds ==
  Init => IInv
<1> SUFFICES ASSUME Init
             PROVE  IInv
  OBVIOUS
<1>1. Counted = {}
  BY DEF Init, Counted
<1>2. CallsExact
  BY <1>1, FS_EmptySet DEF Init, CallsExact
<1>3. TypeOK
  <2>1. phase \in 0..5 /\ calls \in 0..MaxCalls /\ live \in Nat
    BY HeapAssumption DEF Init
  <2>2. pc \in [Threads -> PCs] /\ op \in [Threads -> Calls \cup {"bind", "none"}]
    BY DEF Init, PCs
  <2> QED
    BY <2>1, <2>2 DEF Init, TypeOK, Outcomes
<1>4. Closing = {} /\ Inside = {}
  BY DEF Init, Closing, Inside
<1>5. PhaseHeld /\ Drained /\ PastFirstCheck /\ TornFreesOnly /\ BodyOps
  BY <1>4 DEF Init, PhaseHeld, Drained, PastFirstCheck, TornFreesOnly, BodyOps
<1> QED
  BY <1>2, <1>3, <1>5 DEF IInv

(* The inductive invariant holds in every reachable state of the heap.     *)
THEOREM HeapInvariant ==
  Spec => []IInv
BY InitHolds, NextKeeps, PTL DEF Spec

(* Phase, counter, owner and the threads' steps stay in their types; the   *)
(* counter never passes its maximum and never drops below zero.            *)
THEOREM HeapTypeCorrect ==
  Spec => []TypeOK
<1>1. IInv => TypeOK
  BY DEF IInv
<1> QED
  BY <1>1, HeapInvariant, PTL

(* The counter of R4SdkHeapFinish is exact: zero means nobody is inside.   *)
THEOREM HeapCallsExact ==
  Spec => []CallsExact
<1>1. IInv => CallsExact
  BY DEF IInv
<1> QED
  BY <1>1, HeapInvariant, PTL

(* vm.shutdown runs alone (R4SdkHeapFinish).                               *)
THEOREM HeapTeardownExclusive ==
  Spec => []TeardownExclusive
<1>1. IInv => TeardownExclusive
  BY DEF IInv, PhaseHeld, Drained, TeardownExclusive, Closing
<1> QED
  BY <1>1, HeapInvariant, PTL

(* No allocation follows a teardown that began, whether it finished or     *)
(* not (the comment of vm_allocator.shutdown).                             *)
THEOREM HeapNoAllocAfterTeardown ==
  Spec => NoAllocAfterTeardown
<1>1. IInv /\ [Next]_vars => [torn => live' <= live]_vars
  <2> SUFFICES ASSUME IInv, torn, [Next]_vars
               PROVE  live' <= live
    OBVIOUS
  <2> USE DEF IInv, TypeOK, TornFreesOnly
  <2>1. ASSUME NEW t \in Threads, FreeBody(t)
        PROVE  live' <= live
    BY <2>1 DEF FreeBody
  <2>2. ASSUME NEW t \in Threads, AllocBody(t) \/ ReallocBody(t) \/ ReallocRelease(t)
        PROVE  FALSE
    BY <2>2 DEF AllocBody, ReallocBody, ReallocRelease, Body
  <2>3. CASE live' = live
    BY <2>3
  <2> QED
    BY <2>1, <2>2, <2>3 DEF Next, Step, vars, Bind, BindPublish, Call, EnterLoad,
       EnterOwner, EnterCount, EnterRecheck, Leave, StatsBody, FinishClose,
       FinishLeave, FinishExclusive, FinishDrained, FinishBackoff, Shutdown,
       FinishSettle
<1> QED
  BY <1>1, HeapInvariant, PTL DEF Spec, NoAllocAfterTeardown

(* The phase moves one way apart from the return of a closing thread from  *)
(* 4 to 3 (R4SdkHeapFinish).                                               *)
THEOREM HeapNeverReopens ==
  Spec => NeverReopens
<1>1. IInv /\ [Next]_vars
        => [phase >= 3 => phase' >= 3 /\ (phase = 5 => phase' = 5)]_vars
  <2> SUFFICES ASSUME IInv, phase >= 3, [Next]_vars
               PROVE  phase' >= 3 /\ (phase = 5 => phase' = 5)
    OBVIOUS
  <2> USE DEF IInv, TypeOK, PhaseHeld
  <2>1. ASSUME NEW t \in Threads, Bind(t) \/ BindPublish(t)
        PROVE  FALSE
    BY <2>1 DEF Bind, BindPublish
  <2>2. ASSUME NEW t \in Threads,
               FinishClose(t) \/ FinishExclusive(t) \/ FinishBackoff(t)
               \/ FinishSettle(t)
        PROVE  phase' >= 3 /\ (phase = 5 => phase' = 5)
    BY <2>2 DEF FinishClose, FinishExclusive, FinishBackoff, FinishSettle, Closing
  <2>3. CASE phase' = phase
    BY <2>3
  <2> QED
    BY <2>1, <2>2, <2>3 DEF Next, Step, vars, Call, EnterLoad, EnterOwner,
       EnterCount, EnterRecheck, Leave, AllocBody, FreeBody, ReallocBody,
       ReallocRelease, StatsBody, Body, FinishLeave, FinishDrained, Shutdown
<1> QED
  BY <1>1, HeapInvariant, PTL DEF Spec, NeverReopens
=============================================================================
