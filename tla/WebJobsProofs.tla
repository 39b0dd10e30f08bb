--------------------------- MODULE WebJobsProofs ---------------------------
(***************************************************************************)
(* Proofs about WebJobs for any number of jobs and requests, and any       *)
(* number of redirects.                                                    *)
(***************************************************************************)
EXTENDS WebJobs, FiniteSetTheorems, TLAPS

Busy == {"start", "answer", "join", "deliver", "release"}

(* The owner works on a job that still holds its requests; a job is in one *)
(* hand at a time.                                                         *)
OwnerInv == /\ owner \in Busy => job \in Jobs
            /\ owner \in {"start", "deliver", "release"} => ~handle[job]
            /\ owner = "start" => active[job]
            /\ owner = "answer" => pending[job]

(* A thread exists as long as its handle does, and while it waits there is *)
(* a question on its stack.                                                *)
ThreadInv == \A j \in Jobs :
                /\ at[j] # "none" <=> handle[j]
                /\ at[j] # "none" => active[j]
                /\ at[j] = "waiting" => question[j] \in Questions
                /\ pending[j] => at[j] = "waiting"
                /\ answer[j] => at[j] = "waiting"

(* Beyond the first question of a hop, the hop is authorized.              *)
Permitted(j) == \/ at[j] \in {"connect", "exchange"}
                \/ at[j] = "waiting" /\ question[j] \in {"cookie", "sink"}
                \/ at[j] = "waiting" /\ question[j] = "authorize" /\ answer[j]

HopInv == \A j \in Jobs : Permitted(j) => authorized[j] = hop[j]

JInv == TypeOK /\ OwnerInv /\ ThreadInv /\ HopInv

LEMMA InitJInv == Init => JInv
  <1> SUFFICES ASSUME Init PROVE JInv
    OBVIOUS
  <1>1. TypeOK
    <2>1. 0 \in 0 .. MaxGen /\ \A j \in Jobs : 0 <= MaxHops[j]
      BY JobsAssumption
    <2>2. /\ request \in [Reqs -> [state : States, gen : 0 .. MaxGen]]
          /\ gen \in [Jobs -> 0 .. MaxGen]
      BY <2>1 DEF Init, States
    <2>3. hop \in [Jobs -> Nat] /\ \A j \in Jobs : hop[j] <= MaxHops[j]
      BY <2>1 DEF Init
    <2>4. /\ question \in [Jobs -> Questions \cup {Nothing}]
          /\ authorized \in [Jobs -> Nat \cup {Nothing}]
          /\ ids \in [Jobs -> SUBSET Reqs]
          /\ at \in [Jobs -> {"none", "hop", "waiting", "connect", "exchange", "after",
                              "exiting", "exited"}]
      BY DEF Init
    <2> QED
      BY <2>1, <2>2, <2>3, <2>4 DEF Init, TypeOK
  <1>2. OwnerInv /\ ThreadInv /\ HopInv
    BY DEF Init, OwnerInv, ThreadInv, HopInv, Permitted, Busy
  <1> QED
    BY <1>1, <1>2 DEF JInv

(* Steps that concern the document alone.                                  *)
LEMMA DocumentKeeps ==
  ASSUME JInv, UNCHANGED <<holding, shared, thread, ownerVars>>,
         alive' \in BOOLEAN, closing' \in BOOLEAN, generation' \in 0 .. MaxGen,
         request' \in [Reqs -> [state : States, gen : 0 .. MaxGen]]
  PROVE  JInv'
  <1>1. TypeOK'
    BY DEF JInv, TypeOK, holding, shared, thread, ownerVars
  <1>2. OwnerInv'
    BY DEF JInv, OwnerInv, holding, shared, ownerVars
  <1>3. ThreadInv' /\ HopInv'
    BY DEF JInv, ThreadInv, HopInv, Permitted, holding, shared, thread
  <1> QED
    BY <1>1, <1>2, <1>3 DEF JInv

LEMMA SetStateType ==
  ASSUME TypeOK, NEW R, NEW s \in States
  PROVE  SetState(R, s) \in [Reqs -> [state : States, gen : 0 .. MaxGen]]
  BY DEF TypeOK, SetState

LEMMA DocumentSteps ==
  ASSUME JInv, Leave \/ Close \/ \E r \in Reqs : Queue(r) \/ Abort(r)
  PROVE  JInv'
  <1>1. CASE Leave
    <2>1. request' \in [Reqs -> [state : States, gen : 0 .. MaxGen]]
      <3>1. TypeOK /\ request' = SetState(Open, "aborted") /\ "aborted" \in States
        BY <1>1 DEF Leave, JInv, States
      <3> QED
        BY <3>1, SetStateType
    <2>2. generation' \in 0 .. MaxGen
      BY <1>1, JobsAssumption DEF Leave, JInv, TypeOK
    <2>3. alive' \in BOOLEAN /\ closing' \in BOOLEAN
      BY <1>1, Zenon DEF Leave, JInv, TypeOK
    <2> QED
      BY <1>1, <2>1, <2>2, <2>3, DocumentKeeps DEF Leave
  <1>2. CASE Close
    BY <1>2, DocumentKeeps DEF Close, JInv, TypeOK
  <1>3. ASSUME NEW r \in Reqs, Queue(r) PROVE JInv'
    <2>1. request' \in [Reqs -> [state : States, gen : 0 .. MaxGen]]
      BY <1>3 DEF Queue, JInv, TypeOK, States
    <2> QED
      BY <1>3, <2>1, DocumentKeeps DEF Queue, JInv, TypeOK
  <1>4. ASSUME NEW r \in Reqs, Abort(r) PROVE JInv'
    <2>1. request' \in [Reqs -> [state : States, gen : 0 .. MaxGen]]
      BY <1>4, SetStateType DEF Abort, JInv, States
    <2> QED
      BY <1>4, <2>1, DocumentKeeps DEF Abort, JInv, TypeOK
  <1> QED
    BY <1>1, <1>2, <1>3, <1>4

-----------------------------------------------------------------------------
(* The owner.                                                              *)
LEMMA PrepareKeeps == ASSUME JInv, NEW j \in Jobs, NEW r \in Reqs, Prepare(j, r) PROVE JInv'
  <1> DEFINE joined == IF r \in Alike THEN {q \in Alike : Queued(q)} ELSE {}
  <1>1. /\ request' = SetState(joined \cup {r}, "in_flight")
        /\ ids' = [ids EXCEPT ![j] = joined \cup {r}]
    BY DEF Prepare, Take
  <1>2. request' \in [Reqs -> [state : States, gen : 0 .. MaxGen]]
    BY <1>1, SetStateType DEF JInv, States
  <1>3. joined \cup {r} \subseteq Reqs
    BY JobsAssumption
  <1>4. TypeOK'
    BY <1>1, <1>2, <1>3 DEF Prepare, JInv, TypeOK, thread
  <1>5. OwnerInv'
    BY DEF Prepare, JInv, TypeOK, OwnerInv, ThreadInv, Busy
  <1>6. ThreadInv' /\ HopInv'
    BY DEF Prepare, JInv, TypeOK, ThreadInv, HopInv, Permitted, thread
  <1> QED
    BY <1>4, <1>5, <1>6 DEF JInv

LEMMA StartKeeps == ASSUME JInv, Start PROVE JInv'
  <1>0. job \in Jobs /\ ~handle[job] /\ active[job] /\ at[job] = "none"
    BY DEF Start, JInv, OwnerInv, ThreadInv, Busy
  <1>1. TypeOK'
    BY <1>0 DEF Start, JInv, TypeOK, document, holding
  <1>2. OwnerInv'
    BY <1>0 DEF Start, JInv, TypeOK, OwnerInv, Busy, holding
  <1>3. ThreadInv' /\ HopInv'
    BY <1>0 DEF Start, JInv, TypeOK, ThreadInv, HopInv, Permitted, holding
  <1> QED
    BY <1>1, <1>2, <1>3 DEF JInv

LEMMA PollKeeps == ASSUME JInv, NEW j \in Jobs, Poll(j) \/ Deinit(j) PROVE JInv'
  <1>0. /\ owner' \in {"answer", "join"} /\ job' = j /\ ending' \in BOOLEAN
        /\ owner' = "answer" => pending[j]
        /\ \E b \in BOOLEAN : stop' = [stop EXCEPT ![j] = b]
        /\ UNCHANGED <<document, holding, handle, done, pending, answer, result, thread, todo>>
    <2>1. CASE Poll(j)
      <3>1. (stop[j] \/ ~Wanted(j) \/ closing) \in BOOLEAN
        BY DEF JInv, TypeOK
      <3>2. stop' = [stop EXCEPT ![j] = (stop[j] \/ ~Wanted(j) \/ closing)]
        BY <2>1 DEF Poll
      <3>3. /\ owner' \in {"answer", "join"} /\ job' = j /\ ending' \in BOOLEAN
            /\ owner' = "answer" => pending[j]
            /\ UNCHANGED <<document, holding, handle, done, pending, answer, result, thread, todo>>
        BY <2>1 DEF Poll, Serves, JInv, TypeOK
      <3> QED
        BY <3>1, <3>2, <3>3
    <2>2. CASE Deinit(j)
      BY <2>2 DEF Deinit, Serves, JInv, TypeOK
    <2> QED
      BY <2>1, <2>2
  <1>1. TypeOK'
    BY <1>0 DEF JInv, TypeOK, document, holding, thread
  <1>2. OwnerInv'
    BY <1>0 DEF JInv, OwnerInv, Busy
  <1>3. ThreadInv' /\ HopInv'
    BY <1>0 DEF JInv, ThreadInv, HopInv, Permitted, holding, thread
  <1> QED
    BY <1>1, <1>2, <1>3 DEF JInv

LEMMA AnswerKeeps == ASSUME JInv, Answer PROVE JInv'
  <1>0. job \in Jobs /\ pending[job] /\ at[job] = "waiting" /\ handle[job]
    BY DEF Answer, JInv, OwnerInv, ThreadInv, Busy
  <1> PICK yes \in BOOLEAN :
         /\ answer' = [answer EXCEPT ![job] = yes]
         /\ authorized' = [authorized EXCEPT
                ![job] = IF question[job] = "authorize" /\ yes THEN hop[job] ELSE @]
    BY DEF Answer
  <1>1. TypeOK'
    BY <1>0 DEF Answer, JInv, TypeOK, document, holding
  <1>2. OwnerInv'
    BY <1>0 DEF Answer, JInv, TypeOK, OwnerInv, Busy
  <1>3. ThreadInv'
    BY <1>0 DEF Answer, JInv, TypeOK, ThreadInv, holding
  <1>4. HopInv'
    BY <1>0 DEF Answer, JInv, TypeOK, HopInv, Permitted
  <1> QED
    BY <1>1, <1>2, <1>3, <1>4 DEF JInv

LEMMA JoinKeeps == ASSUME JInv, Join PROVE JInv'
  <1>0. job \in Jobs
    BY DEF Join, JInv, OwnerInv, Busy
  <1>1. CASE done[job] /\ at[job] = "exited"
    <2>1. /\ handle' = [handle EXCEPT ![job] = FALSE]
          /\ at' = [at EXCEPT ![job] = "none"]
          /\ hop' = [hop EXCEPT ![job] = 0]
          /\ authorized' = [authorized EXCEPT ![job] = Nothing]
          /\ owner' \in {"release", "deliver"} /\ todo' \in {{}, ids[job]} /\ job' = job
          /\ UNCHANGED <<document, holding, stop, done, pending, answer, result, question, ending>>
      BY <1>1 DEF Join, Joined, Gone
    <2>2. TypeOK'
      <3>1. MaxHops[job] \in Nat
        BY <1>0, JobsAssumption
      <3> QED
        BY <1>0, <2>1, <3>1 DEF JInv, TypeOK, document, holding
    <2>3. OwnerInv'
      BY <1>0, <2>1 DEF JInv, TypeOK, OwnerInv, Busy
    <2>4. ThreadInv' /\ HopInv'
      BY <1>0, <1>1, <2>1 DEF JInv, TypeOK, ThreadInv, HopInv, Permitted, holding
    <2> QED
      BY <2>2, <2>3, <2>4 DEF JInv
  <1>2. CASE ~(done[job] /\ at[job] = "exited")
    <2>1. UNCHANGED <<document, holding, shared, thread, ending, todo>>
      BY <1>2 DEF Join, shared, thread
    <2>2. \/ owner' = "answer" /\ pending[job] /\ job' = job
          \/ owner' = "join" /\ job' = job
          \/ owner' = "loop" /\ job' = Nothing
      BY <1>2 DEF Join, Again, Serves
    <2>3. TypeOK'
      BY <1>0, <2>1, <2>2 DEF JInv, TypeOK, document, holding, shared, thread
    <2>4. OwnerInv'
      BY <1>0, <2>1, <2>2 DEF JInv, OwnerInv, Busy, shared
    <2>5. ThreadInv' /\ HopInv'
      BY <2>1 DEF JInv, ThreadInv, HopInv, Permitted, holding, shared, thread
    <2> QED
      BY <2>3, <2>4, <2>5 DEF JInv
  <1> QED
    BY <1>1, <1>2

LEMMA ScriptType ==
  ASSUME TypeOK, NEW before \in [Reqs -> [state : States, gen : 0 .. MaxGen]], Script(before)
  PROVE  /\ request' \in [Reqs -> [state : States, gen : 0 .. MaxGen]]
         /\ generation' \in 0 .. MaxGen /\ alive' \in BOOLEAN
  <1>1. CASE request' = before /\ UNCHANGED <<generation, alive>>
    BY <1>1 DEF TypeOK
  <1>2. CASE \E r \in Reqs : /\ request' = [before EXCEPT ![r].state = "aborted"]
                             /\ UNCHANGED <<generation, alive>>
    BY <1>2 DEF TypeOK, States
  <1>3. CASE /\ generation < MaxGen
             /\ generation' = generation + 1
             /\ request' = [r \in Reqs |-> IF before[r].state \in {"queued", "in_flight"}
                                     THEN [before[r] EXCEPT !.state = "aborted"] ELSE before[r]]
             /\ alive' \in {alive, FALSE}
    <2>1. generation' \in 0 .. MaxGen
      BY <1>3, JobsAssumption DEF TypeOK
    <2>2. alive' \in BOOLEAN
      BY <1>3, Zenon DEF TypeOK
    <2>3. \A r \in Reqs : [before[r] EXCEPT !.state = "aborted"] \in [state : States, gen : 0 .. MaxGen]
      BY DEF States
    <2>4. request' \in [Reqs -> [state : States, gen : 0 .. MaxGen]]
      BY <1>3, <2>3
    <2> QED
      BY <2>1, <2>2, <2>4
  <1> QED
    BY <1>1, <1>2, <1>3 DEF Script

LEMMA DeliverKeeps == ASSUME JInv, Deliver PROVE JInv'
  <1>0. job \in Jobs /\ ~handle[job] /\ owner = "deliver"
    BY DEF Deliver, JInv, OwnerInv, Busy
  <1>1. /\ request' \in [Reqs -> [state : States, gen : 0 .. MaxGen]]
        /\ generation' \in 0 .. MaxGen /\ alive' \in BOOLEAN
    <2>1. ASSUME NEW r \in todo, \E s \in Outcomes(job) : Script(SetState({r}, s))
          PROVE  /\ request' \in [Reqs -> [state : States, gen : 0 .. MaxGen]]
                 /\ generation' \in 0 .. MaxGen /\ alive' \in BOOLEAN
      <3> PICK s \in Outcomes(job) : Script(SetState({r}, s))
        BY <2>1
      <3>1. s \in States
        BY DEF Outcomes, States
      <3>2. SetState({r}, s) \in [Reqs -> [state : States, gen : 0 .. MaxGen]]
        BY <3>1, SetStateType DEF JInv
      <3> QED
        BY <3>2, ScriptType DEF JInv
    <2> QED
      BY <2>1 DEF Deliver, JInv, TypeOK
  <1>2. /\ owner' \in {"deliver", "release"} /\ todo' \in SUBSET Reqs
        /\ UNCHANGED <<closing, holding, shared, thread, job, ending>>
    BY <1>0 DEF Deliver, JInv, TypeOK
  <1>3. TypeOK'
    BY <1>1, <1>2 DEF JInv, TypeOK, holding, shared, thread
  <1>4. OwnerInv'
    BY <1>0, <1>2 DEF JInv, OwnerInv, Busy, shared
  <1>5. ThreadInv' /\ HopInv'
    BY <1>2 DEF JInv, ThreadInv, HopInv, Permitted, holding, shared, thread
  <1> QED
    BY <1>3, <1>4, <1>5 DEF JInv

LEMMA ReleaseKeeps == ASSUME JInv, Release PROVE JInv'
  <1>0. job \in Jobs /\ ~handle[job] /\ at[job] = "none"
    BY DEF Release, JInv, OwnerInv, ThreadInv, Busy
  <1>1. TypeOK'
    <2>1. 0 \in 0 .. MaxGen
      BY JobsAssumption
    <2>2. gen' \in [Jobs -> 0 .. MaxGen] /\ ids' \in [Jobs -> SUBSET Reqs]
      BY <1>0, <2>1 DEF Release, JInv, TypeOK
    <2>3. active' \in [Jobs -> BOOLEAN] /\ result' \in [Jobs -> {"response", "failure"}]
      BY <1>0 DEF Release, JInv, TypeOK
    <2> QED
      BY <2>2, <2>3 DEF Release, JInv, TypeOK, document, thread
  <1>2. OwnerInv'
    BY <1>0 DEF Release, OwnerInv, Busy
  <1>3. ThreadInv' /\ HopInv'
    BY <1>0 DEF Release, JInv, TypeOK, ThreadInv, HopInv, Permitted, thread
  <1> QED
    BY <1>1, <1>2, <1>3 DEF JInv

-----------------------------------------------------------------------------
(* The thread of a job.                                                    *)

(* A step of a thread changes what belongs to its own job.                 *)
OthersStay(j) == \A i \in Jobs \ {j} :
    /\ at'[i] = at[i] /\ question'[i] = question[i] /\ hop'[i] = hop[i]
    /\ done'[i] = done[i] /\ pending'[i] = pending[i] /\ answer'[i] = answer[i]

WorkerTypes(j) ==
    /\ at' \in [Jobs -> {"none", "hop", "waiting", "connect", "exchange", "after",
                         "exiting", "exited"}]
    /\ question' \in [Jobs -> Questions \cup {Nothing}]
    /\ done' \in [Jobs -> BOOLEAN] /\ pending' \in [Jobs -> BOOLEAN]
    /\ answer' \in [Jobs -> BOOLEAN]
    /\ result' \in [Jobs -> {"response", "failure"}]
    /\ hop' \in [Jobs -> Nat] /\ \A i \in Jobs : hop'[i] <= MaxHops[i]

WorkerChange(j) ==
    /\ WorkerTypes(j) /\ OthersStay(j)
    /\ at[j] \notin {"none", "exited"} /\ at'[j] # "none"
    /\ pending[j] => pending'[j]
    /\ UNCHANGED <<document, holding, handle, stop, authorized, ownerVars>>

LEMMA AskFrame ==
  ASSUME TypeOK, NEW j \in Jobs, NEW q \in Questions, Ask(j, q),
         at[j] \notin {"none", "exited"}
  PROVE  WorkerChange(j)
  <1>1. WorkerTypes(j)
    BY DEF Ask, GoesTo, TypeOK, WorkerTypes
  <1>2. OthersStay(j)
    BY DEF Ask, GoesTo, TypeOK, OthersStay
  <1>3. at'[j] # "none" /\ (pending[j] => pending'[j])
    BY DEF Ask, GoesTo, TypeOK
  <1> QED
    BY <1>1, <1>2, <1>3 DEF Ask, WorkerChange

LEMMA EndsFrame ==
  ASSUME TypeOK, NEW j \in Jobs, NEW r \in {"response", "failure"}, Ends(j, r),
         at[j] \notin {"none", "exited"},
         UNCHANGED <<document, holding, handle, stop, pending, answer, question, hop,
                     authorized, ownerVars>>
  PROVE  WorkerChange(j)
  <1>1. WorkerTypes(j)
    BY DEF Ends, GoesTo, TypeOK, WorkerTypes
  <1>2. OthersStay(j)
    BY DEF Ends, GoesTo, TypeOK, OthersStay
  <1>3. at'[j] # "none" /\ (pending[j] => pending'[j])
    BY DEF Ends, GoesTo, TypeOK
  <1> QED
    BY <1>1, <1>2, <1>3 DEF WorkerChange

LEMMA QuietFrame ==
  ASSUME TypeOK, NEW j \in Jobs, NEW l \in {"after", "exited"}, Quietly(j, l),
         at[j] \notin {"none", "exited"}
  PROVE  WorkerChange(j)
  BY DEF Quietly, GoesTo, TypeOK, WorkerTypes, OthersStay, WorkerChange, shared

LEMMA WaitFrame ==
  ASSUME JInv, NEW j \in Jobs, Wait(j)
  PROVE  WorkerChange(j)
  <1>0. /\ TypeOK /\ at[j] = "waiting" /\ question[j] \in Questions
        /\ question' = [question EXCEPT ![j] = Nothing]
        /\ answer' = [answer EXCEPT ![j] = FALSE]
        /\ UNCHANGED <<document, holding, handle, stop, pending, hop, authorized, ownerVars>>
    BY DEF JInv, ThreadInv, Wait, Leaves
  <1>1. CASE question[j] = "authorize" /\ ~answer[j]
    <2>1. Ends(j, "failure")
      BY <1>1 DEF Wait, Leaves
    <2>2. WorkerTypes(j)
      BY <1>0, <2>1 DEF Ends, GoesTo, TypeOK, WorkerTypes
    <2>3. OthersStay(j)
      BY <1>0, <2>1 DEF Ends, GoesTo, TypeOK, OthersStay
    <2> QED
      BY <1>0, <2>1, <2>2, <2>3 DEF Ends, GoesTo, TypeOK, WorkerChange
  <1>2. CASE ~(question[j] = "authorize" /\ ~answer[j])
    <2>1. PICK l \in {"connect", "exchange", "after"} :
              at' = [at EXCEPT ![j] = l] /\ UNCHANGED <<result, done>>
      BY <1>0, <1>2 DEF Wait, Leaves, GoesTo, Questions
    <2>2. WorkerTypes(j)
      BY <1>0, <2>1 DEF TypeOK, WorkerTypes
    <2>3. OthersStay(j)
      BY <1>0, <2>1 DEF TypeOK, OthersStay
    <2> QED
      BY <1>0, <2>1, <2>2, <2>3 DEF TypeOK, WorkerChange
  <1> QED
    BY <1>1, <1>2

LEMMA AfterFrame ==
  ASSUME TypeOK, NEW j \in Jobs, After(j)
  PROVE  WorkerChange(j)
  <1>0. at[j] = "after"
    BY DEF After
  <1>1. CASE /\ hop[j] < MaxHops[j]
             /\ hop' = [hop EXCEPT ![j] = @ + 1]
             /\ GoesTo(j, NextHop)
             /\ UNCHANGED <<document, holding, shared, question, authorized, ownerVars>>
    <2>1. \A i \in Jobs : MaxHops[i] \in Nat /\ hop[i] \in Nat /\ hop[i] <= MaxHops[i]
      BY JobsAssumption DEF TypeOK
    <2>2. hop' \in [Jobs -> Nat] /\ \A i \in Jobs : hop'[i] <= MaxHops[i]
      BY <1>1, <2>1 DEF TypeOK
    <2>3. WorkerTypes(j)
      BY <1>1, <2>2 DEF GoesTo, NextHop, shared, TypeOK, WorkerTypes
    <2>4. OthersStay(j)
      BY <1>1 DEF GoesTo, NextHop, shared, TypeOK, OthersStay
    <2> QED
      BY <1>0, <1>1, <2>3, <2>4 DEF GoesTo, NextHop, shared, TypeOK, WorkerChange
  <1>2. CASE Ends(j, "response") /\ UNCHANGED <<document, holding, handle, stop, pending, answer,
                                                question, hop, authorized, ownerVars>>
    BY <1>0, <1>2, EndsFrame
  <1>3. CASE Fails(j)
    BY <1>0, <1>3, EndsFrame DEF Fails
  <1> QED
    BY <1>1, <1>2, <1>3 DEF After

LEMMA WorkerFrame ==
  ASSUME JInv, NEW j \in Jobs, Worker(j)
  PROVE  WorkerChange(j)
  <1>0. TypeOK
    BY DEF JInv
  <1>1. CASE Hop(j)
    <2>1. at[j] = "hop" /\ (Fails(j) \/ Ask(j, "authorize"))
      BY <1>1 DEF Hop
    <2>2. CASE Fails(j)
      BY <1>0, <2>1, <2>2, EndsFrame DEF Fails
    <2>3. CASE Ask(j, "authorize")
      BY <1>0, <2>1, <2>3, AskFrame DEF Questions
    <2> QED
      BY <2>1, <2>2, <2>3
  <1>2. CASE Wait(j)
    BY <1>2, WaitFrame
  <1>3. CASE Connect(j)
    <2>1. at[j] = "connect" /\ (Fails(j) \/ Ask(j, "cookie"))
      BY <1>3 DEF Connect
    <2>2. CASE Fails(j)
      BY <1>0, <2>1, <2>2, EndsFrame DEF Fails
    <2>3. CASE Ask(j, "cookie")
      BY <1>0, <2>1, <2>3, AskFrame DEF Questions
    <2> QED
      BY <2>1, <2>2, <2>3
  <1>4. CASE Exchange(j)
    <2>1. at[j] = "exchange" /\ (Fails(j) \/ Ask(j, "sink") \/ Quietly(j, "after"))
      BY <1>4 DEF Exchange
    <2>2. CASE Fails(j)
      BY <1>0, <2>1, <2>2, EndsFrame DEF Fails
    <2>3. CASE Ask(j, "sink")
      BY <1>0, <2>1, <2>3, AskFrame DEF Questions
    <2>4. CASE Quietly(j, "after")
      BY <1>0, <2>1, <2>4, QuietFrame
    <2> QED
      BY <2>1, <2>2, <2>3, <2>4
  <1>5. CASE After(j)
    BY <1>0, <1>5, AfterFrame
  <1>6. CASE Exit(j)
    BY <1>0, <1>6, QuietFrame DEF Exit
  <1> QED
    BY <1>1, <1>2, <1>3, <1>4, <1>5, <1>6 DEF Worker

LEMMA WorkerKeeps == ASSUME JInv, NEW j \in Jobs, Worker(j) PROVE JInv'
  <1>0. WorkerChange(j)
    BY WorkerFrame
  <1>1. TypeOK'
    BY <1>0 DEF WorkerChange, WorkerTypes, JInv, TypeOK, document, holding, ownerVars
  <1>2. OwnerInv'
    <2>1. \A i \in Jobs : pending[i] => pending'[i]
      BY <1>0 DEF WorkerChange, OthersStay
    <2> QED
      BY <1>0, <2>1 DEF WorkerChange, JInv, OwnerInv, Busy, holding, ownerVars
  <1>3. ThreadInv'
    <2>1. ASSUME NEW i \in Jobs, i # j
          PROVE  /\ at'[i] = at[i] /\ handle'[i] = handle[i] /\ active'[i] = active[i]
                 /\ question'[i] = question[i] /\ pending'[i] = pending[i] /\ answer'[i] = answer[i]
      BY <1>0, <2>1 DEF WorkerChange, OthersStay, holding
    <2>2. /\ at'[j] # "none" /\ handle'[j] /\ active'[j]
      BY <1>0 DEF WorkerChange, JInv, ThreadInv, holding
    <2>3. /\ at'[j] = "waiting" => question'[j] \in Questions
          /\ pending'[j] => at'[j] = "waiting"
          /\ answer'[j] => at'[j] = "waiting"
      <3> USE DEF JInv, TypeOK, ThreadInv, shared
      <3>1. CASE Hop(j)
        BY <3>1 DEF Hop, Ask, Fails, Ends, GoesTo, Questions
      <3>2. CASE Wait(j)
        <4>1. question[j] \in Questions
          BY <3>2 DEF Wait
        <4> QED
          BY <3>2, <4>1 DEF Wait, Answered, Leaves, Ends, GoesTo, Questions
      <3>3. CASE Connect(j)
        BY <3>3 DEF Connect, Ask, Fails, Ends, GoesTo, Questions
      <3>4. CASE Exchange(j)
        BY <3>4 DEF Exchange, Ask, Quietly, Fails, Ends, GoesTo, Questions
      <3>5. CASE After(j)
        BY <3>5 DEF After, NextHop, Fails, Ends, GoesTo
      <3>6. CASE Exit(j)
        BY <3>6 DEF Exit, Quietly, GoesTo
      <3> QED
        BY <3>1, <3>2, <3>3, <3>4, <3>5, <3>6 DEF Worker
    <2> QED
      BY <2>1, <2>2, <2>3 DEF JInv, ThreadInv
  <1>4. HopInv'
    <2>1. ASSUME NEW i \in Jobs, i # j
          PROVE  /\ at'[i] = at[i] /\ question'[i] = question[i] /\ answer'[i] = answer[i]
                 /\ authorized'[i] = authorized[i] /\ hop'[i] = hop[i]
      BY <1>0, <2>1 DEF WorkerChange, OthersStay
    <2>2. Permitted(j)' => authorized'[j] = hop'[j]
      <3> USE DEF JInv, TypeOK, HopInv, Permitted, ThreadInv, shared
      <3>1. CASE Hop(j)
        BY <3>1 DEF Hop, Ask, Fails, Ends, GoesTo
      <3>2. CASE Wait(j)
        <4>1. question[j] \in Questions
          BY <3>2 DEF Wait
        <4> QED
          BY <3>2, <4>1 DEF Wait, Answered, Leaves, Ends, GoesTo, Questions
      <3>3. CASE Connect(j)
        BY <3>3 DEF Connect, Ask, Fails, Ends, GoesTo
      <3>4. CASE Exchange(j)
        BY <3>4 DEF Exchange, Ask, Quietly, Fails, Ends, GoesTo
      <3>5. CASE After(j)
        BY <3>5 DEF After, NextHop, Fails, Ends, GoesTo
      <3>6. CASE Exit(j)
        BY <3>6 DEF Exit, Quietly, GoesTo
      <3> QED
        BY <3>1, <3>2, <3>3, <3>4, <3>5, <3>6 DEF Worker
    <2> QED
      BY <2>1, <2>2 DEF JInv, HopInv, Permitted
  <1> QED
    BY <1>1, <1>2, <1>3, <1>4 DEF JInv

-----------------------------------------------------------------------------
LEMMA NextKeeps == JInv /\ [Next]_vars => JInv'
  <1> SUFFICES ASSUME JInv, [Next]_vars PROVE JInv'
    OBVIOUS
  <1>1. CASE Leave \/ Close \/ \E r \in Reqs : Queue(r) \/ Abort(r)
    BY <1>1, DocumentSteps
  <1>2. ASSUME NEW j \in Jobs, NEW r \in Reqs, Prepare(j, r) PROVE JInv'
    BY <1>2, PrepareKeeps
  <1>3. ASSUME NEW j \in Jobs, Poll(j) \/ Deinit(j) PROVE JInv'
    BY <1>3, PollKeeps
  <1>4. ASSUME NEW j \in Jobs, Worker(j) PROVE JInv'
    BY <1>4, WorkerKeeps
  <1>5. CASE Working
    BY <1>5, StartKeeps, AnswerKeeps, JoinKeeps, DeliverKeeps, ReleaseKeeps DEF Working
  <1>6. CASE UNCHANGED vars
    BY <1>6, DocumentKeeps DEF vars, document, JInv, TypeOK
  <1> QED
    BY <1>1, <1>2, <1>3, <1>4, <1>5, <1>6 DEF Next

LEMMA SpecJInv == Spec => []JInv
  BY InitJInv, NextKeeps, PTL DEF Spec

(* The variables keep their types.                                         *)
THEOREM TypeCorrect == Spec => []TypeOK
  <1>1. JInv => TypeOK
    BY DEF JInv
  <1> QED
    BY <1>1, SpecJInv, PTL

(* What the owner calls in service is a frame its thread has not left,     *)
(* whatever was cancelled when.                                            *)
THEOREM FramesAlive == Spec => []FrameAlive
  <1>1. JInv => FrameAlive
    <2> SUFFICES ASSUME JInv, NEW j \in Jobs
                 PROVE  /\ pending[j] => at[j] = "waiting" /\ question[j] # Nothing
                        /\ owner = "answer" => pending[job]
      BY DEF FrameAlive
    <2>1. owner = "answer" => pending[job]
      BY DEF JInv, OwnerInv
    <2>2. pending[j] => at[j] = "waiting" /\ question[j] \in Questions
      BY DEF JInv, ThreadInv
    <2> QED
      BY <2>1, <2>2, JobsAssumption DEF Questions
  <1> QED
    BY <1>1, SpecJInv, PTL

(* collect returns true only when the thread is gone, so the buffers of a  *)
(* job outlive it.                                                         *)
THEOREM BuffersOutlive == Spec => []BuffersHeld
  <1>1. JInv => BuffersHeld
    BY DEF JInv, ThreadInv, BuffersHeld
  <1> QED
    BY <1>1, SpecJInv, PTL

(* No target of a fetch is contacted without the owner's permission for    *)
(* this very target.                                                       *)
THEOREM HopsAuthorized == Spec => []EveryHopAuthorized
  <1>1. JInv => EveryHopAuthorized
    BY DEF JInv, HopInv, Permitted, EveryHopAuthorized
  <1> QED
    BY <1>1, SpecJInv, PTL
-----------------------------------------------------------------------------
(* The requests of the jobs.                                               *)

(* How a request may change unless it is taken into a job.                 *)
Moves(r) == \/ request'[r] = request[r]
            \/ /\ request[r].state = "free"
               /\ request'[r].state = "queued" /\ request'[r].gen = generation'
            \/ /\ request[r].state # "free"
               /\ request'[r].state \in {"aborted", "complete", "failed"}
               /\ request'[r].gen = request[r].gen

(* Nothing is open that belongs to a document which was left.              *)
Current == \A r \in Open : request[r].gen = generation

(* A job has its own requests, each of them taken from the queue;          *)
Owned == \A j \in Jobs : \A r \in ids[j] :
            /\ active[j] /\ request[r].gen = gen[j]
            /\ request[r].state \notin {"free", "queued"}
            /\ \A i \in Jobs : r \in ids[i] => i = j

(* what is in flight is in a job;                                          *)
Covered == alive /\ ~closing =>
              \A r \in Reqs : request[r].state = "in_flight" => \E j \in Jobs : r \in ids[j]

(* and what has been delivered is no more in flight.                       *)
Delivered == /\ ending => closing
             /\ owner \in {"deliver", "release"} /\ ~ending /\ alive =>
                  \A r \in ids[job] : (owner = "deliver" => r \notin todo)
                                         => request[r].state # "in_flight"

Serving == Current /\ Owned /\ Covered /\ Delivered

LEMMA InitServing == Init => Serving
  BY DEF Init, Serving, Current, Open, Owned, Covered, Delivered

(* Steps that take no request into a job and let none go.                  *)
LEMMA MovesKeep ==
  ASSUME TypeOK, Current, Owned, Covered, UNCHANGED holding, \A r \in Reqs : Moves(r),
         alive' => alive, closing => closing'
  PROVE  Owned' /\ Covered'
  <1>1. Owned'
    BY DEF TypeOK, Owned, Moves, holding
  <1>2. Covered'
    BY DEF TypeOK, Covered, Moves, holding
  <1> QED BY <1>1, <1>2

LEMMA ScriptMoves ==
  ASSUME TypeOK, Current, NEW r \in Reqs, request[r].state = "in_flight",
         NEW s \in {"complete", "failed"}, Script(SetState({r}, s))
  PROVE  /\ \A q \in Reqs : Moves(q)
         /\ Current' /\ (alive' => alive) /\ request'[r].state # "in_flight"
  <1> DEFINE before == SetState({r}, s)
  <1>1. /\ before \in [Reqs -> [state : States, gen : 0 .. MaxGen]]
        /\ before[r].state = s /\ before[r].gen = request[r].gen
        /\ \A q \in Reqs \ {r} : before[q] = request[q]
    BY DEF SetState, TypeOK, States
  <1> HIDE DEF before
  <1>2. CASE request' = before /\ UNCHANGED <<generation, alive>>
    BY <1>1, <1>2 DEF Moves, Current, Open, TypeOK
  <1>3. CASE \E q \in Reqs : /\ Abortable(q)
                             /\ request' = [before EXCEPT ![q].state = "aborted"]
                             /\ UNCHANGED <<generation, alive>>
    <2> PICK q \in Reqs : Abortable(q) /\ request' = [before EXCEPT ![q].state = "aborted"]
      BY <1>3
    <2>1. /\ request'[q].state = "aborted" /\ request'[q].gen = request[q].gen
          /\ request[q].state # "free"
          /\ \A p \in Reqs \ {q} : request'[p] = before[p]
      BY <1>1 DEF Abortable
    <2>2. /\ Moves(q) /\ \A p \in Reqs \ {q} : Moves(p)
          /\ \A p \in Reqs : p \in Open' => p \in Open /\ request'[p].gen = request[p].gen
      BY <1>1, <2>1 DEF Moves, Open
    <2> QED BY <1>1, <1>3, <2>1, <2>2 DEF Current, Open
  <1>4. CASE /\ generation' = generation + 1
             /\ request' = [q \in Reqs |-> IF before[q].state \in {"queued", "in_flight"}
                                     THEN [before[q] EXCEPT !.state = "aborted"] ELSE before[q]]
             /\ alive' \in {alive, FALSE}
    <2>1. \A q \in Reqs : before[q].state \in {"queued", "in_flight"} =>
              [before[q] EXCEPT !.state = "aborted"].state = "aborted"
              /\ [before[q] EXCEPT !.state = "aborted"].gen = before[q].gen
      BY <1>1
    <2>2. \A q \in Reqs : Moves(q) /\ q \notin Open'
      BY <1>1, <1>4, <2>1 DEF Moves, Open
    <2>3. Current'
      BY <2>2 DEF Current, Open
    <2>4. request'[r].state # "in_flight"
      BY <2>2 DEF Open
    <2>5. alive' => alive
      BY <1>4, Zenon
    <2> QED BY <2>2, <2>3, <2>4, <2>5
  <1> QED BY <1>2, <1>3, <1>4 DEF Script, before

LEMMA DocumentMoves ==
  ASSUME TypeOK, Current, Leave \/ Close \/ \E r \in Reqs : Queue(r) \/ Abort(r)
  PROVE  /\ \A q \in Reqs : Moves(q)
         /\ Current' /\ (alive' => alive) /\ (closing => closing')
  <1>1. CASE Leave
    <2>1. \A q \in Reqs : Moves(q) /\ q \notin Open'
      BY <1>1 DEF Leave, TypeOK, Moves, SetState, Open
    <2>2. Current'
      BY <2>1 DEF Current, Open
    <2>3. alive' => alive
      BY <1>1, Zenon DEF Leave
    <2> QED BY <1>1, <2>1, <2>2, <2>3 DEF Leave
  <1>2. CASE Close
    BY <1>2 DEF Close, Moves, Current, Open
  <1>3. ASSUME NEW r \in Reqs, Queue(r)
        PROVE  (\A q \in Reqs : Moves(q)) /\ Current' /\ (alive' => alive) /\ (closing => closing')
    BY <1>3 DEF Queue, TypeOK, Moves, Current, Open
  <1>4. ASSUME NEW r \in Reqs, Abort(r)
        PROVE  (\A q \in Reqs : Moves(q)) /\ Current' /\ (alive' => alive) /\ (closing => closing')
    BY <1>4 DEF Abort, Abortable, SetState, TypeOK, Moves, Current, Open
  <1> QED BY <1>1, <1>2, <1>3, <1>4

LEMMA DocumentServes ==
  ASSUME JInv, Serving, Leave \/ Close \/ \E r \in Reqs : Queue(r) \/ Abort(r)
  PROVE  Serving'
  <1>1. UNCHANGED <<holding, ownerVars>>
    BY DEF Leave, Close, Queue, Abort
  <1>2. /\ \A q \in Reqs : Moves(q)
        /\ Current' /\ (alive' => alive) /\ (closing => closing')
    BY DocumentMoves DEF JInv, Serving
  <1>3. Owned' /\ Covered'
    BY <1>1, <1>2, MovesKeep DEF JInv, Serving
  <1>4. Delivered'
    <2>1. owner \in {"deliver", "release"} => job \in Jobs
      BY DEF JInv, OwnerInv, Busy
    <2> QED BY <1>1, <1>2, <2>1 DEF Serving, Delivered, Moves, JInv, TypeOK, holding, ownerVars
  <1> QED BY <1>2, <1>3, <1>4 DEF Serving

LEMMA PrepareServes ==
  ASSUME JInv, Serving, NEW j \in Jobs, NEW r \in Reqs, Prepare(j, r)
  PROVE  Serving'
  <1> DEFINE taken == (IF r \in Alike THEN {q \in Alike : Queued(q)} ELSE {}) \cup {r}
  <1>1. taken \subseteq Reqs /\ \A q \in taken : Queued(q)
    BY JobsAssumption DEF Prepare
  <1>2. /\ request' = SetState(taken, "in_flight")
        /\ ids' = [ids EXCEPT ![j] = taken]
        /\ active' = [active EXCEPT ![j] = TRUE]
        /\ gen' = [gen EXCEPT ![j] = generation]
        /\ ~active[j] /\ owner' = "start"
        /\ UNCHANGED <<alive, closing, generation, ending>>
    BY DEF Prepare, Take
  <1> HIDE DEF taken
  <1>3. \A q \in Reqs : /\ q \in taken => /\ request'[q].state = "in_flight"
                                          /\ request'[q].gen = generation
                                          /\ request[q].state = "queued"
                        /\ q \notin taken => request'[q] = request[q]
    BY <1>1, <1>2 DEF SetState, JInv, TypeOK, Queued
  <1>4. /\ ids'[j] = taken /\ active'[j] /\ gen'[j] = generation
        /\ \A i \in Jobs \ {j} : ids'[i] = ids[i] /\ active'[i] = active[i] /\ gen'[i] = gen[i]
        /\ ids[j] = {} /\ \A i \in Jobs : ids[i] \subseteq Reqs /\ ids[i] \cap taken = {}
    BY <1>1, <1>2, <1>3 DEF JInv, TypeOK, Serving, Owned, Queued
  <1>5. Current'
    BY <1>2, <1>3 DEF Serving, Current, Open
  <1>6. Owned'
    BY <1>1, <1>3, <1>4 DEF Serving, Owned
  <1>7. Covered'
    BY <1>1, <1>2, <1>3, <1>4 DEF Serving, Covered
  <1>8. Delivered'
    BY <1>2 DEF Serving, Delivered
  <1> QED BY <1>5, <1>6, <1>7, <1>8 DEF Serving

(* Where the requests stay as they are the owner may begin to deliver.     *)
LEMMA OwnerServes ==
  ASSUME JInv, Serving, UNCHANGED <<document, holding>>,
         \/ UNCHANGED ownerVars
         \/ (ending' => closing) /\ owner' \notin {"deliver", "release"}
         \/ (ending' => closing) /\ owner' = "deliver" /\ todo' = ids[job] /\ job' = job
         \/ (ending' => closing) /\ owner' = "release" /\ ending'
  PROVE  Serving'
  <1>1. Current' /\ Owned' /\ Covered'
    BY DEF Serving, Current, Open, Owned, Covered, document, holding
  <1>2. Delivered'
    BY DEF Serving, Delivered, document, holding, ownerVars
  <1> QED BY <1>1, <1>2 DEF Serving

LEMMA DeliverServes == ASSUME JInv, Serving, Deliver PROVE Serving'
  <1>0. /\ TypeOK /\ job \in Jobs /\ owner = "deliver" /\ todo \subseteq Reqs
        /\ UNCHANGED <<closing, holding, job, ending>>
    BY DEF Deliver, JInv, OwnerInv, Busy, TypeOK
  <1>1. ASSUME NEW r \in todo, Deliverable(r), NEW s \in Outcomes(job),
               Script(SetState({r}, s)), todo' = todo \ {r}, UNCHANGED owner
        PROVE  Serving'
    <2>1. /\ \A q \in Reqs : Moves(q)
          /\ Current' /\ (alive' => alive) /\ request'[r].state # "in_flight"
      <3>1. request[r].state = "in_flight" /\ s \in {"complete", "failed"} /\ r \in Reqs
        BY <1>0, <1>1 DEF Deliverable, InFlight, Outcomes
      <3> QED BY <1>0, <1>1, <3>1, ScriptMoves DEF Serving
    <2>2. Owned' /\ Covered'
      BY <1>0, <2>1, MovesKeep DEF Serving
    <2>3. Delivered'
      BY <1>0, <1>1, <2>1 DEF Serving, Delivered, Moves, TypeOK, holding
    <2> QED BY <2>1, <2>2, <2>3 DEF Serving
  <1>2. ASSUME NEW r \in todo, ~Deliverable(r), todo' = todo \ {r},
               UNCHANGED <<alive, generation, request, owner>>
        PROVE  Serving'
    <2>1. Current' /\ Owned' /\ Covered'
      BY <1>0, <1>2 DEF Serving, Current, Open, Owned, Covered, holding
    <2>2. alive /\ r \in ids[job] => request[r].state # "in_flight"
      BY <1>0, <1>2 DEF Deliverable, InFlight, Serving, Current, Open, Owned
    <2>3. Delivered'
      BY <1>0, <1>2, <2>2 DEF Serving, Delivered, holding
    <2> QED BY <2>1, <2>3 DEF Serving
  <1>3. CASE todo = {} /\ owner' = "release" /\ UNCHANGED <<alive, generation, request, todo>>
    <2>1. Current' /\ Owned' /\ Covered'
      BY <1>0, <1>3 DEF Serving, Current, Open, Owned, Covered, holding
    <2>2. Delivered'
      BY <1>0, <1>3 DEF Serving, Delivered, holding
    <2> QED BY <2>1, <2>2 DEF Serving
  <1> QED BY <1>1, <1>2, <1>3 DEF Deliver

LEMMA ReleaseServes == ASSUME JInv, Serving, Release PROVE Serving'
  <1>0. /\ TypeOK /\ job \in Jobs /\ owner = "release"
    BY DEF Release, JInv, OwnerInv, Busy
  <1>1. /\ active' = [active EXCEPT ![job] = FALSE] /\ ids' = [ids EXCEPT ![job] = {}]
        /\ gen' = [gen EXCEPT ![job] = 0]
        /\ UNCHANGED document /\ owner' = "loop" /\ ending' = FALSE
    BY DEF Release
  <1>2. /\ ids'[job] = {}
        /\ \A i \in Jobs \ {job} : ids'[i] = ids[i] /\ active'[i] = active[i] /\ gen'[i] = gen[i]
    BY <1>0, <1>1 DEF TypeOK
  <1>3. Current'
    BY <1>1 DEF Serving, Current, Open, document
  <1>4. Owned'
    BY <1>0, <1>1, <1>2 DEF Serving, Owned, document
  <1>5. Covered'
    <2>1. ~ending /\ alive => \A r \in ids[job] : request[r].state # "in_flight"
      BY <1>0 DEF Serving, Delivered
    <2>2. ~closing => ~ending
      BY DEF Serving, Delivered
    <2> QED BY <1>0, <1>1, <1>2, <2>1, <2>2 DEF Serving, Covered, document
  <1>6. Delivered'
    BY <1>1 DEF Delivered
  <1> QED BY <1>3, <1>4, <1>5, <1>6 DEF Serving

LEMMA NextServes == JInv /\ Serving /\ [Next]_vars => Serving'
  <1> SUFFICES ASSUME JInv, Serving, [Next]_vars PROVE Serving'
    OBVIOUS
  <1>0. ending => closing
    BY DEF Serving, Delivered
  <1>1. CASE Leave \/ Close \/ \E r \in Reqs : Queue(r) \/ Abort(r)
    BY <1>1, DocumentServes
  <1>2. ASSUME NEW j \in Jobs, NEW r \in Reqs, Prepare(j, r) PROVE Serving'
    BY <1>2, PrepareServes
  <1>3. ASSUME NEW j \in Jobs, Poll(j) \/ Deinit(j) PROVE Serving'
    <2>1. /\ owner' \notin {"deliver", "release"} /\ (ending' => closing)
          /\ UNCHANGED <<document, holding>>
      BY <1>0, <1>3 DEF Poll, Deinit, Serves
    <2> QED BY <2>1, OwnerServes
  <1>4. ASSUME NEW j \in Jobs, Worker(j) PROVE Serving'
    <2>1. WorkerChange(j)
      BY <1>4, WorkerFrame
    <2> QED BY <2>1, OwnerServes DEF WorkerChange
  <1>5. CASE Start \/ Answer \/ Join
    <2>1. CASE Start
      BY <1>0, <2>1, OwnerServes DEF Start
    <2>2. CASE Answer
      BY <1>0, <2>2, OwnerServes DEF Answer
    <2>3. CASE Join
      <3>1. UNCHANGED <<document, holding, ending>>
        BY <2>3 DEF Join
      <3>2. \/ owner' \notin {"deliver", "release"}
            \/ owner' = "deliver" /\ todo' = ids[job] /\ job' = job
            \/ owner' = "release" /\ ending
        BY <2>3 DEF Join, Joined, Again, Serves
      <3> QED BY <1>0, <3>1, <3>2, OwnerServes
    <2> QED BY <1>5, <2>1, <2>2, <2>3
  <1>6. CASE Deliver \/ Release
    BY <1>6, DeliverServes, ReleaseServes
  <1>7. CASE UNCHANGED vars
    BY <1>7, OwnerServes DEF vars
  <1> QED BY <1>1, <1>2, <1>3, <1>4, <1>5, <1>6, <1>7 DEF Next, Working

(* A request that is in flight is served by one job: it is neither         *)
(* fetched twice nor forgotten, until the program closes.                  *)
THEOREM RequestsServed == Spec => []OneJob
  <1>1. JInv /\ Serving => OneJob
    <2> SUFFICES ASSUME JInv, Serving, NEW r \in Reqs, InFlight(r, generation), alive
                 PROVE  LET serving == {j \in Jobs : active[j] /\ gen[j] = generation /\ r \in ids[j]}
                        IN  Cardinality(serving) <= 1 /\ (serving = {} => closing)
      BY DEF OneJob
    <2> DEFINE serving == {j \in Jobs : active[j] /\ gen[j] = generation /\ r \in ids[j]}
    <2>1. \A i, j \in serving : i = j
      BY DEF Serving, Owned
    <2>3. ~closing => serving # {}
      BY DEF Serving, Covered, Owned, InFlight
    <2> HIDE DEF serving
    <2>2. Cardinality(serving) <= 1
      <3>1. CASE serving = {}
        BY <3>1, FS_EmptySet
      <3>2. CASE serving # {}
        <4> PICK j \in serving : TRUE
          BY <3>2
        <4>1. serving = {j}
          BY <2>1
        <4>2. Cardinality({j}) = 1
          BY FS_Singleton, Zenon
        <4> QED BY <4>1, <4>2
      <3> QED BY <3>1, <3>2
    <2> QED BY <2>2, <2>3 DEF serving
  <1> QED BY <1>1, InitServing, NextServes, SpecJInv, PTL DEF Spec

(* A delivery that a script has cancelled is not overruled, and an outcome *)
(* that was delivered is not replaced.                                     *)
THEOREM OutcomesStay == Spec => SettledStays
  <1> DEFINE Stays(r) ==
        /\ request[r].state = "aborted" => request'[r] = request[r]
        /\ request[r].state \in {"complete", "failed"} =>
              request'[r] \in {request[r], [request[r] EXCEPT !.state = "aborted"]}
  <1>1. JInv /\ Serving /\ [Next]_vars => \A r \in Reqs : Stays(r)
    <2> SUFFICES ASSUME JInv, Serving, [Next]_vars PROVE \A r \in Reqs : Stays(r)
      OBVIOUS
    <2>0. TypeOK
      BY DEF JInv
    <2>1. CASE Leave \/ Close \/ \E r \in Reqs : Queue(r) \/ Abort(r)
      <3>1. CASE Leave
        BY <2>0, <3>1 DEF Leave, SetState, Open, TypeOK
      <3>2. CASE Close
        BY <3>2 DEF Close
      <3>3. CASE \E r \in Reqs : Queue(r)
        BY <2>0, <3>3 DEF Queue, TypeOK
      <3>4. CASE \E r \in Reqs : Abort(r)
        BY <2>0, <3>4 DEF Abort, SetState, TypeOK
      <3> QED BY <2>1, <3>1, <3>2, <3>3, <3>4
    <2>2. ASSUME NEW j \in Jobs, NEW q \in Reqs, Prepare(j, q) PROVE \A r \in Reqs : Stays(r)
      BY <2>0, <2>2 DEF Prepare, Take, SetState, Queued, TypeOK
    <2>3. ASSUME NEW j \in Jobs, Poll(j) \/ Deinit(j) \/ Worker(j) PROVE UNCHANGED request
      <3>1. CASE Worker(j)
        BY <3>1, WorkerFrame DEF WorkerChange, document
      <3> QED BY <2>3, <3>1 DEF Poll, Deinit, document
    <2>4. CASE Start \/ Answer \/ Join \/ Release
      BY <2>4 DEF Start, Answer, Join, Release, document
    <2>5. CASE Deliver
      <3>1. ASSUME NEW r \in todo, Deliverable(r), NEW s \in Outcomes(job),
                   Script(SetState({r}, s))
            PROVE  \A q \in Reqs : Stays(q)
        <4> SUFFICES ASSUME NEW q \in Reqs PROVE Stays(q)
          OBVIOUS
        <4> DEFINE before == SetState({r}, s)
        <4>1. /\ before[q] = request[q] \/ (q = r /\ request[r].state = "in_flight")
              /\ before[q] \in [state : States, gen : 0 .. MaxGen]
              /\ before \in [Reqs -> [state : States, gen : 0 .. MaxGen]]
          <5>1. s \in States
            BY DEF Outcomes, States
          <5> QED BY <2>0, <3>1, <5>1, SetStateType DEF Deliverable, InFlight, SetState, TypeOK
        <4> HIDE DEF before
        <4>2. \/ request'[q] = before[q]
              \/ request'[q] = [before[q] EXCEPT !.state = "aborted"]
          BY <3>1, <4>1 DEF Script, before
        <4> QED BY <2>0, <4>1, <4>2 DEF TypeOK
      <3>2. CASE UNCHANGED request
        BY <3>2
      <3> QED BY <2>5, <3>1, <3>2 DEF Deliver
    <2>6. CASE UNCHANGED vars
      BY <2>6 DEF vars, document
    <2> QED BY <2>1, <2>2, <2>3, <2>4, <2>5, <2>6 DEF Next, Working
  <1> QED BY <1>1, InitServing, NextServes, SpecJInv, PTL DEF Spec, SettledStays
=============================================================================
