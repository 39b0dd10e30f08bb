------------------------------ MODULE WebJobs ------------------------------
(***************************************************************************)
(* Web transfers beside a document: app_web_jobs.zig (a thread that runs a *)
(* fetch) and web_runtime_jobs.zig (the requests of a document it serves). *)
(*                                                                         *)
(* One thread, the owner, runs the document and its scripts.  It moves     *)
(* queued requests into a job and starts the job's thread.  That thread    *)
(* never touches the document: where the fetch has to ask for permission   *)
(* or for cookies it publishes the question, which lives on its stack, and *)
(* waits until the owner, polling the job, has answered it.                *)
(*                                                                         *)
(* Identical requests are served by one job.  When the thread has been     *)
(* joined the owner delivers the response to each of them; that may run    *)
(* scripts, which may abort other requests or leave the document.          *)
(***************************************************************************)
EXTENDS Naturals, FiniteSets

CONSTANTS Jobs,        \* the job slots (capacity)
          Reqs,        \* request identities
          Alike,       \* those that are identical and may be joined
          Nothing,
          MaxGen,      \* bound: navigations of the document
          MaxHops      \* bound: redirects and retries of each job's fetch

ASSUME JobsAssumption == /\ Alike \subseteq Reqs
                         /\ MaxGen \in Nat /\ MaxHops \in [Jobs -> Nat]
                         /\ Nothing \notin {"authorize", "cookie", "sink"}

VARIABLES
    \* the document, owned by the owner's thread
    alive,        \* the owner still finds the runtime
    closing,      \* the program shall close
    generation,   \* of the document
    request,      \* state and generation of each request
    \* each job
    active,       \* it holds requests and their buffers
    gen, ids,     \* the generation and the requests it serves
    handle,       \* its thread has not been joined
    stop, done,   \* R4StopFlag; the result is there
    pending,      \* invocation_pending
    answer,       \* what the owner has answered, on the thread's stack
    result,       \* "response" or "failure"
    \* its thread
    at,           \* where the fetch is; "none" when there is no thread
    question,     \* the call on its stack that is published
    hop,          \* redirects and retries so far
    authorized,   \* history: the last hop the owner has authorized
    \* the owner's thread
    owner, job,   \* what it does, for which job
    ending,       \* it does so in deinit
    todo          \* requests it has still to deliver to

document == <<alive, closing, generation, request>>
holding == <<active, gen, ids>>
shared == <<handle, stop, done, pending, answer, result>>
thread == <<at, question, hop, authorized>>
ownerVars == <<owner, job, ending, todo>>
vars == <<document, holding, shared, thread, ownerVars>>

States == {"free", "queued", "in_flight", "complete", "failed", "aborted"}
Questions == {"authorize", "cookie", "sink"}

TypeOK == /\ alive \in BOOLEAN /\ closing \in BOOLEAN
          /\ generation \in 0 .. MaxGen
          /\ request \in [Reqs -> [state : States, gen : 0 .. MaxGen]]
          /\ active \in [Jobs -> BOOLEAN]
          /\ gen \in [Jobs -> 0 .. MaxGen]
          /\ ids \in [Jobs -> SUBSET Reqs]
          /\ handle \in [Jobs -> BOOLEAN]
          /\ stop \in [Jobs -> BOOLEAN] /\ done \in [Jobs -> BOOLEAN]
          /\ pending \in [Jobs -> BOOLEAN] /\ answer \in [Jobs -> BOOLEAN]
          /\ result \in [Jobs -> {"response", "failure"}]
          /\ at \in [Jobs -> {"none", "hop", "waiting", "connect", "exchange", "after",
                              "exiting", "exited"}]
          /\ question \in [Jobs -> Questions \cup {Nothing}]
          /\ hop \in [Jobs -> Nat] /\ \A j \in Jobs : hop[j] <= MaxHops[j]
          /\ authorized \in [Jobs -> Nat \cup {Nothing}]
          /\ owner \in {"loop", "start", "answer", "join", "deliver", "release"}
          /\ job \in Jobs \cup {Nothing}
          /\ ending \in BOOLEAN
          /\ todo \in SUBSET Reqs

Init == /\ alive = TRUE /\ closing = FALSE /\ generation = 0
        /\ request = [r \in Reqs |-> [state |-> "free", gen |-> 0]]
        /\ active = [j \in Jobs |-> FALSE]
        /\ gen = [j \in Jobs |-> 0]
        /\ ids = [j \in Jobs |-> {}]
        /\ handle = [j \in Jobs |-> FALSE]
        /\ stop = [j \in Jobs |-> FALSE] /\ done = [j \in Jobs |-> FALSE]
        /\ pending = [j \in Jobs |-> FALSE] /\ answer = [j \in Jobs |-> FALSE]
        /\ result = [j \in Jobs |-> "failure"]
        /\ at = [j \in Jobs |-> "none"]
        /\ question = [j \in Jobs |-> Nothing]
        /\ hop = [j \in Jobs |-> 0]
        /\ authorized = [j \in Jobs |-> Nothing]
        /\ owner = "loop" /\ job = Nothing /\ ending = FALSE /\ todo = {}

-----------------------------------------------------------------------------
(* The document.  Its events come while the owner is in its own loop; its  *)
(* scripts run there and within a delivery, and may queue requests.        *)
SetState(R, s) == [r \in Reqs |-> IF r \in R THEN [request[r] EXCEPT !.state = s] ELSE request[r]]
Open == {r \in Reqs : request[r].state \in {"queued", "in_flight"}}

InFlight(r, g) == /\ generation = g /\ request[r].gen = g
                  /\ request[r].state = "in_flight"

(* activeRuntime: somebody still waits for the job.                        *)
Wanted(j) == alive /\ \E r \in ids[j] : InFlight(r, gen[j])

Queue(r) == /\ owner \in {"loop", "deliver"} /\ alive /\ request[r].state = "free"
            /\ request' = [request EXCEPT ![r] = [state |-> "queued", gen |-> generation]]
            /\ UNCHANGED <<alive, closing, generation, holding, shared, thread, ownerVars>>

(* A request is aborted by its signal while it is open, or in any state    *)
(* because the resource that it was for is replaced.                       *)
Abortable(r) == request[r].state # "free" /\ (r \in Open \/ request[r].gen = generation)

Abort(r) == /\ owner = "loop" /\ Abortable(r)
            /\ request' = SetState({r}, "aborted")
            /\ UNCHANGED <<alive, closing, generation, holding, shared, thread, ownerVars>>

(* abortDocument, by a navigation or because the subdocument goes.         *)
Leave == /\ owner = "loop"
         /\ generation < MaxGen
         /\ generation' = generation + 1
         /\ request' = SetState(Open, "aborted")
         /\ alive' \in {alive, FALSE}
         /\ UNCHANGED <<closing, holding, shared, thread, ownerVars>>

Close == /\ ~closing
         /\ closing' = TRUE
         /\ UNCHANGED <<alive, generation, request, holding, shared, thread, ownerVars>>

-----------------------------------------------------------------------------
(* prepare: a queued request, and those that are like it, go in flight and *)
(* belong to the job.                                                      *)
Queued(r) == request[r].state = "queued" /\ request[r].gen = generation

\* A slip: a request that is joined stays in the queue.
TakeOne(j, r, joined) ==
    /\ request' = SetState({r}, "in_flight")
    /\ ids' = [ids EXCEPT ![j] = joined \cup {r}]

Take(j, r, joined) ==
    /\ request' = SetState(joined \cup {r}, "in_flight")
    /\ ids' = [ids EXCEPT ![j] = joined \cup {r}]

Prepare(j, r) ==
    /\ owner = "loop" /\ ~closing /\ alive
    /\ ~active[j] /\ Queued(r)
    /\ Take(j, r, IF r \in Alike THEN {q \in Alike : Queued(q)} ELSE {})
    /\ active' = [active EXCEPT ![j] = TRUE]
    /\ gen' = [gen EXCEPT ![j] = generation]
    /\ stop' = [stop EXCEPT ![j] = FALSE]
    /\ owner' = "start" /\ job' = j
    /\ UNCHANGED <<alive, closing, generation, handle, done, pending, answer, result,
                   thread, ending, todo>>

(* start, after which the caller lets go of the requests if there is no    *)
(* thread.                                                                 *)
Start == /\ owner = "start"
         /\ stop' = [stop EXCEPT ![job] = FALSE]
         /\ done' = [done EXCEPT ![job] = FALSE]
         /\ \/ /\ handle' = [handle EXCEPT ![job] = TRUE]
               /\ at' = [at EXCEPT ![job] = "hop"]
               /\ owner' = "loop" /\ job' = Nothing
               /\ UNCHANGED <<todo, result>>
            \/ /\ result' = [result EXCEPT ![job] = "failure"]
               /\ owner' = "deliver" /\ todo' = ids[job]
               /\ UNCHANGED <<handle, at, job>>
         /\ UNCHANGED <<document, holding, pending, answer, question, hop, authorized, ending>>

\* A slip: a job that is cancelled answers no more questions.
ServesUnlessStopped(j, stopped) == pending[j] /\ ~stopped

(* service: a published question is answered, cancelled or not.            *)
Serves(j, stopped) == pending[j]

(* poll: a job that nobody waits for is cancelled.                         *)
Poll(j) == /\ owner = "loop" /\ handle[j]
           /\ LET stopped == stop[j] \/ ~Wanted(j) \/ closing
              IN  /\ stop' = [stop EXCEPT ![j] = stopped]
                  /\ owner' = (IF Serves(j, stopped) THEN "answer" ELSE "join")
           /\ job' = j
           /\ UNCHANGED <<document, holding, handle, done, pending, answer, result, thread,
                          ending, todo>>

(* deinit: cancels the job and collects it, sleeping in between.           *)
Deinit(j) == /\ owner = "loop" /\ closing /\ handle[j]
             /\ stop' = [stop EXCEPT ![j] = TRUE]
             /\ owner' = (IF Serves(j, TRUE) THEN "answer" ELSE "join")
             /\ job' = j /\ ending' = TRUE
             /\ UNCHANGED <<document, holding, handle, done, pending, answer, result, thread, todo>>

(* The published question is run.  A cancelled job gets the refusal it     *)
(* began with; the policy of the document decides for the others.          *)
Answer ==
    /\ owner = "answer"
    /\ \E yes \in BOOLEAN :
          /\ yes => ~stop[job] /\ Wanted(job)
          /\ answer' = [answer EXCEPT ![job] = yes]
          /\ authorized' = [authorized EXCEPT
                 ![job] = IF question[job] = "authorize" /\ yes THEN hop[job] ELSE @]
    /\ pending' = [pending EXCEPT ![job] = FALSE]
    /\ owner' = "join"
    /\ UNCHANGED <<document, holding, handle, stop, done, result, at, question, hop,
                   job, ending, todo>>

(* collect: the thread is joined once it is done; deinit tries again.      *)
Again == IF ending THEN owner' = (IF Serves(job, TRUE) THEN "answer" ELSE "join") /\ job' = job
                   ELSE owner' = "loop" /\ job' = Nothing

Joined == /\ handle' = [handle EXCEPT ![job] = FALSE]
          /\ IF ending THEN owner' = "release" /\ todo' = {}
                       ELSE owner' = "deliver" /\ todo' = ids[job]
          /\ UNCHANGED job

(* A thread that has been joined, and what it had on its stack, is gone.   *)
Gone == /\ at' = [at EXCEPT ![job] = "none"]
        /\ hop' = [hop EXCEPT ![job] = 0]
        /\ authorized' = [authorized EXCEPT ![job] = Nothing]

\* A slip: a thread that is done counts as joined.
JoinDone == /\ owner = "join"
            /\ \/ done[job] /\ Joined
               \/ ~done[job] /\ Again /\ UNCHANGED <<handle, todo>>
            /\ UNCHANGED <<document, holding, stop, done, pending, answer, result, thread, ending>>

Join == /\ owner = "join"
        /\ \/ done[job] /\ at[job] = "exited" /\ Joined /\ Gone
           \/ ~(done[job] /\ at[job] = "exited") /\ Again /\ UNCHANGED <<handle, at, hop, authorized, todo>>
        /\ UNCHANGED <<document, holding, stop, done, pending, answer, result, question, ending>>

(* complete or fail, one request at a time: completeRequest may still find *)
(* fault with the response.  A delivery may run scripts.                   *)
Outcomes(j) == IF result[j] = "response" THEN {"complete", "failed"} ELSE {"failed"}

Script(before) ==
    \/ request' = before /\ UNCHANGED <<generation, alive>>
    \/ \E r \in Reqs :
          /\ Abortable(r)
          /\ request' = [before EXCEPT ![r].state = "aborted"]
          /\ UNCHANGED <<generation, alive>>
    \/ /\ generation < MaxGen
       /\ generation' = generation + 1
       /\ request' = [r \in Reqs |-> IF before[r].state \in {"queued", "in_flight"}
                                     THEN [before[r] EXCEPT !.state = "aborted"] ELSE before[r]]
       /\ alive' \in {alive, FALSE}

\* A slip: whether somebody waits is looked up once, before the loop.
DeliverableOnce(r) == alive /\ gen[job] = generation

Deliverable(r) == alive /\ InFlight(r, gen[job])

Deliver == /\ owner = "deliver"
           /\ \/ \E r \in todo :
                    /\ Deliverable(r)
                    /\ \E s \in Outcomes(job) : Script(SetState({r}, s))
                    /\ todo' = todo \ {r}
                    /\ UNCHANGED owner
              \/ \E r \in todo :
                    /\ ~Deliverable(r)
                    /\ todo' = todo \ {r}
                    /\ UNCHANGED <<alive, generation, request, owner>>
              \/ /\ todo = {}
                 /\ owner' = "release"
                 /\ UNCHANGED <<alive, generation, request, todo>>
           /\ UNCHANGED <<closing, holding, shared, thread, job, ending>>

(* What the slot still says of the job is of no more use.                  *)
Release == /\ owner = "release"
           /\ active' = [active EXCEPT ![job] = FALSE]
           /\ ids' = [ids EXCEPT ![job] = {}]
           /\ gen' = [gen EXCEPT ![job] = 0]
           /\ result' = [result EXCEPT ![job] = "failure"]
           /\ owner' = "loop" /\ job' = Nothing /\ ending' = FALSE
           /\ UNCHANGED <<document, handle, stop, done, pending, answer, thread, todo>>

-----------------------------------------------------------------------------
(* The job's thread: entry and WebTransport.fetch.                         *)
GoesTo(j, label) == at' = [at EXCEPT ![j] = label]

(* invoke: the question lies on the stack, then it is published.           *)
Ask(j, q) == /\ question' = [question EXCEPT ![j] = q]
             /\ pending' = [pending EXCEPT ![j] = TRUE]
             /\ GoesTo(j, "waiting")
             /\ UNCHANGED <<document, holding, handle, stop, done, answer, result, hop, authorized, ownerVars>>

(* The result is there, then done says so; then the thread exits.          *)
Ends(j, r) == /\ result' = [result EXCEPT ![j] = r]
              /\ done' = [done EXCEPT ![j] = TRUE]
              /\ GoesTo(j, "exiting")

Fails(j) == /\ Ends(j, "failure")
            /\ UNCHANGED <<document, holding, handle, stop, pending, answer, question, hop,
                           authorized, ownerVars>>

Quietly(j, label) == GoesTo(j, label) /\ UNCHANGED <<document, holding, shared, question, hop,
                                                     authorized, ownerVars>>

Hop(j) == /\ at[j] = "hop"
          /\ \/ stop[j] /\ Fails(j)
             \/ ~stop[j] /\ Ask(j, "authorize")

(* The frame of the question is left.                                      *)
Leaves(j) == /\ question' = [question EXCEPT ![j] = Nothing]
             /\ answer' = [answer EXCEPT ![j] = FALSE]
             /\ CASE question[j] = "authorize" /\ ~answer[j] -> Ends(j, "failure")
                  [] question[j] = "authorize" /\ answer[j] ->
                        GoesTo(j, "connect") /\ UNCHANGED <<result, done>>
                  [] question[j] = "cookie" -> GoesTo(j, "exchange") /\ UNCHANGED <<result, done>>
                  [] question[j] = "sink" -> GoesTo(j, "after") /\ UNCHANGED <<result, done>>
             /\ UNCHANGED <<document, holding, handle, stop, pending, hop, authorized, ownerVars>>

\* A slip: a cancelled thread does not wait for the answer.
AnsweredOrStopped(j) == ~pending[j] \/ stop[j]

Answered(j) == ~pending[j]

Wait(j) == /\ at[j] = "waiting"
           /\ Answered(j)
           /\ Leaves(j)

Connect(j) == /\ at[j] = "connect"
              /\ Ask(j, "cookie") \/ Fails(j)

(* The target answers, with cookies or without, or it does not.            *)
Exchange(j) == /\ at[j] = "exchange"
               /\ Ask(j, "sink") \/ Quietly(j, "after") \/ Fails(j)

\* A slip: only the first target needs the owner's permission.
RedirectTo == "connect"

NextHop == "hop"

(* A redirect or a retry goes round, up to a limit; else it is over.       *)
After(j) == /\ at[j] = "after"
            /\ \/ /\ hop[j] < MaxHops[j]
                  /\ hop' = [hop EXCEPT ![j] = @ + 1]
                  /\ GoesTo(j, NextHop)
                  /\ UNCHANGED <<document, holding, shared, question, authorized, ownerVars>>
               \/ /\ Ends(j, "response")
                  /\ UNCHANGED <<document, holding, handle, stop, pending, answer, question,
                                 hop, authorized, ownerVars>>
               \/ Fails(j)

Exit(j) == at[j] = "exiting" /\ Quietly(j, "exited")

Worker(j) == Hop(j) \/ Wait(j) \/ Connect(j) \/ Exchange(j) \/ After(j) \/ Exit(j)

Working == Start \/ Answer \/ Join \/ Deliver \/ Release

Next == \/ \E r \in Reqs : Queue(r) \/ Abort(r) \/ \E j \in Jobs : Prepare(j, r)
        \/ Leave \/ Close
        \/ \E j \in Jobs : Poll(j) \/ Deinit(j) \/ Worker(j)
        \/ Working

Spec == Init /\ [][Next]_vars

(* The owner goes round its jobs, a thread runs, and a fetch has a         *)
(* deadline.                                                               *)
Fairness == /\ WF_vars(Working)
            /\ \A j \in Jobs : SF_vars(Poll(j)) /\ WF_vars(Worker(j))

FairSpec == Spec /\ Fairness

-----------------------------------------------------------------------------
(* Properties.                                                             *)

(* "Cancellation still drains already published invocations before join":  *)
(* what the owner may call is a frame that its thread has not left.        *)
FrameAlive == \A j \in Jobs :
                 /\ pending[j] => at[j] = "waiting" /\ question[j] # Nothing
                 /\ owner = "answer" => pending[job]

(* "Only after this returns true may buffers be reused": while the thread  *)
(* exists the job holds its requests and their memory, cancelled or not.   *)
BuffersHeld == \A j \in Jobs : at[j] # "none" => active[j] /\ handle[j]

(* Each request that is in flight is served by exactly one job, until      *)
(* the program closes: it is neither forgotten nor fetched twice.          *)
OneJob == \A r \in Reqs :
             InFlight(r, generation) /\ alive =>
                LET serving == {j \in Jobs : active[j] /\ gen[j] = generation /\ r \in ids[j]}
                IN  Cardinality(serving) <= 1 /\ (serving = {} => closing)

(* A request is settled once and then at most aborted: a script of one     *)
(* delivery that aborts another consumer of the response is not overruled. *)
SettledStays == [][\A r \in Reqs :
                      /\ request[r].state = "aborted" => request'[r] = request[r]
                      /\ request[r].state \in {"complete", "failed"} =>
                            request'[r] \in {request[r], [request[r] EXCEPT !.state = "aborted"]}]_vars

(* authorizeRequestTarget "re-authorizes every concrete transport target,  *)
(* including intermediate redirect hops": no target is contacted on the    *)
(* permission that another one got.                                        *)
EveryHopAuthorized == \A j \in Jobs : at[j] \in {"connect", "exchange"} => authorized[j] = hop[j]

(* Whatever the owner cancels and whenever, every job ends, so every       *)
(* request in it is settled and deinit returns.                            *)
JobsEnd == \A j \in Jobs : active[j] ~> ~active[j]
=============================================================================
