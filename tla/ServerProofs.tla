---------------------------- MODULE ServerProofs ----------------------------
(***************************************************************************)
(* Theorems about Server for every set of requests and bundles: it is a    *)
(* user of the engine, so the engine's theorems hold in it, and what it    *)
(* adds to them about readiness and about the statuses it gives.           *)
(***************************************************************************)
EXTENDS Server, InferenceEngineProofs

-----------------------------------------------------------------------------
(* Every step of the server is a step of the engine, or leaves it alone      *)

\* The calls and warmups of the server are the jobs of the engine.
LEMMA ServerJobs ==
  /\ \A r \in Requests, s \in Stages : <<r, s>> \in Calls /\ <<r, s>> \in Jobs
  /\ \A b \in Bundles, s \in Stages : <<b, s>> \in Warmups /\ <<b, s>> \in Jobs
  /\ Dated = Calls /\ \A r \in Requests, s \in Stages : DeadlineOf[<<r, s>>] = r
  /\ "encoder" \in Stages /\ "inference" \in Stages
  /\ \A b \in Bundles : WarmupJob(b) \in Warmups
<1>1. Calls = Requests \X Stages /\ Warmups = Bundles \X Stages
      /\ DeadlineOf = [c \in Calls |-> c[1]]
  BY ServerAssumption
<1>2. "encoder" \in Stages /\ "inference" \in Stages
  BY DEF Stages
<1>3. \A b \in Bundles : WarmupJob(b) \in Warmups
  BY <1>1, <1>2 DEF WarmupJob, Encoding, Scoring
<1>4. Dated = Calls
  BY <1>1 DEF Dated
<1>5. \A r \in Requests, s \in Stages : DeadlineOf[<<r, s>>] = r
  BY <1>1
<1>. QED  BY <1>1, <1>2, <1>3, <1>4, <1>5 DEF Jobs

LEMMA ServerStepIsEngineStep == [ServerNext]_allvars => [Next]_vars
<1>. SUFFICES ASSUME [ServerNext]_allvars PROVE [Next]_vars
  OBVIOUS
<1>1. ASSUME NEW r \in Requests, Receive(r) \/ Refuse(r) \/ AfterScoring(r)
      PROVE  UNCHANGED vars
  BY <1>1 DEF Receive, Refuse, AfterScoring
<1>2. ASSUME NEW r \in Requests, Encode(r) \/ AfterEncoding(r)
      PROVE  UNCHANGED vars \/ \E c \in Calls : Loop(c)
  <2>1. Encoding(r) \in Calls /\ Scoring(r) \in Calls
    BY ServerJobs DEF Encoding, Scoring
  <2>. QED  BY <1>2, <2>1 DEF Encode, AfterEncoding, Loop
<1>3. ASSUME NEW r \in Requests, Submit(r) PROVE \E c \in Calls : Loop(c)
  BY <1>3, ServerJobs DEF Submit, Loop
<1>4. ASSUME NEW r \in Requests, Hear(r) PROVE \E j \in Jobs : Deliver(j)
  BY <1>4, ServerJobs DEF Hear
<1>5. ASSUME NEW r \in Requests, NEW why \in {"deadline", "dropped"}, Abandon(r, why)
      PROVE  \E c \in Calls : Loop(c)
  BY <1>5, ServerJobs DEF Abandon, Loop
<1>6. ASSUME NEW r \in Requests, TimePasses(r) PROVE \E c \in Calls : DeadlinePasses(c)
  BY <1>6, ServerJobs DEF TimePasses
<1>7. ASSUME NEW b \in Bundles, LoadBackend(b) \/ AfterWarmup(b) PROVE UNCHANGED vars
  BY <1>7 DEF LoadBackend, AfterWarmup
<1>8. ASSUME NEW b \in Bundles, WarmUp(b) PROVE \E w \in Warmups : Loader(w)
  BY <1>8, ServerJobs DEF WarmUp
<1>9. CASE Startup \/ Exit \/ Stopping
  BY <1>9 DEF Startup, Exit, Stopping, Next, Owner
<1>10. CASE Threads
  BY <1>10 DEF Threads, Next, Jobs
<1>11. CASE UNCHANGED allvars
  BY <1>11 DEF allvars
<1>12. CASE ServerNext
  BY <1>1, <1>2, <1>3, <1>4, <1>5, <1>6, <1>7, <1>8, <1>9, <1>10, <1>12
     DEF ServerNext, Next
<1>. QED  BY <1>11, <1>12

(* The server uses the engine as the engine's model allows, so whatever holds of
   every engine holds of the one inside a server. *)
THEOREM ServerRunsTheEngine == ServerSpec => Spec
<1>1. ServerInit => Init
  BY DEF ServerInit
<1>. QED  BY <1>1, ServerStepIsEngineStep, PTL DEF ServerSpec, Spec

-----------------------------------------------------------------------------
(* What a caller was told is what happened to its job                        *)

LEMMA InitAnswerInv == Init => AnswerInv
  BY DEF Init, AnswerInv, Outcomes

LEMMA NextAnswerInv == WellFormed /\ AnswerInv /\ [Next]_vars => AnswerInv'
<1>. SUFFICES ASSUME TypeOK, FutureInv, AnswerInv, [Next]_vars PROVE AnswerInv'
  BY DEF WellFormed
<1>. USE DEF lifecycle
<1>j. Calls \subseteq Jobs /\ Warmups \subseteq Jobs
  BY DEF Jobs
<1>1. CASE Owner
  BY <1>1 DEF Owner, Start, BeginShutdown, ClosePool, EndShutdown, AnswerInv, Expired
<1>2. ASSUME NEW c \in Calls, Enter(c) PROVE AnswerInv'
  BY <1>2, <1>j DEF Enter, Reject, TypeOK, AnswerInv, Expired, Outcomes
<1>3. ASSUME NEW c \in Calls, Acquire(c) PROVE AnswerInv'
  BY <1>3, <1>j DEF Acquire, Reject, TypeOK, AnswerInv, Expired, Outcomes
<1>4. ASSUME NEW c \in Calls, Dispatch(c) PROVE AnswerInv'
  BY <1>4, <1>j DEF Dispatch, Enqueue, TypeOK, AnswerInv, Expired, Outcomes
<1>5. ASSUME NEW c \in Calls, DispatchFails(c) PROVE AnswerInv'
  BY <1>5, <1>j DEF DispatchFails, Reject, TypeOK, AnswerInv, Expired, Outcomes
<1>6. ASSUME NEW c \in Calls, NEW why \in {"deadline", "dropped"}, GiveUp(c, why)
      PROVE  AnswerInv'
  BY <1>6, <1>j DEF GiveUp, TimedOut, AfterGivingUp, TypeOK, AnswerInv, Expired, Outcomes
<1>7. ASSUME NEW c \in Calls, DeadlinePasses(c) PROVE AnswerInv'
  BY <1>7 DEF DeadlinePasses, AnswerInv, Expired
<1>8. ASSUME NEW w \in Warmups, Loader(w) PROVE AnswerInv'
  BY <1>8, <1>j DEF Loader, WarmupEnter, WarmupSubmit, WarmupTimeout, StillWaiting,
       Reject, Enqueue, TypeOK, AnswerInv, Expired, Outcomes
<1>9. ASSUME NEW j \in Jobs, Worker(j) PROVE AnswerInv'
  BY <1>9 DEF Worker, Take, Return, Resolve, TypeOK, AnswerInv, Expired
<1>10. ASSUME NEW j \in Jobs, Deliver(j) PROVE AnswerInv'
  BY <1>10 DEF Deliver, Deliverable, TypeOK, FutureInv, AnswerInv, Expired, Outcomes
<1>11. CASE UNCHANGED vars
  BY <1>11 DEF vars, AnswerInv, Expired
<1>. QED
  BY <1>1, <1>2, <1>3, <1>4, <1>5, <1>6, <1>7, <1>8, <1>9, <1>10, <1>11 DEF Next, Loop

-----------------------------------------------------------------------------
(* Type correctness of the handlers and the registry                         *)

\* Answering a request with a code of the server keeps both tables well typed.
LEMMA AnswerType ==
  ASSUME ServerTypeOK, NEW r \in Requests, NEW code \in Codes, Answer(r, code)
  PROVE  /\ handler' \in [Requests -> HandlerStates]
         /\ status' \in [Requests -> {0} \cup Codes]
  BY DEF ServerTypeOK, Answer, HandlerStates

\* The codes the handlers give are codes of the server.
LEMMA CodesGiven ==
  /\ EarlyCodes \subseteq Codes /\ BodyCodes \subseteq Codes
  /\ {200, 422, 500, 503} \subseteq Codes
  /\ \A verdict : StatusOf(verdict) \in {504, 529, 500} /\ StatusOf(verdict) \in Codes
  BY DEF EarlyCodes, BodyCodes, Codes, StatusOf

LEMMA InitServerTypeOK == ServerInit => ServerTypeOK
  BY DEF ServerInit, ServerTypeOK, HandlerStates

LEMMA NextServerTypeOK == ServerTypeOK /\ [ServerNext]_allvars => ServerTypeOK'
<1>. SUFFICES ASSUME ServerTypeOK, [ServerNext]_allvars PROVE ServerTypeOK'
  OBVIOUS
<1>. USE DEF requests, registry
<1>1. ASSUME NEW r \in Requests, Receive(r) PROVE ServerTypeOK'
  <2>1. CASE \E code \in EarlyCodes : Answer(r, code)
    BY <1>1, <2>1, AnswerType, CodesGiven DEF Receive, ServerTypeOK
  <2>2. CASE handler' = [handler EXCEPT ![r] = "reading"] /\ UNCHANGED status
    BY <1>1, <2>2 DEF Receive, ServerTypeOK, HandlerStates
  <2>. QED  BY <1>1, <2>1, <2>2 DEF Receive
<1>2. ASSUME NEW r \in Requests, Refuse(r) PROVE ServerTypeOK'
  <2>1. \E code \in Codes : Answer(r, code)
    BY <1>2, CodesGiven DEF Refuse
  <2>. QED  BY <1>2, <2>1, AnswerType DEF Refuse, ServerTypeOK
<1>3. ASSUME NEW r \in Requests, Encode(r) PROVE ServerTypeOK'
  BY <1>3 DEF Encode, ServerTypeOK, HandlerStates
<1>4. ASSUME NEW r \in Requests, AfterEncoding(r) PROVE ServerTypeOK'
  <2>1. CASE handler' = [handler EXCEPT ![r] = "scoring"] /\ UNCHANGED status
    BY <1>4, <2>1 DEF AfterEncoding, ServerTypeOK, HandlerStates
  <2>2. CASE \E code \in Codes : Answer(r, code)
    BY <1>4, <2>2, AnswerType DEF AfterEncoding, ServerTypeOK
  <2>. QED  BY <1>4, <2>1, <2>2, CodesGiven DEF AfterEncoding
<1>5. ASSUME NEW r \in Requests, AfterScoring(r) PROVE ServerTypeOK'
  <2>1. \E code \in Codes : Answer(r, code)
    BY <1>5, CodesGiven DEF AfterScoring
  <2>. QED  BY <1>5, <2>1, AnswerType DEF AfterScoring, ServerTypeOK
<1>6. ASSUME NEW r \in Requests,
             \/ Submit(r) \/ Hear(r) \/ TimePasses(r)
             \/ \E why \in {"deadline", "dropped"} : Abandon(r, why)
      PROVE  ServerTypeOK'
  BY <1>6 DEF Submit, Hear, TimePasses, Abandon, ServerTypeOK
<1>7. ASSUME NEW b \in Bundles, LoadBackend(b) \/ WarmUp(b) \/ AfterWarmup(b)
      PROVE  ServerTypeOK'
  BY <1>7 DEF LoadBackend, WarmUp, AfterWarmup, Conclude, ServerTypeOK
<1>8. CASE Startup \/ Exit \/ Stopping \/ Threads \/ UNCHANGED allvars
  BY <1>8 DEF Startup, Exit, Stopping, Threads, allvars, ServerTypeOK
<1>. QED
  BY <1>1, <1>2, <1>3, <1>4, <1>5, <1>6, <1>7, <1>8 DEF ServerNext

(* Every handler, status, bundle state and place of the loading thread is one of the
   code's, whatever is asked of the server. *)
THEOREM ServerTypeCorrect == ServerSpec => []ServerTypeOK
  BY InitServerTypeOK, NextServerTypeOK, PTL DEF ServerSpec

-----------------------------------------------------------------------------
(* Readiness                                                                 *)

\* A verdict is final: nobody is told twice.
LEMMA VerdictsAreFinal ==
  ASSUME WellFormed, [Next]_vars, NEW j \in Jobs, caller[j] \in Verdicts
  PROVE  caller'[j] = caller[j]
<1>. TypeOK /\ FutureInv
  BY DEF WellFormed
<1>. USE DEF lifecycle
<1>j. Calls \subseteq Jobs /\ Warmups \subseteq Jobs
  BY DEF Jobs
<1>v. caller[j] # "new" /\ caller[j] # "waiting"
  BY DEF Verdicts, Outcomes, Refusals, GaveUp
<1>1. CASE Owner
  BY <1>1 DEF Owner, Start, BeginShutdown, ClosePool, EndShutdown
<1>2. ASSUME NEW c \in Calls, Loop(c) \/ DeadlinePasses(c) PROVE caller'[j] = caller[j]
  BY <1>2, <1>j, <1>v DEF Loop, Enter, Acquire, Dispatch, DispatchFails, GiveUp,
       DeadlinePasses, Reject, Enqueue, TypeOK, FutureInv
<1>3. ASSUME NEW w \in Warmups, Loader(w) PROVE caller'[j] = caller[j]
  BY <1>3, <1>j, <1>v DEF Loader, WarmupEnter, WarmupSubmit, WarmupTimeout, StillWaiting,
       Reject, Enqueue, TypeOK, FutureInv
<1>4. ASSUME NEW k \in Jobs, Worker(k) \/ Deliver(k) PROVE caller'[j] = caller[j]
  BY <1>4, <1>v DEF Worker, Take, Return, Resolve, Deliver, TypeOK
<1>5. CASE UNCHANGED vars
  BY <1>5 DEF vars
<1>. QED  BY <1>1, <1>2, <1>3, <1>4, <1>5 DEF Next

\* Only Enter() takes a call out of "new".
LEMMA OnlyEnterStarts ==
  ASSUME TypeOK, NEW c \in Calls, phase[c] = "new",
         \/ \E d \in Calls : \/ Acquire(d) \/ Dispatch(d) \/ DeadlinePasses(d)
                              \/ \E why \in {"deadline", "dropped"} : GiveUp(d, why)
         \/ \E w \in Warmups : Loader(w)
         \/ \E j \in Jobs : Worker(j) \/ Deliver(j)
         \/ Owner
  PROVE  phase'[c] = "new"
<1>. USE DEF lifecycle
<1>j. Calls \subseteq Jobs /\ Warmups \subseteq Jobs /\ Calls \cap Warmups = {}
  BY JobsAssumption DEF Jobs
<1>1. ASSUME NEW d \in Calls,
             \/ Acquire(d) \/ Dispatch(d) \/ DeadlinePasses(d)
             \/ \E why \in {"deadline", "dropped"} : GiveUp(d, why)
      PROVE  phase'[c] = "new"
  BY <1>1, <1>j DEF Acquire, Dispatch, DeadlinePasses, GiveUp, AfterGivingUp, Reject,
       Enqueue, TypeOK
<1>2. ASSUME NEW w \in Warmups, Loader(w) PROVE phase'[c] = "new"
  BY <1>2, <1>j DEF Loader, WarmupEnter, WarmupSubmit, WarmupTimeout, Reject, Enqueue,
       TypeOK
<1>3. ASSUME NEW j \in Jobs, Worker(j) \/ Deliver(j) PROVE phase'[c] = "new"
  BY <1>3, <1>j DEF Worker, Take, Return, Resolve, Deliver, TypeOK
<1>4. CASE Owner
  BY <1>4 DEF Owner, Start, BeginShutdown, ClosePool, EndShutdown
<1>. QED  BY <1>1, <1>2, <1>3, <1>4

LEMMA InitReadyInv == ServerInit => ReadyInv
<1>. SUFFICES ASSUME ServerInit PROVE ReadyInv
  OBVIOUS
<1>1. \A r \in Requests, s \in Stages : phase[<<r, s>>] = "new"
  BY ServerJobs DEF ServerInit, Init
<1>. QED  BY <1>1, ServerAssumption DEF ServerInit, ReadyInv, ReadyBundles, ReadyRequests

\* Whatever the engine does, a bundle that is left alone stays as ready as it was.
LEMMA ReadyBundlesKept ==
  ASSUME WellFormed, ReadyInv, [Next]_vars, UNCHANGED registry
  PROVE  ReadyBundles'
<1>1. \A b \in Bundles, s \in Stages :
        caller[<<b, s>>] = "result" => caller'[<<b, s>>] = "result"
  BY ServerJobs, VerdictsAreFinal, RefusalsAreVerdicts DEF Outcomes
<1>. QED
  BY <1>1, ServerJobs DEF ReadyInv, ReadyBundles, registry, Done, Encoding

LEMMA NextReadyInv ==
  ASSUME WellFormed, ServerTypeOK, AnswerInv, ReadyInv, [ServerNext]_allvars
  PROVE  ReadyInv'
<1>. TypeOK /\ FutureInv /\ [Next]_vars
  BY ServerStepIsEngineStep DEF WellFormed
<1>. USE DEF requests, registry
<1>s. ReadyInv' <=> ReadyBundles' /\ ReadyRequests'
  BY DEF ReadyInv
<1>a. ReadyRequests /\ \A r \in Requests : Asked[r] \in Bundles
  BY ServerAssumption DEF ReadyInv

\* A step of the engine that starts no call, and of no handler.
<1>b. ASSUME UNCHANGED <<requests, registry>>,
             \A c \in Calls : phase[c] = "new" => phase'[c] = "new"
      PROVE  ReadyInv'
  <2>1. ReadyRequests'
    BY <1>b, <1>a, ServerJobs DEF ReadyRequests
  <2>. QED  BY <1>s, <1>b, <2>1, ReadyBundlesKept

\* A handler that is answered.
<1>c. ASSUME NEW r \in Requests, NEW code, Answer(r, code), UNCHANGED <<vars, registry>>
      PROVE  ReadyInv'
  <2>1. ReadyRequests'
    BY <1>c, <1>a DEF ReadyRequests, Answer, ServerTypeOK, vars
  <2>. QED  BY <1>s, <1>c, <2>1, ReadyBundlesKept
<1>1. ASSUME NEW r \in Requests, Receive(r) PROVE ReadyInv'
  <2>1. CASE handler' = [handler EXCEPT ![r] = "reading"] /\ UNCHANGED status
    <3>1. ReadyRequests'
      BY <1>1, <2>1, <1>a DEF Receive, ReadyRequests, ServerTypeOK, vars
    <3>. QED  BY <1>s, <1>1, <3>1, ReadyBundlesKept DEF Receive
  <2>. QED  BY <1>1, <1>c, <2>1 DEF Receive
<1>2. ASSUME NEW r \in Requests, Refuse(r) \/ AfterScoring(r) PROVE ReadyInv'
  BY <1>2, <1>c DEF Refuse, AfterScoring
<1>3. ASSUME NEW r \in Requests, bundle[Asked[r]] = "ready", UNCHANGED registry,
             NEW s \in Stages, Enter(<<r, s>>),
             NEW h, handler' = [handler EXCEPT ![r] = h]
      PROVE  ReadyInv'
  <2>1. \A q \in Requests \ {r}, t \in Stages : phase'[<<q, t>>] = phase[<<q, t>>]
    <3>1. \A c \in Jobs : c # <<r, s>> => phase'[c] = phase[c]
      BY <1>3, ServerJobs DEF Enter, Reject, TypeOK
    <3>. QED  BY <3>1, ServerJobs
  <2>2. ReadyRequests'
    BY <1>3, <1>a, <2>1 DEF ReadyRequests, ServerTypeOK
  <2>. QED  BY <1>s, <1>3, <2>2, ReadyBundlesKept
<1>4. ASSUME NEW r \in Requests, Encode(r) PROVE ReadyInv'
  BY <1>4, <1>3, ServerJobs DEF Encode, Serving, Encoding
<1>5. ASSUME NEW r \in Requests, AfterEncoding(r) PROVE ReadyInv'
  <2>1. bundle[Asked[r]] = "ready"
    BY <1>5, <1>a DEF AfterEncoding, ReadyRequests
  <2>2. CASE /\ Enter(Scoring(r)) /\ UNCHANGED status
             /\ handler' = [handler EXCEPT ![r] = "scoring"]
    BY <1>5, <2>1, <2>2, <1>3, ServerJobs DEF AfterEncoding, Scoring
  <2>. QED  BY <1>5, <2>2, <1>c DEF AfterEncoding
<1>6. ASSUME NEW r \in Requests,
             \/ Submit(r) \/ Hear(r) \/ TimePasses(r)
             \/ \E why \in {"deadline", "dropped"} : Abandon(r, why)
      PROVE  ReadyInv'
  BY <1>6, <1>b, ServerJobs, OnlyEnterStarts DEF Submit, Hear, TimePasses, Abandon
<1>7. CASE Startup \/ Exit \/ Stopping \/ Threads
  <2>1. UNCHANGED <<requests, registry>>
    BY <1>7 DEF Startup, Exit, Stopping, Threads
  <2>2. Owner \/ \E j \in Jobs : Worker(j) \/ Deliver(j)
    BY <1>7 DEF Startup, Exit, Stopping, Threads, Owner, Jobs
  <2>. QED  BY <1>b, <2>1, <2>2, OnlyEnterStarts
<1>8. ASSUME NEW b \in Bundles, WarmUp(b) PROVE ReadyInv'
  BY <1>8, <1>b, ServerJobs, OnlyEnterStarts DEF WarmUp

\* The loading thread moves a bundle that it has not concluded before.
<1>9. ASSUME NEW b \in Bundles, LoadBackend(b) \/ AfterWarmup(b) PROVE ReadyInv'
  <2>1. /\ UNCHANGED <<vars, requests>> /\ ~Done(b)
        /\ bundle[b] # "ready"
    BY <1>9 DEF LoadBackend, AfterWarmup, Warming, Current, ReadyInv, ReadyBundles
  <2>2. \A a \in Bundles \ {b} : bundle'[a] = bundle[a] /\ progress'[a] = progress[a]
    BY <1>9 DEF LoadBackend, AfterWarmup, Conclude, ServerTypeOK
  <2>3. /\ bundle'[b] = "ready" => /\ progress'[b] = "done" /\ progress[b] = "score"
                                   /\ caller[Scoring(b)] = "result"
        /\ progress'[b] = "score" => caller[Encoding(b)] = "result"
    BY <1>9, <2>1 DEF LoadBackend, AfterWarmup, Warming, WarmupJob, Conclude, ServerTypeOK
  <2>4. ReadyBundles'
    BY <2>1, <2>2, <2>3 DEF ReadyBundles, ReadyInv, Done, Encoding, Scoring, Stages, vars
  <2>5. ReadyRequests'
    BY <2>1, <2>2, <1>a DEF ReadyRequests, vars
  <2>. QED  BY <1>s, <2>4, <2>5
<1>10. CASE UNCHANGED allvars
  BY <1>10, <1>b DEF allvars, vars
<1>. QED
  BY <1>1, <1>2, <1>4, <1>5, <1>6, <1>7, <1>8, <1>9, <1>10 DEF ServerNext

-----------------------------------------------------------------------------
(* The stages of a request and the jobs of a worker follow one another       *)

LEMMA InitInOrder == ServerInit => StagesInOrder /\ OneWorker
  BY ServerJobs DEF ServerInit, Init, StagesInOrder, OneWorker, Scoring

\* Scoring is only ever entered by a handler that was told the encoding's result.
LEMMA NextStagesInOrder ==
  ASSUME WellFormed, StagesInOrder, [ServerNext]_allvars
  PROVE  StagesInOrder'
<1>. TypeOK /\ [Next]_vars
  BY ServerStepIsEngineStep DEF WellFormed
<1>. USE DEF StagesInOrder
<1>j. \A r \in Requests : Scoring(r) \in Calls /\ Encoding(r) \in Calls
                          /\ Scoring(r) \in Jobs /\ Encoding(r) \in Jobs
  BY ServerJobs DEF Encoding, Scoring
<1>f. \A r \in Requests : caller[Encoding(r)] = "result" => caller'[Encoding(r)] = "result"
  BY <1>j, VerdictsAreFinal, RefusalsAreVerdicts DEF Outcomes
<1>k. ASSUME \A r \in Requests : phase[Scoring(r)] = "new" => phase'[Scoring(r)] = "new"
      PROVE  StagesInOrder'
  <2>. SUFFICES ASSUME NEW r \in Requests, phase'[Scoring(r)] # "new"
                PROVE  caller'[Encoding(r)] = "result"
    BY DEF Scoring, Encoding
  <2>. QED  BY <1>k, <1>f
<1>1. ASSUME NEW r \in Requests, Receive(r) \/ Refuse(r) \/ AfterScoring(r)
      PROVE  StagesInOrder'
  BY <1>1, <1>k DEF Receive, Refuse, AfterScoring, vars
<1>2. ASSUME NEW r \in Requests, Encode(r) PROVE StagesInOrder'
  <2>1. \A q \in Requests : Scoring(q) # Encoding(r)
    BY DEF Scoring, Encoding
  <2>2. \A q \in Requests : phase'[Scoring(q)] = phase[Scoring(q)]
    BY <1>2, <1>j, <2>1 DEF Encode, Enter, Reject, TypeOK
  <2>. QED  BY <2>2, <1>k
<1>3. ASSUME NEW r \in Requests, AfterEncoding(r) PROVE StagesInOrder'
  <2>1. CASE Enter(Scoring(r)) /\ caller[Encoding(r)] = "result"
    <3>1. \A q \in Requests : q # r => Scoring(q) # Scoring(r)
      BY DEF Scoring
    <3>2. \A q \in Requests : q # r => phase'[Scoring(q)] = phase[Scoring(q)]
      BY <2>1, <1>j, <3>1 DEF Enter, Reject, TypeOK
    <3>. SUFFICES ASSUME NEW q \in Requests, phase'[Scoring(q)] # "new"
                  PROVE  caller'[Encoding(q)] = "result"
      BY DEF Scoring, Encoding
    <3>. QED  BY <2>1, <3>2, <1>f
  <2>2. CASE UNCHANGED vars
    BY <2>2, <1>k DEF vars
  <2>. QED  BY <1>3, <2>1, <2>2 DEF AfterEncoding, Continues
<1>4. ASSUME NEW r \in Requests,
             \/ Submit(r) \/ Hear(r) \/ TimePasses(r)
             \/ \E why \in {"deadline", "dropped"} : Abandon(r, why)
      PROVE  StagesInOrder'
  BY <1>4, <1>k, <1>j, ServerJobs, OnlyEnterStarts DEF Submit, Hear, TimePasses, Abandon
<1>5. ASSUME NEW b \in Bundles, LoadBackend(b) \/ AfterWarmup(b) PROVE StagesInOrder'
  BY <1>5, <1>k DEF LoadBackend, AfterWarmup, vars
<1>6. ASSUME NEW b \in Bundles, WarmUp(b) PROVE StagesInOrder'
  BY <1>6, <1>k, <1>j, ServerJobs, OnlyEnterStarts DEF WarmUp
<1>7. CASE Startup \/ Exit \/ Stopping \/ Threads
  <2>1. Owner \/ \E j \in Jobs : Worker(j) \/ Deliver(j)
    BY <1>7 DEF Startup, Exit, Stopping, Threads, Owner, Jobs
  <2>. QED  BY <1>k, <1>j, <2>1, OnlyEnterStarts
<1>8. CASE UNCHANGED allvars
  BY <1>8, <1>k DEF allvars, vars
<1>. QED  BY <1>1, <1>2, <1>3, <1>4, <1>5, <1>6, <1>7, <1>8 DEF ServerNext

\* A pool changes only when its job is entered, and a job is taken only by an idle
\* worker of a pool that exists.
LEMMA NextOneWorker ==
  ASSUME TypeOK, OneWorker, [Next]_vars
  PROVE  OneWorker'
<1>. USE DEF lifecycle
<1>. DEFINE AtWork == {"running", "released"}
<1>j. Calls \subseteq Jobs /\ Warmups \subseteq Jobs
  BY DEF Jobs
<1>k. ASSUME \A j \in Jobs : phase'[j] \in AtWork =>
               phase[j] \in AtWork /\ born'[j] = born[j]
      PROVE  OneWorker'
  BY <1>k DEF OneWorker, Pool
<1>1. CASE Owner
  BY <1>1, <1>k DEF Owner, Start, BeginShutdown, ClosePool, EndShutdown
<1>2. ASSUME NEW c \in Calls, Loop(c) \/ DeadlinePasses(c) PROVE OneWorker'
  BY <1>2, <1>j, <1>k DEF Loop, Enter, Acquire, Dispatch, DispatchFails, GiveUp,
       AfterGivingUp, DeadlinePasses, Reject, Enqueue, TypeOK
<1>3. ASSUME NEW w \in Warmups, Loader(w) PROVE OneWorker'
  BY <1>3, <1>j, <1>k DEF Loader, WarmupEnter, WarmupSubmit, WarmupTimeout, Reject,
       Enqueue, TypeOK
<1>4. ASSUME NEW j \in Jobs, Take(j) PROVE OneWorker'
  <2>1. /\ Pool(j) \in Pools /\ born' = born
        /\ \A k \in Jobs : Pool(k) = Pool(j) => phase[k] \notin AtWork
    BY <1>4 DEF Take, Busy
  <2>2. \A k \in Jobs : phase'[k] \in AtWork => k = j \/ phase[k] \in AtWork
    BY <1>4 DEF Take, TypeOK
  <2>3. \A k \in Jobs : Pool(k)' = Pool(k)
    BY <2>1 DEF Pool
  <2>. QED  BY <2>1, <2>2, <2>3 DEF OneWorker
<1>5. ASSUME NEW j \in Jobs, Resolve(j) \/ Deliver(j) PROVE OneWorker'
  BY <1>5, <1>k DEF Resolve, Deliver, TypeOK
<1>6. ASSUME NEW j \in Jobs, NEW o \in Outcomes, Return(j, o) PROVE OneWorker'
  BY <1>6, <1>k DEF Return, TypeOK
<1>7. CASE UNCHANGED vars
  BY <1>7, <1>k DEF vars
<1>. QED  BY <1>1, <1>2, <1>3, <1>4, <1>5, <1>6, <1>7 DEF Next, Worker

ReadyEnough == ServerTypeOK /\ ServingInv

LEMMA AlwaysServing == ServerSpec => [](WellFormed /\ ReadyEnough)
<1>1. ServerInit => ReadyEnough
  BY InitServerTypeOK, InitAnswerInv, InitReadyInv, InitInOrder
     DEF ServerInit, ReadyEnough, ServingInv
<1>2. WellFormed /\ ReadyEnough /\ [ServerNext]_allvars => ReadyEnough'
  BY NextServerTypeOK, NextAnswerInv, NextReadyInv, NextStagesInOrder, NextOneWorker,
     ServerStepIsEngineStep DEF ReadyEnough, ServingInv, WellFormed
<1>. QED  BY <1>1, <1>2, ServerRunsTheEngine, AlwaysWellFormed, PTL DEF ServerSpec

(* A request that passed the readiness test asked for a bundle whose load() is over and
   whose two warmup calls returned a result. *)
THEOREM ReadinessRests == ServerSpec => []ServingInv
<1>1. ReadyEnough => ServingInv
  BY DEF ReadyEnough
<1>. QED  BY <1>1, AlwaysServing, PTL

(* No stage of a request is started before both warmup jobs of its bundle have ended
   with a result, for any number of bundles and of requests. *)
THEOREM ServedOnlyWhenReady == ServerSpec => []NothingBeforeReady
<1>1. WellFormed /\ ReadyEnough => NothingBeforeReady
  <2>. SUFFICES ASSUME ReadyEnough,
                       NEW r \in Requests, NEW s \in Stages, phase[<<r, s>>] # "new"
                PROVE  /\ bundle[Asked[r]] = "ready"
                       /\ \A t \in Stages : outcome[<<Asked[r], t>>] = "result"
    BY DEF NothingBeforeReady
  <2>1. Asked[r] \in Bundles /\ bundle[Asked[r]] = "ready"
    BY ServerAssumption DEF ReadyEnough, ServingInv, ReadyInv, ReadyRequests
  <2>2. \A t \in Stages : caller[<<Asked[r], t>>] = "result"
    BY <2>1 DEF ReadyEnough, ServingInv, ReadyInv, ReadyBundles
  <2>3. \A t \in Stages : outcome[<<Asked[r], t>>] = "result"
    BY <2>1, <2>2, ServerJobs DEF ReadyEnough, ServingInv, AnswerInv, Outcomes
  <2>. QED  BY <2>1, <2>3
<1>. QED  BY <1>1, AlwaysServing, PTL

-----------------------------------------------------------------------------
(* A 504 is said of a late request only                                      *)

\* Deadlines that have passed stay passed.
LEMMA LateGrows == [Next]_vars => late \subseteq late'
  BY DEF Next, Owner, Start, BeginShutdown, ClosePool, EndShutdown, Loop, Enter, Acquire,
     Dispatch, DispatchFails, GiveUp, DeadlinePasses, Loader, WarmupEnter, WarmupSubmit,
     WarmupTimeout, Worker, Take, Return, Resolve, Deliver, vars

\* What a handler makes a 504 of.
LEMMA WhenTimeout ==
  ASSUME CancelledNeverDelivered, AnswerInv, NEW r \in Requests, NEW s \in Stages,
         StatusOf(caller[<<r, s>>]) = 504
  PROVE  r \in late
<1>1. caller[<<r, s>>] \in {"expired", "deadline"}
  BY ServerJobs DEF StatusOf, CancelledNeverDelivered
<1>. QED  BY <1>1, ServerJobs DEF AnswerInv, Expired

(* A 504 is only ever said of a request whose own deadline has passed: no cancellation
   of another request, no warmup and no shutdown turns into one. *)
THEOREM TimeoutsAreHonest == ServerSpec => []TimeoutIsHonest
<1>1. ServerInit => TimeoutIsHonest
  BY DEF ServerInit, TimeoutIsHonest
<1>2. WellFormed /\ ReadyEnough /\ CancelledNeverDelivered /\ TimeoutIsHonest
      /\ [ServerNext]_allvars => TimeoutIsHonest'
  <2>. SUFFICES ASSUME ReadyEnough, CancelledNeverDelivered, TimeoutIsHonest,
                       [ServerNext]_allvars, NEW q \in Requests, status'[q] = 504
                PROVE  q \in late'
    BY DEF TimeoutIsHonest
  <2>. USE DEF requests
  <2>a. AnswerInv /\ late \subseteq late'
    BY ServerStepIsEngineStep, LateGrows DEF ReadyEnough, ServingInv
  <2>b. CASE status'[q] = status[q]
    BY <2>a, <2>b DEF TimeoutIsHonest
  <2>c. CASE status'[q] # status[q]
    <3>1. ASSUME NEW r \in Requests,
                 \/ Receive(r) \/ Refuse(r) \/ AfterEncoding(r) \/ AfterScoring(r)
          PROVE  q \in late
      <4>1. \A code : Answer(r, code) => r = q /\ code = 504
        BY <2>c DEF Answer, ReadyEnough, ServerTypeOK
      <4>2. ~Receive(r) /\ ~Refuse(r)
        BY <4>1, <2>c DEF Receive, Refuse, EarlyCodes, BodyCodes
      <4>3. r = q /\ \E s \in Stages : StatusOf(caller[<<r, s>>]) = 504
        <5>1. ASSUME AfterEncoding(r)
              PROVE  r = q /\ StatusOf(caller[Encoding(r)]) = 504
          <6>. DEFINE verdict == caller[Encoding(r)]
          <6>1. PICK code \in {StatusOf(verdict)} \cup (IF verdict = "error" THEN {422} ELSE {}) :
                  Answer(r, code)
            BY <5>1, <2>c DEF AfterEncoding
          <6>. HIDE DEF verdict
          <6>2. r = q /\ code = 504
            BY <4>1, <6>1
          <6>3. code = StatusOf(verdict) \/ code = 422
            BY <6>1
          <6>4. StatusOf(verdict) = 504
            BY <6>2, <6>3
          <6>. QED  BY <6>2, <6>4 DEF verdict
        <5>2. ASSUME AfterScoring(r)
              PROVE  r = q /\ StatusOf(caller[Scoring(r)]) = 504
          BY <5>2, <4>1 DEF AfterScoring
        <5>. QED  BY <3>1, <4>2, <5>1, <5>2, ServerJobs DEF Encoding, Scoring
      <4>. QED  BY <4>3, <2>a, WhenTimeout
    <3>2. ASSUME NEW r \in Requests,
                 \/ Encode(r) \/ Submit(r) \/ Hear(r) \/ TimePasses(r)
                 \/ \E why \in {"deadline", "dropped"} : Abandon(r, why)
          PROVE  FALSE
      BY <3>2, <2>c DEF Encode, Submit, Hear, TimePasses, Abandon
    <3>3. ASSUME NEW b \in Bundles, LoadBackend(b) \/ WarmUp(b) \/ AfterWarmup(b)
          PROVE  FALSE
      BY <3>3, <2>c DEF LoadBackend, WarmUp, AfterWarmup
    <3>4. CASE Startup \/ Exit \/ Stopping \/ Threads \/ UNCHANGED allvars
      BY <3>4, <2>c DEF Startup, Exit, Stopping, Threads, allvars
    <3>. QED  BY <3>1, <3>2, <3>3, <3>4, <2>a DEF ServerNext
  <2>. QED  BY <2>b, <2>c
<1>. QED
  BY <1>1, <1>2, AlwaysServing, ServerRunsTheEngine, CancellationStaysInside, PTL
     DEF ServerSpec

-----------------------------------------------------------------------------
(* One slot per request                                                      *)

\* A call that has been given a verdict, or was never entered, holds nothing.
LEMMA StagesExclude ==
  ASSUME WellFormed, ReadyEnough, NEW r \in Requests, phase[Scoring(r)] # "new"
  PROVE  Encoding(r) \notin Held
<1>1. Encoding(r) \in Jobs /\ caller[Encoding(r)] = "result"
  BY ServerJobs DEF ReadyEnough, ServingInv, StagesInOrder, Encoding
<1>2. phase[Encoding(r)] = "resolved"
  BY <1>1 DEF ReadyEnough, ServingInv, AnswerInv, Outcomes
<1>. QED  BY <1>2 DEF Held, Holding

(* The two stages of a request never hold a slot each: the second is entered only after
   the first was answered, and its slot was back before that. *)
THEOREM OneSlotEach == ServerSpec => []OneSlotPerRequest
<1>1. WellFormed /\ ReadyEnough => OneSlotPerRequest
  <2>. SUFFICES ASSUME WellFormed, ReadyEnough, NEW r \in Requests,
                       Encoding(r) \in Held, Scoring(r) \in Held
                PROVE  FALSE
    BY DEF OneSlotPerRequest
  <2>. QED  BY StagesExclude DEF Held, Holding
<1>. QED  BY <1>1, AlwaysServing, PTL

\* Only a call between its first checks and admission is told "overloaded".
LEMMA RefusedWhileEntered ==
  ASSUME WellFormed, [Next]_vars, NEW c \in Calls,
         caller[c] # "overloaded", caller'[c] = "overloaded"
  PROVE  phase[c] = "entered"
<1>. TypeOK /\ FutureInv
  BY DEF WellFormed
<1>. USE DEF lifecycle
<1>j. Calls \subseteq Jobs /\ Warmups \subseteq Jobs /\ Calls \cap Warmups = {}
  BY JobsAssumption DEF Jobs
<1>1. CASE Owner
  BY <1>1 DEF Owner, Start, BeginShutdown, ClosePool, EndShutdown
<1>2. ASSUME NEW d \in Calls, Loop(d) \/ DeadlinePasses(d) PROVE phase[c] = "entered"
  BY <1>2, <1>j DEF Loop, Enter, Acquire, Dispatch, DispatchFails, GiveUp, DeadlinePasses,
       Reject, Enqueue, TypeOK
<1>3. ASSUME NEW w \in Warmups, Loader(w) PROVE phase[c] = "entered"
  BY <1>3, <1>j DEF Loader, WarmupEnter, WarmupSubmit, WarmupTimeout, Reject, Enqueue, TypeOK
<1>4. ASSUME NEW j \in Jobs, Worker(j) PROVE phase[c] = "entered"
  BY <1>4 DEF Worker, Take, Return, Resolve
<1>5. ASSUME NEW j \in Jobs, Deliver(j) PROVE phase[c] = "entered"
  <2>1. outcome[j] \in Outcomes
    BY <1>5 DEF Deliver, Deliverable, FutureInv
  <2>2. outcome[j] # "overloaded"
    BY <2>1 DEF Outcomes
  <2>. QED  BY <1>5, <2>2, <1>j DEF Deliver, TypeOK
<1>6. CASE UNCHANGED vars
  BY <1>6 DEF vars
<1>. QED  BY <1>1, <1>2, <1>3, <1>4, <1>5, <1>6 DEF Next

HoldersBut(r) == {q \in Requests \ {r} : \E t \in Stages : <<q, t>> \in Held}

\* If r holds nothing, its competitors are as many as the slots that are taken.
LEMMA SlotsAreRequests ==
  ASSUME OneSlotPerRequest, NEW r \in Requests, \A t \in Stages : <<r, t>> \notin Held
  PROVE  Cardinality(Held) = Cardinality(HoldersBut(r))
<1>. DEFINE f == [c \in Held |-> c[1]]
<1>0. ASSUME NEW c \in Held
      PROVE  c[1] \in Requests /\ c[2] \in Stages /\ c = <<c[1], c[2]>>
  <2>1. c \in Requests \X Stages
    BY ServerAssumption DEF Held
  <2>. QED  BY <2>1
<1>1. \A c \in Held : c[1] \in HoldersBut(r)
  BY <1>0 DEF HoldersBut
<1>2. ASSUME NEW c \in Held, NEW d \in Held, c[1] = d[1] PROVE c = d
  <2>1. ASSUME NEW q \in Requests, <<q, "encoder">> \in Held, <<q, "inference">> \in Held
        PROVE  FALSE
    BY <2>1 DEF OneSlotPerRequest, Encoding, Scoring
  <2>2. /\ c = <<c[1], c[2]>> /\ d = <<c[1], d[2]>> /\ c[1] \in Requests
        /\ c[2] \in {"encoder", "inference"} /\ d[2] \in {"encoder", "inference"}
    BY <1>0, <1>2 DEF Stages
  <2>3. c[2] = d[2]
    BY <2>1, <2>2
  <2>. QED  BY <2>2, <2>3
<1>3. \A q \in HoldersBut(r) : \E c \in Held : f[c] = q
  BY DEF HoldersBut
<1>4. f \in Injection(Held, HoldersBut(r)) /\ f \in Surjection(Held, HoldersBut(r))
  BY <1>1, <1>2, <1>3 DEF Injection, Surjection, IsInjective
<1>. QED  BY <1>4, FS_Surjection, SetsFinite

(* A request is refused for overload only while at least MaxPending other requests hold
   the slots, for any number of requests and slots and at either stage. *)
THEOREM RefusedForOthers == ServerSpec => TurnedAwayForOthers
<1>. DEFINE Full529 ==
       \A c \in Calls : caller[c] # "overloaded" /\ caller'[c] = "overloaded"
         => Cardinality(Owed) >= MaxPending
<1>. DEFINE Others529 ==
       \A r \in Requests, s \in Stages :
         caller[<<r, s>>] # "overloaded" /\ caller'[<<r, s>>] = "overloaded" =>
           Cardinality({q \in Requests \ {r} : \E t \in Stages : <<q, t>> \in Held})
             >= MaxPending
<1>1. ASSUME WellFormed, ReadyEnough, OneSlotPerRequest, [Full529]_vars,
             [ServerNext]_allvars
      PROVE  [Others529]_allvars
  <2>. SUFFICES ASSUME NEW r \in Requests, NEW s \in Stages,
                       caller[<<r, s>>] # "overloaded", caller'[<<r, s>>] = "overloaded"
                PROVE  Cardinality(HoldersBut(r)) >= MaxPending
    BY DEF HoldersBut
  <2>1. <<r, s>> \in Calls /\ Full529
    BY <1>1, ServerJobs DEF vars
  <2>2. phase[<<r, s>>] = "entered"
    BY <1>1, <2>1, RefusedWhileEntered, ServerStepIsEngineStep
  <2>3. Encoding(r) \notin Held /\ Scoring(r) \notin Held
    <3>1. CASE s = "inference"
      <4>1. phase[Scoring(r)] = "entered"
        BY <2>2, <3>1 DEF Scoring
      <4>. QED  BY <1>1, <4>1, StagesExclude DEF Held, Holding
    <3>2. CASE s = "encoder"
      <4>1. phase[Encoding(r)] = "entered" /\ Encoding(r) \in Jobs
        BY <2>2, <3>2, ServerJobs DEF Encoding
      <4>2. caller[Encoding(r)] = "new"
        BY <1>1, <4>1 DEF WellFormed, FutureInv
      <4>3. phase[Scoring(r)] = "new"
        BY <1>1, <4>2 DEF ReadyEnough, ServingInv, StagesInOrder
      <4>. QED  BY <4>1, <4>3 DEF Held, Holding
    <3>. QED  BY <3>1, <3>2 DEF Stages
  <2>4. Cardinality(Held) = Cardinality(HoldersBut(r))
    BY <1>1, <2>3, SlotsAreRequests DEF Encoding, Scoring, Stages
  <2>5. Cardinality(Owed) <= Cardinality(Held)
    BY SetsFinite, FS_Subset DEF Owed
  <2>6. Cardinality(Owed) >= MaxPending
    BY <2>1
  <2>. QED  BY <2>4, <2>5, <2>6, SetsFinite, LimitsAssumption
<1>2. RefusedOnlyWhenFull <=> [][Full529]_vars
  BY DEF RefusedOnlyWhenFull
<1>3. TurnedAwayForOthers <=> [][Others529]_allvars
  BY DEF TurnedAwayForOthers
<1>. QED
  BY <1>1, <1>2, <1>3, AlwaysServing, OneSlotEach, ServerRunsTheEngine, RefusalsAreHonest,
     PTL DEF ServerSpec

-----------------------------------------------------------------------------
(* Warmup and calls on one worker                                            *)

(* A warmup job and a call of the same stage never run at the same time: the engine is
   started once, so both are jobs of the same pool. *)
THEOREM WarmupIsAlone == ServerSpec => []WarmupAlone
<1>1. WellFormed /\ ReadyEnough => WarmupAlone
  <2>. SUFFICES ASSUME WellFormed, ReadyEnough, NEW w \in Warmups, NEW c \in Calls,
                       phase[w] = "running", phase[c] = "running", StageOf[w] = StageOf[c]
                PROVE  FALSE
    BY DEF WarmupAlone
  <2>1. w \in Jobs /\ c \in Jobs /\ w # c
    BY JobsAssumption DEF Jobs
  <2>2. OneWorker
    BY DEF ReadyEnough, ServingInv
  <2>3. Pool(w) \in Pools /\ Pool(c) \in Pools
    BY <2>1, <2>2 DEF OneWorker
  <2>4. born[w] = 1 /\ born[c] = 1
    BY <2>3, ServerAssumption DEF Pool, Pools
  <2>. QED  BY <2>1, <2>2, <2>4 DEF OneWorker, Pool
<1>. QED  BY <1>1, AlwaysServing, PTL
=============================================================================
