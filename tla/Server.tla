------------------------------- MODULE Server -------------------------------
(***************************************************************************)
(* The server around the engine: the request handler (jevbert/api/routes.py*)
(* system_one, under the middlewares), the registry's bundles and their    *)
(* loading thread (inference/registry.py), and the lifespan that starts    *)
(* and stops both (api/app.py). It extends InferenceEngine: every step     *)
(* below is a step of the engine, or leaves the engine alone.              *)
(*                                                                         *)
(* A request makes two engine calls, <<r, "encoder">> then                 *)
(* <<r, "inference">>, under one deadline; a bundle makes the two warmup   *)
(* jobs of the same names. Handlers and the lifespan run on the event      *)
(* loop, so between two awaits only one of them runs: when an engine call  *)
(* has ended, its handler goes on before any other (Due).                  *)
(***************************************************************************)
EXTENDS InferenceEngine

CONSTANTS Requests, Bundles,
          LoadOrder,  \* the bundles, in the order the registry holds them
          Asked       \* the bundle each request names

Encoding(x) == <<x, "encoder">>
Scoring(x)  == <<x, "inference">>

ASSUME ServerAssumption ==
  /\ Calls = Requests \X Stages /\ Warmups = Bundles \X Stages
  /\ StageOf = [j \in Jobs |-> j[2]]
  /\ DeadlineOf = [c \in Calls |-> c[1]]
  /\ MaxStarts = 1
  /\ LoadOrder \in Seq(Bundles) /\ {LoadOrder[i] : i \in DOMAIN LoadOrder} = Bundles
  /\ Asked \in [Requests -> Bundles]

VARIABLES
  handler,   \* where the coroutine of each request is
  status,    \* the status its access log line carries, 0 before there is one
  bundle,    \* Bundle.state
  progress   \* where Bundle.load() is

requests == <<handler, status>>
registry == <<bundle, progress>>
allvars == <<vars, requests, registry>>

HandlerStates == {"new", "reading", "encoding", "scoring", "done"}
EarlyCodes == {401, 415}        \* before the body is read
BodyCodes  == {413, 400, 422, 500}   \* size, JSON, structure, an unknown model;
                                     \* the client is gone
Codes == {200, 422, 500, 503, 504, 529} \cup EarlyCodes \cup BodyCodes

ServerTypeOK ==
  /\ handler \in [Requests -> HandlerStates]
  /\ status \in [Requests -> {0} \cup Codes]
  /\ bundle \in [Bundles -> {"loading", "ready", "failed"}]
  /\ progress \in [Bundles -> {"load", "encode", "score", "done"}]

ServerInit ==
  /\ Init
  /\ handler = [r \in Requests |-> "new"] /\ status = [r \in Requests |-> 0]
  /\ bundle = [b \in Bundles |-> "loading"] /\ progress = [b \in Bundles |-> "load"]

\* The await of r has returned.
Due(r) == \/ handler[r] = "encoding" /\ caller[Encoding(r)] \in Verdicts
          \/ handler[r] = "scoring" /\ caller[Scoring(r)] \in Verdicts

\* The loop may run r: nobody else is due and shutdown(), which the lifespan
\* calls on the loop, is not running.
MayRun(r) == shutting = "no" /\ LoopFree /\ \A q \in Requests \ {r} : ~Due(q)

Answer(r, code) == /\ handler' = [handler EXCEPT ![r] = "done"]
                   /\ status' = [status EXCEPT ![r] = code]

-----------------------------------------------------------------------------
(* The request handler                                                     *)

\* Credentials and media type, before the first await. The deadline counts
\* from here: started_at.
Receive(r) ==
  /\ handler[r] = "new" /\ attached /\ MayRun(r)
  /\ \/ \E code \in EarlyCodes : Answer(r, code)
     \/ /\ handler' = [handler EXCEPT ![r] = "reading"]
        /\ UNCHANGED status
  /\ UNCHANGED <<vars, registry>>

\* The readiness test, once the body has proved valid and its model is resolved.
AnyState(b) == TRUE    \* mutant: no readiness test
Serving(b) == bundle[b] = "ready"

\* The body is read. From here to the first engine call nothing is awaited.
Refuse(r) ==
  /\ handler[r] = "reading" /\ MayRun(r)
  /\ \/ \E code \in BodyCodes : Answer(r, code)
     \/ ~Serving(Asked[r]) /\ Answer(r, 503)
  /\ UNCHANGED <<vars, registry>>

Encode(r) ==
  /\ handler[r] = "reading" /\ MayRun(r) /\ Serving(Asked[r])
  /\ Enter(Encoding(r))
  /\ handler' = [handler EXCEPT ![r] = "encoding"]
  /\ UNCHANGED <<status, registry>>

\* What the ends of an engine call become. A dropped connection gets no answer
\* and is logged with the middleware's initial status.
RateLimited(verdict) ==    \* mutant: the neighbouring error class, never to be raised
  IF verdict = "overloaded" THEN 429 ELSE 500
StatusOf(verdict) ==
  CASE verdict \in {"expired", "deadline", "cancelled"} -> 504
    [] verdict = "overloaded"                           -> 529
    [] OTHER                                            -> 500

\* Only a result lets the handler go on.
CancelSwallowed(verdict) == verdict \in {"result", "dropped"}    \* mutant
Continues(verdict) == verdict = "result"

\* _run_encoding() ends. A budget refused on the encoder thread is a 422.
AfterEncoding(r) ==
  LET verdict == caller[Encoding(r)] IN
  /\ handler[r] = "encoding" /\ Due(r) /\ MayRun(r)
  /\ \/ /\ Continues(verdict)
        /\ Enter(Scoring(r))
        /\ handler' = [handler EXCEPT ![r] = "scoring"]
        /\ UNCHANGED status
     \/ /\ ~Continues(verdict)
        /\ \E code \in {StatusOf(verdict)} \cup (IF verdict = "error" THEN {422} ELSE {}) :
             Answer(r, code)
        /\ UNCHANGED vars
  /\ UNCHANGED registry

\* _run_inference() ends, and build_response() checks the answer.
AfterScoring(r) ==
  LET verdict == caller[Scoring(r)] IN
  /\ handler[r] = "scoring" /\ Due(r) /\ MayRun(r)
  /\ \E code \in IF verdict = "result" THEN {200, 500} ELSE {StatusOf(verdict)} :
       Answer(r, code)
  /\ UNCHANGED <<vars, registry>>

\* Inside the engine, on behalf of r. The pools cannot be shut down between
\* Enter and Dispatch: both are on the loop.
Submit(r) ==
  /\ \E s \in Stages : Acquire(<<r, s>>) \/ Dispatch(<<r, s>>)
  /\ UNCHANGED <<requests, registry>>

Hear(r) ==
  /\ MayRun(r) /\ \E s \in Stages : Deliver(<<r, s>>)
  /\ UNCHANGED <<requests, registry>>

Abandon(r, why) ==
  /\ MayRun(r) /\ \E s \in Stages : GiveUp(<<r, s>>, why)
  /\ UNCHANGED <<requests, registry>>

TimePasses(r) ==
  /\ handler[r] \notin {"new", "done"} /\ \E s \in Stages : DeadlinePasses(<<r, s>>)
  /\ UNCHANGED <<requests, registry>>

-----------------------------------------------------------------------------
(* The loading thread: load_all() over the bundles, Bundle.load() for each *)

Done(b) == progress[b] = "done"
Current(b) == /\ gen > 0 /\ ~Done(b)
              /\ \E i \in DOMAIN LoadOrder :
                   LoadOrder[i] = b /\ \A k \in 1..(i - 1) : Done(LoadOrder[k])

\* load() ends; failure marks the bundle, not the process.
Conclude(b, state) == /\ bundle' = [bundle EXCEPT ![b] = state]
                      /\ progress' = [progress EXCEPT ![b] = "done"]

LoadBackend(b) ==
  /\ Current(b) /\ progress[b] = "load"
  /\ \/ Conclude(b, "failed")
     \/ progress' = [progress EXCEPT ![b] = "encode"] /\ UNCHANGED bundle
  /\ UNCHANGED <<vars, requests>>

\* _warmup() calls run_encoding_blocking(), then run_blocking().
WarmupJob(b) == IF progress[b] = "encode" THEN Encoding(b) ELSE Scoring(b)
Warming(b) == Current(b) /\ progress[b] \in {"encode", "score"}

WarmUp(b) ==
  /\ Warming(b) /\ Loader(WarmupJob(b))
  /\ UNCHANGED <<requests, registry>>

\* The blocking call is over. Its result is checked: count, type, finiteness.
AfterWarmup(b) ==
  LET verdict == caller[WarmupJob(b)] IN
  /\ Warming(b) /\ verdict \in Verdicts
  /\ \/ Conclude(b, "failed")
     \/ /\ verdict = "result" /\ progress[b] = "encode"
        /\ progress' = [progress EXCEPT ![b] = "score"] /\ UNCHANGED bundle
     \/ /\ verdict = "result" /\ progress[b] = "score"
        /\ Conclude(b, "ready")
  /\ UNCHANGED <<vars, requests>>

-----------------------------------------------------------------------------
(* The lifespan: engine.start(), and engine.shutdown(wait=False) on exit   *)

Startup == Start /\ UNCHANGED <<requests, registry>>

Exit == /\ LoopFree /\ \A r \in Requests : ~Due(r)
        /\ BeginShutdown("nowait")
        /\ UNCHANGED <<requests, registry>>

Stopping == /\ EndShutdown \/ \E s \in Stages : ClosePool(s)
            /\ UNCHANGED <<requests, registry>>

\* The workers, and the loading thread's .result() when a warmup job ends.
Threads ==
  /\ \/ \E j \in Jobs : Worker(j)
     \/ \E w \in Warmups : Deliver(w)
  /\ UNCHANGED <<requests, registry>>

ServerNext ==
  \/ \E r \in Requests : \/ Receive(r) \/ Refuse(r) \/ Encode(r)
                         \/ AfterEncoding(r) \/ AfterScoring(r)
                         \/ Submit(r) \/ Hear(r) \/ TimePasses(r)
                         \/ \E why \in {"deadline", "dropped"} : Abandon(r, why)
  \/ \E b \in Bundles : LoadBackend(b) \/ WarmUp(b) \/ AfterWarmup(b)
  \/ Startup \/ Exit \/ Stopping \/ Threads

ServerSpec == ServerInit /\ [][ServerNext]_allvars

\* The loop runs what is ready and the clock moves; the loading thread runs on,
\* its timeout included, and reading the weights ends. Clients and workers may stop.
ServerFairness ==
  /\ \A r \in Requests : /\ WF_allvars(AfterEncoding(r)) /\ WF_allvars(AfterScoring(r))
                          /\ WF_allvars(Submit(r)) /\ WF_allvars(Abandon(r, "deadline"))
                          /\ WF_allvars(TimePasses(r))
  /\ \A b \in Bundles : /\ WF_allvars(LoadBackend(b)) /\ WF_allvars(WarmUp(b))
                         /\ WF_allvars(AfterWarmup(b))
  /\ WF_allvars(Stopping)

FairServerSpec == ServerSpec /\ ServerFairness

-----------------------------------------------------------------------------
(* Safety                                                                  *)

(* Nothing is encoded or scored for a bundle before both of its warmup jobs have
   succeeded on the workers that serve ("readyz answers 503 until warmup has
   finished", create_app), whatever the loading thread, its timeout and shutdown do. *)
NothingBeforeReady ==
  \A r \in Requests, s \in Stages :
    phase[<<r, s>>] # "new" =>
      /\ bundle[Asked[r]] = "ready"
      /\ \A t \in Stages : outcome[<<Asked[r], t>>] = "result"

(* "Warmup goes through the engine's workers, so it cannot touch the device beside a
   served request" (lifespan): no warmup job runs on a worker together with a call. *)
WarmupAlone ==
  \A w \in Warmups, c \in Calls :
    phase[w] = "running" /\ phase[c] = "running" => StageOf[w] # StageOf[c]

(* A request holds at most one slot: a stage is submitted only after the stage before
   has given its slot back (_guard releases before the future is set), so the two stages
   under one counter make max_pending_requests count requests, not jobs. *)
OneSlotPerRequest ==
  \A r \in Requests : ~({Encoding(r), Scoring(r)} \subseteq Held)

(* A request is turned away (529), at either stage, only while MaxPending other requests
   hold slots: never because of the slot its own first stage had. *)
TurnedAwayForOthers ==
  [][\A r \in Requests, s \in Stages :
       caller[<<r, s>>] # "overloaded" /\ caller'[<<r, s>>] = "overloaded" =>
         Cardinality({q \in Requests \ {r} : \E t \in Stages : <<q, t>> \in Held})
           >= MaxPending]_allvars

(* A 504 is only said of a request whose own deadline has passed: neither another
   request's cancellation nor the shutdown surfaces as one. *)
TimeoutIsHonest == \A r \in Requests : status[r] = 504 => r \in late

-----------------------------------------------------------------------------
(* What the proofs of the properties above rest on                         *)

(* What a caller was told is what its future holds, and it is told of a deadline only
   once that has passed. *)
AnswerInv ==
  \A j \in Jobs :
    /\ caller[j] \in Outcomes => phase[j] = "resolved" /\ outcome[j] = caller[j]
    /\ caller[j] \in {"expired", "deadline"} => Expired(j)

\* A bundle is ready, for good, only when its load() is over and both warmup calls
\* returned a result.
ReadyBundles ==
  \A b \in Bundles :
    /\ bundle[b] = "ready" => Done(b) /\ \A s \in Stages : caller[<<b, s>>] = "result"
    /\ progress[b] = "score" => caller[Encoding(b)] = "result"

\* A request is past the readiness test only if its bundle is.
ReadyRequests ==
  \A r \in Requests :
    /\ handler[r] \in {"encoding", "scoring"} => bundle[Asked[r]] = "ready"
    /\ \A s \in Stages : phase[<<r, s>>] # "new" => bundle[Asked[r]] = "ready"

ReadyInv == ReadyBundles /\ ReadyRequests

\* A request is scored only on the strength of its encoding.
StagesInOrder ==
  \A r \in Requests : phase[Scoring(r)] # "new" => caller[Encoding(r)] = "result"

\* A worker runs one job, from the pools of a start.
OneWorker ==
  \A j, k \in Jobs :
    {phase[j], phase[k]} \subseteq {"running", "released"} =>
      Pool(j) \in Pools /\ (Pool(j) = Pool(k) => j = k)

(* Together: readiness, once seen, rests on warmups that did succeed, and the stages of
   a request and the jobs of a worker follow one another. *)
ServingInv == AnswerInv /\ ReadyInv /\ StagesInOrder /\ OneWorker

-----------------------------------------------------------------------------
(* Liveness                                                                *)

(* A request that reached the engine gets its status, with workers that hang and
   through a shutdown. (Reading the body is under no deadline: nothing is said of it.) *)
Answered == \A r \in Requests :
              handler[r] \in {"encoding", "scoring"} ~> handler[r] = "done"

(* load_all() comes to its end although a warmup job hangs: "it cannot wait forever"
   (WARMUP_TIMEOUT_SECONDS). *)
LoaderEnds == gen = 1 ~> \A b \in Bundles : Done(b)
=============================================================================
