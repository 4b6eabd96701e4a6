-------------------------- MODULE InferenceEngine --------------------------
(***************************************************************************)
(* jevbert/inference/engine.py: two single-thread pools (encoder and       *)
(* inference) behind the event loop, one admission counter for both,       *)
(* deadlines and cooperative cancellation, start and shutdown.             *)
(*                                                                         *)
(* Four kinds of thread take steps:                                        *)
(*   - the event loop runs run() / run_encoding(); between two awaits it   *)
(*     runs one call only (LoopFree), while other threads go on;           *)
(*   - one worker per pool takes its queue in order and runs the jobs;     *)
(*   - the loading thread submits warmup jobs and blocks on them;          *)
(*   - the owner of the engine calls start() and shutdown().               *)
(*                                                                         *)
(* A job is one call of run(), run_encoding() (Calls) or of their blocking *)
(* counterparts (Warmups). shutdown() detaches the pools at once but their *)
(* workers finish what is queued, so every start has pools of its own:     *)
(* <<n, stage>> is the pool of the n-th start.                             *)
(***************************************************************************)
EXTENDS Naturals, Sequences, FiniteSets

CONSTANTS Calls,       \* calls of run() and run_encoding(), one per request stage
          Warmups,     \* calls of run_blocking() and run_encoding_blocking()
          DeadlineOf,  \* the deadline of each call that has one; the stages of
                       \* one request share theirs, the other calls pass None
          StageOf,     \* the pool each job is for
          MaxPending,  \* max_pending_requests
          MaxStarts    \* bound: how often start() makes new pools

Jobs == Calls \cup Warmups
Stages == {"encoder", "inference"}
Pools == (1..MaxStarts) \X Stages
Dated == DOMAIN DeadlineOf
Deadlines == {DeadlineOf[c] : c \in Dated}

ASSUME JobsAssumption ==
  /\ IsFiniteSet(Calls) /\ IsFiniteSet(Warmups)
  /\ Calls \cap Warmups = {}
  /\ Dated \subseteq Calls
  /\ StageOf \in [Jobs -> Stages]

ASSUME LimitsAssumption == MaxPending \in Nat \ {0} /\ MaxStarts \in Nat

VARIABLES
  gen,        \* how many times the pools were made
  attached,   \* self._executor and self._encoder are set
  open,       \* stages whose latest pool still accepts submit()
  shutting,   \* the shutdown() in progress: "no", "nowait" or "wait"
  pending,    \* self._pending
  phase,      \* where each job is
  born,       \* the start whose pool the job captured
  caller,     \* what the caller of each job has seen
  outcome,    \* what work() ended with
  cancelled,  \* jobs whose cancel token is set
  late,       \* deadlines that have passed
  queue       \* the work queue of each pool

vars == <<gen, attached, open, shutting, pending, phase, born, caller, outcome,
          cancelled, late, queue>>
lifecycle == <<gen, attached, open, shutting>>

\* entered: its pool was read from self; admitted: holds a slot, not submitted yet;
\* released: the finally of the worker ran; resolved: the future has its result.
Phases == {"new", "entered", "admitted", "queued", "running", "released",
           "resolved", "rejected"}
Holding == {"admitted", "queued", "running"}

Outcomes == {"result", "error", "cancelled"}
Refusals == {"down", "expired", "overloaded", "failed"}
GaveUp   == {"deadline", "dropped", "timeout"}
Verdicts == Outcomes \cup Refusals \cup GaveUp

TypeOK ==
  /\ gen \in 0..MaxStarts /\ attached \in BOOLEAN
  /\ open \subseteq Stages /\ shutting \in {"no", "nowait", "wait"}
  /\ pending \in 0..MaxPending
  /\ phase \in [Jobs -> Phases]
  /\ born \in [Jobs -> 0..MaxStarts]
  /\ caller \in [Jobs -> {"new", "waiting"} \cup Verdicts]
  /\ outcome \in [Jobs -> {"none"} \cup Outcomes]
  /\ cancelled \subseteq Calls /\ late \subseteq Deadlines
  /\ queue \in [Pools -> Seq(Jobs)]

Init ==
  /\ gen = 0 /\ attached = FALSE /\ open = {} /\ shutting = "no"
  /\ pending = 0
  /\ phase = [j \in Jobs |-> "new"]
  /\ born = [j \in Jobs |-> 0]
  /\ caller = [j \in Jobs |-> "new"]
  /\ outcome = [j \in Jobs |-> "none"]
  /\ cancelled = {} /\ late = {}
  /\ queue = [p \in Pools |-> <<>>]

Pool(j) == <<born[j], StageOf[j]>>
Expired(c) == c \in Dated /\ DeadlineOf[c] \in late

\* The event loop is not inside the await-free part of _submit().
LoopFree == \A c \in Calls : phase[c] \notin {"entered", "admitted"}

Reject(j, why) == /\ phase' = [phase EXCEPT ![j] = "rejected"]
                  /\ caller' = [caller EXCEPT ![j] = why]

-----------------------------------------------------------------------------
(* The owner: start() and shutdown()                                       *)

Start ==
  /\ ~attached /\ shutting = "no" /\ gen < MaxStarts
  /\ gen' = gen + 1 /\ attached' = TRUE /\ open' = Stages
  /\ UNCHANGED <<shutting, pending, phase, born, caller, outcome, cancelled,
                 late, queue>>

BeginShutdown(mode) ==
  /\ attached
  /\ attached' = FALSE /\ shutting' = mode
  /\ UNCHANGED <<gen, open, pending, phase, born, caller, outcome, cancelled,
                 late, queue>>

Drained(s) == \A j \in Jobs :
                Pool(j) = <<gen, s>> => phase[j] \notin {"queued", "running", "released"}

\* pool.shutdown(wait): the encoder first; with wait it is joined before the next.
JoinedAlways(s) == Drained(s)    \* mutant: joined whatever `wait` says
Joined(s) == shutting = "wait" => Drained(s)
MayClose(s) == s = "inference" => "encoder" \notin open /\ Joined("encoder")

ClosePool(s) ==
  /\ shutting # "no" /\ s \in open /\ MayClose(s)
  /\ open' = open \ {s}
  /\ UNCHANGED <<gen, attached, shutting, pending, phase, born, caller, outcome,
                 cancelled, late, queue>>

\* self._pending = 0, the last thing shutdown() does.
NoReset == pending    \* mutant: the counter survives the pools
AfterShutdown == 0

EndShutdown ==
  /\ shutting # "no" /\ open = {} /\ Joined("encoder") /\ Joined("inference")
  /\ shutting' = "no" /\ pending' = AfterShutdown
  /\ UNCHANGED <<gen, attached, open, phase, born, caller, outcome, cancelled,
                 late, queue>>

-----------------------------------------------------------------------------
(* The event loop: run() and run_encoding(), that is _submit()             *)

\* The pool is read and the deadline compared before anything is taken.
Enter(c) ==
  /\ c \in Calls /\ phase[c] = "new" /\ LoopFree
  /\ \/ /\ ~attached
        /\ Reject(c, "down")
        /\ UNCHANGED born
     \/ /\ attached /\ Expired(c)
        /\ Reject(c, "expired")
        /\ UNCHANGED born
     \/ /\ attached /\ ~Expired(c)
        /\ phase' = [phase EXCEPT ![c] = "entered"]
        /\ born' = [born EXCEPT ![c] = gen]
        /\ UNCHANGED caller
  /\ UNCHANGED <<lifecycle, pending, outcome, cancelled, late, queue>>

\* The admission test and the increment, under the lock.
FullTooLate == pending > MaxPending    \* mutant: off by one
Full == pending >= MaxPending

Acquire(c) ==
  /\ c \in Calls /\ phase[c] = "entered"
  /\ \/ /\ Full
        /\ Reject(c, "overloaded")
        /\ UNCHANGED pending
     \/ /\ ~Full
        /\ pending' = pending + 1
        /\ phase' = [phase EXCEPT ![c] = "admitted"]
        /\ UNCHANGED caller
  /\ UNCHANGED <<lifecycle, born, outcome, cancelled, late, queue>>

\* _release_slot(): the decrement is clamped at zero, under the lock.
NotReleased == pending    \* mutant: the slot is forgotten
NoClamp == pending - 1    \* mutant: no max(0, _)
AfterRelease == IF pending = 0 THEN 0 ELSE pending - 1

\* executor.submit(): the captured pool may have been shut down meanwhile.
Accepts(j) == born[j] = gen /\ StageOf[j] \in open

Enqueue(j, p) == /\ queue' = [queue EXCEPT ![p] = Append(@, j)]
                 /\ phase' = [phase EXCEPT ![j] = "queued"]
                 /\ caller' = [caller EXCEPT ![j] = "waiting"]

Dispatch(c) ==
  /\ c \in Calls /\ phase[c] = "admitted" /\ Accepts(c)
  /\ Enqueue(c, Pool(c))
  /\ UNCHANGED <<lifecycle, pending, born, outcome, cancelled, late>>

\* except RuntimeError: the slot is given back and the error re-raised.
DispatchFails(c) ==
  /\ c \in Calls /\ phase[c] = "admitted" /\ ~Accepts(c)
  /\ pending' = AfterRelease
  /\ Reject(c, "failed")
  /\ UNCHANGED <<lifecycle, born, outcome, cancelled, late, queue>>

\* The await returns (or raises) what the job ended with.
Deliverable(j) == phase[j] = "resolved"

Deliver(j) ==
  /\ Deliverable(j) /\ caller[j] = "waiting"
  /\ j \in Calls => LoopFree
  /\ caller' = [caller EXCEPT ![j] = outcome[j]]
  /\ UNCHANGED <<lifecycle, pending, phase, born, outcome, cancelled, late, queue>>

\* The tokens one caller's give-up sets: every job has its own.
OneTokenForAll(c) == Calls    \* mutant: the engine shares one token
TokensOf(c) == {c}

\* What giving up does to the job itself: nothing, its future is shielded.
CancelQueued(c) ==    \* mutant: no shield, so the queued work item is cancelled
  IF phase[c] = "queued" THEN [phase EXCEPT ![c] = "resolved"] ELSE phase
AfterGivingUp(c) == phase

\* wait_for() ends by its timeout, which counts from the entry of _submit().
OnlyWhileRunning(c) == Expired(c) /\ phase[c] # "queued"    \* mutant
TimedOut(c) == Expired(c)

\* The deadline (504), or a CancelledError from outside: the token is set and
\* the job goes on. A future that has its result may still lose to the timer.
GiveUp(c, why) ==
  /\ c \in Calls /\ caller[c] = "waiting" /\ LoopFree
  /\ why = "deadline" => TimedOut(c)
  /\ caller' = [caller EXCEPT ![c] = why]
  /\ cancelled' = cancelled \cup TokensOf(c)
  /\ phase' = AfterGivingUp(c)
  /\ UNCHANGED <<lifecycle, pending, born, outcome, late, queue>>

\* Time passes; only observable while the call has not been settled.
DeadlinePasses(c) ==
  /\ c \in Dated /\ ~Expired(c) /\ caller[c] \in {"new", "waiting"}
  /\ late' = late \cup {DeadlineOf[c]}
  /\ UNCHANGED <<lifecycle, pending, phase, born, caller, outcome, cancelled, queue>>

-----------------------------------------------------------------------------
(* The loading thread: run_blocking() and run_encoding_blocking()          *)

\* The pool is read into a local.
WarmupEnter(w) ==
  /\ w \in Warmups /\ phase[w] = "new"
  /\ \/ /\ ~attached
        /\ Reject(w, "down")
        /\ UNCHANGED born
     \/ /\ attached
        /\ phase' = [phase EXCEPT ![w] = "entered"]
        /\ born' = [born EXCEPT ![w] = gen]
        /\ UNCHANGED caller
  /\ UNCHANGED <<lifecycle, pending, outcome, cancelled, late, queue>>

\* No admission slot, and a token nobody else can reach. A pool shut down since
\* it was read refuses the job.
WarmupSubmit(w) ==
  /\ w \in Warmups /\ phase[w] = "entered"
  /\ \/ /\ Accepts(w)
        /\ Enqueue(w, Pool(w))
     \/ /\ ~Accepts(w)
        /\ Reject(w, "failed")
        /\ UNCHANGED queue
  /\ UNCHANGED <<lifecycle, pending, born, outcome, cancelled, late>>

\* .result(WARMUP_TIMEOUT_SECONDS) gives up; the job is neither cancelled nor told.
NoTimeout(w) == w \notin Warmups    \* mutant: .result() without a limit
StillWaiting(w) == caller[w] = "waiting"

WarmupTimeout(w) ==
  /\ w \in Warmups /\ StillWaiting(w)
  /\ caller' = [caller EXCEPT ![w] = "timeout"]
  /\ UNCHANGED <<lifecycle, pending, phase, born, outcome, cancelled, late, queue>>

-----------------------------------------------------------------------------
(* The workers: one thread per pool                                        *)

NeverBusy(p) == p \notin Pools    \* mutant: more than one worker per pool
Busy(p) == \E j \in Jobs : Pool(j) = p /\ phase[j] \in {"running", "released"}

Take(j) ==
  LET p == Pool(j) IN
  /\ phase[j] = "queued" /\ p \in Pools /\ ~Busy(p)
  /\ queue[p] # <<>> /\ Head(queue[p]) = j
  /\ queue' = [queue EXCEPT ![p] = Tail(@)]
  /\ phase' = [phase EXCEPT ![j] = "running"]
  /\ UNCHANGED <<lifecycle, pending, born, caller, outcome, cancelled, late>>

\* _guard(): a call's slot is released in the finally, however work() ends.
NoFinally(j, o) ==    \* mutant: released only when work() returns
  IF j \in Calls /\ o = "result" THEN AfterRelease ELSE pending
AfterReturn(j, o) == IF j \in Calls THEN AfterRelease ELSE pending

\* work() ends. Only a job whose token is set can end with InferenceCancelled.
Return(j, o) ==
  /\ j \in Jobs /\ phase[j] = "running"
  /\ o = "cancelled" => j \in cancelled
  /\ outcome' = [outcome EXCEPT ![j] = o]
  /\ pending' = AfterReturn(j, o)
  /\ phase' = [phase EXCEPT ![j] = "released"]
  /\ UNCHANGED <<lifecycle, born, caller, cancelled, late, queue>>

\* The executor sets the future's result after the guarded work has returned.
Resolve(j) ==
  /\ phase[j] = "released"
  /\ phase' = [phase EXCEPT ![j] = "resolved"]
  /\ UNCHANGED <<lifecycle, pending, born, caller, outcome, cancelled, late, queue>>

-----------------------------------------------------------------------------
Owner == \/ Start
         \/ \E mode \in {"nowait", "wait"} : BeginShutdown(mode)
         \/ \E s \in Stages : ClosePool(s)
         \/ EndShutdown

Loop(c) == \/ Enter(c) \/ Acquire(c) \/ Dispatch(c) \/ DispatchFails(c)
           \/ \E why \in {"deadline", "dropped"} : GiveUp(c, why)

Loader(w) == WarmupEnter(w) \/ WarmupSubmit(w) \/ WarmupTimeout(w)

Worker(j) == Take(j) \/ (\E o \in Outcomes : Return(j, o)) \/ Resolve(j)

Next == \/ Owner
        \/ \E c \in Calls : Loop(c) \/ DeadlinePasses(c)
        \/ \E w \in Warmups : Loader(w)
        \/ \E j \in Jobs : Worker(j) \/ Deliver(j)

Spec == Init /\ [][Next]_vars

-----------------------------------------------------------------------------
(* Fairness                                                                *)

\* The event loop runs what is ready, timers included, and the clock moves on.
\* Nothing is assumed of the workers: work() may hang.
LoopFairness ==
  \A c \in Calls : /\ WF_vars(Acquire(c))
                   /\ WF_vars(Dispatch(c)) /\ WF_vars(DispatchFails(c))
                   /\ WF_vars(GiveUp(c, "deadline")) /\ WF_vars(DeadlinePasses(c))

\* A shutdown() that was called runs on; its joins wait for the workers.
OwnerFairness == WF_vars(EndShutdown) /\ \A s \in Stages : WF_vars(ClosePool(s))

\* Compilation and scoring terminate: both are loops over a bounded request.
WorkerFairness ==
  \A j \in Jobs : /\ WF_vars(Take(j)) /\ WF_vars(Resolve(j))
                  /\ WF_vars(\E o \in Outcomes : Return(j, o))

FairSpec == Spec /\ LoopFairness /\ OwnerFairness

-----------------------------------------------------------------------------
(* Safety                                                                  *)

Live == gen = 1 /\ (attached \/ shutting # "no")

\* Calls that hold a slot of the counter, of whichever start.
Held == {c \in Calls : phase[c] \in Holding}

\* The calls the current start may owe an answer to.
Owed == {c \in Held : born[c] = gen \/ phase[c] = "admitted"}

(* Until the first shutdown has ended, the counter is exactly the number of
   calls admitted and not finished: no exit of _submit() or of the worker, by
   result, error, deadline, cancellation or a refused submit(), loses a slot or
   gives one back twice. *)
SlotAccounting == Live => pending = Cardinality(Held)

(* "Counts queued and in-flight requests together ... so a request that already
   gave up on its deadline does not let more work in than the single thread can
   serve" (_submit): abandoned work included, never more than the limit. *)
AdmissionBound == Live => Cardinality(Held) <= MaxPending

(* The counter never stands above the calls the current pools owe, through any
   number of shutdowns and starts: late releases of old jobs cannot make "a
   restarted engine refuse work" (shutdown). *)
NoPhantomSlots == pending <= Cardinality(Owed)

(* InferenceCancelled never reaches a caller that still waits: only the call
   that gave up sets the token of its job, so one request's deadline cannot
   surface in another (the docstring's "can never be handed to somebody else"). *)
CancelledNeverDelivered == \A j \in Jobs : caller[j] # "cancelled"

(* 529 is only ever said while MaxPending calls of the current pools are
   unfinished; warmup and abandoned generations never cause one. *)
RefusedOnlyWhenFull ==
  [][\A c \in Calls : caller[c] # "overloaded" /\ caller'[c] = "overloaded"
       => Cardinality(Owed) >= MaxPending]_vars

(* The limit of _submit() for an engine that may have been restarted: of the calls
   that came in since the latest start, at most MaxPending are unfinished. *)
RestartKeepsBound ==
  attached => Cardinality({c \in Held : born[c] = gen}) <= MaxPending

-----------------------------------------------------------------------------
(* What the proofs of the properties above rest on                         *)

(* A job's future, its caller and its cancel token agree: a finished job has an
   outcome, a call that was not dispatched has been told nothing, only a job whose
   token is set ends by cancellation, and only a caller that gave up sets it. *)
FutureInv ==
  \A j \in Jobs :
    /\ phase[j] \in {"released", "resolved"} => outcome[j] \in Outcomes
    /\ phase[j] \in {"new", "entered", "admitted"} => caller[j] = "new"
    /\ outcome[j] = "cancelled" => j \in cancelled
    /\ j \in cancelled => caller[j] \in GaveUp

(* A stopped engine accepts nothing and owes at most the slot of a call that
   captured a pool before the stop. *)
Admitted == {c \in Calls : phase[c] = "admitted"}
StoppedInv ==
  ~attached /\ shutting = "no" => open = {} /\ pending <= Cardinality(Admitted)

(* Before the first start no call gets past the first check. *)
NotStartedInv ==
  gen = 0 => /\ ~attached /\ shutting = "no" /\ pending = 0
             /\ \A c \in Calls : phase[c] \in {"new", "rejected"}

(* The event loop is in the await-free part of at most one _submit(). *)
OneOnLoop ==
  \A c, d \in Calls :
    {phase[c], phase[d]} \subseteq {"entered", "admitted"} => c = d

(* shutdown() detaches the pools before it does anything else. *)
DetachedInv == shutting # "no" => ~attached

(* The supporting invariants together: futures, callers and tokens agree through
   any interleaving, and a stopped engine owes nothing it could not have refused. *)
SupportInv == FutureInv /\ StoppedInv /\ NotStartedInv /\ OneOnLoop
              /\ DetachedInv

-----------------------------------------------------------------------------
(* Liveness                                                                *)

(* A call with a deadline that got past the first checks is told something,
   even if its worker hangs for ever, and wherever its job is then. *)
CallerAnswered ==
  \A c \in Dated : (phase[c] = "entered") ~> (caller[c] \in Verdicts)

(* shutdown(wait=False), which the lifespan calls on the event loop, ends
   whatever the workers are doing. *)
NowaitEnds == (shutting = "nowait") ~> (shutting = "no")

(* If work terminates, every slot comes back: the counter does not stay up. *)
SlotsReturned == WorkerFairness => ((pending > 0) ~> (pending = 0))

-----------------------------------------------------------------------------
(* The abstract service, for an engine that is started once                *)

\* What a caller has seen of its call, in the terms of the abstract service.
Meaning(seen) == CASE seen = "new"         -> "none"
                   [] seen = "waiting"     -> "accepted"
                   [] seen \in Outcomes    -> "answered"
                   [] seen = "overloaded"  -> "overloaded"
                   [] seen \in GaveUp      -> "abandoned"
                   [] OTHER                -> "declined"

InService == {c \in Calls : phase[c] \in {"queued", "running"}}
Told == [c \in Calls |-> Meaning(caller[c])]

Service == INSTANCE BoundedService WITH
             Capacity <- MaxPending, held <- InService, verdict <- Told

(* Started once, the engine is a counting semaphore with one verdict per call:
   an answer comes after its slot is free, giving up does not free it, and a
   refusal means exactly MaxPending calls are unfinished. *)
ImplementsService == Service!Spec
=============================================================================
