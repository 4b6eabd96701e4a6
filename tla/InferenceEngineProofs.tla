----------------------- MODULE InferenceEngineProofs -----------------------
(***************************************************************************)
(* Theorems about InferenceEngine for every set of jobs, every limit and   *)
(* every number of starts.                                                 *)
(***************************************************************************)
EXTENDS InferenceEngine, FiniteSetTheorems, TLAPS

-----------------------------------------------------------------------------
(* Cardinality, one element at a time                                      *)

\* A call that takes a slot joins a finite set of holders.
LEMMA CardinalityAdd ==
  ASSUME NEW S, IsFiniteSet(S), NEW x, x \notin S
  PROVE  /\ IsFiniteSet(S \cup {x})
         /\ Cardinality(S) \in Nat
         /\ Cardinality(S \cup {x}) = Cardinality(S) + 1
  BY FS_AddElement, FS_CardinalityType

\* A call that gives its slot back leaves it.
LEMMA CardinalityRemove ==
  ASSUME NEW S, IsFiniteSet(S), NEW x, x \in S
  PROVE  /\ IsFiniteSet(S \ {x})
         /\ Cardinality(S \ {x}) \in Nat
         /\ Cardinality(S) = Cardinality(S \ {x}) + 1
<1>1. IsFiniteSet(S \ {x}) /\ Cardinality(S \ {x}) = Cardinality(S) - 1
  BY FS_RemoveElement
<1>2. Cardinality(S) \in Nat /\ Cardinality(S \ {x}) \in Nat
  BY <1>1, FS_CardinalityType
<1>. QED  BY <1>1, <1>2

\* A call leaving a set, or not being in it, costs the set at most one.
LEMMA CardinalityWithout ==
  ASSUME NEW S, IsFiniteSet(S), NEW x
  PROVE  /\ Cardinality(S \ {x}) \in Nat
         /\ Cardinality(S) <= Cardinality(S \ {x}) + 1
<1>1. CASE x \in S
  BY <1>1, CardinalityRemove
<1>2. CASE x \notin S
  <2>1. S \ {x} = S
    BY <1>2
  <2>2. Cardinality(S) \in Nat
    BY FS_CardinalityType
  <2>3. Cardinality(S) <= Cardinality(S) + 1
    BY <2>2
  <2>. QED  BY <2>1, <2>2, <2>3
<1>. QED  BY <1>1, <1>2

\* Any set of calls is finite, so it has a cardinality.
LEMMA CallSets ==
  ASSUME NEW S \in SUBSET Calls
  PROVE  IsFiniteSet(S) /\ Cardinality(S) \in Nat
  BY JobsAssumption, FS_Subset, FS_CardinalityType

-----------------------------------------------------------------------------
(* Type correctness, and what a job's caller, future and token have to do    *)
(* with one another                                                          *)

WellFormed == TypeOK /\ FutureInv

\* One submit() keeps the queues, the phases and the callers well typed.
LEMMA EnqueueType ==
  ASSUME TypeOK, NEW j \in Jobs, NEW p, Enqueue(j, p)
  PROVE  /\ queue' \in [Pools -> Seq(Jobs)]
         /\ phase' \in [Jobs -> Phases]
         /\ caller' \in [Jobs -> {"new", "waiting"} \cup Verdicts]
<1>1. queue' \in [Pools -> Seq(Jobs)]
  <2>1. p \in Pools => Append(queue[p], j) \in Seq(Jobs)
    BY DEF TypeOK
  <2>. QED  BY <2>1 DEF TypeOK, Enqueue
<1>2. phase' \in [Jobs -> Phases]
  BY DEF TypeOK, Enqueue, Phases
<1>3. caller' \in [Jobs -> {"new", "waiting"} \cup Verdicts]
  BY DEF TypeOK, Enqueue
<1>. QED  BY <1>1, <1>2, <1>3

\* So does turning a job away.
LEMMA RejectType ==
  ASSUME TypeOK, NEW j \in Jobs, NEW why \in Verdicts, Reject(j, why)
  PROVE  /\ phase' \in [Jobs -> Phases]
         /\ caller' \in [Jobs -> {"new", "waiting"} \cup Verdicts]
  BY DEF TypeOK, Reject, Phases

\* The verdicts the code gives when it turns a job away.
LEMMA RefusalsAreVerdicts ==
  /\ "down" \in Verdicts /\ "expired" \in Verdicts
  /\ "overloaded" \in Verdicts /\ "failed" \in Verdicts
  /\ "deadline" \in Verdicts /\ "dropped" \in Verdicts /\ "timeout" \in Verdicts
  /\ Outcomes \subseteq Verdicts
  BY DEF Verdicts, Outcomes, Refusals, GaveUp

LEMMA InitWellFormed == Init => WellFormed
<1>. SUFFICES ASSUME Init PROVE WellFormed
  OBVIOUS
<1>1. queue \in [Pools -> Seq(Jobs)]
  BY DEF Init
<1>2. phase \in [Jobs -> Phases] /\ caller \in [Jobs -> {"new", "waiting"} \cup Verdicts]
      /\ outcome \in [Jobs -> {"none"} \cup Outcomes] /\ born \in [Jobs -> 0..MaxStarts]
  BY LimitsAssumption DEF Init, Phases
<1>3. gen \in 0..MaxStarts /\ pending \in 0..MaxPending
  BY LimitsAssumption DEF Init
<1>4. attached \in BOOLEAN /\ shutting \in {"no", "nowait", "wait"}
  BY DEF Init
<1>5. open \subseteq Stages /\ cancelled \subseteq Calls /\ late \subseteq Deadlines
  BY DEF Init
<1>6. TypeOK
  BY <1>1, <1>2, <1>3, <1>4, <1>5 DEF TypeOK
<1>7. FutureInv
  BY DEF Init, FutureInv, Outcomes
<1>. QED  BY <1>6, <1>7 DEF WellFormed

LEMMA NextWellFormed == WellFormed /\ [Next]_vars => WellFormed'
<1>. SUFFICES ASSUME TypeOK, FutureInv, [Next]_vars PROVE TypeOK' /\ FutureInv'
  BY DEF WellFormed
<1>. USE LimitsAssumption, JobsAssumption DEF lifecycle
<1>j. Calls \subseteq Jobs /\ Warmups \subseteq Jobs
  BY DEF Jobs
<1>1. CASE Start
  BY <1>1 DEF Start, TypeOK, FutureInv
<1>2. ASSUME NEW mode \in {"nowait", "wait"}, BeginShutdown(mode)
      PROVE  TypeOK' /\ FutureInv'
  BY <1>2 DEF BeginShutdown, TypeOK, FutureInv
<1>3. ASSUME NEW s \in Stages, ClosePool(s) PROVE TypeOK' /\ FutureInv'
  BY <1>3 DEF ClosePool, TypeOK, FutureInv
<1>4. CASE EndShutdown
  BY <1>4 DEF EndShutdown, AfterShutdown, TypeOK, FutureInv
<1>5. ASSUME NEW c \in Calls, Enter(c) PROVE TypeOK' /\ FutureInv'
  <2>1. ASSUME NEW why \in {"down", "expired"}, Reject(c, why), UNCHANGED born
        PROVE  TypeOK' /\ FutureInv'
    <3>1. phase' \in [Jobs -> Phases]
          /\ caller' \in [Jobs -> {"new", "waiting"} \cup Verdicts]
      BY <2>1, <1>j, RejectType, RefusalsAreVerdicts
    <3>2. TypeOK'
      BY <1>5, <2>1, <3>1 DEF Enter, TypeOK
    <3>3. FutureInv'
      BY <1>5, <2>1, <1>j DEF Enter, Reject, TypeOK, FutureInv, GaveUp
    <3>. QED  BY <3>2, <3>3
  <2>2. ASSUME phase' = [phase EXCEPT ![c] = "entered"], UNCHANGED caller,
               born' = [born EXCEPT ![c] = gen]
        PROVE  TypeOK' /\ FutureInv'
    <3>1. TypeOK'
      BY <1>5, <2>2, <1>j DEF Enter, TypeOK, Phases
    <3>2. FutureInv'
      BY <1>5, <2>2, <1>j DEF Enter, TypeOK, FutureInv
    <3>. QED  BY <3>1, <3>2
  <2>. QED  BY <1>5, <2>1, <2>2 DEF Enter
<1>6. ASSUME NEW c \in Calls, Acquire(c) PROVE TypeOK' /\ FutureInv'
  <2>1. CASE Full /\ Reject(c, "overloaded") /\ UNCHANGED pending
    <3>1. TypeOK'
      BY <1>6, <2>1, <1>j, RejectType, RefusalsAreVerdicts DEF Acquire, TypeOK
    <3>2. FutureInv'
      BY <1>6, <2>1, <1>j DEF Acquire, Reject, TypeOK, FutureInv, GaveUp
    <3>. QED  BY <3>1, <3>2
  <2>2. CASE ~Full /\ pending' = pending + 1 /\ UNCHANGED caller
             /\ phase' = [phase EXCEPT ![c] = "admitted"]
    <3>1. pending' \in 0..MaxPending
      BY <2>2 DEF Full, TypeOK
    <3>2. TypeOK'
      BY <1>6, <2>2, <3>1, <1>j DEF Acquire, TypeOK, Phases
    <3>3. FutureInv'
      BY <1>6, <2>2, <1>j DEF Acquire, TypeOK, FutureInv
    <3>. QED  BY <3>2, <3>3
  <2>. QED  BY <1>6, <2>1, <2>2 DEF Acquire
<1>7. ASSUME NEW c \in Calls, Dispatch(c) PROVE TypeOK' /\ FutureInv'
  <2>1. TypeOK'
    BY <1>7, <1>j, EnqueueType DEF Dispatch, TypeOK
  <2>2. FutureInv'
    BY <1>7, <1>j DEF Dispatch, Enqueue, TypeOK, FutureInv, GaveUp
  <2>. QED  BY <2>1, <2>2
<1>8. ASSUME NEW c \in Calls, DispatchFails(c) PROVE TypeOK' /\ FutureInv'
  <2>1. pending' \in 0..MaxPending
    BY <1>8 DEF DispatchFails, AfterRelease, TypeOK
  <2>2. TypeOK'
    BY <1>8, <2>1, <1>j, RejectType, RefusalsAreVerdicts DEF DispatchFails, TypeOK
  <2>3. FutureInv'
    BY <1>8, <1>j DEF DispatchFails, Reject, TypeOK, FutureInv, GaveUp
  <2>. QED  BY <2>2, <2>3
<1>9. ASSUME NEW c \in Calls, NEW why \in {"deadline", "dropped"}, GiveUp(c, why)
      PROVE  TypeOK' /\ FutureInv'
  <2>1. TypeOK'
    BY <1>9, <1>j, RefusalsAreVerdicts DEF GiveUp, TokensOf, AfterGivingUp, TypeOK
  <2>2. FutureInv'
    BY <1>9, <1>j DEF GiveUp, TokensOf, AfterGivingUp, TypeOK, FutureInv, GaveUp
  <2>. QED  BY <2>1, <2>2
<1>10. ASSUME NEW c \in Calls, DeadlinePasses(c) PROVE TypeOK' /\ FutureInv'
  BY <1>10 DEF DeadlinePasses, Deadlines, TypeOK, FutureInv
<1>11. ASSUME NEW w \in Warmups, WarmupSubmit(w) PROVE TypeOK' /\ FutureInv'
  <2>1. TypeOK'
    BY <1>11, <1>j, EnqueueType, RejectType, RefusalsAreVerdicts DEF WarmupSubmit, TypeOK
  <2>2. FutureInv'
    BY <1>11, <1>j DEF WarmupSubmit, Reject, Enqueue, TypeOK, FutureInv, GaveUp
  <2>. QED  BY <2>1, <2>2
<1>11a. ASSUME NEW w \in Warmups, WarmupEnter(w) PROVE TypeOK' /\ FutureInv'
  <2>1. CASE Reject(w, "down") /\ UNCHANGED born
    <3>1. TypeOK'
      BY <1>11a, <2>1, <1>j, RejectType, RefusalsAreVerdicts DEF WarmupEnter, TypeOK
    <3>2. FutureInv'
      BY <1>11a, <2>1, <1>j DEF WarmupEnter, Reject, TypeOK, FutureInv, GaveUp
    <3>. QED  BY <3>1, <3>2
  <2>2. CASE /\ phase' = [phase EXCEPT ![w] = "entered"] /\ UNCHANGED caller
             /\ born' = [born EXCEPT ![w] = gen]
    <3>1. TypeOK'
      BY <1>11a, <2>2, <1>j DEF WarmupEnter, TypeOK, Phases
    <3>2. FutureInv'
      BY <1>11a, <2>2, <1>j DEF WarmupEnter, TypeOK, FutureInv
    <3>. QED  BY <3>1, <3>2
  <2>. QED  BY <1>11a, <2>1, <2>2 DEF WarmupEnter
<1>12. ASSUME NEW w \in Warmups, WarmupTimeout(w) PROVE TypeOK' /\ FutureInv'
  <2>1. TypeOK'
    BY <1>12, <1>j, RefusalsAreVerdicts DEF WarmupTimeout, StillWaiting, TypeOK
  <2>2. FutureInv'
    BY <1>12, <1>j DEF WarmupTimeout, StillWaiting, TypeOK, FutureInv, GaveUp
  <2>. QED  BY <2>1, <2>2
<1>13. ASSUME NEW j \in Jobs, Take(j) PROVE TypeOK' /\ FutureInv'
  <2>. DEFINE p == Pool(j)
  <2>1. p \in Pools /\ queue[p] \in Seq(Jobs) /\ queue[p] # <<>>
    BY <1>13 DEF Take, TypeOK
  <2>2. Tail(queue[p]) \in Seq(Jobs)
    BY <2>1
  <2>3. queue' \in [Pools -> Seq(Jobs)]
    BY <1>13, <2>1, <2>2 DEF Take, TypeOK
  <2>4. TypeOK'
    BY <1>13, <2>3 DEF Take, TypeOK, Phases
  <2>5. FutureInv'
    BY <1>13 DEF Take, TypeOK, FutureInv
  <2>. QED  BY <2>4, <2>5
<1>14. ASSUME NEW j \in Jobs, NEW o \in Outcomes, Return(j, o)
       PROVE  TypeOK' /\ FutureInv'
  <2>1. pending' \in 0..MaxPending
    BY <1>14 DEF Return, AfterReturn, AfterRelease, TypeOK
  <2>2. TypeOK'
    BY <1>14, <2>1 DEF Return, TypeOK, Phases
  <2>3. FutureInv'
    BY <1>14 DEF Return, TypeOK, FutureInv
  <2>. QED  BY <2>2, <2>3
<1>15. ASSUME NEW j \in Jobs, Resolve(j) PROVE TypeOK' /\ FutureInv'
  <2>1. TypeOK'
    BY <1>15 DEF Resolve, TypeOK, Phases
  <2>2. FutureInv'
    BY <1>15 DEF Resolve, TypeOK, FutureInv
  <2>. QED  BY <2>1, <2>2
<1>16. ASSUME NEW j \in Jobs, Deliver(j) PROVE TypeOK' /\ FutureInv'
  <2>1. outcome[j] \in Outcomes
    BY <1>16 DEF Deliver, Deliverable, FutureInv
  <2>2. TypeOK'
    BY <1>16, <2>1, RefusalsAreVerdicts DEF Deliver, TypeOK
  <2>3. FutureInv'
    BY <1>16 DEF Deliver, Deliverable, TypeOK, FutureInv, GaveUp
  <2>. QED  BY <2>2, <2>3
<1>17. CASE UNCHANGED vars
  BY <1>17 DEF vars, TypeOK, FutureInv
<1>. QED
  BY <1>1, <1>2, <1>3, <1>4, <1>5, <1>6, <1>7, <1>8, <1>9, <1>10, <1>11, <1>12,
     <1>13, <1>14, <1>15, <1>16, <1>17, <1>11a
     DEF Next, Owner, Loop, Loader, Worker

LEMMA AlwaysWellFormed == Spec => []WellFormed
  BY InitWellFormed, NextWellFormed, PTL DEF Spec

(* Every reachable state is well typed, whatever the jobs, limits and restarts;
   in particular the counter stays between zero and max_pending_requests. *)
THEOREM TypeCorrect == Spec => []TypeOK
<1>1. WellFormed => TypeOK
  BY DEF WellFormed
<1>. QED  BY <1>1, AlwaysWellFormed, PTL

(* InferenceCancelled never reaches a caller that still waits: a job that ends that
   way has its token set, and only its own caller, on giving up, sets it. *)
THEOREM CancellationStaysInside == Spec => []CancelledNeverDelivered
<1>. DEFINE Inv == WellFormed /\ CancelledNeverDelivered
<1>1. Init => Inv
  BY InitWellFormed DEF Init, CancelledNeverDelivered
<1>2. Inv /\ [Next]_vars => Inv'
  <2>. SUFFICES ASSUME WellFormed, CancelledNeverDelivered, [Next]_vars
                PROVE  CancelledNeverDelivered'
    BY NextWellFormed
  <2>. USE DEF CancelledNeverDelivered, lifecycle
  <2>t. TypeOK /\ FutureInv
    BY DEF WellFormed
  <2>1. CASE Owner
    BY <2>1 DEF Owner, Start, BeginShutdown, ClosePool, EndShutdown
  <2>2. ASSUME NEW c \in Calls, Loop(c) \/ DeadlinePasses(c)
        PROVE  CancelledNeverDelivered'
    BY <2>2, <2>t DEF Loop, Enter, Acquire, Dispatch, DispatchFails, GiveUp,
         DeadlinePasses, Reject, Enqueue, TypeOK
  <2>3. ASSUME NEW w \in Warmups, Loader(w) PROVE CancelledNeverDelivered'
    BY <2>3, <2>t DEF Loader, WarmupEnter, WarmupSubmit, WarmupTimeout, StillWaiting, Reject, Enqueue, TypeOK
  <2>4. ASSUME NEW j \in Jobs, Worker(j) PROVE CancelledNeverDelivered'
    BY <2>4 DEF Worker, Take, Return, Resolve
  <2>5. ASSUME NEW j \in Jobs, Deliver(j) PROVE CancelledNeverDelivered'
    <3>1. outcome[j] # "cancelled"
      BY <2>5, <2>t DEF Deliver, FutureInv, GaveUp
    <3>. QED  BY <2>5, <2>t, <3>1 DEF Deliver, TypeOK
  <2>6. CASE UNCHANGED vars
    BY <2>6 DEF vars
  <2>. QED  BY <2>1, <2>2, <2>3, <2>4, <2>5, <2>6 DEF Next
<1>3. Inv => CancelledNeverDelivered
  OBVIOUS
<1>. QED  BY <1>1, <1>2, <1>3, PTL DEF Spec
-----------------------------------------------------------------------------
(* The counter never exceeds what the current pools owe                      *)

\* The sets the counter is compared with are finite.
LEMMA SetsFinite ==
  /\ IsFiniteSet(Held) /\ Cardinality(Held) \in Nat
  /\ IsFiniteSet(Owed) /\ Cardinality(Owed) \in Nat
  /\ IsFiniteSet(Admitted) /\ Cardinality(Admitted) \in Nat
  BY CallSets DEF Held, Owed, Admitted

CounterInv == WellFormed /\ NoPhantomSlots /\ StoppedInv

\* A step that moves no call into, out of or between the holding phases.
LEMMA SlotsUntouched ==
  ASSUME CounterInv,
         UNCHANGED <<gen, attached, open, shutting, pending>>,
         \A c \in Calls : /\ (phase[c] \in Holding) <=> (phase'[c] \in Holding)
                          /\ (phase[c] = "admitted") <=> (phase'[c] = "admitted")
                          /\ phase[c] \in Holding => born'[c] = born[c]
  PROVE  NoPhantomSlots' /\ StoppedInv'
<1>1. Owed' = Owed /\ Admitted' = Admitted
  BY DEF Owed, Held, Admitted
<1>. QED  BY <1>1 DEF CounterInv, NoPhantomSlots, StoppedInv

\* A call leaves the holding phases and the counter is decremented with its clamp.
LEMMA SlotReturned ==
  ASSUME CounterInv, NEW c \in Calls, phase[c] \in Holding,
         UNCHANGED <<gen, attached, open, shutting>>,
         pending' = AfterRelease,
         phase' = [phase EXCEPT ![c] = phase'[c]], phase'[c] \notin Holding,
         born' = born
  PROVE  NoPhantomSlots' /\ StoppedInv'
<1>t. TypeOK /\ c \in Jobs /\ pending \in Nat
  BY LimitsAssumption DEF CounterInv, WellFormed, TypeOK, Jobs
<1>1. Owed' = Owed \ {c}
  BY <1>t DEF Owed, Held, TypeOK, Jobs, Holding
<1>2. Admitted' = Admitted \ {c}
  BY <1>t DEF Admitted, TypeOK, Jobs, Holding
<1>3. Cardinality(Owed') \in Nat /\ Cardinality(Owed) <= Cardinality(Owed') + 1
  BY <1>1, SetsFinite, CardinalityWithout
<1>4. Cardinality(Admitted') \in Nat
      /\ Cardinality(Admitted) <= Cardinality(Admitted') + 1
  BY <1>2, SetsFinite, CardinalityWithout
<1>5. NoPhantomSlots'
  BY <1>t, <1>3, SetsFinite DEF NoPhantomSlots, CounterInv, AfterRelease
<1>6. StoppedInv'
  BY <1>t, <1>4, SetsFinite DEF StoppedInv, CounterInv, AfterRelease
<1>. QED  BY <1>5, <1>6

LEMMA NextCounterInv == CounterInv /\ [Next]_vars => CounterInv'
<1>. SUFFICES ASSUME CounterInv, [Next]_vars PROVE NoPhantomSlots' /\ StoppedInv'
  BY NextWellFormed DEF CounterInv
<1>t. TypeOK /\ FutureInv /\ NoPhantomSlots /\ StoppedInv /\ pending \in Nat
  BY LimitsAssumption DEF CounterInv, WellFormed, TypeOK
<1>j. Calls \subseteq Jobs /\ Warmups \subseteq Jobs /\ Calls \cap Warmups = {}
  BY JobsAssumption DEF Jobs
<1>. USE DEF lifecycle
<1>1. CASE Start
  <2>1. Admitted' = Admitted /\ Admitted \subseteq Owed'
    BY <1>1 DEF Start, Admitted, Owed, Held, Holding
  <2>2. IsFiniteSet(Owed') /\ Cardinality(Owed') \in Nat
    BY CallSets DEF Owed, Held
  <2>3. Cardinality(Admitted) <= Cardinality(Owed')
    BY <2>1, <2>2, FS_Subset
  <2>4. pending <= Cardinality(Admitted)
    BY <1>1, <1>t DEF Start, StoppedInv
  <2>. QED  BY <1>1, <1>t, <2>2, <2>3, <2>4, SetsFinite DEF Start, NoPhantomSlots, StoppedInv
<1>2. ASSUME NEW mode \in {"nowait", "wait"}, BeginShutdown(mode)
      PROVE  NoPhantomSlots' /\ StoppedInv'
  BY <1>2, <1>t DEF BeginShutdown, NoPhantomSlots, StoppedInv, Owed, Held
<1>3. ASSUME NEW s \in Stages, ClosePool(s) PROVE NoPhantomSlots' /\ StoppedInv'
  BY <1>3, <1>t DEF ClosePool, NoPhantomSlots, StoppedInv, Owed, Held
<1>4. CASE EndShutdown
  <2>1. Owed' = Owed /\ Admitted' = Admitted /\ pending' = 0 /\ open' = {}
    BY <1>4 DEF EndShutdown, AfterShutdown, Owed, Held, Admitted
  <2>. QED  BY <2>1, SetsFinite DEF NoPhantomSlots, StoppedInv
<1>5. ASSUME NEW c \in Calls, Enter(c) PROVE NoPhantomSlots' /\ StoppedInv'
  BY <1>5, <1>t, <1>j, SlotsUntouched DEF Enter, Reject, Holding, TypeOK
<1>6. ASSUME NEW c \in Calls, Acquire(c) PROVE NoPhantomSlots' /\ StoppedInv'
  <2>1. CASE Full /\ Reject(c, "overloaded") /\ UNCHANGED pending
    BY <1>6, <2>1, <1>t, <1>j, SlotsUntouched DEF Acquire, Reject, Holding, TypeOK
  <2>2. CASE /\ ~Full /\ pending' = pending + 1
             /\ phase' = [phase EXCEPT ![c] = "admitted"]
    <3>1. c \notin Owed /\ Owed' = Owed \cup {c}
      BY <1>6, <2>2, <1>t, <1>j DEF Acquire, Owed, Held, Holding, TypeOK
    <3>2. c \notin Admitted /\ Admitted' = Admitted \cup {c}
      BY <1>6, <2>2, <1>t, <1>j DEF Acquire, Admitted, TypeOK
    <3>3. /\ Cardinality(Owed') = Cardinality(Owed) + 1
          /\ Cardinality(Admitted') = Cardinality(Admitted) + 1
      BY <3>1, <3>2, SetsFinite, CardinalityAdd
    <3>. QED  BY <1>6, <2>2, <3>3, <1>t, SetsFinite DEF Acquire, NoPhantomSlots, StoppedInv
  <2>. QED  BY <1>6, <2>1, <2>2 DEF Acquire
<1>7. ASSUME NEW c \in Calls, Dispatch(c) PROVE NoPhantomSlots' /\ StoppedInv'
  <2>1. Owed' = Owed
    BY <1>7, <1>t, <1>j DEF Dispatch, Accepts, Enqueue, Owed, Held, Holding, TypeOK
  <2>2. attached \/ shutting # "no"
    BY <1>7, <1>t DEF Dispatch, Accepts, StoppedInv
  <2>. QED  BY <1>7, <2>1, <2>2, <1>t DEF Dispatch, NoPhantomSlots, StoppedInv
<1>8. ASSUME NEW c \in Calls, DispatchFails(c) PROVE NoPhantomSlots' /\ StoppedInv'
  BY <1>8, <1>t, <1>j, SlotReturned DEF DispatchFails, Reject, Holding, TypeOK
<1>9. ASSUME NEW c \in Calls, NEW why \in {"deadline", "dropped"}, GiveUp(c, why)
      PROVE  NoPhantomSlots' /\ StoppedInv'
  BY <1>9, SlotsUntouched DEF GiveUp, AfterGivingUp
<1>10. ASSUME NEW c \in Calls, DeadlinePasses(c) PROVE NoPhantomSlots' /\ StoppedInv'
  BY <1>10, SlotsUntouched DEF DeadlinePasses
<1>11. ASSUME NEW w \in Warmups, WarmupSubmit(w) PROVE NoPhantomSlots' /\ StoppedInv'
  <2>1. \A c \in Calls : phase'[c] = phase[c] /\ born'[c] = born[c]
    BY <1>11, <1>t, <1>j DEF WarmupSubmit, Reject, Enqueue, TypeOK
  <2>. QED  BY <1>11, <2>1, SlotsUntouched DEF WarmupSubmit
<1>11a. ASSUME NEW w \in Warmups, WarmupEnter(w) PROVE NoPhantomSlots' /\ StoppedInv'
  <2>1. \A c \in Calls : phase'[c] = phase[c] /\ born'[c] = born[c]
    BY <1>11a, <1>t, <1>j DEF WarmupEnter, Reject, TypeOK
  <2>. QED  BY <1>11a, <2>1, SlotsUntouched DEF WarmupEnter
<1>12. ASSUME NEW w \in Warmups, WarmupTimeout(w) PROVE NoPhantomSlots' /\ StoppedInv'
  BY <1>12, SlotsUntouched DEF WarmupTimeout
<1>13. ASSUME NEW j \in Jobs, Take(j) PROVE NoPhantomSlots' /\ StoppedInv'
  BY <1>13, <1>t, <1>j, SlotsUntouched DEF Take, Holding, TypeOK
<1>14. ASSUME NEW j \in Jobs, NEW o \in Outcomes, Return(j, o)
       PROVE  NoPhantomSlots' /\ StoppedInv'
  <2>1. CASE j \in Calls
    BY <1>14, <2>1, <1>t, <1>j, SlotReturned DEF Return, AfterReturn, Holding, TypeOK
  <2>2. CASE j \notin Calls
    <3>1. \A c \in Calls : phase'[c] = phase[c]
      BY <1>14, <2>2, <1>t, <1>j DEF Return, TypeOK
    <3>. QED  BY <1>14, <2>2, <3>1, SlotsUntouched DEF Return, AfterReturn
  <2>. QED  BY <2>1, <2>2
<1>15. ASSUME NEW j \in Jobs, Resolve(j) PROVE NoPhantomSlots' /\ StoppedInv'
  BY <1>15, <1>t, <1>j, SlotsUntouched DEF Resolve, Holding, TypeOK
<1>16. ASSUME NEW j \in Jobs, Deliver(j) PROVE NoPhantomSlots' /\ StoppedInv'
  BY <1>16, SlotsUntouched DEF Deliver
<1>17. CASE UNCHANGED vars
  BY <1>17, SlotsUntouched DEF vars
<1>. QED
  BY <1>1, <1>2, <1>3, <1>4, <1>5, <1>6, <1>7, <1>8, <1>9, <1>10, <1>11, <1>12,
     <1>13, <1>14, <1>15, <1>16, <1>17, <1>11a
     DEF Next, Owner, Loop, Loader, Worker

LEMMA AlwaysCounterInv == Spec => []CounterInv
<1>1. Init => CounterInv
  BY InitWellFormed, SetsFinite
     DEF Init, CounterInv, NoPhantomSlots, StoppedInv
<1>. QED  BY <1>1, NextCounterInv, PTL DEF Spec

(* However often the engine is stopped and started, and whenever jobs of earlier
   starts release their slots, the counter never claims more calls than the
   current pools owe. *)
THEOREM NoPhantoms == Spec => []NoPhantomSlots
<1>1. CounterInv => NoPhantomSlots
  BY DEF CounterInv
<1>. QED  BY <1>1, AlwaysCounterInv, PTL

(* So a 529 always means max_pending_requests unfinished calls. *)
THEOREM RefusalsAreHonest == Spec => RefusedOnlyWhenFull
<1>. DEFINE A == \A c \in Calls : caller[c] # "overloaded" /\ caller'[c] = "overloaded"
                    => Cardinality(Owed) >= MaxPending
<1>1. CounterInv /\ [Next]_vars => [A]_vars
  <2>. SUFFICES ASSUME CounterInv, Next, NEW c \in Calls,
                       caller[c] # "overloaded", caller'[c] = "overloaded"
                PROVE  Cardinality(Owed) >= MaxPending
    OBVIOUS
  <2>t. TypeOK /\ FutureInv /\ NoPhantomSlots /\ pending \in Nat /\ c \in Jobs
    BY LimitsAssumption DEF CounterInv, WellFormed, TypeOK, Jobs
  <2>. USE DEF lifecycle
  <2>1. Acquire(c) /\ Full
    <3>1. CASE Owner
      BY <3>1 DEF Owner, Start, BeginShutdown, ClosePool, EndShutdown
    <3>2. ASSUME NEW d \in Calls, Loop(d) \/ DeadlinePasses(d)
          PROVE  Acquire(c) /\ Full
      BY <3>2, <2>t DEF Loop, Enter, Acquire, Dispatch, DispatchFails, GiveUp,
           DeadlinePasses, Reject, Enqueue, TypeOK
    <3>3. ASSUME NEW w \in Warmups, Loader(w) PROVE FALSE
      BY <3>3, <2>t DEF Loader, WarmupEnter, WarmupSubmit, WarmupTimeout, StillWaiting, Reject, Enqueue, TypeOK
    <3>4. ASSUME NEW j \in Jobs, Worker(j) PROVE FALSE
      BY <3>4 DEF Worker, Take, Return, Resolve
    <3>5. ASSUME NEW j \in Jobs, Deliver(j) PROVE FALSE
      <4>1. outcome[j] \in Outcomes
        BY <3>5, <2>t DEF Deliver, Deliverable, FutureInv
      <4>. QED  BY <3>5, <4>1, <2>t DEF Deliver, TypeOK, Outcomes
    <3>. QED  BY <3>1, <3>2, <3>3, <3>4, <3>5 DEF Next
  <2>. QED  BY <2>1, <2>t, SetsFinite, LimitsAssumption DEF Full, NoPhantomSlots
<1>. QED  BY <1>1, AlwaysCounterInv, PTL DEF Spec, RefusedOnlyWhenFull

-----------------------------------------------------------------------------
(* Exact accounting until the first shutdown has ended                       *)

LoopInv == NotStartedInv /\ OneOnLoop /\ DetachedInv
AccountInv == CounterInv /\ LoopInv /\ SlotAccounting

\* A step after the first start that puts no further call on the event loop.
LEMMA LoopUntouched ==
  ASSUME LoopInv, gen # 0, UNCHANGED <<gen, attached, shutting>>,
         \A c \in Calls : phase'[c] \in {"entered", "admitted"}
                            => phase[c] \in {"entered", "admitted"}
  PROVE  LoopInv'
<1>1. NotStartedInv' /\ DetachedInv'
  BY DEF LoopInv, NotStartedInv, DetachedInv
<1>2. ASSUME NEW c \in Calls, NEW d \in Calls, phase'[c] \in {"entered", "admitted"},
             phase'[d] \in {"entered", "admitted"}
      PROVE  c = d
  <2>1. phase[c] \in {"entered", "admitted"} /\ phase[d] \in {"entered", "admitted"}
    BY <1>2
  <2>. QED  BY <2>1 DEF LoopInv, OneOnLoop
<1>. QED  BY <1>1, <1>2 DEF LoopInv, OneOnLoop

\* A step that leaves the calls and the owner's variables alone.
LEMMA CallsUntouched ==
  ASSUME LoopInv, UNCHANGED <<gen, attached, shutting, pending>>,
         \A c \in Calls : phase'[c] = phase[c]
  PROVE  LoopInv'
  BY DEF LoopInv, NotStartedInv, OneOnLoop, DetachedInv

LEMMA NextLoopInv == CounterInv /\ LoopInv /\ [Next]_vars => LoopInv'
<1>. SUFFICES ASSUME CounterInv, LoopInv, [Next]_vars PROVE LoopInv'
  OBVIOUS
<1>t. TypeOK /\ StoppedInv /\ gen \in Nat
  BY LimitsAssumption DEF CounterInv, WellFormed, TypeOK
<1>j. Calls \subseteq Jobs /\ Warmups \subseteq Jobs /\ Calls \cap Warmups = {}
  BY JobsAssumption DEF Jobs
<1>n. \A c \in Calls : phase[c] \notin {"new", "rejected"} => gen # 0
  BY DEF LoopInv, NotStartedInv
<1>. USE DEF lifecycle
<1>1. CASE Owner
  BY <1>1, <1>t DEF Owner, Start, BeginShutdown, ClosePool, EndShutdown, AfterShutdown,
       LoopInv, NotStartedInv, OneOnLoop, DetachedInv
<1>2. ASSUME NEW c \in Calls, Enter(c) PROVE LoopInv'
  BY <1>2, <1>t, <1>j
     DEF Enter, LoopFree, Reject, TypeOK, LoopInv, NotStartedInv, OneOnLoop, DetachedInv
<1>3. ASSUME NEW c \in Calls, Acquire(c) PROVE LoopInv'
  <2>1. gen # 0
    BY <1>3, <1>n DEF Acquire
  <2>. QED  BY <1>3, <2>1, <1>t, <1>j, LoopUntouched DEF Acquire, Reject, TypeOK
<1>4. ASSUME NEW c \in Calls, Dispatch(c) \/ DispatchFails(c) PROVE LoopInv'
  <2>1. gen # 0
    BY <1>4, <1>n DEF Dispatch, DispatchFails
  <2>. QED
    BY <1>4, <2>1, <1>t, <1>j, LoopUntouched
       DEF Dispatch, DispatchFails, Enqueue, Reject, TypeOK
<1>5. ASSUME NEW c \in Calls, NEW why \in {"deadline", "dropped"}, GiveUp(c, why)
      PROVE  LoopInv'
  BY <1>5, CallsUntouched DEF GiveUp, AfterGivingUp
<1>6. ASSUME NEW c \in Calls, DeadlinePasses(c) PROVE LoopInv'
  BY <1>6, CallsUntouched DEF DeadlinePasses
<1>7. ASSUME NEW w \in Warmups, Loader(w) PROVE LoopInv'
  <2>1. \A c \in Calls : phase'[c] = phase[c]
    BY <1>7, <1>t, <1>j DEF Loader, WarmupEnter, WarmupSubmit, WarmupTimeout, StillWaiting, Enqueue, Reject, TypeOK
  <2>. QED  BY <1>7, <2>1, CallsUntouched DEF Loader, WarmupEnter, WarmupSubmit, WarmupTimeout
<1>8. ASSUME NEW j \in Jobs, Worker(j) PROVE LoopInv'
  <2>1. UNCHANGED <<gen, attached, shutting>>
    BY <1>8 DEF Worker, Take, Return, Resolve
  <2>2. CASE j \in Calls
    <3>1. gen # 0
      BY <1>8, <2>2, <1>n DEF Worker, Take, Return, Resolve
    <3>2. \A c \in Calls : phase'[c] \in {"entered", "admitted"} => phase'[c] = phase[c]
      BY <1>8, <1>t, <1>j DEF Worker, Take, Return, Resolve, TypeOK
    <3>. QED  BY <2>1, <3>1, <3>2, LoopUntouched
  <2>3. CASE j \notin Calls
    <3>1. \A c \in Calls : phase'[c] = phase[c]
      BY <1>8, <2>3, <1>t, <1>j DEF Worker, Take, Return, Resolve, TypeOK
    <3>2. pending' = pending
      BY <1>8, <2>3 DEF Worker, Take, Return, Resolve, AfterReturn
    <3>. QED  BY <2>1, <3>1, <3>2, CallsUntouched
  <2>. QED  BY <2>2, <2>3
<1>9. ASSUME NEW j \in Jobs, Deliver(j) PROVE LoopInv'
  BY <1>9, CallsUntouched DEF Deliver
<1>10. CASE UNCHANGED vars
  BY <1>10, CallsUntouched DEF vars
<1>. QED
  BY <1>1, <1>2, <1>3, <1>4, <1>5, <1>6, <1>7, <1>8, <1>9, <1>10 DEF Next, Loop

\* A step that moves no call into or out of the holding phases keeps the account.
LEMMA HeldUntouched ==
  ASSUME SlotAccounting, Live' => Live, UNCHANGED pending,
         \A c \in Calls : (phase[c] \in Holding) <=> (phase'[c] \in Holding)
  PROVE  SlotAccounting'
<1>1. Held' = Held
  BY DEF Held
<1>. QED  BY <1>1 DEF SlotAccounting

\* A held slot is returned: one call and one unit of the counter go together.
LEMMA HeldReturned ==
  ASSUME TypeOK, SlotAccounting, Live' => Live, NEW c \in Calls, phase[c] \in Holding,
         pending' = AfterRelease, phase' = [phase EXCEPT ![c] = phase'[c]],
         phase'[c] \notin Holding
  PROVE  SlotAccounting'
<1>1. Held' = Held \ {c} /\ c \in Held
  BY DEF Held, TypeOK, Jobs, Holding
<1>2. Cardinality(Held') \in Nat /\ Cardinality(Held) = Cardinality(Held') + 1
  BY <1>1, SetsFinite, CardinalityRemove
<1>. QED  BY <1>2, LimitsAssumption DEF SlotAccounting, AfterRelease, TypeOK

LEMMA NextAccountInv == AccountInv /\ [Next]_vars => AccountInv'
<1>. SUFFICES ASSUME AccountInv, [Next]_vars PROVE SlotAccounting'
  BY NextCounterInv, NextLoopInv DEF AccountInv
<1>t. /\ TypeOK /\ NotStartedInv /\ DetachedInv /\ SlotAccounting
      /\ pending \in Nat /\ gen \in Nat
  BY LimitsAssumption DEF AccountInv, LoopInv, CounterInv, WellFormed, TypeOK
<1>j. Calls \subseteq Jobs /\ Warmups \subseteq Jobs /\ Calls \cap Warmups = {}
  BY JobsAssumption DEF Jobs
<1>l. UNCHANGED <<gen, attached, shutting>> => (Live' => Live)
  BY DEF Live
<1>. USE DEF lifecycle
<1>1. CASE Start
  <2>1. CASE gen = 0
    <3>1. Held' = {} /\ pending' = 0
      BY <1>1, <2>1, <1>t DEF Start, NotStartedInv, Held, Holding
    <3>. QED  BY <3>1, FS_EmptySet DEF SlotAccounting
  <2>2. CASE gen # 0
    BY <1>1, <2>2, <1>t DEF Start, SlotAccounting, Live
  <2>. QED  BY <2>1, <2>2
<1>2. ASSUME NEW mode \in {"nowait", "wait"}, BeginShutdown(mode) PROVE SlotAccounting'
  <2>1. Live' => Live
    BY <1>2 DEF BeginShutdown, Live
  <2>. QED  BY <1>2, <2>1, <1>t, HeldUntouched DEF BeginShutdown
<1>3. ASSUME NEW s \in Stages, ClosePool(s) PROVE SlotAccounting'
  BY <1>3, <1>l, <1>t, HeldUntouched DEF ClosePool
<1>4. CASE EndShutdown
  <2>1. ~attached
    BY <1>4, <1>t DEF EndShutdown, DetachedInv
  <2>. QED  BY <1>4, <2>1 DEF EndShutdown, SlotAccounting, Live
<1>5. ASSUME NEW c \in Calls, Enter(c) PROVE SlotAccounting'
  BY <1>5, <1>l, <1>t, <1>j, HeldUntouched DEF Enter, Reject, Holding, TypeOK
<1>6. ASSUME NEW c \in Calls, Acquire(c) PROVE SlotAccounting'
  <2>1. CASE Full /\ Reject(c, "overloaded") /\ UNCHANGED pending
    BY <1>6, <2>1, <1>l, <1>t, <1>j, HeldUntouched DEF Acquire, Reject, Holding, TypeOK
  <2>2. CASE /\ ~Full /\ pending' = pending + 1
             /\ phase' = [phase EXCEPT ![c] = "admitted"]
    <3>1. c \notin Held /\ Held' = Held \cup {c}
      BY <1>6, <2>2, <1>t, <1>j DEF Acquire, Held, Holding, TypeOK
    <3>2. Cardinality(Held') = Cardinality(Held) + 1
      BY <3>1, SetsFinite, CardinalityAdd
    <3>. QED  BY <1>6, <2>2, <3>2, <1>l, <1>t DEF Acquire, SlotAccounting
  <2>. QED  BY <1>6, <2>1, <2>2 DEF Acquire
<1>7. ASSUME NEW c \in Calls, Dispatch(c) PROVE SlotAccounting'
  BY <1>7, <1>l, <1>t, <1>j, HeldUntouched DEF Dispatch, Enqueue, Holding, TypeOK
<1>8. ASSUME NEW c \in Calls, DispatchFails(c) PROVE SlotAccounting'
  BY <1>8, <1>l, <1>t, <1>j, HeldReturned DEF DispatchFails, Reject, Holding, TypeOK
<1>9. ASSUME NEW c \in Calls, NEW why \in {"deadline", "dropped"}, GiveUp(c, why)
      PROVE  SlotAccounting'
  BY <1>9, <1>l, <1>t, HeldUntouched DEF GiveUp, AfterGivingUp
<1>10. ASSUME NEW c \in Calls, DeadlinePasses(c) PROVE SlotAccounting'
  BY <1>10, <1>l, <1>t, HeldUntouched DEF DeadlinePasses
<1>11. ASSUME NEW w \in Warmups, Loader(w) PROVE SlotAccounting'
  BY <1>11, <1>l, <1>t, <1>j, HeldUntouched
     DEF Loader, WarmupEnter, WarmupSubmit, WarmupTimeout, StillWaiting, Enqueue, Reject, TypeOK
<1>12. ASSUME NEW j \in Jobs, Take(j) PROVE SlotAccounting'
  BY <1>12, <1>l, <1>t, <1>j, HeldUntouched DEF Take, Holding, TypeOK
<1>13. ASSUME NEW j \in Jobs, NEW o \in Outcomes, Return(j, o) PROVE SlotAccounting'
  <2>1. CASE j \in Calls
    BY <1>13, <2>1, <1>l, <1>t, <1>j, HeldReturned DEF Return, AfterReturn, Holding, TypeOK
  <2>2. CASE j \notin Calls
    <3>1. \A c \in Calls : phase'[c] = phase[c]
      BY <1>13, <2>2, <1>t, <1>j DEF Return, TypeOK
    <3>. QED  BY <1>13, <2>2, <3>1, <1>l, <1>t, HeldUntouched DEF Return, AfterReturn
  <2>. QED  BY <2>1, <2>2
<1>14. ASSUME NEW j \in Jobs, Resolve(j) PROVE SlotAccounting'
  BY <1>14, <1>l, <1>t, <1>j, HeldUntouched DEF Resolve, Holding, TypeOK
<1>15. ASSUME NEW j \in Jobs, Deliver(j) PROVE SlotAccounting'
  BY <1>15, <1>l, <1>t, HeldUntouched DEF Deliver
<1>16. CASE UNCHANGED vars
  BY <1>16, <1>l, <1>t, HeldUntouched DEF vars
<1>. QED
  BY <1>1, <1>2, <1>3, <1>4, <1>5, <1>6, <1>7, <1>8, <1>9, <1>10, <1>11, <1>12,
     <1>13, <1>14, <1>15, <1>16
     DEF Next, Owner, Loop, Worker

LEMMA AlwaysAccountInv == Spec => []AccountInv
<1>1. Init => AccountInv
  <2>1. Init => CounterInv
    BY InitWellFormed, SetsFinite DEF Init, CounterInv, NoPhantomSlots, StoppedInv
  <2>2. Init => LoopInv
    <3>1. Init => \A c \in Calls : phase[c] = "new"
      BY DEF Init, Jobs
    <3>. QED  BY <3>1 DEF Init, LoopInv, NotStartedInv, OneOnLoop, DetachedInv
  <2>3. Init => SlotAccounting
    BY DEF Init, SlotAccounting, Live
  <2>. QED  BY <2>1, <2>2, <2>3 DEF AccountInv
<1>. QED  BY <1>1, NextAccountInv, PTL DEF Spec

(* From the first start to the end of the first shutdown the counter is exactly the
   number of admitted, unfinished calls: no path through _submit() or the worker
   loses a slot or returns one twice. *)
THEOREM ExactAccounting == Spec => []SlotAccounting
<1>1. AccountInv => SlotAccounting
  BY DEF AccountInv
<1>. QED  BY <1>1, AlwaysAccountInv, PTL

(* And there are never more of them than max_pending_requests, abandoned ones included. *)
THEOREM AdmissionIsBounded == Spec => []AdmissionBound
<1>1. AccountInv => AdmissionBound
  BY LimitsAssumption
     DEF AccountInv, CounterInv, WellFormed, SlotAccounting, AdmissionBound, TypeOK
<1>. QED  BY <1>1, AlwaysAccountInv, PTL

-----------------------------------------------------------------------------
(* An engine that is started once implements the abstract service            *)

\* What each thing a caller can have seen means to the abstract service.
LEMMA MeaningValues ==
  /\ Meaning("new") = "none" /\ Meaning("waiting") = "accepted"
  /\ Meaning("overloaded") = "overloaded"
  /\ \A seen \in Outcomes : Meaning(seen) = "answered"
  /\ \A seen \in GaveUp : Meaning(seen) = "abandoned"
  /\ \A seen \in {"down", "expired", "failed"} : Meaning(seen) = "declined"
  BY DEF Meaning, Outcomes, GaveUp

\* A step that leaves the callers of run() alone leaves the verdicts alone.
LEMMA ToldUnchanged ==
  ASSUME \A c \in Calls : caller'[c] = caller[c]
  PROVE  Told' = Told
  BY DEF Told

\* A step that tells one caller something changes one verdict.
LEMMA ToldMoves ==
  ASSUME TypeOK, NEW c \in Calls, NEW v, caller' = [caller EXCEPT ![c] = v]
  PROVE  Told' = [Told EXCEPT ![c] = Meaning(v)]
<1>1. caller'[c] = v /\ \A d \in Calls \ {c} : caller'[d] = caller[d]
  BY DEF TypeOK, Jobs
<1>2. Told' = [d \in Calls |-> IF d = c THEN Meaning(v) ELSE Told[d]]
  <2>1. \A d \in Calls : Meaning(caller'[d]) = IF d = c THEN Meaning(v) ELSE Told[d]
    BY <1>1 DEF Told
  <2>2. Told' = [d \in Calls |-> Meaning(caller'[d])]
    BY DEF Told
  <2>. QED  BY <2>1, <2>2
<1>3. [Told EXCEPT ![c] = Meaning(v)]
        = [d \in Calls |-> IF d = c THEN Meaning(v) ELSE Told[d]]
  BY DEF Told
<1>. QED  BY <1>2, <1>3

\* The library's cardinality is the same one inside the instance.
LEMMA SameCardinality == \A S : Service!Cardinality(S) = Cardinality(S)
  BY DEF Service!Cardinality, Cardinality

LEMMA StepsRefine ==
  ASSUME MaxStarts = 1, AccountInv, [Next]_vars
  PROVE  [Service!Next]_(Service!svars)
<1>t. /\ TypeOK /\ FutureInv /\ StoppedInv /\ LoopInv /\ SlotAccounting
      /\ pending \in Nat /\ gen \in {0, 1}
  BY LimitsAssumption DEF AccountInv, CounterInv, WellFormed, TypeOK
<1>j. Calls \subseteq Jobs /\ Warmups \subseteq Jobs /\ Calls \cap Warmups = {}
  BY JobsAssumption DEF Jobs
<1>v. \A c \in Calls : /\ phase[c] \in {"new", "entered", "admitted"} => Told[c] = "none"
                       /\ caller[c] = "waiting" => Told[c] = "accepted"
  BY <1>t, <1>j, MeaningValues DEF FutureInv, Told
<1>. USE DEF lifecycle, Service!Next, Service!svars
<1>s. InService' = InService /\ Told' = Told => UNCHANGED Service!svars
  OBVIOUS
<1>1. CASE Owner
  <2>1. InService' = InService /\ Told' = Told
    BY <1>1, ToldUnchanged
       DEF Owner, Start, BeginShutdown, ClosePool, EndShutdown, InService
  <2>. QED  BY <2>1, <1>s
<1>2. ASSUME NEW c \in Calls, Enter(c) PROVE [Service!Next]_(Service!svars)
  <2>1. InService' = InService
    BY <1>2, <1>t, <1>j DEF Enter, Reject, InService, TypeOK
  <2>2. ASSUME NEW why \in {"down", "expired"}, Reject(c, why) PROVE Service!Decline(c)
    <3>1. Told' = [Told EXCEPT ![c] = "declined"]
      <4>1. caller' = [caller EXCEPT ![c] = why]
        BY <2>2 DEF Reject
      <4>2. Told' = [Told EXCEPT ![c] = Meaning(why)]
        BY <4>1, <1>t, ToldMoves
      <4>. QED  BY <4>2, MeaningValues
    <3>2. Told[c] = "none"
      BY <1>2, <1>v DEF Enter
    <3>. QED  BY <2>1, <3>1, <3>2 DEF Service!Decline, Service!Tell
  <2>3. CASE UNCHANGED caller
    BY <2>1, <2>3, ToldUnchanged, <1>s
  <2>. QED  BY <1>2, <2>2, <2>3 DEF Enter
<1>3. ASSUME NEW c \in Calls, Acquire(c) PROVE [Service!Next]_(Service!svars)
  <2>1. InService' = InService
    BY <1>3, <1>t, <1>j DEF Acquire, Reject, InService, TypeOK
  <2>2. CASE Full /\ Reject(c, "overloaded")
    <3>1. Told' = [Told EXCEPT ![c] = "overloaded"] /\ Told[c] = "none"
      <4>1. caller' = [caller EXCEPT ![c] = "overloaded"]
        BY <2>2 DEF Reject
      <4>2. Told' = [Told EXCEPT ![c] = Meaning("overloaded")]
        BY <4>1, <1>t, ToldMoves
      <4>3. Told[c] = "none"
        BY <1>3, <1>v DEF Acquire
      <4>. QED  BY <4>2, <4>3, MeaningValues
    <3>2. Admitted = {}
      BY <1>3, <1>t DEF Admitted, Acquire, LoopInv, OneOnLoop
    <3>3. Held = InService
      BY <3>2 DEF Held, Holding, InService, Admitted
    <3>4. pending >= MaxPending /\ MaxPending > 0
      BY <2>2, LimitsAssumption DEF Full
    <3>5. Live
      <4>1. attached \/ shutting # "no"
        BY <3>2, <3>4, <1>t, LimitsAssumption, FS_EmptySet DEF StoppedInv
      <4>2. gen = 1
        BY <1>3, <1>t DEF LoopInv, NotStartedInv, Acquire
      <4>. QED  BY <4>1, <4>2 DEF Live
    <3>6. Cardinality(InService) = MaxPending
      BY <3>3, <3>4, <3>5, <1>t, LimitsAssumption DEF SlotAccounting, TypeOK
    <3>. QED  BY <2>1, <3>1, <3>6, SameCardinality DEF Service!Overload, Service!Tell
  <2>3. CASE UNCHANGED caller
    BY <2>1, <2>3, ToldUnchanged, <1>s
  <2>. QED  BY <1>3, <2>2, <2>3 DEF Acquire
<1>4. ASSUME NEW c \in Calls, Dispatch(c) PROVE [Service!Next]_(Service!svars)
  <2>1. c \notin InService /\ InService' = InService \cup {c}
    BY <1>4, <1>t, <1>j DEF Dispatch, Enqueue, InService, TypeOK
  <2>2. Told' = [Told EXCEPT ![c] = "accepted"] /\ Told[c] = "none"
    <3>1. caller' = [caller EXCEPT ![c] = "waiting"]
      BY <1>4 DEF Dispatch, Enqueue
    <3>2. Told' = [Told EXCEPT ![c] = Meaning("waiting")]
      BY <3>1, <1>t, ToldMoves
    <3>3. Told[c] = "none"
      BY <1>4, <1>v DEF Dispatch
    <3>. QED  BY <3>2, <3>3, MeaningValues
  <2>3. Live
    <3>1. attached \/ shutting # "no"
      BY <1>4, <1>t DEF StoppedInv, Dispatch, Accepts
    <3>2. gen = 1
      BY <1>4, <1>t DEF LoopInv, NotStartedInv, Dispatch
    <3>. QED  BY <3>1, <3>2 DEF Live
  <2>4. Cardinality(InService) < MaxPending
    <3>1. InService \cup {c} \subseteq Held
      BY <1>4 DEF InService, Held, Holding, Dispatch
    <3>2. Cardinality(InService \cup {c}) = Cardinality(InService) + 1
          /\ Cardinality(InService) \in Nat
      BY <2>1, CallSets, CardinalityAdd DEF InService
    <3>3. Cardinality(InService \cup {c}) <= Cardinality(Held)
      BY <3>1, SetsFinite, FS_Subset
    <3>4. Cardinality(Held) <= MaxPending
      BY <2>3, <1>t, LimitsAssumption DEF SlotAccounting, TypeOK
    <3>. QED  BY <3>2, <3>3, <3>4, SetsFinite, LimitsAssumption
  <2>. QED  BY <2>1, <2>2, <2>4, SameCardinality DEF Service!Accept, Service!Tell
<1>5. ASSUME NEW c \in Calls, DispatchFails(c) PROVE [Service!Next]_(Service!svars)
  <2>1. InService' = InService
    BY <1>5, <1>t, <1>j DEF DispatchFails, Reject, InService, TypeOK
  <2>2. Told' = [Told EXCEPT ![c] = "declined"] /\ Told[c] = "none"
    <3>1. caller' = [caller EXCEPT ![c] = "failed"]
      BY <1>5 DEF DispatchFails, Reject
    <3>2. Told' = [Told EXCEPT ![c] = Meaning("failed")]
      BY <3>1, <1>t, ToldMoves
    <3>3. Told[c] = "none"
      BY <1>5, <1>v DEF DispatchFails
    <3>. QED  BY <3>2, <3>3, MeaningValues
  <2>. QED  BY <2>1, <2>2 DEF Service!Decline, Service!Tell
<1>6. ASSUME NEW c \in Calls, NEW why \in {"deadline", "dropped"}, GiveUp(c, why)
      PROVE  [Service!Next]_(Service!svars)
  <2>1. InService' = InService
    BY <1>6 DEF GiveUp, AfterGivingUp, InService
  <2>2. why \in GaveUp
    BY <1>6 DEF GaveUp
  <2>3. Told' = [Told EXCEPT ![c] = "abandoned"] /\ Told[c] = "accepted"
    <3>1. caller' = [caller EXCEPT ![c] = why]
      BY <1>6 DEF GiveUp
    <3>2. Told' = [Told EXCEPT ![c] = Meaning(why)]
      BY <3>1, <1>t, ToldMoves
    <3>3. Told[c] = "accepted"
      BY <1>6, <1>v DEF GiveUp
    <3>. QED  BY <3>2, <3>3, <2>2, MeaningValues
  <2>. QED  BY <2>1, <2>3 DEF Service!GiveUp, Service!Tell
<1>7. ASSUME NEW c \in Calls, DeadlinePasses(c) PROVE [Service!Next]_(Service!svars)
  BY <1>7, <1>s, ToldUnchanged DEF DeadlinePasses, InService
<1>8. ASSUME NEW w \in Warmups, Loader(w) PROVE [Service!Next]_(Service!svars)
  <2>1. \A c \in Calls : phase'[c] = phase[c] /\ caller'[c] = caller[c]
    BY <1>8, <1>t, <1>j DEF Loader, WarmupEnter, WarmupSubmit, WarmupTimeout, StillWaiting, Enqueue, Reject, TypeOK
  <2>. QED  BY <2>1, <1>s, ToldUnchanged DEF InService
<1>9. ASSUME NEW j \in Jobs, Take(j) \/ Resolve(j) PROVE [Service!Next]_(Service!svars)
  <2>1. InService' = InService
    BY <1>9, <1>t, <1>j DEF Take, Resolve, InService, TypeOK
  <2>2. Told' = Told
    BY <1>9, ToldUnchanged DEF Take, Resolve
  <2>. QED  BY <2>1, <2>2, <1>s
<1>10. ASSUME NEW j \in Jobs, NEW o \in Outcomes, Return(j, o)
       PROVE  [Service!Next]_(Service!svars)
  <2>1. Told' = Told
    BY <1>10, ToldUnchanged DEF Return
  <2>2. InService' = InService \ {j}
    BY <1>10, <1>t, <1>j DEF Return, InService, TypeOK
  <2>3. CASE j \in Calls
    <3>1. j \in InService
      BY <1>10, <2>3 DEF Return, InService
    <3>. QED  BY <2>1, <2>2, <2>3, <3>1 DEF Service!GiveBack
  <2>4. CASE j \notin Calls
    BY <2>1, <2>2, <2>4, <1>s DEF InService
  <2>. QED  BY <2>3, <2>4
<1>11. ASSUME NEW j \in Jobs, Deliver(j) PROVE [Service!Next]_(Service!svars)
  <2>1. InService' = InService
    BY <1>11 DEF Deliver, InService
  <2>2. CASE j \in Calls
    <3>1. outcome[j] \in Outcomes /\ j \notin InService
      BY <1>11, <1>t DEF Deliver, Deliverable, FutureInv, InService
    <3>2. Told' = [Told EXCEPT ![j] = "answered"] /\ Told[j] = "accepted"
      <4>1. PICK o \in Outcomes : outcome[j] = o
        BY <3>1
      <4>2. caller' = [caller EXCEPT ![j] = o]
        BY <1>11, <4>1 DEF Deliver
      <4>3. Told' = [Told EXCEPT ![j] = Meaning(o)]
        BY <4>2, <2>2, <1>t, ToldMoves
      <4>4. Told[j] = "accepted"
        BY <1>11, <2>2, <1>v DEF Deliver
      <4>. QED  BY <4>3, <4>4, MeaningValues
    <3>. QED  BY <2>1, <2>2, <3>1, <3>2 DEF Service!Answer, Service!Tell
  <2>3. CASE j \notin Calls
    <3>1. \A c \in Calls : caller'[c] = caller[c]
      BY <1>11, <2>3, <1>t DEF Deliver, TypeOK
    <3>. QED  BY <2>1, <3>1, ToldUnchanged, <1>s
  <2>. QED  BY <2>2, <2>3
<1>12. CASE UNCHANGED vars
  BY <1>12, <1>s, ToldUnchanged DEF vars, InService
<1>. QED
  BY <1>1, <1>2, <1>3, <1>4, <1>5, <1>6, <1>7, <1>8, <1>9, <1>10, <1>11, <1>12
     DEF Next, Loop, Worker

(* Started once, the engine implements BoundedService: it is a counting semaphore of
   max_pending_requests slots, an answer comes after its slot is free, giving up does
   not free it, and every call is told one thing. *)
THEOREM EngineImplementsService ==
  ASSUME MaxStarts = 1
  PROVE  Spec => ImplementsService
<1>1. Init => Service!Init
  <2>. SUFFICES ASSUME Init PROVE Service!Init
    OBVIOUS
  <2>1. \A c \in Calls : phase[c] = "new" /\ caller[c] = "new"
    BY DEF Init, Jobs
  <2>2. InService = {}
    BY <2>1 DEF InService
  <2>3. Told = [c \in Calls |-> "none"]
    BY <2>1, MeaningValues DEF Told
  <2>. QED  BY <2>2, <2>3 DEF Service!Init
<1>2. AccountInv /\ [Next]_vars => [Service!Next]_(Service!svars)
  BY StepsRefine
<1>. QED  BY <1>1, <1>2, AlwaysAccountInv, PTL DEF Spec, ImplementsService, Service!Spec
=============================================================================
