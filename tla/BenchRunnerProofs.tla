------------------------- MODULE BenchRunnerProofs -------------------------
(***************************************************************************)
(* Theorems about BenchRunner for every sample, every number of threads    *)
(* and editions, and every number of runs, crashes and repairs.            *)
(***************************************************************************)
EXTENDS BenchRunner, FiniteSetTheorems, SequenceTheorems, WellFoundedInduction, TLAPS

-----------------------------------------------------------------------------
(* The file: what an append and a deletion make of its lines                 *)

Lines == Records \cup {Damaged}

FileForm == /\ file \in Seq(Lines)
            /\ open \in BOOLEAN /\ (open => file # <<>>)

LEMMA RecordsAreLines ==
  ASSUME edition \in Editions, NEW s \in Samples, NEW line \in RecordsOf(s)
  PROVE  line \in Records /\ line.sample = s /\ line.edition = edition /\ line.text \in Texts
BY DEF RecordsOf, Records

LEMMA RecordFields ==
  ASSUME NEW line \in Records
  PROVE  /\ line.sample \in Samples /\ line.status \in Statuses
         /\ line.edition \in Editions /\ line.text \in Texts
BY DEF Records

LEMMA RecordsAreWhole ==
  ASSUME NEW line \in Records PROVE line # Damaged
BY DEF Records, Damaged, Statuses

\* An append makes one more line, or spoils one that had no newline.
LEMMA AppendedForm ==
  ASSUME FileForm, NEW line \in Lines
  PROVE  /\ Appended(line) \in Seq(Lines) /\ Appended(line) # <<>>
         /\ Len(file) \in Nat /\ (open => Len(file) \in 1..Len(file))
         /\ ~open => /\ Len(Appended(line)) = Len(file) + 1
                     /\ Appended(line)[Len(file) + 1] = line
                     /\ \A i \in 1..Len(file) : Appended(line)[i] = file[i]
         /\ open => /\ Len(Appended(line)) = Len(file)
                    /\ \A i \in 1..Len(file) :
                         Appended(line)[i] = IF i = Len(file) THEN Damaged ELSE file[i]
<1>1. Len(file) \in Nat /\ (file # <<>> => Len(file) \in Nat \ {0})
  BY EmptySeq, LenProperties DEF FileForm
<1>2. CASE ~open
  <2>1. Appended(line) = Append(file, line)
    BY <1>2 DEF Appended
  <2>2. /\ Append(file, line) \in Seq(Lines)
        /\ Len(Append(file, line)) = Len(file) + 1
        /\ \A i \in 1..Len(file) : Append(file, line)[i] = file[i]
        /\ Append(file, line)[Len(file) + 1] = line
    BY AppendProperties DEF FileForm
  <2>3. Append(file, line) # <<>>
    BY <1>1, <2>2, EmptySeq
  <2>. QED  BY <1>1, <1>2, <2>1, <2>2, <2>3
<1>3. CASE open
  <2>1. Appended(line) = [file EXCEPT ![Len(file)] = Damaged]
    BY <1>3 DEF Appended
  <2>2. Len(file) \in 1..Len(file) /\ Damaged \in Lines
    BY <1>1, <1>3 DEF FileForm, Lines
  <2>3. /\ [file EXCEPT ![Len(file)] = Damaged] \in Seq(Lines)
        /\ Len([file EXCEPT ![Len(file)] = Damaged]) = Len(file)
        /\ \A i \in 1..Len(file) :
             [file EXCEPT ![Len(file)] = Damaged][i] = IF i = Len(file) THEN Damaged ELSE file[i]
    BY <2>2, ExceptSeq DEF FileForm
  <2>4. [file EXCEPT ![Len(file)] = Damaged] # <<>>
    BY <1>1, <1>3, <2>3, EmptySeq DEF FileForm
  <2>. QED  BY <1>1, <1>3, <2>1, <2>2, <2>3, <2>4
<1>. QED  BY <1>2, <1>3

\* A deletion moves the lines behind it up by one.
Moved(i, j) == IF j < i THEN j ELSE j + 1

LEMMA DeletedForm ==
  ASSUME FileForm, NEW i \in DOMAIN file
  PROVE  /\ Len(file) \in Nat \ {0} /\ i \in 1..Len(file)
         /\ RemoveAt(file, i) \in Seq(Lines)
         /\ Len(RemoveAt(file, i)) = Len(file) - 1
         /\ \A j \in 1..Len(file) - 1 : RemoveAt(file, i)[j] = file[Moved(i, j)]
<1>. DEFINE n == Len(file)  before == SubSeq(file, 1, i - 1)  after == SubSeq(file, i + 1, n)
<1>1. n \in Nat /\ DOMAIN file = 1..n /\ \A j \in 1..n : file[j] \in Lines
  BY LenProperties, ElementOfSeq DEF FileForm
<1>2. i \in 1..n /\ n \in Nat \ {0}
  BY <1>1
<1>3. /\ i \in Int /\ n \in Int /\ 1 \in Int /\ i - 1 \in Int /\ i + 1 \in Int
      /\ i - 1 - 1 + 1 = i - 1 /\ n - (i + 1) + 1 = n - i
      /\ (IF 1 <= i - 1 THEN i - 1 - 1 + 1 ELSE 0) = i - 1
      /\ (IF i + 1 <= n THEN n - (i + 1) + 1 ELSE 0) = n - i
      /\ \A j \in 1..i - 1 : j \in 1..n
      /\ \A j \in i + 1 .. n : j \in 1..n
  BY <1>2
<1>. HIDE DEF n
<1>4. /\ before \in Seq(Lines) /\ Len(before) = i - 1
      /\ \A j \in 1..i - 1 : before[j] = file[1 + j - 1]
  BY <1>1, <1>3, SubSeqProperties
<1>5. /\ after \in Seq(Lines) /\ Len(after) = n - i
      /\ \A j \in 1..n - i : after[j] = file[i + 1 + j - 1]
  BY <1>1, <1>3, SubSeqProperties
<1>6. RemoveAt(file, i) = before \o after
  BY DEF RemoveAt, n
<1>. HIDE DEF before, after
<1>7. /\ before \o after \in Seq(Lines) /\ Len(before \o after) = n - 1
      /\ \A j \in 1..n - 1 :
           (before \o after)[j] = IF j <= i - 1 THEN before[j] ELSE after[j - (i - 1)]
  <2>1. i - 1 + (n - i) = n - 1
    BY <1>2
  <2>2. /\ before \o after \in Seq(Lines) /\ Len(before \o after) = Len(before) + Len(after)
        /\ \A j \in 1..Len(before) + Len(after) :
             (before \o after)[j] = IF j <= Len(before) THEN before[j] ELSE after[j - Len(before)]
    BY <1>4, <1>5, ConcatProperties
  <2>3. Len(before) = i - 1 /\ Len(before) + Len(after) = n - 1
    BY <1>4, <1>5, <2>1
  <2>. QED  BY <2>2, <2>3
<1>8. ASSUME NEW j \in 1..n - 1 PROVE (before \o after)[j] = file[Moved(i, j)]
  <2>1. CASE j < i
    <3>1. j \in 1..i - 1 /\ j <= i - 1 /\ 1 + j - 1 = j
      BY <1>2, <2>1
    <3>. QED  BY <1>4, <1>7, <2>1, <3>1 DEF Moved
  <2>2. CASE ~(j < i)
    <3>1. j - (i - 1) \in 1..n - i /\ ~(j <= i - 1) /\ i + 1 + (j - (i - 1)) - 1 = j + 1
      BY <1>2, <2>2
    <3>. QED  BY <1>5, <1>7, <2>2, <3>1 DEF Moved
  <2>. QED  BY <2>1, <2>2
<1>. QED  BY <1>2, <1>6, <1>7, <1>8 DEF n

\* A write, whole or cut short, leaves lines.
LEMMA WriteForm ==
  ASSUME FileForm, NEW line \in Records, Whole(line) \/ CutShort(line)
  PROVE  FileForm'
<1>1. line \in Lines /\ Damaged \in Lines
  BY DEF Lines
<1>2. /\ Appended(line) \in Seq(Lines) /\ Appended(line) # <<>>
      /\ Appended(Damaged) \in Seq(Lines) /\ Appended(Damaged) # <<>>
  BY <1>1, AppendedForm
<1>3. CASE file' = file /\ open' = open
  BY <1>3 DEF FileForm
<1>4. CASE file' \in {Appended(line), Appended(Damaged)} /\ open' \in BOOLEAN
  BY <1>2, <1>4 DEF FileForm
<1>. QED  BY <1>3, <1>4 DEF Whole, CutShort, disk

LEMMA DeletionForm ==
  ASSUME FileForm, NEW i \in DOMAIN file,
         file' = RemoveAt(file, i), open' = (open /\ i # Len(file))
  PROVE  FileForm'
<1>1. /\ Len(file) \in Nat \ {0} /\ i \in 1..Len(file) /\ file' \in Seq(Lines)
      /\ Len(file') = Len(file) - 1
  BY DeletedForm
<1>2. ASSUME open' PROVE file' # <<>>
  <2>1. i # Len(file)
    BY <1>2
  <2>2. Len(file) - 1 # 0
    BY <1>1, <2>1
  <2>. QED  BY <1>1, <2>2, EmptySeq
<1>. QED  BY <1>1, <1>2 DEF FileForm

-----------------------------------------------------------------------------
(* Type correctness: where the threads are, and what they have taken         *)

Places == {"off", "looking", "taking", "sending", "locked", "ended"}

PlanForm == /\ todo \in Seq(Samples) /\ planned \in Seq(Samples)
            /\ Range(todo) \subseteq Range(planned)

\* A thread holds a sample while it sends or writes; a thread that has started is one
\* of this run's; none is at work when no run is on.
ThreadForm ==
  /\ worker \in [Workers -> Places]
  /\ example \in [Workers -> Samples \cup {"none"}]
  /\ \A w \in Workers : /\ example[w] = "none" <=> worker[w] \notin Sending
                        /\ worker[w] # "off" => w \in Threads
                        /\ main = "idle" => worker[w] \in {"off", "ended"}

RestForm ==
  /\ edition \in Editions /\ main \in {"idle", "starting", "waiting", "stopping", "exiting"}
  /\ force \in BOOLEAN /\ base \in Nat /\ runs \in 0..MaxRuns
  /\ stop \in BOOLEAN /\ errors \in BOOLEAN /\ cut \in BOOLEAN
  /\ result \in {"none", "done", "interrupted", "failed", "killed"}

Form == FileForm /\ PlanForm /\ ThreadForm /\ RestForm

\* What is sent, what is in flight and what is queued is no more than was planned.
InFlight == {w \in Workers : worker[w] \in Sending}
CountInv == sent \in Nat /\ sent + Cardinality(InFlight) + Len(todo) <= Len(planned)

LEMMA TailForm ==
  ASSUME NEW s \in Seq(Samples), s # <<>>
  PROVE  /\ Head(s) \in Samples /\ Head(s) = s[1] /\ Tail(s) \in Seq(Samples)
         /\ Len(s) \in Nat \ {0} /\ Len(Tail(s)) = Len(s) - 1
         /\ \A i \in 1..Len(s) - 1 : Tail(s)[i] = s[i + 1]
         /\ Range(s) = {Head(s)} \cup Range(Tail(s))
<1>1. /\ Head(s) \in Samples /\ Tail(s) \in Seq(Samples) /\ Len(Tail(s)) = Len(s) - 1
      /\ \A i \in 1..Len(Tail(s)) : Tail(s)[i] = s[i + 1]
  BY HeadTailProperties
<1>2. Len(s) \in Nat \ {0} /\ Head(s) = s[1]
  BY EmptySeq
<1>3. DOMAIN s = 1..Len(s) /\ DOMAIN Tail(s) = 1..Len(s) - 1
  BY <1>1, LenProperties
<1>4. ASSUME NEW x \in Range(s) PROVE x \in {Head(s)} \cup Range(Tail(s))
  <2>1. PICK i \in 1..Len(s) : s[i] = x
    BY <1>3, <1>4 DEF Range
  <2>2. CASE i = 1
    BY <1>2, <2>1, <2>2
  <2>3. CASE i # 1
    <3>1. i - 1 \in 1..Len(s) - 1 /\ (i - 1) + 1 = i
      BY <1>2, <2>3
    <3>2. Tail(s)[i - 1] = x
      BY <1>1, <2>1, <3>1
    <3>. QED  BY <1>3, <3>1, <3>2 DEF Range
  <2>. QED  BY <2>2, <2>3
<1>5. Head(s) \in Range(s)
  BY <1>2, <1>3 DEF Range
<1>6. ASSUME NEW x \in Range(Tail(s)) PROVE x \in Range(s)
  <2>1. PICK i \in 1..Len(s) - 1 : Tail(s)[i] = x
    BY <1>3, <1>6 DEF Range
  <2>2. i + 1 \in 1..Len(s) /\ s[i + 1] = x
    BY <1>1, <1>2, <2>1
  <2>. QED  BY <1>3, <2>2 DEF Range
<1>. QED  BY <1>1, <1>2, <1>4, <1>5, <1>6

LEMMA SamplesOfPlan ==
  ASSUME NEW s \in Seq(Samples)
  PROVE  Range(s) \subseteq Samples /\ DOMAIN s = 1..Len(s) /\ Len(s) \in Nat
<1>1. DOMAIN s = 1..Len(s) /\ Len(s) \in Nat
  BY LenProperties
<1>2. \A i \in 1..Len(s) : s[i] \in Samples
  BY ElementOfSeq
<1>. QED  BY <1>1, <1>2 DEF Range

\* What a run is begun with: samples of the plan, each once, none of them settled.
LEMMA BeginForm ==
  ASSUME NEW limit \in DOMAIN Plan, NEW forced \in BOOLEAN, Begin(limit, forced)
  PROVE  /\ planned' \in Seq(Samples) /\ planned' # <<>> /\ todo' = planned'
         /\ \A i, j \in 1..Len(planned') : i # j => planned'[i] # planned'[j]
         /\ \A i \in 1..Len(planned') : ~Settles(StatusUnder(planned'[i], edition), forced)
<1>. DEFINE pending == {i \in 1..limit : ~Settles(StatusUnder(Plan[i], edition), forced)}
            n == Cardinality(pending)
<1>1. DOMAIN Plan = 1..Len(Plan) /\ Len(Plan) \in Nat
  BY BenchAssumption, SamplesOfPlan
<1>2. /\ IsFiniteSet(1..limit)
      /\ pending \subseteq 1..limit /\ 1..limit \subseteq DOMAIN Plan
  <2>1. limit \in 1..Len(Plan)
    BY <1>1
  <2>2. limit \in Int /\ 1..limit \subseteq 1..Len(Plan)
    BY <1>1, <2>1
  <2>3. IsFiniteSet(1..limit)
    BY <2>2, FS_Interval
  <2>4. pending \subseteq 1..limit
    OBVIOUS
  <2>. HIDE DEF pending
  <2>. QED  BY <1>1, <2>2, <2>3, <2>4
<1>3. pending # {}
  BY DEF Begin
<1>4. IsFiniteSet(pending) /\ n \in Nat /\ n # 0
  BY <1>2, <1>3, FS_Subset, FS_CardinalityType, FS_EmptySet
<1>5. PICK order \in SetToSeqs(pending) : planned' = [i \in DOMAIN order |-> Plan[order[i]]]
  BY DEF Begin
<1>6. /\ order \in [1..n -> pending]
      /\ \A i, j \in 1..n : i # j => order[i] # order[j]
  BY <1>5 DEF SetToSeqs
<1>u. \A i \in pending : ~Settles(StatusUnder(Plan[i], edition), forced)
  OBVIOUS
<1>. HIDE DEF pending, n
<1>7. planned' = [i \in 1..n |-> Plan[order[i]]]
  BY <1>5, <1>6
<1>8. \A i \in 1..n : order[i] \in DOMAIN Plan /\ Plan[order[i]] \in Samples
  BY <1>2, <1>6 DEF Samples, Range
<1>9. planned' \in Seq(Samples) /\ Len(planned') = n
  <2>1. [i \in 1..n |-> Plan[order[i]]] \in Seq(Samples)
    BY <1>4, <1>8, IsASeq
  <2>2. DOMAIN planned' = 1..n
    BY <1>7
  <2>3. Len(planned') \in Nat /\ DOMAIN planned' = 1..Len(planned')
    BY <1>7, <2>1, SamplesOfPlan
  <2>4. Len(planned') = n
    BY <1>4, <2>2, <2>3
  <2>. QED  BY <1>7, <2>1, <2>4
<1>10. planned' # <<>>
  BY <1>4, <1>9, EmptySeq
<1>11. \A i, j \in 1..n : i # j => planned'[i] # planned'[j]
  BY <1>6, <1>7, <1>8, BenchAssumption
<1>12. \A i \in 1..n : ~Settles(StatusUnder(planned'[i], edition), forced)
  BY <1>6, <1>7, <1>u
<1>13. todo' = planned'
  BY DEF Begin
<1>. QED  BY <1>9, <1>10, <1>11, <1>12, <1>13

-----------------------------------------------------------------------------
(* Every step keeps the form                                                 *)

LEMMA WorkersForm == 1 \in Workers /\ IsFiniteSet(Workers) /\ \A w \in Workers : w \in Nat \ {0}
<1>1. Concurrency \in Nat \ {0}
  BY BenchAssumption
<1>2. IsFiniteSet(1..Concurrency)
  BY <1>1, FS_Interval
<1>. QED  BY <1>1, <1>2 DEF Workers

LEMMA InitForm == Init => Form /\ CountInv
<1>. SUFFICES ASSUME Init PROVE Form /\ CountInv
  OBVIOUS
<1>1. <<>> \in Seq(Lines) /\ <<>> \in Seq(Samples) /\ Len(<<>>) = 0 /\ Range(<<>>) = {}
  BY EmptySeq DEF Range
<1>2. FileForm /\ PlanForm
  BY <1>1 DEF Init, FileForm, PlanForm
<1>3. ThreadForm
  BY DEF Init, ThreadForm, NoExample, Places, Sending
<1>4. RestForm
  <2>1. 0 \in 0..MaxRuns
    BY BenchAssumption
  <2>. QED  BY <2>1 DEF Init, RestForm
<1>5. InFlight = {}
  BY DEF Init, InFlight, Sending
<1>6. CountInv
  BY <1>1, <1>5, FS_EmptySet DEF Init, CountInv
<1>. QED  BY <1>2, <1>3, <1>4, <1>6 DEF Form

\* What a step of a thread w does to the threads.
LEMMA MoveForm ==
  ASSUME ThreadForm, NEW w \in Workers, w \in Threads, NEW place \in Places \ {"off"},
         NEW taken \in Samples \cup {"none"}, taken = "none" <=> place \notin Sending,
         main # "idle", main' # "idle", planned' = planned,
         worker' = [worker EXCEPT ![w] = place], example' = [example EXCEPT ![w] = taken]
  PROVE  ThreadForm'
BY DEF ThreadForm, Threads

LEMMA NextForm == Form /\ [Next]_vars => Form'
<1>. SUFFICES ASSUME FileForm, PlanForm, ThreadForm, RestForm, [Next]_vars
              PROVE  FileForm' /\ PlanForm' /\ ThreadForm' /\ RestForm'
  BY DEF Form
<1>. USE DEF disk, run, signals
<1>k. ASSUME UNCHANGED file, UNCHANGED open PROVE FileForm'
  BY <1>k DEF FileForm
<1>p. ASSUME UNCHANGED todo, UNCHANGED planned PROVE PlanForm'
  BY <1>p DEF PlanForm
<1>t. ASSUME UNCHANGED worker, UNCHANGED example, UNCHANGED planned, main' = "idle" => main = "idle"
      PROVE  ThreadForm'
  BY <1>t DEF ThreadForm, Threads
<1>n. "none" \notin Samples
  BY BenchAssumption
<1>r. ASSUME NEW w \in Workers, worker[w] = "locked", NEW line \in RecordsOf(example[w]),
             Whole(line) \/ CutShort(line)
      PROVE  FileForm' /\ cut' \in BOOLEAN
  <2>1. example[w] \in Samples
    BY <1>r DEF ThreadForm, Sending
  <2>2. line \in Records
    BY <2>1, RecordsAreLines DEF RestForm
  <2>3. FileForm'
    BY <1>r, <2>2, WriteForm
  <2>4. cut' \in BOOLEAN
    BY <1>r DEF Whole, CutShort, RestForm
  <2>. QED  BY <2>3, <2>4
<1>1. ASSUME Edit PROVE FileForm' /\ PlanForm' /\ ThreadForm' /\ RestForm'
  <2>1. RestForm'
    BY <1>1 DEF Edit, RestForm
  <2>. QED  BY <1>1, <1>k, <1>p, <1>t, <2>1 DEF Edit
<1>2. ASSUME Repair PROVE FileForm' /\ PlanForm' /\ ThreadForm' /\ RestForm'
  <2>1. FileForm'
    BY <1>2, DeletionForm DEF Repair
  <2>2. RestForm'
    BY <1>2 DEF Repair, RestForm
  <2>. QED  BY <1>2, <1>p, <1>t, <2>1, <2>2 DEF Repair
<1>3. ASSUME NEW limit \in DOMAIN Plan, NEW forced \in BOOLEAN, Begin(limit, forced)
      PROVE  FileForm' /\ PlanForm' /\ ThreadForm' /\ RestForm'
  <2>1. PlanForm'
    BY <1>3, BeginForm DEF PlanForm
  <2>2. ThreadForm'
    <3>1. \A w \in Workers : example[w] = "none"
      BY <1>3 DEF Begin, ThreadForm, Sending
    <3>. QED  BY <1>3, <3>1 DEF Begin, ThreadForm, Places, Sending
  <2>3. RestForm'
    <3>1. Len(file) \in Nat
      BY LenProperties DEF FileForm
    <3>2. runs + 1 \in 0..MaxRuns
      BY <1>3, BenchAssumption DEF Begin, RestForm
    <3>. QED  BY <1>3, <3>1, <3>2 DEF Begin, RestForm
  <2>. QED  BY <1>3, <1>k, <2>1, <2>2, <2>3 DEF Begin
<1>4. ASSUME Interrupt PROVE FileForm' /\ PlanForm' /\ ThreadForm' /\ RestForm'
  <2>1. RestForm'
    BY <1>4 DEF Interrupt, RestForm
  <2>. QED  BY <1>4, <1>k, <1>p, <1>t, <2>1 DEF Interrupt
<1>5. ASSUME Finish PROVE FileForm' /\ PlanForm' /\ ThreadForm' /\ RestForm'
  <2>1. RestForm'
    BY <1>5 DEF Finish, RestForm
  <2>2. ThreadForm'
    BY <1>5 DEF Finish, ThreadForm, Threads, Joined
  <2>. QED  BY <1>5, <1>k, <1>p, <2>1, <2>2 DEF Finish
<1>6. ASSUME Killed PROVE FileForm' /\ PlanForm' /\ ThreadForm' /\ RestForm'
  <2>1. FileForm' /\ cut' \in BOOLEAN
    <3>1. CASE UNCHANGED <<disk, cut>>
      BY <1>k, <3>1 DEF RestForm
    <3>. QED  BY <1>6, <1>r, <3>1 DEF Killed
  <2>2. PlanForm'
    <3>1. <<>> \in Seq(Samples) /\ Range(<<>>) = {}
      BY EmptySeq DEF Range
    <3>. QED  BY <1>6, <3>1 DEF Killed, PlanForm
  <2>3. ThreadForm'
    BY <1>6 DEF Killed, ThreadForm, Places, Sending, NoExample
  <2>4. RestForm'
    BY <1>6, <2>1 DEF Killed, RestForm
  <2>. QED  BY <2>1, <2>2, <2>3, <2>4
<1>7. ASSUME NEW w \in Workers, StartThread(w)
      PROVE  FileForm' /\ PlanForm' /\ ThreadForm' /\ RestForm'
  <2>1. RestForm'
    BY <1>7 DEF StartThread, RestForm
  <2>2. worker[w] = "off"
    BY <1>7, WorkersForm DEF StartThread
  <2>3. ThreadForm'
    BY <1>7, <2>2 DEF StartThread, ThreadForm, Threads, Places, Sending
  <2>. QED  BY <1>7, <1>k, <1>p, <2>1, <2>3 DEF StartThread
<1>w. ASSUME NEW w \in Workers, worker[w] \notin {"off", "ended"}
      PROVE  w \in Threads /\ main # "idle"
  BY <1>w DEF ThreadForm
<1>8. ASSUME NEW w \in Workers, Look(w)
      PROVE  FileForm' /\ PlanForm' /\ ThreadForm' /\ RestForm'
  <2>1. RestForm'
    BY <1>8 DEF Look, RestForm
  <2>2. ThreadForm'
    BY <1>8 DEF Look, ThreadForm, Threads, Places, Sending
  <2>. QED  BY <1>8, <1>k, <1>p, <2>1, <2>2 DEF Look
<1>9. ASSUME NEW w \in Workers, TakeNext(w)
      PROVE  FileForm' /\ PlanForm' /\ ThreadForm' /\ RestForm'
  <2>1. RestForm'
    BY <1>9 DEF TakeNext, RestForm
  <2>2. CASE todo = <<>>
    <3>1. ThreadForm'
      BY <1>9, <2>2 DEF TakeNext, ThreadForm, Threads, Places, Sending
    <3>. QED  BY <1>9, <1>k, <1>p, <2>1, <2>2, <3>1 DEF TakeNext
  <2>3. CASE todo # <<>>
    <3>1. /\ Head(todo) \in Samples /\ Tail(todo) \in Seq(Samples)
          /\ Range(todo) = {Head(todo)} \cup Range(Tail(todo))
      BY <2>3, TailForm DEF PlanForm
    <3>2. PlanForm'
      BY <1>9, <2>3, <3>1 DEF TakeNext, PlanForm
    <3>3. ThreadForm'
      <4>1. /\ worker' = [worker EXCEPT ![w] = "sending"]
            /\ example' = [example EXCEPT ![w] = Head(todo)]
            /\ main' = main /\ planned' = planned /\ worker[w] = "taking"
        BY <1>9, <2>3 DEF TakeNext
      <4>2. Head(todo) # "none"
        BY <1>n, <3>1
      <4>. QED  BY <1>w, <3>1, <4>1, <4>2, MoveForm DEF Places, Sending
    <3>. QED  BY <1>9, <1>k, <2>1, <3>2, <3>3 DEF TakeNext
  <2>. QED  BY <2>2, <2>3
<1>10. ASSUME NEW w \in Workers, Lock(w)
       PROVE  FileForm' /\ PlanForm' /\ ThreadForm' /\ RestForm'
  <2>1. RestForm'
    BY <1>10 DEF Lock, RestForm
  <2>2. ThreadForm'
    BY <1>10 DEF Lock, ThreadForm, Threads, Places, Sending
  <2>. QED  BY <1>10, <1>k, <1>p, <2>1, <2>2 DEF Lock
<1>11. ASSUME NEW w \in Workers, WriteLine(w)
       PROVE  FileForm' /\ PlanForm' /\ ThreadForm' /\ RestForm'
  <2>1. FileForm' /\ cut' \in BOOLEAN
    BY <1>11, <1>r DEF WriteLine
  <2>2. RestForm'
    BY <1>11, <2>1 DEF WriteLine, RestForm
  <2>3. ThreadForm'
    BY <1>11 DEF WriteLine, ThreadForm, Threads, Places, Sending
  <2>. QED  BY <1>11, <1>p, <2>1, <2>2, <2>3 DEF WriteLine
<1>12. ASSUME NEW w \in Workers, Fail(w)
       PROVE  FileForm' /\ PlanForm' /\ ThreadForm' /\ RestForm'
  <2>1. FileForm' /\ cut' \in BOOLEAN
    <3>1. CASE UNCHANGED <<disk, cut>>
      BY <1>k, <3>1 DEF RestForm
    <3>. QED  BY <1>12, <1>r, <3>1 DEF Fail
  <2>2. RestForm'
    BY <1>12, <2>1 DEF Fail, RestForm
  <2>3. ThreadForm'
    BY <1>12 DEF Fail, ThreadForm, Threads, Places, Sending
  <2>. QED  BY <1>12, <1>p, <2>1, <2>2, <2>3 DEF Fail
<1>13. ASSUME UNCHANGED vars PROVE FileForm' /\ PlanForm' /\ ThreadForm' /\ RestForm'
  <2>1. RestForm'
    BY <1>13 DEF vars, RestForm
  <2>. QED  BY <1>13, <1>k, <1>p, <1>t, <2>1 DEF vars
<1>. QED
  BY <1>1, <1>2, <1>3, <1>4, <1>5, <1>6, <1>7, <1>8, <1>9, <1>10, <1>11, <1>12, <1>13
     DEF Next, Worker

LEMMA AlwaysForm == Spec => []Form
<1>1. Init => Form
  BY InitForm
<1>. QED  BY <1>1, NextForm, PTL DEF Spec

-----------------------------------------------------------------------------
(* Nothing is counted twice                                                  *)

LEMMA FlightSize ==
  /\ IsFiniteSet(InFlight) /\ Cardinality(InFlight) \in Nat
  /\ \A w \in Workers \ InFlight :
       Cardinality(InFlight \cup {w}) = Cardinality(InFlight) + 1
  /\ \A w \in InFlight :
       /\ Cardinality(InFlight \ {w}) \in Nat
       /\ Cardinality(InFlight) = Cardinality(InFlight \ {w}) + 1
<1>1. IsFiniteSet(InFlight)
  BY WorkersForm, FS_Subset DEF InFlight
<1>2. Cardinality(InFlight) \in Nat
  BY <1>1, FS_CardinalityType
<1>3. ASSUME NEW w \in Workers \ InFlight
      PROVE  Cardinality(InFlight \cup {w}) = Cardinality(InFlight) + 1
  BY <1>1, <1>3, FS_AddElement
<1>4. ASSUME NEW w \in InFlight
      PROVE  /\ Cardinality(InFlight \ {w}) \in Nat
             /\ Cardinality(InFlight) = Cardinality(InFlight \ {w}) + 1
  <2>1. IsFiniteSet(InFlight \ {w}) /\ Cardinality(InFlight \ {w}) = Cardinality(InFlight) - 1
    BY <1>1, FS_RemoveElement
  <2>2. Cardinality(InFlight \ {w}) \in Nat
    BY <2>1, FS_CardinalityType
  <2>. QED  BY <1>2, <2>1, <2>2
<1>. QED  BY <1>1, <1>2, <1>3, <1>4

LEMMA NextCount == Form /\ CountInv /\ [Next]_vars => CountInv'
<1>. SUFFICES ASSUME PlanForm, ThreadForm, CountInv, [Next]_vars PROVE CountInv'
  BY DEF Form
<1>. USE DEF disk, run, signals
<1>f. Len(todo) \in Nat /\ Len(planned) \in Nat /\ Cardinality(InFlight) \in Nat /\ sent \in Nat
  BY SamplesOfPlan, FlightSize DEF PlanForm, CountInv
<1>s. ASSUME InFlight' = InFlight, UNCHANGED sent, UNCHANGED todo, UNCHANGED planned
      PROVE  CountInv'
  BY <1>s DEF CountInv
<1>1. ASSUME Edit \/ Repair \/ Interrupt \/ Finish PROVE CountInv'
  <2>1. InFlight' = InFlight
    BY <1>1 DEF Edit, Repair, Interrupt, Finish, InFlight
  <2>. QED  BY <1>1, <1>s, <2>1 DEF Edit, Repair, Interrupt, Finish
<1>2. ASSUME NEW limit \in DOMAIN Plan, NEW forced \in BOOLEAN, Begin(limit, forced)
      PROVE  CountInv'
  <2>1. InFlight' = {}
    BY <1>2 DEF Begin, InFlight, Sending
  <2>2. todo' = planned' /\ Len(planned') \in Nat
    BY <1>2, BeginForm, SamplesOfPlan
  <2>3. sent' = 0
    BY <1>2 DEF Begin
  <2>. QED  BY <2>1, <2>2, <2>3, FS_EmptySet DEF CountInv
<1>3. ASSUME Killed PROVE CountInv'
  <2>1. InFlight' = {} /\ sent' = 0 /\ todo' = <<>> /\ planned' = <<>>
    BY <1>3 DEF Killed, InFlight, Sending
  <2>2. Len(<<>>) = 0
    BY EmptySeq
  <2>. QED  BY <2>1, <2>2, FS_EmptySet DEF CountInv
<1>4. ASSUME NEW w \in Workers, StartThread(w) \/ Look(w) \/ Lock(w) PROVE CountInv'
  <2>1. worker[w] \in Sending <=> worker'[w] \in Sending
    BY <1>4, WorkersForm DEF StartThread, Look, Lock, ThreadForm, Sending
  <2>2. InFlight' = InFlight
    BY <1>4, <2>1 DEF StartThread, Look, Lock, ThreadForm, InFlight
  <2>. QED  BY <1>4, <1>s, <2>2 DEF StartThread, Look, Lock
<1>5. ASSUME NEW w \in Workers, TakeNext(w) PROVE CountInv'
  <2>1. w \notin InFlight /\ UNCHANGED sent /\ UNCHANGED planned
    BY <1>5 DEF TakeNext, InFlight, Sending
  <2>2. CASE todo = <<>>
    <3>1. InFlight' = InFlight /\ UNCHANGED todo
      BY <1>5, <2>2 DEF TakeNext, InFlight, ThreadForm, Sending
    <3>. QED  BY <1>s, <2>1, <3>1
  <2>3. CASE todo # <<>>
    <3>1. InFlight' = InFlight \cup {w} /\ todo' = Tail(todo)
      BY <1>5, <2>3 DEF TakeNext, InFlight, ThreadForm, Sending
    <3>2. Len(todo') = Len(todo) - 1
      BY <2>3, <3>1, TailForm DEF PlanForm
    <3>3. Cardinality(InFlight') = Cardinality(InFlight) + 1
      BY <2>1, <3>1, FlightSize
    <3>. QED  BY <1>f, <2>1, <3>2, <3>3 DEF CountInv
  <2>. QED  BY <2>2, <2>3
<1>6. ASSUME NEW w \in Workers, WriteLine(w) PROVE CountInv'
  <2>1. w \in InFlight /\ InFlight' = InFlight \ {w}
    BY <1>6 DEF WriteLine, InFlight, ThreadForm, Sending
  <2>2. sent' = sent + 1 /\ UNCHANGED todo /\ UNCHANGED planned
    BY <1>6 DEF WriteLine, Counted
  <2>3. Cardinality(InFlight') \in Nat /\ Cardinality(InFlight) = Cardinality(InFlight') + 1
    BY <2>1, FlightSize
  <2>. QED  BY <1>f, <2>2, <2>3 DEF CountInv
<1>7. ASSUME NEW w \in Workers, Fail(w) PROVE CountInv'
  <2>1. InFlight' = InFlight \ {w}
    BY <1>7 DEF Fail, InFlight, ThreadForm, Sending
  <2>2. UNCHANGED sent /\ UNCHANGED todo /\ UNCHANGED planned
    BY <1>7 DEF Fail
  <2>3. CASE w \in InFlight
    <3>1. Cardinality(InFlight') \in Nat /\ Cardinality(InFlight) = Cardinality(InFlight') + 1
      BY <2>1, <2>3, FlightSize
    <3>. QED  BY <1>f, <2>2, <3>1 DEF CountInv
  <2>4. CASE w \notin InFlight
    <3>1. InFlight' = InFlight
      BY <2>1, <2>4
    <3>. QED  BY <1>s, <2>2, <3>1
  <2>. QED  BY <2>3, <2>4
<1>8. ASSUME UNCHANGED vars PROVE CountInv'
  <2>1. InFlight' = InFlight
    BY <1>8 DEF vars, InFlight
  <2>. QED  BY <1>8, <1>s, <2>1 DEF vars
<1>. QED
  BY <1>1, <1>2, <1>3, <1>4, <1>5, <1>6, <1>7, <1>8 DEF Next, Worker

(* Type correctness of the benchmark's run: every line is a record or a damaged one, a
   thread holds a sample exactly while it sends it or writes its answer, the queue holds
   samples of the plan, and no more is counted as sent than was planned. *)
THEOREM BenchTypeCorrect == Spec => []BenchTypeOK
<1>1. Init => Form /\ CountInv
  BY InitForm
<1>2. Form /\ CountInv /\ [Next]_vars => (Form /\ CountInv)'
  BY NextForm, NextCount
<1>3. Form /\ CountInv => BenchTypeOK
  <2>. SUFFICES ASSUME FileForm, PlanForm, ThreadForm, RestForm, CountInv PROVE BenchTypeOK
    BY DEF Form
  <2>1. \A i \in DOMAIN file : file[i] \in Records \cup {Damaged}
    BY LenProperties, ElementOfSeq DEF FileForm, Lines
  <2>2. sent \in 0..Len(planned)
    <3>1. /\ Len(todo) \in Nat /\ Len(planned) \in Nat /\ Cardinality(InFlight) \in Nat
          /\ sent \in Nat
      BY SamplesOfPlan, FlightSize DEF PlanForm, CountInv
    <3>. QED  BY <3>1 DEF CountInv
  <2>3. Range(planned) \subseteq Samples
    BY SamplesOfPlan DEF PlanForm
  <2>4. \A w \in Workers :
          /\ worker[w] \in {"off", "looking", "taking", "sending", "locked", "ended"}
          /\ example[w] \in IF worker[w] \in Sending THEN Samples ELSE {"none"}
    BY DEF ThreadForm, Places
  <2>. QED  BY <2>1, <2>2, <2>3, <2>4 DEF BenchTypeOK, FileForm, PlanForm, RestForm
<1>. QED  BY <1>1, <1>2, <1>3, PTL DEF Spec

-----------------------------------------------------------------------------
(* A file can be read back                                                   *)

CleanInv == ~cut => Readable /\ ~open

LEMMA PlainRecordsRead ==
  ASSUME Texts \subseteq {"plain"}, NEW line \in Records
  PROVE  ~Broken(line)
BY RecordsAreWhole, RecordFields DEF Broken

LEMMA NextClean ==
  ASSUME Texts \subseteq {"plain"}
  PROVE  Form /\ CleanInv /\ [Next]_vars => CleanInv'
<1>. SUFFICES ASSUME FileForm, ThreadForm, RestForm, CleanInv, [Next]_vars PROVE CleanInv'
  BY DEF Form
<1>. USE DEF disk, run, signals
<1>u. ASSUME UNCHANGED <<disk, cut>> PROVE CleanInv'
  BY <1>u DEF CleanInv, Readable
<1>w. ASSUME NEW w \in Workers, worker[w] = "locked", NEW line \in RecordsOf(example[w]),
             Whole(line) \/ CutShort(line)
      PROVE  CleanInv'
  <2>1. CASE CutShort(line)
    BY <2>1 DEF CutShort, CleanInv
  <2>2. CASE Whole(line) /\ ~cut
    <3>1. line \in Records
      BY <1>w, RecordsAreLines DEF ThreadForm, RestForm, Sending
    <3>2. line \in Lines /\ ~Broken(line)
      BY <3>1, PlainRecordsRead DEF Lines
    <3>3. ~open /\ \A i \in 1..Len(file) : ~Broken(file[i])
      BY <2>2, LenProperties DEF CleanInv, Readable, FileForm
    <3>4. /\ Len(file) \in Nat /\ Appended(line) \in Seq(Lines)
          /\ Len(Appended(line)) = Len(file) + 1
          /\ Appended(line)[Len(file) + 1] = line
          /\ \A i \in 1..Len(file) : Appended(line)[i] = file[i]
      BY <3>2, <3>3, AppendedForm
    <3>5. DOMAIN Appended(line) = 1..Len(file) + 1
      BY <3>4, LenProperties
    <3>6. ASSUME NEW i \in DOMAIN Appended(line) PROVE ~Broken(Appended(line)[i])
      BY <3>2, <3>3, <3>4, <3>5
    <3>. QED  BY <2>2, <3>6 DEF Whole, CleanInv, Readable
  <2>3. CASE Whole(line) /\ cut
    BY <2>3 DEF Whole, CleanInv
  <2>. QED  BY <1>w, <2>1, <2>2, <2>3 DEF RestForm
<1>1. ASSUME Edit \/ Interrupt \/ Finish PROVE CleanInv'
  BY <1>1, <1>u DEF Edit, Interrupt, Finish
<1>2. ASSUME Repair PROVE CleanInv'
  BY <1>2 DEF Repair, CleanInv, Readable
<1>3. ASSUME NEW limit \in DOMAIN Plan, NEW forced \in BOOLEAN, Begin(limit, forced)
      PROVE  CleanInv'
  BY <1>3, <1>u DEF Begin
<1>4. ASSUME Killed PROVE CleanInv'
  BY <1>4, <1>u, <1>w DEF Killed
<1>5. ASSUME NEW w \in Workers, StartThread(w) \/ Look(w) \/ TakeNext(w) \/ Lock(w)
      PROVE  CleanInv'
  BY <1>5, <1>u DEF StartThread, Look, TakeNext, Lock
<1>6. ASSUME NEW w \in Workers, WriteLine(w) PROVE CleanInv'
  BY <1>6, <1>w DEF WriteLine
<1>7. ASSUME NEW w \in Workers, Fail(w) PROVE CleanInv'
  BY <1>7, <1>u, <1>w DEF Fail
<1>8. ASSUME UNCHANGED vars PROVE CleanInv'
  BY <1>8, <1>u DEF vars
<1>. QED
  BY <1>1, <1>2, <1>3, <1>4, <1>5, <1>6, <1>7, <1>8 DEF Next, Worker

LEMMA AlwaysClean ==
  ASSUME Texts \subseteq {"plain"}
  PROVE  Spec => [](Form /\ CleanInv)
<1>1. Init => Form /\ CleanInv
  <2>1. Init => CleanInv
    BY DEF Init, CleanInv, Readable
  <2>. QED  BY <2>1, InitForm
<1>2. Form /\ CleanInv /\ [Next]_vars => (Form /\ CleanInv)'
  BY NextForm, NextClean
<1>. QED  BY <1>1, <1>2, PTL DEF Spec

(* Where no answer holds a character that splitlines() splits at, a file of results can
   be read back line by line as long as no write was cut short, whatever ran, stopped and
   was killed before. Without the hypothesis it is false: the run bench_separator. *)
THEOREM FilesReadBack ==
  ASSUME Texts \subseteq {"plain"}
  PROVE  Spec => []ReadableUnlessCut
<1>1. CleanInv => ReadableUnlessCut
  BY DEF CleanInv, ReadableUnlessCut
<1>. QED  BY <1>1, AlwaysClean, PTL

-----------------------------------------------------------------------------
(* The standing record of a sample, over one change of the file              *)

\* The records of s under e among the lines of f, and the last of them: StatusUnder().
Mine(f, s, e) ==
  {i \in DOMAIN f : f[i].sample = s /\ f[i].edition = e /\ ~Broken(f[i])}
Standing(f, s, e) ==
  IF Mine(f, s, e) = {} THEN "none"
  ELSE f[CHOOSE i \in Mine(f, s, e) : \A j \in Mine(f, s, e) : j <= i].status

LEMMA StandingIsStatus ==
  ASSUME NEW s, NEW e
  PROVE  /\ StatusUnder(s, e) = Standing(file, s, e)
         /\ StatusUnder(s, e)' = Standing(file', s, e)
BY DEF StatusUnder, Standing, Mine

LEMMA LastMine ==
  ASSUME NEW f \in Seq(Lines), NEW s, NEW e, NEW m \in Mine(f, s, e),
         \A j \in Mine(f, s, e) : j <= m
  PROVE  Standing(f, s, e) = f[m].status
<1>. DEFINE mine == Mine(f, s, e)  c == CHOOSE i \in mine : \A j \in mine : j <= i
<1>1. c \in mine /\ \A j \in mine : j <= c
  OBVIOUS
<1>2. mine \subseteq Nat
  BY LenProperties DEF Mine
<1>3. c = m
  <2>1. c <= m /\ m <= c
    BY <1>1
  <2>2. c \in Nat /\ m \in Nat
    BY <1>1, <1>2
  <2>. HIDE DEF c, mine
  <2>. QED  BY <2>1, <2>2
<1>. QED  BY <1>3 DEF Standing

\* A set of line numbers has a last one.
LEMMA SomeLast ==
  ASSUME NEW n \in Nat, NEW S \in SUBSET (1..n), S # {}
  PROVE  \E m \in S : \A j \in S : j <= m
<1>. DEFINE T == {n - j : j \in S}
<1>1. T \subseteq Nat /\ T # {}
  <2>1. \A j \in S : n - j \in Nat
    OBVIOUS
  <2>2. PICK j \in S : TRUE
    OBVIOUS
  <2>3. n - j \in T
    OBVIOUS
  <2>. QED  BY <2>1, <2>3
<1>2. PICK x \in T : \A y \in T : ~(<<y, x>> \in OpToRel(<, Nat))
  <2>. HIDE DEF T
  <2>. QED  BY <1>1, NatLessThanWellFounded, WFMin
<1>3. \A y \in T : ~(y < x)
  BY <1>1, <1>2 DEF OpToRel
<1>4. PICK m \in S : x = n - m
  OBVIOUS
<1>5. \A j \in S : j <= m
  BY <1>3, <1>4
<1>. QED  BY <1>5

\* One more line decides for its own sample and edition, if it can be read.
LEMMA StandingAppend ==
  ASSUME NEW f \in Seq(Lines), NEW g \in Seq(Lines), Len(g) = Len(f) + 1,
         \A i \in 1..Len(f) : g[i] = f[i],
         NEW s, NEW e
  PROVE  LET last == g[Len(f) + 1] IN
         Standing(g, s, e) = IF last.sample = s /\ last.edition = e /\ ~Broken(last)
                             THEN last.status ELSE Standing(f, s, e)
<1>. DEFINE n == Len(f)  last == g[n + 1]  mine == Mine(f, s, e)
<1>1. n \in Nat /\ DOMAIN f = 1..n /\ DOMAIN g = 1..n + 1
  BY LenProperties
<1>2. CASE last.sample = s /\ last.edition = e /\ ~Broken(last)
  <2>1. n + 1 \in Mine(g, s, e)
    BY <1>1, <1>2 DEF Mine
  <2>2. \A j \in Mine(g, s, e) : j <= n + 1
    BY <1>1 DEF Mine
  <2>. QED  BY <1>2, <2>1, <2>2, LastMine
<1>3. CASE ~(last.sample = s /\ last.edition = e /\ ~Broken(last))
  <2>1. Mine(g, s, e) = mine
    <3>1. n + 1 \notin Mine(g, s, e)
      BY <1>3 DEF Mine
    <3>2. \A i \in 1..n : i \in Mine(g, s, e) <=> i \in mine
      BY <1>1 DEF Mine
    <3>3. mine \subseteq 1..n /\ Mine(g, s, e) \subseteq 1..n + 1
      BY <1>1 DEF Mine
    <3>4. \A i \in 1..n + 1 : i = n + 1 \/ i \in 1..n
      BY <1>1
    <3>. QED  BY <3>1, <3>2, <3>3, <3>4
  <2>2. CASE mine = {}
    BY <1>3, <2>1, <2>2 DEF Standing
  <2>3. CASE mine # {}
    <3>1. mine \subseteq 1..n
      BY <1>1 DEF Mine
    <3>2. PICK m \in mine : \A j \in mine : j <= m
      BY <1>1, <2>3, <3>1, SomeLast
    <3>3. Standing(f, s, e) = f[m].status
      BY <3>2, LastMine
    <3>4. Standing(g, s, e) = g[m].status
      BY <2>1, <3>2, LastMine
    <3>. QED  BY <1>3, <3>1, <3>2, <3>3, <3>4
  <2>. QED  BY <2>2, <2>3
<1>. QED  BY <1>2, <1>3

\* Deleting a line that could not be read leaves every standing record.
LEMMA StandingDelete ==
  ASSUME NEW f \in Seq(Lines), NEW g \in Seq(Lines), NEW i \in 1..Len(f), Broken(f[i]),
         Len(g) = Len(f) - 1, \A j \in 1..Len(f) - 1 : g[j] = f[Moved(i, j)],
         NEW s, NEW e
  PROVE  Standing(g, s, e) = Standing(f, s, e)
<1>. DEFINE n == Len(f)  mine == Mine(f, s, e)  back(j) == IF j < i THEN j ELSE j - 1
<1>1. n \in Nat \ {0} /\ DOMAIN f = 1..n /\ DOMAIN g = 1..n - 1
  BY LenProperties
<1>2. ASSUME NEW j \in mine PROVE back(j) \in Mine(g, s, e) /\ g[back(j)] = f[j]
  <2>1. j \in 1..n /\ j # i
    BY <1>1, <1>2 DEF Mine
  <2>2. back(j) \in 1..n - 1 /\ Moved(i, back(j)) = j
    BY <1>1, <2>1 DEF Moved
  <2>3. g[back(j)] = f[j]
    BY <2>2
  <2>. HIDE DEF back
  <2>. QED  BY <1>1, <1>2, <2>2, <2>3 DEF Mine
<1>3. ASSUME NEW j \in Mine(g, s, e) PROVE Moved(i, j) \in mine /\ j = back(Moved(i, j))
  <2>1. j \in 1..n - 1 /\ g[j] = f[Moved(i, j)]
    BY <1>1, <1>3 DEF Mine
  <2>2. Moved(i, j) \in 1..n /\ j = back(Moved(i, j))
    BY <1>1, <2>1 DEF Moved
  <2>3. Moved(i, j) \in mine
    BY <1>1, <1>3, <2>1, <2>2 DEF Mine
  <2>. QED  BY <2>2, <2>3
<1>4. CASE mine = {}
  <2>1. Mine(g, s, e) = {}
    BY <1>3, <1>4
  <2>. QED  BY <1>4, <2>1 DEF Standing
<1>5. CASE mine # {}
  <2>1. mine \subseteq 1..n
    BY <1>1 DEF Mine
  <2>2. PICK m \in mine : \A j \in mine : j <= m
    BY <1>1, <1>5, <2>1, SomeLast
  <2>3. Standing(f, s, e) = f[m].status
    BY <2>2, LastMine
  <2>4. back(m) \in Mine(g, s, e) /\ g[back(m)] = f[m]
    BY <1>2
  <2>5. ASSUME NEW j \in Mine(g, s, e) PROVE j <= back(m)
    <3>1. Moved(i, j) \in mine /\ j = back(Moved(i, j)) /\ Moved(i, j) <= m
      BY <1>3, <2>2
    <3>2. Moved(i, j) \in 1..n /\ m \in 1..n /\ m # i /\ Moved(i, j) # i
      BY <1>1, <2>1, <3>1 DEF Mine
    <3>3. \A k \in 1..n : k <= m => back(k) <= back(m)
      BY <1>1, <3>2
    <3>. HIDE DEF back
    <3>. QED  BY <3>1, <3>2, <3>3
  <2>6. Standing(g, s, e) = g[back(m)].status
    <3>. HIDE DEF back
    <3>. QED  BY <2>4, <2>5, LastMine
  <2>. QED  BY <2>3, <2>4, <2>6
<1>. QED  BY <1>4, <1>5

-----------------------------------------------------------------------------
(* Nothing that is settled is sent again                                     *)

\* A line without a newline is a damaged one.
TrailInv == open => file[Len(file)] = Damaged

Unsettled(s) == ~Settles(Standing(file, s, edition), force)

\* The queue and the threads hold each sample at most once, and what is queued is not
\* settled.
FreshInv ==
  /\ \A i, j \in 1..Len(todo) : i # j => todo[i] # todo[j]
  /\ \A w \in Workers, i \in 1..Len(todo) : example[w] # todo[i]
  /\ \A v, w \in Workers : v # w /\ example[v] # "none" => example[v] # example[w]
  /\ main # "idle" => \A i \in 1..Len(todo) : Unsettled(todo[i])

\* One write decides at most for the sample it is about; one that is cut short, for none.
LEMMA WriteStanding ==
  ASSUME FileForm, TrailInv, "unterminated" \notin Cuts,
         NEW line \in Records, Whole(line) \/ CutShort(line)
  PROVE  /\ TrailInv'
         /\ \E v \in {Standing(file, line.sample, line.edition), line.status} :
              /\ CutShort(line) => v = Standing(file, line.sample, line.edition)
              /\ \A s \in Samples, e \in Editions :
                   Standing(file', s, e) = IF s = line.sample /\ e = line.edition
                                        THEN v ELSE Standing(file, s, e)
<1>. USE DEF disk
<1>. DEFINE old == Standing(file, line.sample, line.edition)
            Same == \A s \in Samples, e \in Editions : Standing(file', s, e) = Standing(file, s, e)
<1>1. line \in Lines /\ Damaged \in Lines
  BY DEF Lines
<1>2. ASSUME UNCHANGED file PROVE Same
  BY <1>2
<1>3. ASSUME open, NEW x \in Lines PROVE Appended(x) = file
  <2>1. /\ Appended(x) \in Seq(Lines) /\ Len(Appended(x)) = Len(file)
        /\ \A i \in 1..Len(file) :
             Appended(x)[i] = IF i = Len(file) THEN Damaged ELSE file[i]
    BY <1>3, AppendedForm
  <2>2. \A i \in 1..Len(file) : Appended(x)[i] = file[i]
    BY <1>3, <2>1 DEF TrailInv
  <2>. QED  BY <2>1, <2>2, SeqEqual DEF FileForm
<1>4. ASSUME ~open, NEW x \in Lines
      PROVE  /\ Appended(x) \in Seq(Lines) /\ Len(Appended(x)) = Len(file) + 1
             /\ Appended(x)[Len(file) + 1] = x
             /\ \A i \in 1..Len(file) : Appended(x)[i] = file[i]
  BY <1>4, AppendedForm
<1>5. CASE UNCHANGED disk
  <2>1. Same /\ TrailInv'
    BY <1>2, <1>5 DEF TrailInv
  <2>. QED  BY <2>1
<1>6. CASE file' = Appended(Damaged) /\ open' = TRUE
  <2>1. CASE open
    <3>1. UNCHANGED file
      BY <1>1, <1>3, <1>6, <2>1
    <3>2. Same /\ TrailInv'
      BY <1>2, <2>1, <3>1 DEF TrailInv
    <3>. QED  BY <3>2
  <2>2. CASE ~open
    <3>1. TrailInv'
      BY <1>1, <1>4, <1>6, <2>2 DEF TrailInv
    <3>2. Broken(Damaged)
      BY DEF Broken
    <3>3. ASSUME NEW s \in Samples, NEW e \in Editions
          PROVE  Standing(file', s, e) = Standing(file, s, e)
      BY <1>1, <1>4, <1>6, <2>2, <3>2, StandingAppend DEF FileForm
    <3>4. Same
      BY <3>3
    <3>. QED  BY <3>1, <3>4
  <2>. QED  BY <2>1, <2>2
<1>7. CASE file' = Appended(line) /\ open' = FALSE /\ ~CutShort(line)
  <2>1. TrailInv'
    BY <1>7 DEF TrailInv
  <2>2. CASE open
    <3>1. Same
      BY <1>1, <1>2, <1>3, <1>7, <2>2
    <3>. QED  BY <1>7, <2>1, <3>1
  <2>3. CASE ~open
    <3>. DEFINE v == IF Broken(line) THEN old ELSE line.status
    <3>1. ASSUME NEW s \in Samples, NEW e \in Editions
          PROVE  Standing(file', s, e) = IF line.sample = s /\ line.edition = e /\ ~Broken(line)
                                         THEN line.status ELSE Standing(file, s, e)
      BY <1>1, <1>4, <1>7, <2>3, StandingAppend DEF FileForm
    <3>2. ASSUME NEW s \in Samples, NEW e \in Editions
          PROVE  Standing(file', s, e) = IF s = line.sample /\ e = line.edition
                                      THEN v ELSE Standing(file, s, e)
      BY <3>1
    <3>. QED  BY <1>7, <2>1, <3>2
  <2>. QED  BY <2>2, <2>3
<1>. QED  BY <1>5, <1>6, <1>7 DEF Whole, CutShort

LEMMA DeletionStanding ==
  ASSUME FileForm, TrailInv, Repair
  PROVE  /\ TrailInv'
         /\ \A s \in Samples, e \in Editions : Standing(file', s, e) = Standing(file, s, e)
<1>1. PICK i \in DOMAIN file : /\ Broken(file[i]) /\ file' = RemoveAt(file, i)
                              /\ open' = (open /\ i # Len(file))
  BY DEF Repair
<1>2. /\ Len(file) \in Nat \ {0} /\ i \in 1..Len(file) /\ file' \in Seq(Lines)
      /\ Len(file') = Len(file) - 1
      /\ \A j \in 1..Len(file) - 1 : file'[j] = file[Moved(i, j)]
  BY <1>1, DeletedForm
<1>3. ASSUME open' PROVE file'[Len(file')] = Damaged
  <2>0. open /\ i # Len(file)
    BY <1>1, <1>3
  <2>1. open /\ i < Len(file) /\ Len(file) - 1 \in 1..Len(file) - 1
    BY <1>2, <2>0
  <2>2. Moved(i, Len(file) - 1) = Len(file)
    BY <1>2, <2>1 DEF Moved
  <2>3. file'[Len(file) - 1] = file[Len(file)]
    BY <1>2, <2>1, <2>2
  <2>. QED  BY <1>2, <2>1, <2>3 DEF TrailInv
<1>4. ASSUME NEW s \in Samples, NEW e \in Editions
      PROVE  Standing(file', s, e) = Standing(file, s, e)
  BY <1>1, <1>2, StandingDelete DEF FileForm
<1>. QED  BY <1>3, <1>4 DEF TrailInv

LEMMA InitFresh == Init => TrailInv /\ FreshInv
<1>. SUFFICES ASSUME Init PROVE TrailInv /\ FreshInv
  OBVIOUS
<1>1. Len(todo) = 0 /\ main = "idle" /\ ~open /\ example = NoExample
  BY EmptySeq DEF Init
<1>. QED  BY <1>1 DEF TrailInv, FreshInv, NoExample

\* What a thread writes is about the sample it holds, under the edition at hand.
LEMMA LineOfThread ==
  ASSUME Form, NEW w \in Workers, worker[w] = "locked", NEW line \in RecordsOf(example[w])
  PROVE  /\ line \in Records /\ line.sample = example[w] /\ line.edition = edition
         /\ example[w] \in Samples
<1>1. example[w] \in Samples /\ edition \in Editions
  BY DEF Form, ThreadForm, RestForm, Sending
<1>. QED  BY <1>1, RecordsAreLines

LEMMA NextFresh ==
  ASSUME "unterminated" \notin Cuts
  PROVE  Form /\ TrailInv /\ FreshInv /\ [Next]_vars => TrailInv' /\ FreshInv'
<1>. SUFFICES ASSUME Form, TrailInv, FreshInv, [Next]_vars PROVE TrailInv' /\ FreshInv'
  OBVIOUS
<1>. USE DEF disk, run, signals
<1>f. FileForm /\ PlanForm /\ ThreadForm /\ RestForm
  BY DEF Form
<1>t. /\ Len(todo) \in Nat /\ DOMAIN todo = 1..Len(todo)
      /\ \A i \in 1..Len(todo) : todo[i] \in Samples /\ todo[i] # "none"
  BY <1>f, SamplesOfPlan, BenchAssumption DEF PlanForm, Range
<1>d. ASSUME UNCHANGED disk PROVE TrailInv'
  BY <1>d DEF TrailInv
<1>u. ASSUME UNCHANGED <<file, edition, force>>, NEW s, Unsettled(s) PROVE Unsettled(s)'
  BY <1>u DEF Unsettled
<1>1. ASSUME Edit PROVE TrailInv' /\ FreshInv'
  BY <1>1, <1>d DEF Edit, FreshInv
<1>2. ASSUME Repair PROVE TrailInv' /\ FreshInv'
  BY <1>2, <1>f, DeletionStanding DEF Repair, FreshInv
<1>3. ASSUME NEW limit \in DOMAIN Plan, NEW forced \in BOOLEAN, Begin(limit, forced)
      PROVE  TrailInv' /\ FreshInv'
  <2>1. /\ todo' = planned' /\ todo' \in Seq(Samples)
        /\ \A i, j \in 1..Len(todo') : i # j => todo'[i] # todo'[j]
        /\ \A i \in 1..Len(todo') : ~Settles(Standing(file, todo'[i], edition), forced)
    BY <1>3, BeginForm, StandingIsStatus
  <2>2. \A w \in Workers : example'[w] = "none"
    BY <1>3, <1>f DEF Begin, ThreadForm, Sending
  <2>3. \A i \in 1..Len(todo') : todo'[i] # "none"
    BY <2>1, ElementOfSeq, BenchAssumption
  <2>5. \A i \in 1..Len(todo') : Unsettled(todo[i])'
    BY <1>3, <2>1 DEF Begin, Unsettled
  <2>. QED  BY <1>3, <1>d, <2>1, <2>2, <2>3, <2>5 DEF Begin, FreshInv
<1>4. ASSUME Interrupt \/ Finish PROVE TrailInv' /\ FreshInv'
  <2>1. main # "idle" /\ UNCHANGED <<disk, todo, example, edition, force>>
    BY <1>4 DEF Interrupt, Finish
  <2>. QED  BY <1>d, <1>u, <2>1 DEF FreshInv
<1>5. ASSUME Killed PROVE TrailInv' /\ FreshInv'
  <2>1. TrailInv'
    <3>1. ASSUME NEW w \in Workers, worker[w] = "locked", NEW line \in RecordsOf(example[w]),
                 Whole(line) \/ CutShort(line)
          PROVE  TrailInv'
      <4>1. line \in Records
        BY <3>1, LineOfThread
      <4>. QED  BY <1>f, <3>1, <4>1, WriteStanding
    <3>. QED  BY <1>5, <1>d, <3>1 DEF Killed
  <2>2. Len(todo') = 0 /\ main' = "idle" /\ example' = NoExample
    BY <1>5, EmptySeq DEF Killed
  <2>. QED  BY <2>1, <2>2 DEF FreshInv, NoExample
<1>6. ASSUME NEW w \in Workers, StartThread(w) \/ Look(w) \/ Lock(w)
      PROVE  TrailInv' /\ FreshInv'
  <2>1. main # "idle" /\ UNCHANGED <<disk, todo, example, edition, force>>
    BY <1>6, <1>f DEF StartThread, Look, Lock, ThreadForm
  <2>. QED  BY <1>d, <1>u, <2>1 DEF FreshInv
<1>7. ASSUME NEW w \in Workers, TakeNext(w) PROVE TrailInv' /\ FreshInv'
  <2>1. main # "idle" /\ UNCHANGED <<disk, main, edition, force>>
    BY <1>7, <1>f DEF TakeNext, ThreadForm
  <2>2. CASE todo = <<>>
    <3>1. UNCHANGED <<todo, example>>
      BY <1>7, <2>2 DEF TakeNext
    <3>. QED  BY <1>d, <1>u, <2>1, <3>1 DEF FreshInv
  <2>3. CASE todo # <<>>
    <3>1. /\ todo' = Tail(todo) /\ example' = [example EXCEPT ![w] = todo[1]]
          /\ Len(todo) \in Nat \ {0} /\ Len(todo') = Len(todo) - 1
          /\ \A i \in 1..Len(todo) - 1 : todo'[i] = todo[i + 1]
      BY <1>7, <1>f, <2>3, TailForm DEF TakeNext, PlanForm
    <3>2. /\ 1 \in 1..Len(todo)
          /\ \A i \in 1..Len(todo') : i \in 1..Len(todo) - 1 /\ i + 1 \in 1..Len(todo) /\ i + 1 # 1
      BY <3>1
    <3>3. \A i, j \in 1..Len(todo') : i # j => todo'[i] # todo'[j]
      BY <3>1, <3>2 DEF FreshInv
    <3>4. \A v \in Workers : example'[v] = IF v = w THEN todo[1] ELSE example[v]
      BY <1>f, <3>1 DEF ThreadForm
    <3>5. \A v \in Workers, i \in 1..Len(todo') : example'[v] # todo'[i]
      BY <3>1, <3>2, <3>4 DEF FreshInv
    <3>6. \A v, u \in Workers : v # u /\ example'[v] # "none" => example'[v] # example'[u]
      BY <3>2, <3>4 DEF FreshInv
    <3>7. \A i \in 1..Len(todo') : Unsettled(todo[i])'
      <4>1. ASSUME NEW i \in 1..Len(todo') PROVE Unsettled(todo[i])'
        <5>1. Unsettled(todo[i + 1])
          BY <2>1, <3>2 DEF FreshInv
        <5>2. todo'[i] = todo[i + 1]
          BY <3>1, <3>2
        <5>. QED  BY <2>1, <5>1, <5>2 DEF Unsettled
      <4>. QED  BY <4>1
    <3>. QED  BY <1>d, <2>1, <3>3, <3>5, <3>6, <3>7 DEF FreshInv
  <2>. QED  BY <2>2, <2>3
<1>g. ASSUME NEW w \in Workers, example' = [example EXCEPT ![w] = "none"],
             UNCHANGED <<todo, edition, force>>, main # "idle",
             \A i \in 1..Len(todo) :
               Standing(file', todo[i], edition) = Standing(file, todo[i], edition)
      PROVE  FreshInv'
  <2>1. \A v \in Workers : example'[v] = IF v = w THEN "none" ELSE example[v]
    BY <1>f, <1>g DEF ThreadForm
  <2>2. \A i \in 1..Len(todo) : Unsettled(todo[i])'
    BY <1>g DEF FreshInv, Unsettled
  <2>. QED  BY <1>g, <1>t, <2>1, <2>2 DEF FreshInv
<1>l. ASSUME NEW w \in Workers, worker[w] = "locked", NEW line \in RecordsOf(example[w]),
             Whole(line) \/ CutShort(line), UNCHANGED <<todo, edition>>
      PROVE  /\ TrailInv'
             /\ \A i \in 1..Len(todo) :
                  Standing(file', todo[i], edition) = Standing(file, todo[i], edition)
  <2>1. line \in Records /\ line.sample = example[w]
    BY <1>l, LineOfThread
  <2>2. /\ TrailInv'
        /\ \A s \in Samples, e \in Editions :
             s # line.sample => Standing(file', s, e) = Standing(file, s, e)
    BY <1>f, <1>l, <2>1, WriteStanding
  <2>3. \A i \in 1..Len(todo) : todo[i] # line.sample
    BY <2>1 DEF FreshInv
  <2>4. edition \in Editions
    BY <1>f DEF RestForm
  <2>5. ASSUME NEW i \in 1..Len(todo)
        PROVE  Standing(file', todo[i], edition) = Standing(file, todo[i], edition)
    BY <1>t, <2>2, <2>3, <2>4
  <2>. QED  BY <2>2, <2>5
<1>8. ASSUME NEW w \in Workers, WriteLine(w) PROVE TrailInv' /\ FreshInv'
  <2>1. /\ example' = [example EXCEPT ![w] = "none"] /\ worker[w] = "locked"
        /\ UNCHANGED <<todo, edition, force>>
        /\ \E line \in RecordsOf(example[w]) : Whole(line)
    BY <1>8 DEF WriteLine
  <2>2. main # "idle"
    BY <1>f, <2>1 DEF ThreadForm
  <2>. QED  BY <1>g, <1>l, <2>1, <2>2
<1>9. ASSUME NEW w \in Workers, Fail(w) PROVE TrailInv' /\ FreshInv'
  <2>1. /\ example' = [example EXCEPT ![w] = "none"] /\ UNCHANGED <<todo, edition, force>>
    BY <1>9 DEF Fail
  <2>2. main # "idle"
    BY <1>9, <1>f DEF Fail, ThreadForm
  <2>3. CASE UNCHANGED disk
    BY <1>d, <1>g, <2>1, <2>2, <2>3
  <2>4. CASE worker[w] = "locked" /\ \E line \in RecordsOf(example[w]) : CutShort(line)
    BY <1>g, <1>l, <2>1, <2>2, <2>4
  <2>. QED  BY <1>9, <2>3, <2>4 DEF Fail
<1>10. ASSUME UNCHANGED vars PROVE TrailInv' /\ FreshInv'
  BY <1>10, <1>d DEF vars, FreshInv, Unsettled
<1>. QED
  BY <1>1, <1>2, <1>3, <1>4, <1>5, <1>6, <1>7, <1>8, <1>9, <1>10 DEF Next, Worker

LEMMA AlwaysFresh ==
  ASSUME "unterminated" \notin Cuts
  PROVE  Spec => [](Form /\ TrailInv /\ FreshInv)
<1>1. Init => Form /\ TrailInv /\ FreshInv
  BY InitForm, InitFresh
<1>2. Form /\ TrailInv /\ FreshInv /\ [Next]_vars => (Form /\ TrailInv /\ FreshInv)'
  BY NextForm, NextFresh
<1>. QED  BY <1>1, <1>2, PTL DEF Spec

LEMMA VerdictForm ==
  /\ Verdict = [e \in Editions |-> [s \in Samples |-> VerdictOf(Standing(file, s, e))]]
  /\ Verdict' = [e \in Editions |-> [s \in Samples |-> VerdictOf(Standing(file', s, e))]]
BY DEF Verdict, StatusUnder, Standing, Mine

LEMMA SameVerdict ==
  ASSUME \A s \in Samples, e \in Editions : Standing(file', s, e) = Standing(file, s, e)
  PROVE  Verdict' = Verdict
BY VerdictForm

\* One standing record changes: one verdict does.
LEMMA OneVerdict ==
  ASSUME NEW t \in Samples, NEW d \in Editions, NEW v,
         \A s \in Samples, e \in Editions :
           Standing(file', s, e) = IF s = t /\ e = d THEN v ELSE Standing(file, s, e)
  PROVE  Verdict' = [Verdict EXCEPT ![d][t] = VerdictOf(v)]
<1>. DEFINE before == [e \in Editions |-> [s \in Samples |-> VerdictOf(Standing(file, s, e))]]
            after == [e \in Editions |-> [s \in Samples |-> VerdictOf(Standing(file', s, e))]]
            changed == [before EXCEPT ![d] = [before[d] EXCEPT ![t] = VerdictOf(v)]]
<1>1. ASSUME NEW e \in Editions PROVE after[e] = changed[e]
  <2>1. CASE e = d
    <3>1. after[d] = [s \in Samples |-> IF s = t THEN VerdictOf(v) ELSE VerdictOf(Standing(file, s, d))]
      OBVIOUS
    <3>2. before[d] = [s \in Samples |-> VerdictOf(Standing(file, s, d))]
      OBVIOUS
    <3>3. after[d] = [before[d] EXCEPT ![t] = VerdictOf(v)]
      BY <3>1, <3>2
    <3>. HIDE DEF after
    <3>4. changed[d] = [before[d] EXCEPT ![t] = VerdictOf(v)]
      OBVIOUS
    <3>. QED  BY <2>1, <3>3, <3>4
  <2>2. CASE e # d
    <3>1. after[e] = before[e]
      BY <2>2
    <3>2. changed[e] = before[e]
      BY <2>2
    <3>. QED  BY <3>1, <3>2
  <2>. QED  BY <2>1, <2>2
<1>2. after = changed
  <2>1. after = [e \in Editions |-> after[e]] /\ changed = [e \in Editions |-> changed[e]]
    OBVIOUS
  <2>. HIDE DEF after, changed
  <2>. QED  BY <1>1, <2>1
<1>3. Verdict = before /\ Verdict' = after
  BY VerdictForm
<1>. HIDE DEF before, after
<1>. QED  BY <1>2, <1>3

LEMMA StepsKeepLedger ==
  ASSUME "unterminated" \notin Cuts, Form, TrailInv, FreshInv, [Next]_vars
  PROVE  [Ledger!Next]_(Ledger!ledger)
<1>. USE DEF disk, run, signals, Ledger!Next, Ledger!ledger
<1>f. FileForm /\ PlanForm /\ ThreadForm /\ RestForm
  BY DEF Form
<1>n. "none" \notin Samples
  BY BenchAssumption
<1>u. ASSUME UNCHANGED <<edition, force, file, example>> PROVE UNCHANGED Ledger!ledger
  <2>1. Verdict' = Verdict
    BY <1>u, SameVerdict
  <2>2. Asked' = Asked
    BY <1>u DEF Asked
  <2>. QED  BY <1>u, <2>1, <2>2
<1>q. ASSUME main = "idle" PROVE Asked = {}
  BY <1>f, <1>q DEF ThreadForm, Asked, Sending
<1>a. ASSUME NEW w \in Workers, example' = [example EXCEPT ![w] = "none"]
      PROVE  Asked' = Asked \ {example[w]}
  <2>1. \A v \in Workers : example'[v] = IF v = w THEN "none" ELSE example[v]
    BY <1>a, <1>f DEF ThreadForm
  <2>. QED  BY <2>1 DEF FreshInv, Asked
<1>l. ASSUME NEW w \in Workers, worker[w] = "locked", NEW line \in RecordsOf(example[w])
      PROVE  /\ example[w] \in Asked /\ example[w] \in Samples /\ edition \in Editions
             /\ line \in Records /\ line.sample = example[w] /\ line.edition = edition
  BY <1>l, <1>f, <1>n, LineOfThread DEF Asked, RestForm
<1>w. ASSUME NEW w \in Workers, worker[w] = "locked", NEW line \in RecordsOf(example[w]),
             Whole(line) \/ CutShort(line)
      PROVE  \E v \in Ledger!Verdicts : Verdict' = [Verdict EXCEPT ![edition][example[w]] = v]
  <2>1. /\ example[w] \in Samples /\ edition \in Editions /\ line \in Records
        /\ line.sample = example[w] /\ line.edition = edition
    BY <1>l, <1>w
  <2>2. PICK v : \A s \in Samples, e \in Editions :
                   Standing(file', s, e) = IF s = example[w] /\ e = edition
                                           THEN v ELSE Standing(file, s, e)
    BY <1>f, <1>w, <2>1, WriteStanding
  <2>3. Verdict' = [Verdict EXCEPT ![edition][example[w]] = VerdictOf(v)]
    BY <2>1, <2>2, OneVerdict
  <2>4. VerdictOf(v) \in Ledger!Verdicts
    BY DEF VerdictOf, Ledger!Verdicts
  <2>. QED  BY <2>3, <2>4
<1>c. ASSUME NEW w \in Workers, worker[w] = "locked", NEW line \in RecordsOf(example[w]),
             CutShort(line)
      PROVE  Verdict' = Verdict
  <2>1. line \in Records
    BY <1>l, <1>c
  <2>2. \A s \in Samples, e \in Editions : Standing(file', s, e) = Standing(file, s, e)
    BY <1>f, <1>c, <2>1, WriteStanding
  <2>. QED  BY <2>2, SameVerdict
<1>1. ASSUME Edit PROVE [Ledger!Next]_(Ledger!ledger)
  <2>1. Verdict' = Verdict
    BY <1>1, SameVerdict DEF Edit
  <2>2. Asked' = Asked /\ Asked = {}
    BY <1>1, <1>q DEF Edit, Asked
  <2>3. Ledger!Prepare
    BY <1>1, <1>f, <2>1, <2>2 DEF Edit, Ledger!Prepare, RestForm
  <2>. QED  BY <2>3
<1>2. ASSUME Repair PROVE [Ledger!Next]_(Ledger!ledger)
  <2>1. Verdict' = Verdict
    BY <1>2, <1>f, DeletionStanding, SameVerdict
  <2>2. Asked' = Asked /\ UNCHANGED <<edition, force>>
    BY <1>2 DEF Repair, Asked
  <2>. QED  BY <2>1, <2>2
<1>3. ASSUME NEW limit \in DOMAIN Plan, NEW forced \in BOOLEAN, Begin(limit, forced)
      PROVE  [Ledger!Next]_(Ledger!ledger)
  <2>1. Verdict' = Verdict
    BY <1>3, SameVerdict DEF Begin
  <2>2. Asked' = Asked /\ Asked = {}
    BY <1>3, <1>q DEF Begin, Asked
  <2>3. Ledger!Prepare
    BY <1>3, <1>f, <2>1, <2>2 DEF Begin, Ledger!Prepare, RestForm
  <2>. QED  BY <2>3
<1>4. ASSUME Killed PROVE [Ledger!Next]_(Ledger!ledger)
  <2>1. Asked' = {} /\ UNCHANGED <<edition, force>>
    BY <1>4 DEF Killed, Asked, NoExample
  <2>2. CASE UNCHANGED file
    <3>1. Verdict' = Verdict
      BY <2>2, SameVerdict
    <3>2. Ledger!Lose
      BY <2>1, <3>1 DEF Ledger!Lose
    <3>. QED  BY <3>2
  <2>3. ASSUME NEW w \in Workers, worker[w] = "locked", NEW line \in RecordsOf(example[w]),
               Whole(line) \/ CutShort(line)
        PROVE  Ledger!Die
    <3>1. example[w] \in Asked
      BY <1>l, <2>3
    <3>2. \E v \in Ledger!Verdicts : Verdict' = [Verdict EXCEPT ![edition][example[w]] = v]
      BY <1>w, <2>3
    <3>. QED  BY <2>1, <3>1, <3>2 DEF Ledger!Die
  <2>. QED  BY <1>4, <2>2, <2>3 DEF Killed
<1>5. ASSUME Interrupt \/ Finish PROVE [Ledger!Next]_(Ledger!ledger)
  BY <1>5, <1>u DEF Interrupt, Finish
<1>6. ASSUME NEW w \in Workers, StartThread(w) \/ Look(w) \/ Lock(w)
      PROVE  [Ledger!Next]_(Ledger!ledger)
  BY <1>6, <1>u DEF StartThread, Look, Lock
<1>7. ASSUME NEW w \in Workers, TakeNext(w) PROVE [Ledger!Next]_(Ledger!ledger)
  <2>1. CASE todo = <<>>
    BY <1>7, <1>u, <2>1 DEF TakeNext
  <2>2. CASE todo # <<>>
    <3>. DEFINE s == todo[1]
    <3>1. /\ example' = [example EXCEPT ![w] = s] /\ s \in Samples /\ 1 \in 1..Len(todo)
          /\ UNCHANGED <<file, edition, force>> /\ example[w] = "none" /\ main # "idle"
      BY <1>7, <1>f, <2>2, TailForm DEF TakeNext, PlanForm, ThreadForm, Sending
    <3>2. s \notin Asked /\ Unsettled(s)
      BY <3>1 DEF FreshInv, Asked
    <3>3. Asked' = Asked \cup {s}
      <4>1. \A v \in Workers : example'[v] = IF v = w THEN s ELSE example[v]
        BY <1>f, <3>1 DEF ThreadForm
      <4>. QED  BY <1>n, <3>1, <4>1 DEF Asked
    <3>4. Verdict' = Verdict
      BY <3>1, SameVerdict
    <3>5. Verdict[edition][s] = "open" \/ (Verdict[edition][s] = "final" /\ force)
      <4>1. Verdict[edition][s] = VerdictOf(Standing(file, s, edition))
        BY <1>f, <3>1, VerdictForm DEF RestForm
      <4>. QED  BY <3>2, <4>1 DEF Unsettled, Settles, VerdictOf
    <3>6. Ledger!Send(s)
      BY <3>1, <3>2, <3>3, <3>4, <3>5 DEF Ledger!Send
    <3>. QED  BY <3>1, <3>6
  <2>. QED  BY <2>1, <2>2
<1>8. ASSUME NEW w \in Workers, WriteLine(w) PROVE [Ledger!Next]_(Ledger!ledger)
  <2>1. /\ worker[w] = "locked" /\ example' = [example EXCEPT ![w] = "none"]
        /\ UNCHANGED <<edition, force>> /\ \E line \in RecordsOf(example[w]) : Whole(line)
    BY <1>8 DEF WriteLine
  <2>2. example[w] \in Asked /\ example[w] \in Samples
    BY <1>l, <2>1
  <2>3. Asked' = Asked \ {example[w]}
    BY <1>a, <2>1
  <2>4. PICK v \in Ledger!Verdicts : Verdict' = [Verdict EXCEPT ![edition][example[w]] = v]
    BY <1>w, <2>1
  <2>5. Ledger!Record(example[w], v)
    BY <2>1, <2>2, <2>3, <2>4 DEF Ledger!Record
  <2>. QED  BY <2>2, <2>5
<1>9. ASSUME NEW w \in Workers, Fail(w) PROVE [Ledger!Next]_(Ledger!ledger)
  <2>1. Asked' = Asked \ {example[w]} /\ UNCHANGED <<edition, force>>
    BY <1>9, <1>a DEF Fail
  <2>2. Verdict' = Verdict
    <3>1. CASE UNCHANGED file
      BY <3>1, SameVerdict
    <3>2. CASE worker[w] = "locked" /\ \E line \in RecordsOf(example[w]) : CutShort(line)
      BY <1>c, <3>2
    <3>. QED  BY <1>9, <3>1, <3>2 DEF Fail
  <2>3. Ledger!Lose
    BY <2>1, <2>2 DEF Ledger!Lose
  <2>. QED  BY <2>3
<1>10. ASSUME UNCHANGED vars PROVE [Ledger!Next]_(Ledger!ledger)
  BY <1>10, <1>u DEF vars
<1>. QED
  BY <1>1, <1>2, <1>3, <1>4, <1>5, <1>6, <1>7, <1>8, <1>9, <1>10 DEF Next, Worker

(* The file of results keeps the ledger: through Ctrl+C, crashes, writes cut short,
   repairs and edits that are taken back, an answered sample stays answered and is not
   sent again. The hypothesis excludes a write cut exactly before its newline. *)
THEOREM RunnerKeepsTheLedger ==
  ASSUME "unterminated" \notin Cuts
  PROVE  Spec => KeepsTheLedger
<1>1. Init => Ledger!Empty
  <2>. SUFFICES ASSUME Init PROVE Ledger!Empty
    OBVIOUS
  <2>1. file = <<>> /\ example = NoExample /\ edition \in Editions /\ force = FALSE
    BY DEF Init
  <2>2. \A s \in Samples, e \in Editions : Standing(file, s, e) = "none"
    BY <2>1 DEF Standing, Mine
  <2>3. Verdict = [e \in Editions |-> [s \in Samples |-> "open"]]
    BY <2>2, VerdictForm DEF VerdictOf
  <2>4. Asked = {}
    BY <2>1 DEF Asked, NoExample
  <2>. QED  BY <2>1, <2>3, <2>4 DEF Ledger!Empty
<1>2. Form /\ TrailInv /\ FreshInv /\ [Next]_vars => [Ledger!Next]_(Ledger!ledger)
  BY StepsKeepLedger
<1>. QED  BY <1>1, <1>2, AlwaysFresh, PTL DEF Spec, KeepsTheLedger, Ledger!Spec

-----------------------------------------------------------------------------
(* Every answer of a run is in the file                                      *)

Recorded(s) == \E i \in base + 1 .. Len(file) : file[i].sample = s /\ file[i].edition # "none"

\* A run is on, or has ended by itself or by one Ctrl+C; and no worker has raised.
Sound == (main # "idle" \/ result \in {"done", "interrupted"}) /\ ~errors

\* The file has one more readable line for each answer; what was taken is in flight or
\* recorded; a thread ends only for the stop event or an empty queue.
LostInv ==
  /\ main # "idle" => result = "none" /\ planned # <<>>
  /\ Sound => /\ Readable /\ ~open /\ Len(file) = base + sent
              /\ \A s \in Range(planned) \ Range(todo) : s \in Asked \/ Recorded(s)
  /\ ~errors /\ main \in {"starting", "waiting"} => ~stop
  /\ main # "idle" /\ ~errors /\ ~stop /\ (\E w \in Workers : worker[w] = "ended") => todo = <<>>
  /\ main = "idle" /\ ~errors /\ result = "done" => todo = <<>>

LEMMA NextLost ==
  ASSUME Texts \subseteq {"plain"}
  PROVE  Form /\ CountInv /\ TrailInv /\ FreshInv /\ LostInv /\ [Next]_vars => LostInv'
<1>. SUFFICES ASSUME Form, CountInv, TrailInv, FreshInv, LostInv, [Next]_vars PROVE LostInv'
  OBVIOUS
<1>. USE DEF disk, run, signals
<1>f. FileForm /\ PlanForm /\ ThreadForm /\ RestForm
  BY DEF Form
<1>n. "none" \notin Samples /\ "none" \notin Editions
  BY BenchAssumption
<1>l. Len(file) \in Nat /\ DOMAIN file = 1..Len(file) /\ sent \in Nat /\ base \in Nat
  BY <1>f, LenProperties DEF FileForm, CountInv, RestForm
<1>u. ASSUME UNCHANGED <<file, base>> PROVE \A s : Recorded(s)' <=> Recorded(s)
  BY <1>u DEF Recorded
<1>r. ASSUME UNCHANGED file PROVE Readable' <=> Readable
  BY <1>r DEF Readable
<1>q. ASSUME UNCHANGED example PROVE Asked' = Asked
  BY <1>q DEF Asked
<1>1. ASSUME Edit PROVE LostInv'
  BY <1>1, <1>u, <1>r, <1>q DEF Edit, LostInv, Sound
<1>2. ASSUME Repair PROVE LostInv'
  <2>1. ~Readable /\ main = "idle"
    BY <1>2 DEF Repair, Readable
  <2>2. ~Sound /\ ~Sound'
    BY <1>2, <2>1 DEF Repair, LostInv, Sound
  <2>. QED  BY <1>2, <2>1, <2>2 DEF Repair, LostInv, Sound
<1>3. ASSUME NEW limit \in DOMAIN Plan, NEW forced \in BOOLEAN, Begin(limit, forced)
      PROVE  LostInv'
  <2>1. planned' # <<>> /\ todo' = planned'
    BY <1>3, BeginForm
  <2>2. Readable /\ UNCHANGED disk /\ base' = Len(file) /\ sent' = 0
    BY <1>3 DEF Begin
  <2>3. ~open
    <3>1. ASSUME open PROVE FALSE
      <4>1. Len(file) \in 1..Len(file)
        BY <1>f, <1>l, <3>1, EmptySeq DEF FileForm
      <4>. QED  BY <1>l, <2>2, <3>1, <4>1 DEF TrailInv, Readable, Broken
    <3>. QED  BY <3>1
  <2>4. \A w \in Workers : worker'[w] = "off"
    BY <1>3 DEF Begin
  <2>5. Len(file') = base' + sent' /\ Readable' /\ ~open'
    BY <1>l, <1>r, <2>2, <2>3
  <2>. QED  BY <1>3, <2>1, <2>4, <2>5 DEF Begin, LostInv
<1>4. ASSUME Interrupt PROVE LostInv'
  BY <1>4, <1>u, <1>r, <1>q DEF Interrupt, LostInv, Sound
<1>5. ASSUME Finish PROVE LostInv'
  <2>1. worker[1] = "ended" /\ 1 \in Workers
    <3>1. 1 \in Workers /\ 1 <= Len(planned)
      BY <1>5, <1>f, WorkersForm, EmptySeq DEF Finish, LostInv, PlanForm
    <3>. QED  BY <1>5, <3>1 DEF Finish, Joined, Threads
  <2>2. ~errors /\ main = "waiting" => todo = <<>>
    BY <1>5, <2>1 DEF Finish, LostInv
  <2>3. UNCHANGED <<disk, todo, planned, base, sent, errors, stop, worker, example>>
        /\ main' = "idle" /\ main # "idle"
        /\ (result' = "done" => main = "waiting")
    BY <1>5 DEF Finish
  <2>4. Sound' => Sound
    BY <2>3 DEF Sound
  <2>. QED  BY <1>u, <1>r, <1>q, <2>2, <2>3, <2>4 DEF LostInv
<1>6. ASSUME Killed PROVE LostInv'
  <2>1. main' = "idle" /\ result' = "killed"
    BY <1>6 DEF Killed
  <2>. QED  BY <2>1 DEF LostInv, Sound
<1>7. ASSUME NEW w \in Workers, StartThread(w) PROVE LostInv'
  <2>1. \A v \in Workers : worker'[v] = "ended" => worker[v] = "ended"
    BY <1>7, <1>f DEF StartThread, ThreadForm
  <2>2. main # "idle" /\ main' # "idle" /\ main = "starting"
    BY <1>7 DEF StartThread
  <2>. QED  BY <1>7, <1>u, <1>r, <1>q, <2>1, <2>2 DEF StartThread, LostInv, Sound
<1>8. ASSUME NEW w \in Workers, Look(w) PROVE LostInv'
  <2>1. \A v \in Workers : worker'[v] = "ended" => worker[v] = "ended" \/ stop
    BY <1>8, <1>f DEF Look, ThreadForm
  <2>. QED  BY <1>8, <1>u, <1>r, <1>q, <2>1 DEF Look, LostInv, Sound
<1>9. ASSUME NEW w \in Workers, TakeNext(w) PROVE LostInv'
  <2>1. CASE todo = <<>>
    BY <1>9, <1>u, <1>r, <1>q, <2>1 DEF TakeNext, LostInv, Sound
  <2>2. CASE todo # <<>>
    <3>1. /\ Range(todo) = {Head(todo)} \cup Range(Tail(todo)) /\ Head(todo) \in Samples
          /\ todo' = Tail(todo) /\ example' = [example EXCEPT ![w] = Head(todo)]
          /\ example[w] = "none" /\ worker' = [worker EXCEPT ![w] = "sending"]
          /\ UNCHANGED <<disk, main, planned, base, stop, errors, sent, result>>
      BY <1>9, <1>f, <2>2, TailForm DEF TakeNext, PlanForm, ThreadForm, Sending
    <3>2. Asked' = Asked \cup {Head(todo)}
      <4>1. \A v \in Workers : example'[v] = IF v = w THEN Head(todo) ELSE example[v]
        BY <1>f, <3>1 DEF ThreadForm
      <4>. QED  BY <1>n, <3>1, <4>1 DEF Asked
    <3>3. \A v \in Workers : worker'[v] = "ended" => worker[v] = "ended"
      BY <1>f, <3>1 DEF ThreadForm
    <3>4. main # "idle"
      BY <1>9, <1>f DEF TakeNext, ThreadForm
    <3>5. \A s \in Range(planned) \ Range(todo') :
            s \in Range(planned) \ Range(todo) \/ s = Head(todo)
      BY <3>1
    <3>6. Sound' <=> Sound
      BY <3>1 DEF Sound
    <3>7. Sound => \A s \in Range(planned') \ Range(todo') : s \in Asked' \/ Recorded(s)'
      BY <1>u, <3>1, <3>2, <3>5 DEF LostInv
    <3>. QED  BY <1>r, <2>2, <3>1, <3>3, <3>4, <3>6, <3>7 DEF LostInv
  <2>. QED  BY <2>1, <2>2
<1>10. ASSUME NEW w \in Workers, Lock(w) PROVE LostInv'
  <2>1. \A v \in Workers : worker'[v] = "ended" => worker[v] = "ended"
    BY <1>10, <1>f DEF Lock, ThreadForm
  <2>. QED  BY <1>10, <1>u, <1>r, <1>q, <2>1 DEF Lock, LostInv, Sound
<1>11. ASSUME NEW w \in Workers, WriteLine(w) PROVE LostInv'
  <2>1. PICK line \in RecordsOf(example[w]) : Whole(line)
    BY <1>11 DEF WriteLine
  <2>2. /\ worker[w] = "locked" /\ worker' = [worker EXCEPT ![w] = "looking"]
        /\ example' = [example EXCEPT ![w] = "none"] /\ sent' = sent + 1
        /\ UNCHANGED <<main, todo, planned, base, stop, errors, result>>
    BY <1>11 DEF WriteLine, Counted
  <2>3. main # "idle" /\ (Sound' <=> Sound)
    BY <1>f, <2>2 DEF ThreadForm, Sound
  <2>4. line \in Records /\ line.sample = example[w] /\ line.edition # "none"
    BY <1>f, <1>n, <2>1, <2>2, LineOfThread DEF RestForm
  <2>5. line \in Lines /\ ~Broken(line)
    BY <2>4, PlainRecordsRead DEF Lines
  <2>6. \A v \in Workers : worker'[v] = "ended" => worker[v] = "ended"
    BY <1>f, <2>2 DEF ThreadForm
  <2>7. \A s \in Asked : s \in Asked' \/ s = example[w]
    <3>1. \A v \in Workers : example'[v] = IF v = w THEN "none" ELSE example[v]
      BY <1>f, <2>2 DEF ThreadForm
    <3>. QED  BY <3>1 DEF Asked
  <2>8. ASSUME Sound
        PROVE  /\ Readable' /\ ~open' /\ Len(file') = base' + sent'
               /\ \A s \in Range(planned') \ Range(todo') : s \in Asked' \/ Recorded(s)'
    <3>1. ~open /\ Readable /\ Len(file) = base + sent
      BY <2>8 DEF LostInv
    <3>2. /\ file' \in Seq(Lines) /\ Len(file') = Len(file) + 1 /\ ~open'
          /\ file'[Len(file) + 1] = line
          /\ \A i \in 1..Len(file) : file'[i] = file[i]
      BY <1>f, <2>1, <2>5, <3>1, AppendedForm DEF Whole
    <3>3. DOMAIN file' = 1..Len(file) + 1
      BY <3>2, LenProperties
    <3>4. Readable'
      BY <1>l, <2>5, <3>1, <3>2, <3>3 DEF Readable
    <3>5. Len(file') = base' + sent'
      BY <1>l, <2>2, <3>1, <3>2
    <3>6. \A s : Recorded(s) => Recorded(s)'
      BY <1>l, <2>2, <3>2 DEF Recorded
    <3>7. ASSUME NEW s, s = example[w] PROVE Recorded(s)'
      <4>1. Len(file) + 1 \in base' + 1 .. Len(file')
        BY <1>l, <2>2, <3>1, <3>2
      <4>. QED  BY <2>4, <3>2, <3>7, <4>1 DEF Recorded
    <3>. QED  BY <2>2, <2>7, <2>8, <3>2, <3>4, <3>5, <3>6, <3>7 DEF LostInv
  <2>. QED  BY <2>2, <2>3, <2>6, <2>8 DEF LostInv
<1>12. ASSUME NEW w \in Workers, Fail(w) PROVE LostInv'
  <2>1. errors' = TRUE /\ stop' = TRUE /\ main' = main /\ result' = result /\ planned' = planned
    BY <1>12 DEF Fail
  <2>. QED  BY <2>1 DEF LostInv, Sound
<1>13. ASSUME UNCHANGED vars PROVE LostInv'
  BY <1>13, <1>u, <1>r, <1>q DEF vars, LostInv, Sound
<1>. QED
  BY <1>1, <1>2, <1>3, <1>4, <1>5, <1>6, <1>7, <1>8, <1>9, <1>10, <1>11, <1>12, <1>13
     DEF Next, Worker

(* "The requests already in flight finish and are recorded": after a run that ended by
   itself or by one Ctrl+C, and in which no worker raised, every sample that was taken has
   its line, the summary counts the new lines, and a run that ended by itself left
   nothing in the queue. The hypotheses: a record can be read back, and no earlier run was
   cut exactly before its newline. *)
THEOREM NothingTakenIsLost ==
  ASSUME Texts \subseteq {"plain"}, "unterminated" \notin Cuts
  PROVE  Spec => []NothingLost
<1>. DEFINE IInv == Form /\ CountInv /\ TrailInv /\ FreshInv /\ LostInv
<1>1. Init => IInv
  <2>1. Init => LostInv
    BY EmptySeq DEF Init, LostInv, Sound
  <2>. QED  BY <2>1, InitForm, InitFresh
<1>2. IInv /\ [Next]_vars => IInv'
  BY NextForm, NextCount, NextFresh, NextLost
<1>3. IInv => NothingLost
  <2>. SUFFICES ASSUME IInv, main = "idle", result \in {"done", "interrupted"}, ~errors
                PROVE  /\ sent = Len(file) - base
                       /\ \A s \in Range(planned) \ Range(todo) :
                            \E i \in base + 1 .. Len(file) :
                              file[i].sample = s /\ file[i].edition # "none"
                       /\ result = "done" => todo = <<>>
    BY DEF NothingLost
  <2>1. Asked = {}
    BY DEF Form, ThreadForm, Asked, Sending
  <2>2. sent \in Nat /\ base \in Nat /\ Len(file) = base + sent
    BY DEF Form, RestForm, CountInv, LostInv, Sound
  <2>3. \A s \in Range(planned) \ Range(todo) : Recorded(s)
    BY <2>1 DEF LostInv, Sound
  <2>4. result = "done" => todo = <<>>
    BY DEF LostInv
  <2>. QED  BY <2>2, <2>3, <2>4 DEF Recorded
<1>. HIDE DEF IInv
<1>. QED  BY <1>1, <1>2, <1>3, PTL DEF Spec
=============================================================================
