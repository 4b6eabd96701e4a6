---------------------------- MODULE Microbatches ----------------------------
(***************************************************************************)
(* NliZeroShotBackend.score() (jevbert/backends/nli.py): the sequences of  *)
(* one request are sorted by length, cut into microbatches by              *)
(* plan_microbatches(), scored one batch after the other, and the values   *)
(* put back into the order of the request. The event loop may set the      *)
(* cancel token at any time; it is read before each forward pass.          *)
(*                                                                         *)
(* A batch is a stretch of the sorted order: only its bounds are kept. The *)
(* logit of the i-th sequence is i itself, so that a value says whose it   *)
(* is; 0 is the initial 0.0. Sequences are numbered from 1.                *)
(***************************************************************************)
EXTENDS Naturals, Sequences, FiniteSets

CONSTANTS Inputs,            \* the lists of token counts score() may be called with
          MaxBatchTokens,    \* max_batch_tokens
          MaxBatchSequences  \* max_batch_sequences

ASSUME InputsAssumption == \A input \in Inputs : input \in Seq(Nat)
ASSUME CeilingsAssumption == /\ MaxBatchTokens \in Nat \ {0}
                             /\ MaxBatchSequences \in Nat \ {0}

VARIABLES
  lengths,    \* len(sequence.data) of each sequence
  order,      \* sorted(range(n), key=length)
  batches,    \* the closed batches: the positions of order they take
  first,      \* where the batch that is being filled begins
  next,       \* the position of order the loop is at
  longest,    \* the longest sequence of that batch
  batch,      \* the batch that score() is at
  at,         \* where score() is
  cancelled,  \* the cancel token is set
  results     \* the list that is returned

vars == <<lengths, order, batches, first, next, longest, batch, at, cancelled, results>>
plan == <<order, batches, first, next, longest>>

N == Len(lengths)
Places == {"entry", "planning", "checking", "forward",
           "returned", "stopped", "failed"}    \* the last three: score() is over

MicrobatchTypeOK ==
  /\ lengths \in Seq(Nat) /\ order \in Seq(1..N)
  /\ batches \in Seq([from : 1..N, to : 1..N])
  /\ next \in 1..(N + 1) /\ first \in 1..next /\ longest \in Nat
  /\ batch \in 1..(Len(batches) + 1)
  /\ at \in Places /\ cancelled \in BOOLEAN
  /\ results \in [1..N -> 0..N]

Init ==
  /\ lengths \in Inputs
  /\ order = <<>> /\ batches = <<>> /\ first = 1 /\ next = 1 /\ longest = 0
  /\ batch = 1 /\ at = "entry" /\ cancelled = FALSE
  /\ results = [i \in 1..N |-> 0]

\* sorted() is stable.
Before(i, j) == lengths[i] < lengths[j] \/ (lengths[i] = lengths[j] /\ i < j)
ByLength(s) == \A p, q \in 1..N : p < q => Before(s[p], s[q])

-----------------------------------------------------------------------------
(* plan_microbatches()                                                     *)

\* raise_if_cancelled(), the empty request, and the sort.
Enter ==
  /\ at = "entry"
  /\ \/ /\ cancelled
        /\ at' = "stopped" /\ UNCHANGED order
     \/ /\ ~cancelled /\ N = 0
        /\ at' = "returned" /\ UNCHANGED order
     \/ /\ ~cancelled /\ N > 0
        /\ at' = "planning"
        /\ \E s \in [1..N -> 1..N] : ByLength(s) /\ order' = s
  /\ UNCHANGED <<lengths, batches, first, next, longest, batch, cancelled, results>>

Longer(m, n) == IF m < n THEN n ELSE m

\* The sequence would take the open batch past a ceiling.
CountedLate(length) ==    \* mutant: the ceilings see the batch before the sequence
  LET count == next - first IN
  count > 0 /\ (count > MaxBatchSequences \/ longest * count > MaxBatchTokens)
ClosedEarly(length) ==    \* mutant: at a ceiling instead of past it
  LET count == next - first IN
  count > 0 /\ (count + 1 >= MaxBatchSequences \/ length * (count + 1) >= MaxBatchTokens)
TooMuch(length) ==
  LET count == next - first IN
  /\ count > 0
  /\ \/ count + 1 > MaxBatchSequences
     \/ Longer(longest, length) * (count + 1) > MaxBatchTokens

\* The open batch, as the positions it takes.
OneTooMany == [from |-> first, to |-> next]    \* mutant: closed after the append
Open == [from |-> first, to |-> next - 1]

\* One round of the loop over the order.
Place ==
  LET length == lengths[order[next]] IN
  /\ at = "planning" /\ next <= N
  /\ IF TooMuch(length)
       THEN /\ batches' = Append(batches, Open)
            /\ first' = next /\ longest' = length
       ELSE /\ longest' = Longer(longest, length)
            /\ UNCHANGED <<batches, first>>
  /\ next' = next + 1
  /\ UNCHANGED <<lengths, order, batch, at, cancelled, results>>

\* The batch that is left when the loop ends is closed too.
EndOfPlan ==
  /\ at = "planning" /\ next > N
  /\ batches' = IF next > first THEN Append(batches, Open) ELSE batches
  /\ at' = "checking"
  /\ UNCHANGED <<lengths, order, first, next, longest, batch, cancelled, results>>

-----------------------------------------------------------------------------
(* The loop of score()                                                     *)

\* Between two batches the token is read.
NotRead == FALSE    \* mutant: only read at the entry
Stop == cancelled

Check ==
  /\ at = "checking"
  /\ at' = IF batch > Len(batches) THEN "returned"
           ELSE IF Stop THEN "stopped" ELSE "forward"
  /\ UNCHANGED <<lengths, plan, batch, cancelled, results>>

\* Where the value of the sequence at position p of the order goes.
SortedPosition(p) == p    \* mutant: the values stay in the order they were scored in
Home(p) == order[p]

\* _score_batch(): all values of the batch, or none (out of memory, not finite).
Forward ==
  LET members == batches[batch].from .. batches[batch].to IN
  /\ at = "forward"
  /\ \/ /\ at' = "failed" /\ UNCHANGED <<batch, results>>
     \/ /\ results' = [i \in 1..N |-> IF \E p \in members : Home(p) = i
                                      THEN order[CHOOSE p \in members : Home(p) = i]
                                      ELSE results[i]]
        /\ batch' = batch + 1 /\ at' = "checking"
  /\ UNCHANGED <<lengths, plan, cancelled>>

\* The event loop gives up on the request.
Cancel ==
  /\ ~cancelled /\ at \notin {"returned", "stopped", "failed"}
  /\ cancelled' = TRUE
  /\ UNCHANGED <<lengths, plan, batch, at, results>>

Score == Enter \/ Place \/ EndOfPlan \/ Check \/ Forward
Next == Score \/ Cancel

Spec == Init /\ [][Next]_vars

-----------------------------------------------------------------------------
(* Properties                                                              *)

Size(b) == batches[b].to - batches[b].from + 1
Width(b) == lengths[order[batches[b].to]]

(* No forward pass is larger than the ceilings, padding included ("the padded cost
   longest x count"), unless it is a single sequence; no member is wider than the
   padding. *)
CeilingsHold ==
  \A b \in 1..Len(batches) :
    /\ \A p \in batches[b].from .. batches[b].to : lengths[order[p]] <= Width(b)
    /\ Size(b) <= MaxBatchSequences
    /\ Size(b) = 1 \/ Width(b) * Size(b) <= MaxBatchTokens

\* A way to deal the sequences to k batches that keeps to the ceilings.
Feasible(deal, k) ==
  \A b \in 1..k :
    LET members == {i \in 1..N : deal[i] = b}
        count == Cardinality(members)
    IN /\ count <= MaxBatchSequences
       /\ count > 1 => \A i \in members : lengths[i] * count <= MaxBatchTokens

(* The plan is the best there is: no other grouping, sorted or not, that keeps to the
   ceilings has fewer batches. *)
FewestBatches ==
  at = "checking" /\ batch = 1 =>
    \A k \in 1..(Len(batches) - 1) : ~ \E deal \in [1..N -> 1..k] : Feasible(deal, k)

(* What is returned is complete and in the order given ("one finite logit per sequence,
   in the order given"), whatever was sorted, cut and interrupted on the way. *)
InOrderGiven == at = "returned" => \A i \in 1..N : results[i] = i

(* Once the token is set no forward pass starts ("the next one does not have to"). *)
NoForwardAfterCancel == [][cancelled /\ at # "forward" => at' # "forward"]_vars

-----------------------------------------------------------------------------
(* What the proofs of the properties above rest on                         *)

\* The sort has been made, and is one; before it nothing was planned.
OrderInv ==
  \/ /\ order = <<>> /\ batches = <<>>
     /\ at \in {"entry", "stopped"} \/ (at = "returned" /\ N = 0)
  \/ order \in [1..N -> 1..N] /\ ByLength(order) /\ at # "entry"

\* The closed batches cover the order from its first position, without gap or overlap.
TilingInv ==
  \A b \in 1..Len(batches) :
    /\ batches[b].from <= batches[b].to
    /\ b = 1 => batches[b].from = 1
    /\ b < Len(batches) => batches[b + 1].from = batches[b].to + 1

LastPlanned == IF batches = <<>> THEN 0 ELSE batches[Len(batches)].to

\* The open batch takes up where the closed ones end, and keeps to the ceilings.
OpenInv ==
  at \in {"entry", "planning"} =>
    /\ batch = 1 /\ LastPlanned = first - 1
    /\ at = "entry" => next = first
    /\ next = first => next = 1 /\ longest = 0
    /\ next > first =>
         /\ longest = lengths[order[next - 1]]
         /\ next - first <= MaxBatchSequences
         /\ (next - first = 1 \/ longest * (next - first) <= MaxBatchTokens)

\* Everything before the batch at hand is in its place.
ScatterInv ==
  at \in {"checking", "forward"} =>
    /\ LastPlanned = N
    /\ at = "forward" => batch <= Len(batches)
    /\ \A p \in 1..N : (batch <= Len(batches) => p < batches[batch].from)
                       => results[order[p]] = order[p]

\* No closed batch has room for the sequence after it.
FullInv ==
  \A b \in 1..Len(batches) :
    batches[b].to < N =>
      \/ Size(b) + 1 > MaxBatchSequences
      \/ lengths[order[batches[b].to + 1]] * (Size(b) + 1) > MaxBatchTokens

(* The plan covers every sequence once, in the sorted order, no batch of it ends early, and
   the values returned so far are where they belong. *)
PlanInv == OrderInv /\ TilingInv /\ OpenInv /\ FullInv /\ ScatterInv
=============================================================================
