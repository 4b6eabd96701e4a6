------------------------- MODULE MicrobatchesProofs -------------------------
(***************************************************************************)
(* Theorems about Microbatches for every request and every pair of         *)
(* ceilings: the plan keeps to them, and the answer is complete and in     *)
(* the order of the request.                                               *)
(***************************************************************************)
EXTENDS Microbatches, FoldLemmas, TLAPS

MInv == MicrobatchTypeOK /\ PlanInv /\ CeilingsHold /\ InOrderGiven

-----------------------------------------------------------------------------
(* What sorting gives                                                        *)

\* A sort never puts a longer sequence first.
LEMMA SortedLengths ==
  ASSUME lengths \in Seq(Nat), order \in [1..N -> 1..N], ByLength(order),
         NEW p \in 1..N, NEW q \in 1..N, p <= q
  PROVE  lengths[order[p]] <= lengths[order[q]]
<1>. DEFINE i == order[p]  j == order[q]
<1>1. N \in Nat /\ i \in 1..N /\ j \in 1..N
  BY LenProperties DEF N
<1>2. p < q => Before(i, j)
  BY DEF ByLength
<1>3. p = q => i = j
  OBVIOUS
<1>. HIDE DEF i, j
<1>4. lengths[i] \in Nat /\ lengths[j] \in Nat
  BY <1>1, ElementOfSeq DEF N
<1>5. p = q \/ p < q
  BY <1>1
<1>6. lengths[i] < lengths[j] \/ lengths[i] = lengths[j]
  BY <1>2, <1>3, <1>5 DEF Before
<1>7. lengths[i] <= lengths[j]
  BY <1>4, <1>6
<1>. QED  BY <1>7 DEF i, j

\* A sort loses no sequence: an injection of a finite set into itself is onto.
LEMMA SortIsOnto ==
  ASSUME lengths \in Seq(Nat), order \in [1..N -> 1..N], ByLength(order),
         NEW i \in 1..N
  PROVE  \E p \in 1..N : order[p] = i
<1>. N \in Nat
  BY DEF N
<1>1. ASSUME NEW p \in 1..N, NEW q \in 1..N, p < q PROVE order[p] # order[q]
  <2>1. Before(order[p], order[q])
    BY <1>1 DEF ByLength
  <2>2. order[p] \in 1..N
    OBVIOUS
  <2>3. lengths[order[p]] \in Nat
    BY <2>2, ElementOfSeq DEF N
  <2>. QED  BY <2>1, <2>3 DEF Before
<1>2. \A p, q \in 1..N : order[p] = order[q] => p = q
  <2>. SUFFICES ASSUME NEW p \in 1..N, NEW q \in 1..N, p # q PROVE order[p] # order[q]
    OBVIOUS
  <2>1. p < q \/ q < p
    OBVIOUS
  <2>. QED  BY <1>1, <2>1
<1>3. order \in Injection(1..N, 1..N)
  BY <1>2 DEF Injection, IsInjective
<1>4. IsFiniteSet(1..N)
  BY FS_Interval
<1>5. order \in Surjection(1..N, 1..N)
  BY <1>3, <1>4, FS_Injection
<1>. QED  BY <1>5 DEF Surjection

-----------------------------------------------------------------------------
(* The invariant                                                             *)

LEMMA InitMInv == Init => MInv
<1>. SUFFICES ASSUME Init PROVE MInv
  OBVIOUS
<1>1. lengths \in Seq(Nat) /\ N \in Nat
  BY InputsAssumption DEF Init, N
<1>2. MicrobatchTypeOK
  <2>1. order \in Seq(1..N) /\ batches \in Seq([from : 1..N, to : 1..N]) /\ Len(batches) = 0
    BY DEF Init
  <2>2. next \in 1..(N + 1) /\ first \in 1..next /\ longest \in Nat /\ batch \in 1..(0 + 1)
    <3>1. next = 1 /\ first = 1 /\ longest = 0 /\ batch = 1
      BY DEF Init
    <3>. QED  BY <3>1, <1>1
  <2>4. at \in Places /\ cancelled \in BOOLEAN
    BY DEF Init, Places
  <2>3. results \in [1..N -> 0..N]
    BY <1>1 DEF Init
  <2>. QED  BY <1>1, <2>1, <2>2, <2>3, <2>4 DEF MicrobatchTypeOK
<1>3. OrderInv /\ TilingInv /\ OpenInv /\ FullInv /\ ScatterInv
  BY <1>1 DEF Init, OrderInv, TilingInv, OpenInv, FullInv, ScatterInv, LastPlanned
<1>4. CeilingsHold /\ InOrderGiven
  BY DEF Init, CeilingsHold, InOrderGiven
<1>. QED  BY <1>2, <1>3, <1>4 DEF MInv, PlanInv

\* Closing the open batch keeps the tiling and the ceilings.
LEMMA ClosingABatch ==
  ASSUME MInv, at = "planning", next > first, next <= N + 1,
         batches' = Append(batches, Open), UNCHANGED <<lengths, order>>
  PROVE  /\ batches' \in Seq([from : 1..N, to : 1..N])
         /\ Len(batches') = Len(batches) + 1
         /\ TilingInv' /\ CeilingsHold' /\ LastPlanned' = next - 1
<1>. USE DEF MInv, PlanInv
<1>1. /\ N \in Nat /\ N' = N /\ first \in 1..N /\ next - 1 \in 1..N /\ first <= next - 1
      /\ next \in Nat /\ first \in Nat
  BY DEF MicrobatchTypeOK, N
<1>2. Open \in [from : 1..N, to : 1..N]
  BY <1>1 DEF Open
<1>3. batches \in Seq([from : 1..N, to : 1..N])
  BY DEF MicrobatchTypeOK
<1>4. /\ batches' \in Seq([from : 1..N, to : 1..N])
      /\ Len(batches') = Len(batches) + 1 /\ Len(batches) \in Nat
      /\ batches'[Len(batches) + 1] = Open
      /\ \A b \in 1..Len(batches) : batches'[b] = batches[b]
  BY <1>2, <1>3
<1>5. LastPlanned' = next - 1
  BY <1>4 DEF LastPlanned, Open
<1>6. TilingInv'
  <2>0. LastPlanned = first - 1
    BY DEF OpenInv
  <2>1. batches = <<>> => first = 1
    BY <2>0, <1>1 DEF LastPlanned
  <2>2. Len(batches) > 0 => batches[Len(batches)].to + 1 = first
    <3>. SUFFICES ASSUME Len(batches) > 0 PROVE batches[Len(batches)].to + 1 = first
      OBVIOUS
    <3>1. batches # <<>> /\ Len(batches) \in 1..Len(batches)
      BY <1>4
    <3>2. batches[Len(batches)] \in [from : 1..N, to : 1..N]
      BY <1>3, <3>1, ElementOfSeq
    <3>3. batches[Len(batches)].to = first - 1
      BY <2>0, <3>1 DEF LastPlanned
    <3>. QED  BY <3>2, <3>3, <1>1
  <2>. SUFFICES ASSUME NEW b \in 1..Len(batches')
                PROVE  /\ batches'[b].from <= batches'[b].to
                       /\ b = 1 => batches'[b].from = 1
                       /\ b < Len(batches') => batches'[b + 1].from = batches'[b].to + 1
    BY DEF TilingInv
  <2>3. batches'[Len(batches) + 1].from = first /\ batches'[Len(batches) + 1].to = next - 1
    BY <1>4 DEF Open
  <2>4. CASE b < Len(batches)
    <3>1. b \in 1..Len(batches) /\ b + 1 \in 1..Len(batches)
      BY <2>4, <1>4
    <3>2. batches'[b] = batches[b] /\ batches'[b + 1] = batches[b + 1]
      BY <3>1, <1>4
    <3>. QED  BY <2>4, <3>1, <3>2 DEF TilingInv
  <2>5. CASE b = Len(batches)
    <3>1. b \in 1..Len(batches) /\ batches'[b] = batches[b] /\ Len(batches) > 0
      BY <2>5, <1>4
    <3>2. batches'[b + 1].from = batches[b].to + 1
      BY <2>5, <2>2, <2>3, <3>1
    <3>. QED  BY <3>1, <3>2 DEF TilingInv
  <2>6. CASE b = Len(batches) + 1
    <3>1. Len(batches) = 0 => batches = <<>>
      BY <1>3
    <3>. QED  BY <2>6, <2>1, <2>3, <3>1, <1>1, <1>4
  <2>. QED  BY <2>4, <2>5, <2>6, <1>4
<1>7. CeilingsHold'
  <2>. SUFFICES ASSUME NEW b \in 1..Len(batches')
                PROVE  /\ \A p \in batches'[b].from .. batches'[b].to :
                            lengths[order[p]] <= lengths[order[batches'[b].to]]
                       /\ batches'[b].to - batches'[b].from + 1 <= MaxBatchSequences
                       /\ \/ batches'[b].to - batches'[b].from + 1 = 1
                          \/ lengths[order[batches'[b].to]]
                               * (batches'[b].to - batches'[b].from + 1) <= MaxBatchTokens
    BY DEF CeilingsHold, Size, Width
  <2>1. CASE b \in 1..Len(batches)
    BY <2>1, <1>4 DEF CeilingsHold, Size, Width
  <2>2. CASE b = Len(batches) + 1
    <3>1. batches'[b].from = first /\ batches'[b].to = next - 1
      BY <2>2, <1>4 DEF Open
    <3>2. (next - 1) - first + 1 = next - first
      BY <1>1
    <3>3. order \in [1..N -> 1..N] /\ ByLength(order)
      BY DEF OrderInv
    <3>4. \A p \in first .. next - 1 : lengths[order[p]] <= lengths[order[next - 1]]
      <4>. SUFFICES ASSUME NEW p \in first .. next - 1
                    PROVE  lengths[order[p]] <= lengths[order[next - 1]]
        OBVIOUS
      <4>1. p \in 1..N /\ p <= next - 1
        BY <1>1
      <4>2. lengths \in Seq(Nat)
        BY DEF MicrobatchTypeOK
      <4>. QED  BY <4>1, <4>2, <1>1, <3>3, SortedLengths
    <3>5. /\ next - first <= MaxBatchSequences
          /\ (next - first = 1 \/ lengths[order[next - 1]] * (next - first) <= MaxBatchTokens)
      BY DEF OpenInv
    <3>. QED  BY <3>1, <3>2, <3>4, <3>5
  <2>. QED  BY <2>1, <2>2, <1>4
<1>. QED  BY <1>4, <1>5, <1>6, <1>7

\* A batch is closed for the sequence after it, if there is one.
LEMMA ClosedIsFull ==
  ASSUME MInv, at = "planning", next > first, next <= N + 1,
         next <= N => \/ next - first + 1 > MaxBatchSequences
                      \/ lengths[order[next]] * (next - first + 1) > MaxBatchTokens,
         batches' = Append(batches, Open), UNCHANGED <<lengths, order>>
  PROVE  FullInv'
<1>1. N' = N /\ N \in Nat /\ next \in Nat /\ first \in Nat
  BY DEF MInv, MicrobatchTypeOK, N
<1>2. Open \in [from : 1..N, to : 1..N]
  BY <1>1 DEF Open, MInv, MicrobatchTypeOK
<1>3. batches \in Seq([from : 1..N, to : 1..N])
  BY DEF MInv, MicrobatchTypeOK
<1>4. /\ Len(batches') = Len(batches) + 1 /\ Len(batches) \in Nat
      /\ batches'[Len(batches) + 1] = Open
      /\ \A b \in 1..Len(batches) : batches'[b] = batches[b]
  BY <1>2, <1>3
<1>. SUFFICES ASSUME NEW b \in 1..Len(batches'), batches'[b].to < N
              PROVE  \/ batches'[b].to - batches'[b].from + 1 + 1 > MaxBatchSequences
                     \/ lengths[order[batches'[b].to + 1]]
                          * (batches'[b].to - batches'[b].from + 1 + 1) > MaxBatchTokens
  BY <1>1 DEF FullInv, Size
<1>5. CASE b \in 1..Len(batches)
  BY <1>4, <1>5 DEF MInv, PlanInv, FullInv, Size
<1>6. CASE b = Len(batches) + 1
  <2>1. batches'[b].to = next - 1 /\ batches'[b].from = first
    BY <1>4, <1>6 DEF Open
  <2>2. next <= N /\ next - 1 - first + 1 + 1 = next - first + 1 /\ next - 1 + 1 = next
    BY <1>1, <2>1
  <2>. QED  BY <2>1, <2>2
<1>. QED  BY <1>4, <1>5, <1>6

LEMMA PlaceKeeps == MInv /\ Place => MInv'
<1>. SUFFICES ASSUME MInv, Place PROVE MInv'
  OBVIOUS
<1>. USE DEF MInv, PlanInv
<1>. DEFINE length == lengths[order[next]]
<1>1. /\ N \in Nat /\ N' = N /\ next \in 1..N /\ first \in 1..next
      /\ longest \in Nat /\ first \in Nat /\ next \in Nat /\ next' = next + 1
  <2>1. /\ lengths \in Seq(Nat) /\ next \in 1..(N + 1) /\ first \in 1..next
        /\ longest \in Nat
    BY DEF MicrobatchTypeOK
  <2>2. next <= N /\ next' = next + 1 /\ lengths' = lengths
    BY DEF Place
  <2>3. N \in Nat /\ N' = N
    BY <2>1, <2>2, LenProperties DEF N
  <2>. HIDE DEF MInv, PlanInv
  <2>4. next \in Nat /\ next \in 1..N
    BY <2>1, <2>2, <2>3
  <2>. QED  BY <2>1, <2>2, <2>3, <2>4
<1>2. order \in [1..N -> 1..N] /\ ByLength(order) /\ order' = order /\ lengths' = lengths
  BY <1>1 DEF OrderInv, Place
<1>3. length \in Nat /\ lengths \in Seq(Nat)
  <2>1. lengths \in Seq(Nat)
    BY DEF MicrobatchTypeOK
  <2>2. order[next] \in 1..Len(lengths)
    BY <1>1, <1>2 DEF N
  <2>. QED  BY <2>1, <2>2, ElementOfSeq
<1>4. longest <= length
  <2>1. CASE next = first
    BY <2>1, <1>1, <1>3 DEF OpenInv, Place
  <2>2. CASE next > first
    <3>1. longest = lengths[order[next - 1]] /\ next - 1 \in 1..N
      BY <2>2, <1>1 DEF OpenInv, Place
    <3>2. next - 1 <= next
      BY <1>1
    <3>3. lengths[order[next - 1]] <= lengths[order[next]]
      BY <3>1, <3>2, <1>1, <1>2, <1>3, SortedLengths
    <3>. QED  BY <3>1, <3>3
  <2>. QED  BY <2>1, <2>2, <1>1
<1>5. longest' = length
  BY <1>3, <1>4, <1>1 DEF Place, Longer
<1>6. order[next'-1] = order[next]
  BY <1>1
<1>7. UNCHANGED <<lengths, order, batch, at, cancelled, results>> /\ at = "planning"
  BY DEF Place
<1>8. OrderInv' /\ ScatterInv' /\ InOrderGiven'
  BY <1>1, <1>2, <1>7 DEF OrderInv, ByLength, Before, ScatterInv, InOrderGiven
<1>0. FullInv => batches' # batches \/ FullInv'
  BY <1>1, <1>2 DEF FullInv, Size
<1>9. CASE TooMuch(length)
  <2>1. next > first
    BY <1>9, <1>1 DEF TooMuch
  <2>2. batches' = Append(batches, Open) /\ first' = next
    BY <1>9 DEF Place
  <2>3. /\ batches' \in Seq([from : 1..N, to : 1..N])
        /\ Len(batches') = Len(batches) + 1
        /\ TilingInv' /\ CeilingsHold' /\ LastPlanned' = next - 1
    BY <1>1, <1>2, <1>7, <2>1, <2>2, ClosingABatch
  <2>4. MicrobatchTypeOK'
    <3>1. lengths' \in Seq(Nat) /\ order' \in Seq(1..N')
      BY <1>1, <1>2 DEF MicrobatchTypeOK
    <3>2. next' \in 1..(N' + 1) /\ first' \in 1..next' /\ longest' \in Nat
      BY <1>1, <1>3, <1>5, <2>2
    <3>3. batches' \in Seq([from : 1..N', to : 1..N']) /\ batch' \in 1..(Len(batches') + 1)
      BY <1>1, <1>7, <2>3 DEF MicrobatchTypeOK
    <3>4. at' \in Places /\ cancelled' \in BOOLEAN /\ results' \in [1..N' -> 0..N']
      BY <1>1, <1>7 DEF MicrobatchTypeOK
    <3>. QED  BY <3>1, <3>2, <3>3, <3>4 DEF MicrobatchTypeOK
  <2>5. OpenInv'
    <3>1. next' - first' = 1 /\ 1 <= MaxBatchSequences /\ next' - 1 = next
      BY <1>1, <2>2, CeilingsAssumption
    <3>. QED  BY <1>1, <1>2, <1>5, <1>7, <2>2, <2>3, <3>1 DEF OpenInv
  <2>6. FullInv'
    <3>1. Longer(longest, length) = length
      BY <1>1, <1>3, <1>4 DEF Longer
    <3>2. \/ next - first + 1 > MaxBatchSequences
          \/ lengths[order[next]] * (next - first + 1) > MaxBatchTokens
      BY <1>9, <3>1 DEF TooMuch
    <3>. QED  BY <1>1, <1>7, <2>1, <2>2, <3>2, ClosedIsFull
  <2>. QED  BY <1>8, <2>3, <2>4, <2>5, <2>6
<1>10. CASE ~TooMuch(length)
  <2>1. UNCHANGED <<batches, first>>
    BY <1>10 DEF Place
  <2>2. TilingInv' /\ CeilingsHold' /\ LastPlanned' = LastPlanned
    BY <2>1, <1>2 DEF TilingInv, CeilingsHold, Size, Width, LastPlanned
  <2>3. MicrobatchTypeOK'
    <3>1. lengths' \in Seq(Nat) /\ order' \in Seq(1..N')
      BY <1>1, <1>2 DEF MicrobatchTypeOK
    <3>2. next' \in 1..(N' + 1) /\ first' \in 1..next' /\ longest' \in Nat
      BY <1>1, <1>3, <1>5, <2>1
    <3>3. batches' \in Seq([from : 1..N', to : 1..N']) /\ batch' \in 1..(Len(batches') + 1)
      BY <1>1, <1>7, <2>1 DEF MicrobatchTypeOK
    <3>4. at' \in Places /\ cancelled' \in BOOLEAN /\ results' \in [1..N' -> 0..N']
      BY <1>1, <1>7 DEF MicrobatchTypeOK
    <3>. QED  BY <3>1, <3>2, <3>3, <3>4 DEF MicrobatchTypeOK
  <2>4. OpenInv'
    <3>. DEFINE count == next - first
    <3>1. next' - first' = count + 1 /\ count \in Nat /\ next' - 1 = next
      BY <1>1, <2>1
    <3>2. \/ count = 0
          \/ count + 1 <= MaxBatchSequences /\ length * (count + 1) <= MaxBatchTokens
      <4>1. Longer(longest, length) = length
        BY <1>1, <1>3, <1>4 DEF Longer
      <4>2. length * (count + 1) \in Nat
        BY <1>3, <3>1
      <4>. QED  BY <1>10, <4>1, <4>2, <3>1, CeilingsAssumption DEF TooMuch
    <3>3. count + 1 <= MaxBatchSequences
      BY <3>2, CeilingsAssumption
    <3>4. longest' * (next' - first') = length * (count + 1)
      BY <1>5, <3>1
    <3>5. next' - first' = 1 \/ longest' * (next' - first') <= MaxBatchTokens
      BY <3>1, <3>2, <3>4
    <3>6. next' > first' /\ longest' = lengths'[order'[next' - 1]]
      BY <1>1, <1>2, <1>5, <2>1, <3>1
    <3>. QED  BY <1>7, <2>1, <2>2, <3>1, <3>3, <3>5, <3>6, <1>1 DEF OpenInv
  <2>. QED  BY <1>0, <1>8, <2>1, <2>2, <2>3, <2>4
<1>. QED  BY <1>9, <1>10

LEMMA EnterKeeps == MInv /\ Enter => MInv'
<1>. SUFFICES ASSUME MInv, Enter PROVE MInv'
  OBVIOUS
<1>. USE DEF MInv, PlanInv
<1>1. /\ UNCHANGED <<lengths, batches, first, next, longest, batch, cancelled, results>>
      /\ N' = N /\ N \in Nat /\ lengths \in Seq(Nat) /\ at = "entry"
      /\ at' \in {"stopped", "returned", "planning"}
  BY DEF Enter, N, MicrobatchTypeOK
<1>2. order = <<>> /\ batches = <<>>
  BY <1>1 DEF OrderInv
<1>0. TilingInv' /\ FullInv' /\ CeilingsHold' /\ OpenInv'
  <2>1. Len(batches') = 0
    BY <1>1, <1>2
  <2>2. TilingInv' /\ FullInv' /\ CeilingsHold'
    BY <2>1 DEF TilingInv, FullInv, CeilingsHold
  <2>3. next = first /\ next = 1
    BY <1>1 DEF OpenInv
  <2>4. OpenInv'
    BY <1>1, <2>3 DEF OpenInv, LastPlanned, MicrobatchTypeOK
  <2>. QED  BY <2>2, <2>4
<1>3. CASE at' # "planning"
  <2>1. order' = order /\ (at' = "stopped" \/ (at' = "returned" /\ N = 0))
    <3>1. \/ at' = "stopped" /\ order' = order
          \/ N = 0 /\ at' = "returned" /\ order' = order
          \/ at' = "planning"
      BY Zenon DEF Enter
    <3>. QED  BY <3>1, <1>3
  <2>2. OrderInv'
    BY <1>1, <1>2, <2>1 DEF OrderInv
  <2>3. ScatterInv' /\ InOrderGiven'
    BY <1>1, <2>1 DEF ScatterInv, InOrderGiven
  <2>. QED  BY <1>0, <1>1, <2>1, <2>2, <2>3 DEF MicrobatchTypeOK, Places
<1>4. CASE at' = "planning"
  <2>1. PICK s \in [1..N -> 1..N] : ByLength(s) /\ order' = s
    BY <1>4 DEF Enter
  <2>2. \A p, q \in 1..N : p < q => Before(s[p], s[q])
    BY <2>1 DEF ByLength
  <2>3. OrderInv'
    BY <1>1, <1>4, <2>1, <2>2 DEF OrderInv, ByLength, Before
  <2>4. s \in Seq(1..N)
    BY <1>1
  <2>5. ScatterInv' /\ InOrderGiven'
    BY <1>4 DEF ScatterInv, InOrderGiven
  <2>. QED  BY <1>0, <1>1, <1>4, <2>1, <2>3, <2>4, <2>5 DEF MicrobatchTypeOK, Places
<1>. QED  BY <1>1, <1>3, <1>4

LEMMA EndOfPlanKeeps == MInv /\ EndOfPlan => MInv'
<1>. SUFFICES ASSUME MInv, EndOfPlan PROVE MInv'
  OBVIOUS
<1>. USE DEF MInv, PlanInv
<1>1. /\ UNCHANGED <<lengths, order, first, next, longest, batch, cancelled, results>>
      /\ N' = N /\ N \in Nat /\ lengths \in Seq(Nat) /\ at = "planning" /\ at' = "checking"
      /\ next = N + 1 /\ first \in 1..next
  <2>1. /\ UNCHANGED <<lengths, order, first, next, longest, batch, cancelled, results>>
        /\ at = "planning" /\ at' = "checking" /\ next > N
    BY DEF EndOfPlan
  <2>2. N' = N /\ N \in Nat /\ lengths \in Seq(Nat) /\ next \in 1..(N + 1) /\ first \in 1..next
    BY <2>1 DEF N, MicrobatchTypeOK
  <2>. QED  BY <2>1, <2>2
<1>2. OrderInv' /\ OpenInv' /\ InOrderGiven'
  <2>1. OrderInv'
    BY <1>1 DEF OrderInv, ByLength, Before
  <2>2. OpenInv'
    BY <1>1 DEF OpenInv
  <2>3. InOrderGiven'
    BY <1>1 DEF InOrderGiven
  <2>. QED  BY <2>1, <2>2, <2>3
<1>3. /\ batches' \in Seq([from : 1..N, to : 1..N]) /\ Len(batches') >= 0
      /\ TilingInv' /\ CeilingsHold' /\ LastPlanned' = N
  <2>1. CASE next > first
    <3>1. batches' = Append(batches, Open)
      BY <2>1 DEF EndOfPlan
    <3>2. LastPlanned' = next - 1 /\ Len(batches') = Len(batches) + 1
      BY <2>1, <3>1, <1>1, ClosingABatch
    <3>3. /\ batches' \in Seq([from : 1..N, to : 1..N]) /\ TilingInv' /\ CeilingsHold'
      BY <2>1, <3>1, <1>1, ClosingABatch
    <3>. QED  BY <3>2, <3>3, <1>1
  <2>2. CASE ~(next > first)
    <3>1. batches' = batches /\ first = next
      BY <2>2, <1>1 DEF EndOfPlan
    <3>2. LastPlanned' = N
      <4>1. LastPlanned = first - 1 /\ next = 1
        BY <3>1, <1>1 DEF OpenInv
      <4>2. LastPlanned' = LastPlanned
        BY <3>1 DEF LastPlanned
      <4>. QED  BY <4>1, <4>2, <3>1, <1>1
    <3>3. TilingInv' /\ CeilingsHold'
      BY <3>1, <1>1 DEF TilingInv, CeilingsHold, Size, Width
    <3>. QED  BY <3>1, <3>2, <3>3 DEF MicrobatchTypeOK
  <2>. QED  BY <2>1, <2>2
<1>4. MicrobatchTypeOK'
  <2>1. batch = 1
    BY <1>1 DEF OpenInv
  <2>2. batch' \in 1..(Len(batches') + 1)
    BY <2>1, <1>1, <1>3
  <2>. QED  BY <1>1, <1>3, <2>2 DEF MicrobatchTypeOK, Places
<1>5. ScatterInv'
  <2>. SUFFICES ASSUME NEW p \in 1..N, batch' <= Len(batches') => p < batches'[batch'].from
                PROVE  results'[order'[p]] = order'[p]
    BY <1>1, <1>3 DEF ScatterInv
  <2>1. batch' = 1
    BY <1>1 DEF OpenInv
  <2>2. CASE Len(batches') = 0
    <3>1. batches' = <<>>
      BY <2>2, <1>3
    <3>. QED  BY <3>1, <1>1, <1>3 DEF LastPlanned
  <2>3. CASE Len(batches') > 0
    <3>1. batches'[1].from = 1
      BY <2>3, <1>3 DEF TilingInv
    <3>. QED  BY <3>1, <2>1, <2>3, <1>3
  <2>. QED  BY <2>2, <2>3, <1>3
<1>6. FullInv'
  <2>1. CASE next > first
    <3>1. batches' = Append(batches, Open) /\ ~(next <= N) /\ next <= N + 1
      BY <1>1, <2>1 DEF EndOfPlan
    <3>. QED  BY <1>1, <2>1, <3>1, ClosedIsFull
  <2>2. CASE ~(next > first)
    BY <1>1, <2>2 DEF EndOfPlan, FullInv, Size
  <2>. QED  BY <2>1, <2>2
<1>. QED  BY <1>2, <1>3, <1>4, <1>5, <1>6

LEMMA CheckKeeps == MInv /\ Check => MInv'
<1>. SUFFICES ASSUME MInv, Check PROVE MInv'
  OBVIOUS
<1>. USE DEF MInv, PlanInv
<1>1. /\ UNCHANGED <<lengths, plan, batch, cancelled, results>>
      /\ N' = N /\ N \in Nat /\ lengths \in Seq(Nat) /\ at = "checking"
      /\ at' \in {"returned", "stopped", "forward"}
  BY DEF Check, N, MicrobatchTypeOK
<1>2. UNCHANGED <<order, batches, first, next, longest>>
  BY <1>1 DEF plan
<1>3. MicrobatchTypeOK'
  BY <1>1, <1>2 DEF MicrobatchTypeOK, Places
<1>4. order \in [1..N -> 1..N] /\ ByLength(order)
  BY <1>1 DEF OrderInv
<1>5. OrderInv'
  BY <1>1, <1>2, <1>4 DEF OrderInv, ByLength, Before
<1>6. TilingInv' /\ FullInv' /\ CeilingsHold' /\ OpenInv'
  BY <1>1, <1>2 DEF TilingInv, FullInv, CeilingsHold, Size, Width, OpenInv
<1>7. ScatterInv'
  <2>. SUFFICES ASSUME at' = "forward" PROVE ScatterInv'
    BY <1>1 DEF ScatterInv
  <2>1. ~(batch > Len(batches))
    BY DEF Check
  <2>2. batch <= Len(batches)
    BY <2>1 DEF MicrobatchTypeOK
  <2>. QED  BY <2>2, <1>1, <1>2 DEF ScatterInv, LastPlanned
<1>8. InOrderGiven'
  <2>. SUFFICES ASSUME at' = "returned", NEW i \in 1..N PROVE results[i] = i
    BY <1>1 DEF InOrderGiven
  <2>1. ~(batch <= Len(batches))
    BY DEF Check, MicrobatchTypeOK
  <2>2. PICK p \in 1..N : order[p] = i
    BY <1>1, <1>4, SortIsOnto
  <2>3. results[order[p]] = order[p]
    BY <2>1, <1>1 DEF ScatterInv
  <2>. QED  BY <2>2, <2>3
<1>. QED  BY <1>3, <1>5, <1>6, <1>7, <1>8

LEMMA ForwardKeeps == MInv /\ Forward => MInv'
<1>. SUFFICES ASSUME MInv, Forward PROVE MInv'
  OBVIOUS
<1>. USE DEF MInv, PlanInv
<1>. DEFINE members == batches[batch].from .. batches[batch].to
<1>1. /\ UNCHANGED <<lengths, plan, cancelled>>
      /\ N' = N /\ N \in Nat /\ lengths \in Seq(Nat) /\ at = "forward"
      /\ batches \in Seq([from : 1..N, to : 1..N])
  BY DEF Forward, N, MicrobatchTypeOK
<1>2. UNCHANGED <<order, batches, first, next, longest>>
  BY <1>1 DEF plan
<1>3. LastPlanned = N /\ batch \in 1..Len(batches) /\ Len(batches) \in Nat
  <2>1. batch <= Len(batches) /\ LastPlanned = N
    BY <1>1 DEF ScatterInv
  <2>2. batch \in 1..(Len(batches) + 1) /\ Len(batches) \in Nat
    BY <1>1 DEF MicrobatchTypeOK
  <2>. QED  BY <2>1, <2>2
<1>4. batches[batch].from \in 1..N /\ batches[batch].to \in 1..N
  <2>1. batches[batch] \in [from : 1..N, to : 1..N]
    BY <1>1, <1>3, ElementOfSeq
  <2>. QED  BY <2>1
<1>5. order \in [1..N -> 1..N] /\ ByLength(order)
  BY <1>1 DEF OrderInv
<1>6. at' \in {"failed", "checking"}
  BY DEF Forward
<1>7. OrderInv'
  BY <1>1, <1>2, <1>5, <1>6 DEF OrderInv, ByLength, Before
<1>8. TilingInv' /\ FullInv' /\ CeilingsHold' /\ OpenInv' /\ InOrderGiven'
  BY <1>1, <1>2, <1>6 DEF TilingInv, FullInv, CeilingsHold, Size, Width, OpenInv, InOrderGiven
<1>9. CASE at' = "failed"
  <2>1. UNCHANGED <<batch, results>>
    BY <1>9 DEF Forward
  <2>. QED  BY <1>1, <1>2, <1>7, <1>8, <1>9, <2>1 DEF MicrobatchTypeOK, ScatterInv, Places
<1>10. CASE at' = "checking"
  <2>1. /\ batch' = batch + 1
        /\ results' = [i \in 1..N |-> IF \E p \in members : order[p] = i
                                       THEN order[CHOOSE p \in members : order[p] = i]
                                       ELSE results[i]]
    BY <1>10 DEF Forward, Home
  <2>2. \A p \in members : p \in 1..N /\ order[p] \in 1..N
    <3>. SUFFICES ASSUME NEW p \in members PROVE p \in 1..N /\ order[p] \in 1..N
      OBVIOUS
    <3>1. p \in 1..N
      BY <1>1, <1>4
    <3>. QED  BY <3>1, <1>5
  <2>3. \A i \in 1..N : (\E p \in members : order[p] = i) => results'[i] = i
    BY <2>1
  <2>4. \A i \in 1..N : ~(\E p \in members : order[p] = i) => results'[i] = results[i]
    BY <2>1
  <2>5. results \in [1..N -> 0..N]
    BY DEF MicrobatchTypeOK
  <2>6. results' \in [1..N -> 0..N]
    <3>1. ASSUME NEW i \in 1..N PROVE results'[i] \in 0..N
      <4>1. i \in 0..N /\ results[i] \in 0..N
        BY <2>5, <1>1
      <4>. QED  BY <4>1, <2>3, <2>4
    <3>2. results' = [i \in 1..N |-> results'[i]]
      BY <2>1
    <3>. QED  BY <3>1, <3>2
  <2>7. MicrobatchTypeOK'
    <3>1. batch' \in 1..(Len(batches) + 1)
      BY <2>1, <1>3
    <3>. QED  BY <1>1, <1>2, <1>10, <2>6, <3>1 DEF MicrobatchTypeOK, Places
  <2>8. ScatterInv'
    <3>. SUFFICES ASSUME NEW p \in 1..N,
                         batch + 1 <= Len(batches) => p < batches[batch + 1].from
                  PROVE  results'[order[p]] = order[p]
      <4>1. LastPlanned' = N' /\ at' # "forward" /\ batch' = batch + 1 /\ N' = N
        BY <1>1, <1>2, <1>3, <1>10, <2>1 DEF LastPlanned
      <4>2. order' = order /\ batches' = batches
        BY <1>2
      <4>. QED  BY <4>1, <4>2 DEF ScatterInv
    <3>1. order[p] \in 1..N
      BY <1>5
    <3>2. CASE p \in members
      BY <3>1, <3>2, <2>3
    <3>3. CASE p < batches[batch].from
      <4>1. results[order[p]] = order[p]
        BY <1>1, <3>3 DEF ScatterInv
      <4>. QED  BY <4>1, <3>1, <2>3, <2>4
    <3>4. CASE p > batches[batch].to
      <4>1. CASE batch < Len(batches)
        <5>1. batches[batch + 1].from = batches[batch].to + 1
          BY <4>1, <1>3 DEF TilingInv
        <5>. QED  BY <5>1, <4>1, <3>4, <1>3, <1>4
      <4>2. CASE batch = Len(batches)
        <5>1. batches # <<>>
          BY <4>2, <1>3
        <5>2. batches[batch].to = N
          BY <5>1, <4>2, <1>3 DEF LastPlanned
        <5>. QED  BY <5>2, <3>4, <1>1
      <4>. QED  BY <4>1, <4>2, <1>3
    <3>. QED  BY <3>2, <3>3, <3>4, <1>4
  <2>. QED  BY <1>7, <1>8, <2>7, <2>8
<1>. QED  BY <1>6, <1>9, <1>10

LEMMA CancelKeeps == MInv /\ (Cancel \/ UNCHANGED vars) => MInv'
<1>. SUFFICES ASSUME MInv, Cancel \/ UNCHANGED vars PROVE MInv'
  OBVIOUS
<1>. USE DEF MInv, PlanInv
<1>1. UNCHANGED <<lengths, order, batches, first, next, longest, batch, at, results>>
  BY DEF Cancel, vars, plan
<1>2. N' = N /\ cancelled' \in BOOLEAN
  BY <1>1 DEF N, Cancel, vars, MicrobatchTypeOK
<1>3. MicrobatchTypeOK'
  BY <1>1, <1>2 DEF MicrobatchTypeOK
<1>4. OrderInv' /\ TilingInv' /\ FullInv' /\ CeilingsHold'
  BY <1>1, <1>2 DEF OrderInv, TilingInv, FullInv, CeilingsHold, Size, Width, ByLength, Before
<1>5. OpenInv' /\ ScatterInv' /\ InOrderGiven'
  BY <1>1, <1>2 DEF OpenInv, ScatterInv, InOrderGiven, LastPlanned
<1>. QED  BY <1>3, <1>4, <1>5

LEMMA MInvHolds == Spec => []MInv
<1>1. MInv /\ [Next]_vars => MInv'
  BY EnterKeeps, PlaceKeeps, EndOfPlanKeeps, CheckKeeps, ForwardKeeps, CancelKeeps
     DEF Next, Score
<1>. QED  BY InitMInv, <1>1, PTL DEF Spec

-----------------------------------------------------------------------------
(* The plan is the best                                                      *)

LEMMA PlanTypes ==
  ASSUME MInv
  PROVE  /\ lengths \in Seq(Nat) /\ N \in Nat
         /\ batches \in Seq([from : 1..N, to : 1..N]) /\ Len(batches) \in Nat
<1>1. lengths \in Seq(Nat) /\ batches \in Seq([from : 1..N, to : 1..N])
  BY DEF MInv, MicrobatchTypeOK
<1>2. Len(batches) \in Nat
  BY <1>1, LenProperties
<1>3. N \in Nat
  BY <1>1, LenProperties DEF N
<1>. QED  BY <1>1, <1>2, <1>3

\* The positions of the order that a deal gives to the batches K.
Dealt(deal, K) == {p \in 1..N : deal[order[p]] \in K}

\* How many sequences the first b batches of the plan take.
Reach(b) == IF b = 0 THEN 0 ELSE batches[b].to

LEMMA ReachGrows ==
  ASSUME MInv, NEW b \in 1..Len(batches)
  PROVE  /\ Reach(b) \in 1..N /\ Reach(b - 1) \in Nat
         /\ Size(b) = Reach(b) - Reach(b - 1) /\ Size(b) \in Nat \ {0}
         /\ b < Len(batches) => Reach(b) < N
<1>1. N \in Nat /\ batches \in Seq([from : 1..N, to : 1..N]) /\ Len(batches) \in Nat
  BY PlanTypes
<1>2. \A c \in 1..Len(batches) : batches[c].from \in 1..N /\ batches[c].to \in 1..N
  <2>. TAKE c \in 1..Len(batches)
  <2>1. batches[c] \in [from : 1..N, to : 1..N]
    BY <1>1, ElementOfSeq
  <2>. QED  BY <2>1
<1>3. TilingInv
  BY DEF MInv, PlanInv
<1>4. Reach(b) = batches[b].to /\ Reach(b) \in 1..N
  BY <1>2 DEF Reach
<1>5. batches[b].from = Reach(b - 1) + 1 /\ Reach(b - 1) \in Nat
  <2>1. CASE b = 1
    BY <1>3, <2>1 DEF TilingInv, Reach
  <2>2. CASE b > 1
    <3>1. b - 1 \in 1..Len(batches) /\ b - 1 < Len(batches) /\ b - 1 + 1 = b /\ b - 1 # 0
      BY <1>1, <2>2
    <3>2. batches[b].from = batches[b - 1].to + 1
      BY <1>3, <3>1 DEF TilingInv
    <3>. QED  BY <1>2, <3>1, <3>2 DEF Reach
  <2>. QED  BY <2>1, <2>2
<1>6. batches[b].from <= batches[b].to
  BY <1>3 DEF TilingInv
<1>7. ASSUME b < Len(batches) PROVE Reach(b) < N
  <2>1. b + 1 \in 1..Len(batches)
    BY <1>1, <1>7
  <2>2. batches[b + 1].from = batches[b].to + 1 /\ batches[b + 1].from \in 1..N
    BY <1>2, <1>3, <1>7, <2>1 DEF TilingInv
  <2>. QED  BY <1>1, <1>4, <2>2
<1>8. Size(b) = Reach(b) - Reach(b - 1)
  <2>1. Size(b) = batches[b].to - batches[b].from + 1
    BY DEF Size
  <2>2. Size(b) = Reach(b) - (Reach(b - 1) + 1) + 1
    BY <1>4, <1>5, <2>1
  <2>. DEFINE here == Reach(b)  before == Reach(b - 1)
  <2>3. here \in Nat /\ before \in Nat /\ Size(b) = here - (before + 1) + 1
    BY <1>1, <1>4, <1>5, <2>2
  <2>4. Size(b) = here - before
    <3>. HIDE DEF here, before
    <3>. QED  BY <2>3
  <2>. QED  BY <2>4
<1>9. Reach(b - 1) < Reach(b)
  <2>1. Reach(b - 1) + 1 <= Reach(b)
    BY <1>4, <1>5, <1>6
  <2>. QED  BY <1>1, <1>4, <1>5, <2>1
<1>10. Size(b) \in Nat \ {0}
  BY <1>1, <1>4, <1>5, <1>8, <1>9
<1>. QED  BY <1>4, <1>5, <1>7, <1>8, <1>10

\* Positions and sequences are as many: a deal gives a batch what the ceilings count.
LEMMA SameCount ==
  ASSUME MInv, order \in [1..N -> 1..N], ByLength(order), NEW deal, NEW j
  PROVE  /\ IsFiniteSet(Dealt(deal, {j}))
         /\ Cardinality(Dealt(deal, {j})) = Cardinality({i \in 1..N : deal[i] = j})
<1>. DEFINE members == {i \in 1..N : deal[i] = j}  places == Dealt(deal, {j})
            f == [p \in places |-> order[p]]
<1>1. lengths \in Seq(Nat) /\ N \in Nat
  BY DEF MInv, MicrobatchTypeOK, N
<1>2. IsFiniteSet(places)
  <2>1. places \subseteq 1..N
    BY DEF Dealt
  <2>2. IsFiniteSet(1..N)
    BY <1>1, FS_Interval
  <2>. HIDE DEF places
  <2>. QED  BY <2>1, <2>2, FS_Subset
<1>3. f \in Injection(places, members)
  <2>1. ASSUME NEW p \in places PROVE f[p] \in members
    BY DEF Dealt
  <2>2. ASSUME NEW p \in places, NEW q \in places, p # q PROVE f[p] # f[q]
    <3>1. p \in 1..N /\ q \in 1..N /\ (p < q \/ q < p)
      BY <1>1, <2>2 DEF Dealt
    <3>2. Before(order[p], order[q]) \/ Before(order[q], order[p])
      BY <3>1 DEF ByLength
    <3>3. order[p] \in 1..N /\ lengths[order[p]] \in Nat
      BY <1>1, <3>1, ElementOfSeq DEF N
    <3>. QED  BY <3>2, <3>3 DEF Before
  <2>. HIDE DEF places, members
  <2>. QED  BY <2>1, <2>2 DEF Injection, IsInjective
<1>4. f \in Surjection(places, members)
  <2>1. ASSUME NEW i \in members PROVE \E p \in places : f[p] = i
    <3>1. PICK p \in 1..N : order[p] = i
      BY <1>1, SortIsOnto
    <3>2. p \in places
      BY <3>1 DEF Dealt
    <3>. QED  BY <3>1, <3>2
  <2>2. f \in [places -> members]
    BY <1>3 DEF Injection
  <2>. HIDE DEF places, members, f
  <2>. QED  BY <2>1, <2>2 DEF Surjection
<1>. HIDE DEF places, members, f
<1>5. Cardinality(members) = Cardinality(places)
  BY <1>2, <1>3, <1>4, FS_Surjection
<1>. QED  BY <1>2, <1>5 DEF places, members

\* No b batches of any deal that keeps to the ceilings take more sequences than the first b
\* of the plan: the one with the longest sequence of all would have to take more than the
\* b-th batch of the plan had room for.
LEMMA NoDealReachesFurther ==
  ASSUME MInv, order \in [1..N -> 1..N], ByLength(order),
         NEW k \in Nat, k < Len(batches), NEW deal \in [1..N -> 1..k], Feasible(deal, k)
  PROVE  \A K \in SUBSET (1..k) : Cardinality(Dealt(deal, K)) <= Reach(Cardinality(K))
<1>. DEFINE Worse(b) == \E K \in SUBSET (1..k) :
              Cardinality(K) = b /\ ~(Cardinality(Dealt(deal, K)) <= Reach(b))
            Bad == {b \in Nat : Worse(b)}
<1>1. /\ N \in Nat /\ lengths \in Seq(Nat) /\ Len(batches) \in Nat /\ IsFiniteSet(1..N)
      /\ IsFiniteSet(1..k) /\ Cardinality(1..k) = k
  <2>1. N \in Nat /\ lengths \in Seq(Nat) /\ Len(batches) \in Nat
    BY PlanTypes
  <2>. QED  BY <2>1, FS_Interval
<1>2. ASSUME NEW K \in SUBSET (1..k)
      PROVE  /\ IsFiniteSet(K) /\ Cardinality(K) \in 0..k
             /\ IsFiniteSet(Dealt(deal, K)) /\ Cardinality(Dealt(deal, K)) \in Nat
  <2>1. Dealt(deal, K) \in SUBSET (1..N)
    BY DEF Dealt
  <2>2. IsFiniteSet(Dealt(deal, K))
    BY <1>1, <2>1, FS_Subset
  <2>3. IsFiniteSet(K) /\ Cardinality(K) <= k
    <3>1. IsFiniteSet(K) /\ Cardinality(K) <= Cardinality(1..k)
      BY <1>1, FS_Subset
    <3>. QED  BY <1>1, <3>1
  <2>4. Cardinality(K) \in Nat /\ Cardinality(Dealt(deal, K)) \in Nat
    BY <2>2, <2>3, FS_CardinalityType
  <2>. QED  BY <2>2, <2>3, <2>4
<1>3. SUFFICES Bad = {}
  BY <1>2
<1>4. SUFFICES ASSUME Bad # {} PROVE FALSE
  OBVIOUS
<1>5. PICK b \in Bad : \A c \in Bad : b <= c
  <2>1. Bad \subseteq Nat
    OBVIOUS
  <2>. HIDE DEF Bad
  <2>. QED  BY <1>4, <2>1, SomeLeast
<1>6. PICK K \in SUBSET (1..k) :
        Cardinality(K) = b /\ ~(Cardinality(Dealt(deal, K)) <= Reach(b))
  BY <1>5
<1>. DEFINE Z == Dealt(deal, K)
<1>7. CASE b = 0
  <2>1. K = {}
    BY <1>2, <1>6, <1>7, FS_EmptySet
  <2>2. Dealt(deal, K) = {}
    BY <2>1 DEF Dealt
  <2>. QED  BY <1>6, <1>7, <2>2, FS_EmptySet DEF Reach
<1>8. CASE b # 0
  <2>1. b \in 1..Len(batches) /\ b < Len(batches) /\ b - 1 \in Nat
    BY <1>1, <1>2, <1>6, <1>8
  <2>2. /\ Reach(b) \in 1..N /\ Reach(b - 1) \in Nat /\ Reach(b) < N
        /\ Size(b) = Reach(b) - Reach(b - 1) /\ Size(b) \in Nat \ {0}
    BY <2>1, ReachGrows
  <2>3. Cardinality(Z) \in Nat /\ Cardinality(Z) > Reach(b) /\ IsFiniteSet(Z) /\ Z \subseteq 1..N
    <3>1. Z \subseteq 1..N
      BY DEF Dealt
    <3>. QED  BY <1>2, <1>6, <2>2, <3>1
  <2>4. PICK p \in Z : \A other \in Z : other <= p
    <3>1. Z # {}
      <4>. HIDE DEF Z
      <4>. QED  BY <2>2, <2>3, FS_EmptySet
    <3>. HIDE DEF Z
    <3>. QED  BY <1>1, <2>3, <3>1, SomeLast
  <2>. DEFINE j == deal[order[p]]  J == Dealt(deal, {j})  Rest == Dealt(deal, K \ {j})
  <2>5. p \in 1..N /\ j \in K /\ j \in 1..k /\ order[p] \in 1..N
    BY <2>4 DEF Dealt
  <2>6. Cardinality(Rest) <= Reach(b - 1)
    <3>1. Cardinality(K \ {j}) = b - 1 /\ K \ {j} \in SUBSET (1..k)
      BY <1>2, <1>6, <2>5, FS_RemoveElement
    <3>2. b - 1 \notin Bad
      BY <1>5, <2>1
    <3>. QED  BY <2>1, <3>1, <3>2
  <2>7. Cardinality(Z) = Cardinality(Rest) + Cardinality(J)
    <3>1. Z = Rest \cup J /\ Rest \cap J = {}
      BY <2>5 DEF Dealt
    <3>2. IsFiniteSet(Rest) /\ IsFiniteSet(J) /\ Cardinality(Rest) \in Nat /\ Cardinality(J) \in Nat
      BY <1>2, <2>5
    <3>. HIDE DEF Z, Rest, J
    <3>3. Cardinality(Z) = Cardinality(Rest) + Cardinality(J) - Cardinality({})
      BY <3>1, <3>2, FS_Union
    <3>. QED  BY <3>2, <3>3, FS_EmptySet
  <2>8. p >= Cardinality(Z)
    <3>1. Z \in SUBSET (1..p)
      BY <2>3, <2>4, <2>5
    <3>2. IsFiniteSet(1..p) /\ Cardinality(1..p) = p
      BY <2>5, FS_Interval
    <3>. HIDE DEF Z
    <3>. QED  BY <3>1, <3>2, FS_Subset
  <2>. DEFINE c == Cardinality(J)  s == Size(b)  w == lengths[order[Reach(b) + 1]]
              v == lengths[order[p]]
  <2>9. c \in Nat /\ Cardinality(Rest) \in Nat
    BY <1>2, <2>5
  <2>10. c >= s + 1 /\ p >= Reach(b) + 1
    <3>. DEFINE z == Cardinality(Z)  r == Cardinality(Rest)  here == Reach(b)
                before == Reach(b - 1)
    <3>1. z = r + c /\ s = here - before /\ r <= before /\ z > here /\ p >= z
      BY <2>2, <2>3, <2>6, <2>7, <2>8
    <3>2. z \in Nat /\ r \in Nat /\ c \in Nat /\ here \in Nat /\ before \in Nat /\ p \in Nat
      <4>1. here \in Nat /\ before \in Nat /\ p \in Nat
        BY <1>1, <2>2, <2>5
      <4>. QED  BY <4>1, <2>3, <2>9
    <3>3. p >= here + 1 /\ c >= s + 1
      <4>. HIDE DEF z, r, c, s, here, before
      <4>. QED  BY <3>1, <3>2
    <3>. QED  BY <3>3
  <2>11. w <= v /\ w \in Nat /\ v \in Nat
    <3>1. Reach(b) + 1 \in 1..N /\ Reach(b) + 1 <= p
      <4>. DEFINE here == Reach(b)
      <4>1. here \in Nat /\ here < N /\ here + 1 <= p
        BY <1>1, <2>2, <2>10
      <4>2. here + 1 \in 1..N
        <5>. HIDE DEF here
        <5>. QED  BY <1>1, <4>1
      <4>. QED  BY <4>1, <4>2
    <3>2. order[Reach(b) + 1] \in 1..N
      BY <3>1
    <3>. QED  BY <1>1, <2>5, <3>1, <3>2, SortedLengths, ElementOfSeq DEF N
  <2>12. c <= MaxBatchSequences /\ (c > 1 => v * c <= MaxBatchTokens)
    <3>1. c = Cardinality({i \in 1..N : deal[i] = j})
      BY SameCount
    <3>2. order[p] \in {i \in 1..N : deal[i] = j}
      BY <2>5
    <3>. HIDE DEF c, J
    <3>. QED  BY <2>5, <3>1, <3>2 DEF Feasible
  <2>13. s + 1 > MaxBatchSequences \/ w * (s + 1) > MaxBatchTokens
    <3>1. Reach(b) = batches[b].to
      BY <1>8 DEF Reach
    <3>. QED  BY <2>1, <2>2, <3>1 DEF MInv, PlanInv, FullInv
  <2>14. w * (s + 1) <= v * c
    <3>. HIDE DEF w, s, v, c
    <3>1. s \in Nat
      BY <2>2 DEF s
    <3>2. \E d \in Nat : c = s + 1 + d
      <4>1. c - (s + 1) \in Nat /\ c = s + 1 + (c - (s + 1))
        BY <2>9, <2>10, <3>1
      <4>. QED  BY <4>1
    <3>3. PICK d \in Nat : c = s + 1 + d
      BY <3>2
    <3>4. \E e \in Nat : v = w + e
      <4>1. v - w \in Nat /\ v = w + (v - w)
        BY <2>11
      <4>. QED  BY <4>1
    <3>5. PICK e \in Nat : v = w + e
      BY <3>4
    <3>6. v * c = w * (s + 1) + w * d + e * (s + 1 + d)
      BY <2>11, <3>1, <3>3, <3>5
    <3>7. w * (s + 1) \in Nat /\ w * d \in Nat /\ e * (s + 1 + d) \in Nat
      BY <2>11, <3>1
    <3>. QED  BY <3>6, <3>7
  <2>. HIDE DEF w, s, v, c
  <2>15. s \in Nat \ {0} /\ w * (s + 1) \in Nat /\ v * c \in Nat
    BY <2>2, <2>9, <2>11 DEF s
  <2>. QED  BY <2>9, <2>10, <2>12, <2>13, <2>14, <2>15, CeilingsAssumption
<1>. QED  BY <1>7, <1>8

LEMMA PlanIsBest == MInv => FewestBatches
<1>. SUFFICES ASSUME MInv, at = "checking", batch = 1,
                     NEW k \in 1..(Len(batches) - 1),
                     NEW deal \in [1..N -> 1..k], Feasible(deal, k)
              PROVE  FALSE
  BY DEF FewestBatches
<1>1. N \in Nat /\ Len(batches) \in Nat
  BY PlanTypes
<1>2. order \in [1..N -> 1..N] /\ ByLength(order)
  <2>1. OrderInv
    BY DEF MInv, PlanInv
  <2>. QED  BY <2>1 DEF OrderInv
<1>3. k \in Nat /\ k < Len(batches) /\ k \in 1..Len(batches) /\ k # 0
  BY <1>1
<1>4. Cardinality(Dealt(deal, 1..k)) <= Reach(Cardinality(1..k))
  BY <1>2, <1>3, NoDealReachesFurther
<1>5. Dealt(deal, 1..k) = 1..N
  BY <1>2 DEF Dealt
<1>6. Cardinality(1..k) = k /\ Cardinality(1..N) = N
  BY <1>1, <1>3, FS_Interval
<1>7. Reach(k) < N /\ Reach(k) \in 1..N
  BY <1>3, ReachGrows
<1>. QED  BY <1>1, <1>4, <1>5, <1>6, <1>7

-----------------------------------------------------------------------------
(* The theorems                                                              *)

\* plan_microbatches() and the loop of score() keep every variable in its domain: every
\* batch is a stretch of the order, and the index never leaves the plan.
THEOREM MicrobatchTypes == Spec => []MicrobatchTypeOK
<1>. QED  BY MInvHolds, PTL DEF MInv

\* The plan covers every sequence once, in the sorted order, whatever the request, and
\* score() fills in the values batch by batch.
THEOREM PlanCovers == Spec => []PlanInv
<1>. QED  BY MInvHolds, PTL DEF MInv

\* plan_microbatches() never plans a forward pass above the ceilings, except for a single
\* sequence that is longer than the token ceiling.
THEOREM PlanKeepsToCeilings == Spec => []CeilingsHold
<1>. QED  BY MInvHolds, PTL DEF MInv

\* plan_microbatches() makes as few batches as can be made: no way to deal the sequences to
\* fewer batches, sorted or not, keeps to both ceilings.
THEOREM PlanIsTheBest == Spec => []FewestBatches
<1>. QED  BY MInvHolds, PlanIsBest, PTL

\* score() returns the values of all sequences in the order of the request.
THEOREM ScoresInOrder == Spec => []InOrderGiven
<1>. QED  BY MInvHolds, PTL DEF MInv

\* score() starts no forward pass once the cancel token is set.
THEOREM CancelStopsScoring == Spec => NoForwardAfterCancel
<1>1. [Next]_vars => [cancelled /\ at # "forward" => at' # "forward"]_vars
  <2>. SUFFICES ASSUME [Next]_vars, cancelled, at # "forward", vars' # vars
                PROVE  at' # "forward"
    OBVIOUS
  <2>1. CASE Enter
    BY <2>1 DEF Enter
  <2>2. CASE Place \/ Cancel
    BY <2>2 DEF Place, Cancel
  <2>3. CASE EndOfPlan
    BY <2>3 DEF EndOfPlan
  <2>4. CASE Check
    BY <2>4 DEF Check, Stop
  <2>5. CASE Forward
    BY <2>5 DEF Forward
  <2>. QED  BY <2>1, <2>2, <2>3, <2>4, <2>5 DEF Next, Score
<1>. QED  BY <1>1, PTL DEF Spec, NoForwardAfterCancel
=============================================================================
