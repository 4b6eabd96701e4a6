-------------------------- MODULE SerializerProofs --------------------------
(***************************************************************************)
(* Theorems about Serializer for every set of requests, every tokenizer,   *)
(* model and budget: what is joined and cut in four loops comes back to    *)
(* the question it belongs to. And one about the last check of Tokens.     *)
(***************************************************************************)
EXTENDS Serializer, FoldLemmas

-----------------------------------------------------------------------------
(* Sequences of anything                                                     *)

Items(s) == {s[i] : i \in 1..Len(s)}

LEMMA SequenceOfElements ==
  ASSUME NEW s, IsSequence(s), NEW S, Items(s) \subseteq S
  PROVE  s \in Seq(S)
<1>. DEFINE n == Len(s)
<1>1. n \in Nat /\ s = [i \in 1..n |-> s[i]]
  BY DEF IsSequence
<1>2. \A i \in 1..n : s[i] \in S
  BY DEF Items
<1>. HIDE DEF n
<1>3. [i \in 1..n |-> s[i]] \in Seq(S)
  BY <1>1, <1>2, IsASeq
<1>. QED  BY <1>1, <1>3

LEMMA SequenceHasForm ==
  ASSUME NEW S, NEW s \in Seq(S)
  PROVE  IsSequence(s)
BY LenProperties DEF IsSequence

LEMMA NumberedIsSequence ==
  ASSUME NEW n \in Nat, NEW s, DOMAIN s = 1..n, s = [i \in 1..n |-> s[i]]
  PROVE  IsSequence(s) /\ Len(s) = n
<1>. DEFINE S == {s[i] : i \in 1..n}
<1>1. \A i \in 1..n : s[i] \in S
  OBVIOUS
<1>. HIDE DEF S
<1>2. [i \in 1..n |-> s[i]] \in Seq(S)
  BY <1>1, IsASeq
<1>3. s \in Seq(S)
  BY <1>2
<1>. QED  BY <1>3, SequenceHasForm, LenProperties

LEMMA Concatenation ==
  ASSUME NEW s, IsSequence(s), NEW t, IsSequence(t)
  PROVE  /\ IsSequence(s \o t)
         /\ Len(s \o t) = Len(s) + Len(t)
         /\ \A i \in 1..Len(s) : (s \o t)[i] = s[i]
         /\ \A i \in 1..Len(t) : (s \o t)[Len(s) + i] = t[i]
<1>. DEFINE S == Items(s) \cup Items(t)
<1>1. s \in Seq(S) /\ t \in Seq(S)
  BY SequenceOfElements
<1>2. Len(s) \in Nat /\ Len(t) \in Nat
  BY DEF IsSequence
<1>. HIDE DEF S
<1>3. /\ s \o t \in Seq(S)
      /\ Len(s \o t) = Len(s) + Len(t)
      /\ \A i \in 1..Len(s) + Len(t) :
           (s \o t)[i] = IF i <= Len(s) THEN s[i] ELSE t[i - Len(s)]
  BY <1>1, ConcatProperties
<1>4. IsSequence(s \o t)
  BY <1>3, SequenceHasForm
<1>5. ASSUME NEW i \in 1..Len(t) PROVE (s \o t)[Len(s) + i] = t[i]
  <2>1. Len(s) + i \in 1..Len(s) + Len(t) /\ ~(Len(s) + i <= Len(s)) /\ Len(s) + i - Len(s) = i
    BY <1>2
  <2>. QED  BY <1>3, <2>1
<1>6. ASSUME NEW i \in 1..Len(s) PROVE (s \o t)[i] = s[i]
  <2>1. i \in 1..Len(s) + Len(t) /\ i <= Len(s)
    BY <1>2
  <2>. QED  BY <1>3, <2>1
<1>. QED  BY <1>3, <1>4, <1>5, <1>6

LEMMA Appending ==
  ASSUME NEW s, IsSequence(s), NEW x
  PROVE  /\ IsSequence(Append(s, x))
         /\ Len(Append(s, x)) = Len(s) + 1
         /\ \A i \in 1..Len(s) : Append(s, x)[i] = s[i]
         /\ Append(s, x)[Len(s) + 1] = x
<1>. DEFINE S == Items(s) \cup {x}
<1>1. s \in Seq(S) /\ x \in S
  BY SequenceOfElements
<1>. HIDE DEF S
<1>2. /\ Append(s, x) \in Seq(S)
      /\ Len(Append(s, x)) = Len(s) + 1
      /\ \A i \in 1..Len(s) : Append(s, x)[i] = s[i]
      /\ Append(s, x)[Len(s) + 1] = x
  BY <1>1, AppendProperties
<1>3. IsSequence(Append(s, x))
  BY <1>2, SequenceHasForm
<1>. QED  BY <1>2, <1>3

LEMMA Slicing ==
  ASSUME NEW s, IsSequence(s), NEW from \in Nat, NEW n \in Nat, from + n <= Len(s)
  PROVE  /\ IsSequence(Slice(s, from, from + n))
         /\ Len(Slice(s, from, from + n)) = n
         /\ \A k \in 1..n : Slice(s, from, from + n)[k] = s[from + k]
<1>. DEFINE S == Items(s)
<1>1. Len(s) \in Nat
  BY DEF IsSequence
<1>2. \A i \in (from + 1)..(from + n) : s[i] \in S
  BY <1>1 DEF Items
<1>3. Slice(s, from, from + n) = SubSeq(s, from + 1, from + n)
  BY <1>1 DEF Slice
<1>. HIDE DEF S
<1>4. /\ SubSeq(s, from + 1, from + n) \in Seq(S)
      /\ Len(SubSeq(s, from + 1, from + n))
           = IF from + 1 <= from + n THEN (from + n) - (from + 1) + 1 ELSE 0
      /\ \A k \in 1..(from + n) - (from + 1) + 1 :
           SubSeq(s, from + 1, from + n)[k] = s[from + 1 + k - 1]
  <2>. DEFINE lo == from + 1  hi == from + n
  <2>1. lo \in Int /\ hi \in Int
    OBVIOUS
  <2>2. \A i \in lo..hi : s[i] \in S
    BY <1>2
  <2>. HIDE DEF lo, hi
  <2>3. /\ SubSeq(s, lo, hi) \in Seq(S)
        /\ Len(SubSeq(s, lo, hi)) = IF lo <= hi THEN hi - lo + 1 ELSE 0
        /\ \A k \in 1..hi - lo + 1 : SubSeq(s, lo, hi)[k] = s[lo + k - 1]
    BY <2>1, <2>2, SubSeqProperties
  <2>. QED  BY <2>3 DEF lo, hi
<1>5. IsSequence(SubSeq(s, from + 1, from + n))
  BY <1>4, SequenceHasForm
<1>6. /\ (from + n) - (from + 1) + 1 = n
      /\ \A k \in 1..n : from + 1 + k - 1 = from + k
      /\ (IF from + 1 <= from + n THEN (from + n) - (from + 1) + 1 ELSE 0) = n
  OBVIOUS
<1>7. \A k \in 1..n : SubSeq(s, from + 1, from + n)[k] = s[from + k]
  BY <1>4, <1>6
<1>. QED  BY <1>3, <1>4, <1>5, <1>6, <1>7

LEMMA Subsequence ==
  ASSUME NEW s, IsSequence(s), NEW from \in Nat, NEW n \in Nat, from + n <= Len(s)
  PROVE  /\ IsSequence(SubSeq(s, from + 1, from + n))
         /\ Len(SubSeq(s, from + 1, from + n)) = n
         /\ \A k \in 1..n : SubSeq(s, from + 1, from + n)[k] = s[from + k]
<1>1. Len(s) \in Nat
  BY DEF IsSequence
<1>2. Slice(s, from, from + n) = SubSeq(s, from + 1, from + n)
  BY <1>1 DEF Slice
<1>3. /\ IsSequence(Slice(s, from, from + n)) /\ Len(Slice(s, from, from + n)) = n
      /\ \A k \in 1..n : Slice(s, from, from + n)[k] = s[from + k]
  BY ONLY Slicing, IsSequence(s), from \in Nat, n \in Nat, from + n <= Len(s)
<1>. QED  BY <1>2, <1>3

LEMMA SameItems ==
  ASSUME NEW s, IsSequence(s), NEW t, IsSequence(t), Len(s) = Len(t),
         \A i \in 1..Len(s) : s[i] = t[i]
  PROVE  s = t
<1>1. s = [i \in 1..Len(s) |-> s[i]] /\ t = [i \in 1..Len(s) |-> t[i]]
  BY DEF IsSequence
<1>2. [i \in 1..Len(s) |-> s[i]] = [i \in 1..Len(s) |-> t[i]]
  OBVIOUS
<1>. QED  BY ONLY <1>1, <1>2

LEMMA EmptyIsSequence == IsSequence(<<>>) /\ Len(<<>>) = 0
BY EmptySeq, SequenceHasForm, LenProperties

LEMMA SequenceOf ==
  ASSUME NEW s, IsSequence(s), NEW S, \A i \in 1..Len(s) : s[i] \in S
  PROVE  s \in Seq(S)
<1>1. Items(s) \subseteq S
  BY DEF Items
<1>. QED  BY <1>1, SequenceOfElements

LEMMA DomainOfSequence ==
  ASSUME NEW s, IsSequence(s)
  PROVE  DOMAIN s = 1..Len(s) /\ Len(s) \in Nat
BY DEF IsSequence

LEMMA JoinedIsSequence ==
  ASSUME NEW seqs, IsSequence(seqs), \A i \in 1..Len(seqs) : IsSequence(seqs[i])
  PROVE  IsSequence(FlattenSeq(seqs))
<1>. DEFINE S == UNION {Items(seqs[i]) : i \in 1..Len(seqs)}
<1>1. ASSUME NEW i \in 1..Len(seqs) PROVE seqs[i] \in Seq(S)
  <2>1. IsSequence(seqs[i]) /\ Items(seqs[i]) \subseteq S
    OBVIOUS
  <2>. HIDE DEF S
  <2>. QED  BY <2>1, SequenceOfElements
<1>. HIDE DEF S
<1>2. seqs \in Seq(Seq(S))
  BY <1>1, SequenceOf
<1>. QED  BY <1>2, FlattenType, SequenceHasForm

LEMMA MappedIsSequence ==
  ASSUME NEW n \in Nat, NEW s, s = [i \in 1..n |-> s[i]]
  PROVE  IsSequence(s) /\ Len(s) = n
<1>1. DOMAIN s = 1..n
  OBVIOUS
<1>. QED  BY <1>1, NumberedIsSequence

LEMMA OneIsSequence ==
  ASSUME NEW x
  PROVE  IsSequence(<<x>>) /\ Len(<<x>>) = 1
<1>1. <<x>> \in Seq({x}) /\ Len(<<x>>) = 1
  OBVIOUS
<1>. QED  BY <1>1, SequenceHasForm

LEMMA TwoIsSequence ==
  ASSUME NEW x, NEW y
  PROVE  IsSequence(<<x, y>>) /\ Len(<<x, y>>) = 2
<1>1. <<x, y>> \in Seq({x, y}) /\ Len(<<x, y>>) = 2
  OBVIOUS
<1>. QED  BY <1>1, SequenceHasForm

-----------------------------------------------------------------------------------------------------------------------------------------------------
(* What is compiled                                                          *)

LEMMA KeysAreFinite ==
  ASSUME NEW q, IsSequence(q.criteria)
  PROVE  Cardinality(ToSet(AsWritten(q))) \in Nat
<1>. DEFINE n == Len(q.criteria)  keys == ToSet(AsWritten(q))
            f == [i \in 1..n |-> AsWritten(q)[i]]
<1>1. n \in Nat /\ DOMAIN q.criteria = 1..n
  BY DEF IsSequence
<1>2. DOMAIN AsWritten(q) = 1..n
  BY <1>1 DEF AsWritten
<1>3. keys = {AsWritten(q)[i] : i \in 1..n}
  BY <1>2 DEF ToSet
<1>. HIDE DEF n, keys
<1>4. f \in Surjection(1..n, keys)
  BY <1>3 DEF Surjection
<1>5. IsFiniteSet(1..n)
  BY <1>1, FS_Interval
<1>6. IsFiniteSet(keys)
  BY <1>4, <1>5, FS_Surjection
<1>7. Cardinality(keys) \in Nat
  BY <1>6, FS_CardinalityType
<1>. QED  BY <1>7 DEF keys

LEMMA PairsAreNumbered ==
  ASSUME NEW q, IsSequence(q.criteria), q.type \in {"noul", "choice", "score"}, NEW premise
  PROVE  IsSequence(Expand(q, premise).pairs)
<1>1. \E n \in Nat : DOMAIN Candidates(q) = 1..n
  <2>1. CASE q.type = "noul"
    <3>1. DOMAIN Candidates(q) = 1..2
      BY <2>1 DEF Candidates
    <3>. QED  BY <3>1
  <2>2. CASE q.type = "choice"
    <3>1. DOMAIN OptionKeys(q) = 1..Cardinality(ToSet(AsWritten(q)))
      BY <2>2 DEF OptionKeys, SortedKeys
    <3>2. DOMAIN Candidates(q) = DOMAIN OptionKeys(q)
      BY <2>2 DEF Candidates
    <3>. QED  BY <3>1, <3>2, KeysAreFinite
  <2>3. CASE q.type = "score"
    <3>1. DOMAIN q.criteria = 1..Len(q.criteria) /\ Len(q.criteria) \in Nat
      BY DEF IsSequence
    <3>2. DOMAIN Candidates(q) = DOMAIN q.criteria
      BY <2>3 DEF Candidates
    <3>. QED  BY <3>1, <3>2
  <2>. QED  BY <2>1, <2>2, <2>3
<1>2. PICK n \in Nat : DOMAIN Candidates(q) = 1..n
  BY <1>1
<1>. DEFINE pairs == Expand(q, premise).pairs
<1>3. pairs = [k \in DOMAIN Candidates(q) |->
                [premise |-> premise,
                 hypothesis |-> Hypothesis(Instruction(q), Candidates(q)[k])]]
  BY DEF Expand
<1>. HIDE DEF pairs
<1>4. DOMAIN pairs = 1..n /\ pairs = [k \in 1..n |-> pairs[k]]
  BY <1>2, <1>3
<1>5. IsSequence(pairs)
  BY <1>4, NumberedIsSequence
<1>. QED  BY <1>5 DEF pairs

-----------------------------------------------------------------------------
(* The invariant                                                             *)

N == Len(compiled)
P(q) == Len(compiled[q].pairs)

\* Where the part of question q ends in the flat lists.
End(q) == IF q = 0 THEN 0 ELSE marks[q] + P(q)

Shape ==
  /\ IsSequence(compiled) /\ at \in 1..(N + 1)
  /\ \A q \in 1..N : IsSequence(compiled[q].pairs)

\* The pairs of the first n questions are laid end to end.
Laid(n) ==
  /\ IsSequence(flat) /\ IsSequence(marks) /\ Len(marks) = n /\ Len(flat) = End(n)
  /\ \A q \in 1..n :
       /\ marks[q] \in Nat /\ marks[q] = End(q - 1) /\ End(q) <= Len(flat)
       /\ \A k \in 1..P(q) : flat[marks[q] + k] = compiled[q].pairs[k]

AllEncoded ==
  /\ IsSequence(encoded) /\ Len(encoded) = Len(flat)
  /\ \A i \in 1..Len(flat) : encoded[i] = Encode(flat[i])

TakenUpTo(n) ==
  /\ IsSequence(taken) /\ Len(taken) = n
  /\ \A q \in 1..n :
       /\ IsSequence(taken[q]) /\ Len(taken[q]) = P(q)
       /\ \A k \in 1..P(q) : /\ taken[q][k] = encoded[marks[q] + k]
                              /\ ~(Len(taken[q][k]) > budget.sequence)

SentUpTo(n) ==
  /\ IsSequence(sent) /\ Len(sent) = End(n)
  /\ \A i \in 1..Len(sent) : sent[i] = encoded[i] /\ ~(Len(sent[i]) > budget.sequence)

GroupedUpTo(n) ==
  /\ IsSequence(grouped) /\ Len(grouped) = n
  /\ \A q \in 1..n : grouped[q] = [k \in 1..P(q) |-> logits[marks[q] + k]]

ValuesOfAll ==
  /\ IsSequence(logits) /\ Len(logits) = Len(flat)
  /\ backend \in {"sound", "ties", "not finite"}
  /\ backend = "sound" => \A i \in 1..Len(flat) : logits[i] = Logit(encoded[i])
  /\ backend = "ties" => \A i \in 1..Len(flat) : logits[i] = 0
  /\ backend = "not finite" => \A i \in 1..Len(flat) : i = Len(flat) => logits[i] = NotFinite

\* Every stage of the job rests on what the stage before has left.
AtStart ==
  stage \in {"idle", "compile"} =>
    /\ compiled = <<>> /\ at = 1 /\ flat = <<>> /\ marks = <<>> /\ taken = <<>>
    /\ offset = 0 /\ sent = <<>> /\ grouped = <<>>
    /\ stage = "compile" => Askable(request)
AtFlatten ==
  stage = "flatten" =>
    /\ Shape /\ Laid(at - 1)
    /\ taken = <<>> /\ offset = 0 /\ sent = <<>> /\ grouped = <<>>
AtTake ==
  stage = "take" =>
    /\ Shape /\ Laid(N) /\ AllEncoded /\ TakenUpTo(at - 1) /\ offset = End(at - 1)
    /\ sent = <<>> /\ grouped = <<>>
AtGather ==
  stage = "gather" =>
    /\ Shape /\ Laid(N) /\ AllEncoded /\ TakenUpTo(N) /\ SentUpTo(at - 1) /\ grouped = <<>>
AtSplit ==
  stage = "split" =>
    /\ Shape /\ Laid(N) /\ AllEncoded /\ TakenUpTo(N) /\ SentUpTo(N)
    /\ ValuesOfAll /\ offset = End(at - 1) /\ GroupedUpTo(at - 1)

SInv == AtStart /\ AtFlatten /\ AtTake /\ AtGather /\ AtSplit

LEMMA StartsWell == SerializerInit => SInv
BY DEF SerializerInit, SInv, AtStart, AtFlatten, AtTake, AtGather, AtSplit

LEMMA BeginKeeps ==
  ASSUME SInv, NEW r, Askable(r), NEW b, Begin(r, b)
  PROVE  SInv'
BY DEF Begin, SInv, AtStart, AtFlatten, AtTake, AtGather, AtSplit

LEMMA RefusalKeeps ==
  ASSUME stage' = "over"
  PROVE  SInv'
BY DEF SInv, AtStart, AtFlatten, AtTake, AtGather, AtSplit

LEMMA CompileKeeps ==
  ASSUME SInv, Compile
  PROVE  SInv'
<1>1. CASE stage' = "over"
  BY <1>1, RefusalKeeps
<1>2. CASE stage' # "over"
  <2>. DEFINE premise == Render(request.state)
  <2>1. /\ stage = "compile" /\ stage' = "flatten"
        /\ compiled' = [q \in DOMAIN request.questions |->
                          Expand(request.questions[q], premise)]
        /\ UNCHANGED <<at, flat, marks, taken, offset, sent, grouped>>
    BY <1>2 DEF Compile, TooLong, Refuse
  <2>2. /\ Askable(request) /\ at = 1 /\ flat = <<>> /\ marks = <<>> /\ taken = <<>>
        /\ offset = 0 /\ sent = <<>> /\ grouped = <<>>
    BY <2>1 DEF SInv, AtStart
  <2>. DEFINE n == Len(request.questions)
  <2>3. n \in Nat /\ DOMAIN request.questions = 1..n
    BY <2>2 DEF Askable, IsSequence
  <2>4. \A q \in 1..n : IsSequence(Expand(request.questions[q], premise).pairs)
    <3>. TAKE q \in 1..n
    <3>1. /\ IsSequence(request.questions[q].criteria)
          /\ request.questions[q].type \in {"noul", "choice", "score"}
      BY <2>2, <2>3 DEF Askable, AskableQuestion
    <3>. HIDE DEF premise
    <3>. QED  BY <3>1, PairsAreNumbered
  <2>. HIDE DEF n, premise
  <2>5. DOMAIN compiled' = 1..n /\ compiled' = [q \in 1..n |-> compiled'[q]]
    BY <2>1, <2>3
  <2>6. IsSequence(compiled') /\ Len(compiled') = n
    BY <2>3, <2>5, NumberedIsSequence
  <2>7. \A q \in 1..n : IsSequence(compiled'[q].pairs)
    BY <2>1, <2>3, <2>4
  <2>8. Shape'
    BY <2>1, <2>2, <2>3, <2>6, <2>7 DEF Shape, N
  <2>9. Laid(0)'
    BY <2>1, <2>2, EmptyIsSequence DEF Laid, End
  <2>. QED  BY <2>1, <2>2, <2>8, <2>9 DEF SInv, AtStart, AtFlatten, AtTake, AtGather, AtSplit
<1>. QED  BY <1>1, <1>2

LEMMA ShapeFacts ==
  ASSUME Shape
  PROVE  /\ N \in Nat /\ at \in Nat
         /\ \A q \in 1..N : P(q) \in Nat
BY DEF Shape, IsSequence, N, P

LEMMA EndsWithin ==
  ASSUME Shape, NEW n \in 0..N, Laid(n), NEW q \in 0..n
  PROVE  End(q) \in Nat /\ Len(flat) \in Nat /\ End(q) <= Len(flat)
<1>. n \in Nat /\ q \in Nat /\ Len(flat) \in Nat
  BY ShapeFacts DEF Laid, IsSequence
<1>1. CASE q = 0
  BY <1>1 DEF End
<1>2. CASE q # 0
  <2>1. q \in 1..n /\ q \in 1..N
    BY <1>2, ShapeFacts
  <2>2. marks[q] \in Nat /\ P(q) \in Nat /\ End(q) <= Len(flat)
    BY <2>1, ShapeFacts DEF Laid
  <2>. QED  BY <1>2, <2>2 DEF End
<1>. QED  BY <1>1, <1>2

LEMMA FlattenKeeps ==
  ASSUME SInv, Flatten
  PROVE  SInv'
<1>1. /\ stage = "flatten" /\ stage' = "flatten" /\ at' = at + 1 /\ at <= N
      /\ marks' = Append(marks, Len(flat)) /\ flat' = flat \o compiled[at].pairs
      /\ UNCHANGED <<compiled, taken, offset, sent, grouped>>
  BY DEF Flatten, More, N
<1>2. /\ Shape /\ Laid(at - 1)
      /\ taken = <<>> /\ offset = 0 /\ sent = <<>> /\ grouped = <<>>
  BY <1>1 DEF SInv, AtFlatten
<1>3. PICK a \in 1..N : a = at
  BY <1>1, <1>2, ShapeFacts DEF Shape
<1>. DEFINE pairs == compiled[a].pairs  length == Len(flat)
<1>4. /\ N \in Nat /\ IsSequence(pairs) /\ Len(pairs) = P(a) /\ P(a) \in Nat
      /\ a - 1 \in 0..N /\ \A q \in 1..N : P(q) \in Nat
  BY <1>2, ShapeFacts DEF Shape, P
<1>5. /\ Laid(a - 1) /\ IsSequence(flat) /\ IsSequence(marks) /\ Len(marks) = a - 1
      /\ length = End(a - 1) /\ length \in Nat
  BY <1>2, <1>3 DEF Laid, IsSequence
<1>6. ASSUME NEW q \in 1..(a - 1)
      PROVE  /\ marks[q] \in Nat /\ marks[q] = End(q - 1) /\ End(q) = marks[q] + P(q)
             /\ End(q) <= length /\ P(q) \in Nat
             /\ \A k \in 1..P(q) : flat[marks[q] + k] = compiled[q].pairs[k]
  <2>1. q # 0 /\ q \in 1..N
    BY <1>4
  <2>. QED  BY <2>1, <1>4, <1>5 DEF Laid, End
<1>. HIDE DEF pairs
<1>7. /\ IsSequence(flat') /\ Len(flat') = length + P(a)
      /\ \A i \in 1..length : flat'[i] = flat[i]
      /\ \A k \in 1..P(a) : flat'[length + k] = pairs[k]
  <2>1. flat' = flat \o pairs
    BY <1>1, <1>3 DEF pairs
  <2>2. /\ IsSequence(flat \o pairs)
        /\ Len(flat \o pairs) = Len(flat) + Len(pairs)
        /\ \A i \in 1..Len(flat) : (flat \o pairs)[i] = flat[i]
        /\ \A k \in 1..Len(pairs) : (flat \o pairs)[Len(flat) + k] = pairs[k]
    <3>1. IsSequence(flat) /\ IsSequence(pairs)
      BY <1>4, <1>5
    <3>. QED  BY <3>1, Concatenation
  <2>. QED  BY <2>1, <2>2, <1>4
<1>. HIDE DEF length
<1>8. /\ IsSequence(marks') /\ Len(marks') = a
      /\ \A q \in 1..(a - 1) : marks'[q] = marks[q]
      /\ marks'[a] = length
  <2>1. Len(marks) + 1 = a
    BY <1>4, <1>5
  <2>2. /\ IsSequence(Append(marks, length))
        /\ Len(Append(marks, length)) = Len(marks) + 1
        /\ \A q \in 1..Len(marks) : Append(marks, length)[q] = marks[q]
        /\ Append(marks, length)[Len(marks) + 1] = length
    BY <1>5, Appending
  <2>. QED  BY <1>1, <1>5, <2>1, <2>2 DEF length
<1>9. /\ \A q \in 1..N : P(q)' = P(q)
      /\ N' = N
  BY <1>1 DEF P, N
<1>10. ASSUME NEW q \in 0..(a - 1) PROVE End(q)' = End(q)
  <2>1. q # 0 => q \in 1..(a - 1) /\ q \in 1..N
    BY <1>4
  <2>. QED  BY <2>1, <1>8, <1>9 DEF End
<1>11. End(a)' = length + P(a)
  BY <1>8, <1>9 DEF End
<1>12. ASSUME NEW q \in 1..a
       PROVE  /\ marks'[q] \in Nat /\ marks'[q] = End(q - 1)' /\ End(q)' <= Len(flat')
              /\ \A k \in 1..P(q)' : flat'[marks'[q] + k] = compiled'[q].pairs[k]
  <2>1. CASE q = a
    <3>1. a - 1 \in 0..(a - 1)
      BY <1>4
    <3>2. marks'[a] = End(a - 1)' /\ marks'[a] \in Nat
      BY <3>1, <1>5, <1>8, <1>10
    <3>3. \A k \in 1..P(a)' : flat'[marks'[a] + k] = compiled'[a].pairs[k]
      BY <1>1, <1>7, <1>8, <1>9 DEF pairs
    <3>4. End(a)' <= Len(flat')
      BY <1>4, <1>5, <1>7, <1>11
    <3>. QED  BY <2>1, <3>2, <3>3, <3>4
  <2>2. CASE q # a
    <3>1. q \in 1..(a - 1) /\ q \in 1..N /\ q - 1 \in 0..(a - 1) /\ q \in 0..(a - 1)
      BY <2>2, <1>4
    <3>2. \A k \in 1..P(q) : marks[q] + k \in 1..length
      BY <3>1, <1>5, <1>6
    <3>3. \A k \in 1..P(q) : flat'[marks[q] + k] = compiled[q].pairs[k]
      BY <3>1, <3>2, <1>6, <1>7
    <3>4. End(q)' <= Len(flat')
      <4>1. End(q)' = marks[q] + P(q) /\ marks[q] + P(q) <= length /\ Len(flat') = length + P(a)
        BY <3>1, <1>6, <1>7, <1>10
      <4>. QED  BY <4>1, <3>1, <1>4, <1>5, <1>6
    <3>5. marks'[q] = End(q - 1)' /\ marks'[q] = marks[q] /\ marks[q] \in Nat
      BY <3>1, <1>6, <1>8, <1>10
    <3>. QED  BY <3>1, <3>3, <3>4, <3>5, <1>1, <1>9
  <2>. QED  BY <2>1, <2>2
<1>13. Shape'
  BY <1>1, <1>2, <1>3, <1>4, <1>9 DEF Shape
<1>14. Laid(a)'
  BY <1>7, <1>8, <1>11, <1>12 DEF Laid
<1>15. at' - 1 = a
  BY <1>1, <1>3, <1>4
<1>16. Laid(at - 1)'
  BY <1>14, <1>15 DEF Laid
<1>. QED
  BY <1>1, <1>2, <1>13, <1>16 DEF SInv, AtStart, AtFlatten, AtTake, AtGather, AtSplit

\* From here on the flat list stays as it is.
LEMMA LaidStays ==
  ASSUME UNCHANGED <<compiled, flat, marks>>
  PROVE  /\ N' = N
         /\ \A q : P(q)' = P(q) /\ End(q)' = End(q)
         /\ Laid(N) => Laid(N)'
<1>1. N' = N /\ \A q : P(q)' = P(q)
  BY DEF N, P
<1>2. \A q : End(q)' = End(q)
  BY <1>1 DEF End
<1>3. Laid(N) => Laid(N)'
  BY <1>1, <1>2 DEF Laid
<1>. QED  BY <1>1, <1>2, <1>3

LEMMA EncodingKeeps ==
  ASSUME SInv, Tokenizing
  PROVE  SInv'
<1>1. CASE stage' = "over"
  BY <1>1, RefusalKeeps
<1>2. CASE stage' # "over"
  <2>1. /\ stage = "flatten" /\ stage' = "take" /\ at' = 1 /\ ~(at <= N)
        /\ encoded' = [i \in 1..Len(flat) |-> Encode(flat[i])]
        /\ UNCHANGED <<compiled, flat, marks, taken, offset, sent, grouped>>
    BY <1>2 DEF Tokenizing, TooLong, Inexplicable, Refuse, More, N
  <2>2. /\ Shape /\ Laid(at - 1)
        /\ taken = <<>> /\ offset = 0 /\ sent = <<>> /\ grouped = <<>>
    BY <2>1 DEF SInv, AtFlatten
  <2>3. at - 1 = N /\ N \in Nat /\ Len(flat) \in Nat
    BY <2>1, <2>2, ShapeFacts DEF Shape, Laid, IsSequence
  <2>4. Laid(N)' /\ Shape'
    BY <2>1, <2>2, <2>3, LaidStays DEF Shape
  <2>5. AllEncoded'
    <3>. DEFINE n == Len(flat)
    <3>1. DOMAIN encoded' = 1..n /\ encoded' = [i \in 1..n |-> encoded'[i]]
      BY <2>1
    <3>2. n \in Nat
      BY <2>3
    <3>. HIDE DEF n
    <3>3. IsSequence(encoded') /\ Len(encoded') = n
      BY <3>1, <3>2, NumberedIsSequence
    <3>. QED  BY <3>3, <2>1 DEF AllEncoded, n
  <2>6. at' - 1 = 0
    BY <2>1
  <2>7. TakenUpTo(at - 1)'
    BY <2>1, <2>2, <2>6, EmptyIsSequence DEF TakenUpTo
  <2>8. End(at - 1)' = 0
    BY <2>6 DEF End
  <2>. QED
    BY <2>1, <2>2, <2>4, <2>5, <2>7, <2>8 DEF SInv, AtStart, AtFlatten, AtTake, AtGather, AtSplit
<1>. QED  BY <1>1, <1>2

\* Where the loops over the questions have come to, and where the next part lies.
LEMMA NextPart ==
  ASSUME Shape, Laid(N), at <= N
  PROVE  /\ at \in 1..N /\ at - 1 \in 0..N /\ N \in Nat
         /\ P(at) \in Nat /\ End(at - 1) \in Nat /\ Len(flat) \in Nat
         /\ marks[at] = End(at - 1) /\ End(at) = End(at - 1) + P(at) /\ End(at) <= Len(flat)
         /\ \A k \in 1..P(at) : End(at - 1) + k \in 1..Len(flat)
         /\ \A k \in 1..P(at) : flat[End(at - 1) + k] = compiled[at].pairs[k]
<1>1. at \in 1..N /\ at - 1 \in 0..N /\ N \in Nat /\ P(at) \in Nat /\ at # 0
  BY ShapeFacts DEF Shape
<1>2. End(at - 1) \in Nat /\ Len(flat) \in Nat
  BY <1>1, EndsWithin
<1>3. /\ marks[at] = End(at - 1) /\ End(at) = marks[at] + P(at) /\ End(at) <= Len(flat)
      /\ \A k \in 1..P(at) : flat[marks[at] + k] = compiled[at].pairs[k]
  BY <1>1 DEF Laid, End
<1>4. \A k \in 1..P(at) : End(at - 1) + k \in 1..Len(flat)
  BY <1>1, <1>2, <1>3
<1>. QED  BY <1>1, <1>2, <1>3, <1>4

LEMMA TakeKeeps ==
  ASSUME SInv, Take
  PROVE  SInv'
<1>1. CASE stage' = "over"
  BY <1>1, RefusalKeeps
<1>2. CASE stage' # "over"
  <2>. DEFINE part == Slice(encoded, offset, offset + P(at))
  <2>1. /\ stage = "take" /\ stage' = "take" /\ at' = at + 1 /\ at <= N
        /\ ~TooLongToEncode(part) /\ taken' = Append(taken, part) /\ offset' = offset + P(at)
        /\ UNCHANGED <<budget, compiled, flat, marks, encoded, sent, grouped>>
    BY <1>2 DEF Take, TooLong, Refuse, More, N, P
  <2>2. /\ Shape /\ Laid(N) /\ AllEncoded /\ TakenUpTo(at - 1) /\ offset = End(at - 1)
        /\ sent = <<>> /\ grouped = <<>>
    BY <2>1 DEF SInv, AtTake
  <2>3. PICK a \in 1..N : a = at
    BY <2>1, <2>2, NextPart
  <2>4. /\ a - 1 \in 0..N /\ N \in Nat /\ P(a) \in Nat /\ offset \in Nat
        /\ marks[a] = offset /\ End(a) = offset + P(a) /\ End(a) <= Len(encoded)
    BY <2>1, <2>2, <2>3, NextPart DEF AllEncoded
  <2>5. IsSequence(encoded) /\ IsSequence(taken) /\ Len(taken) = a - 1
    BY <2>2, <2>3 DEF AllEncoded, TakenUpTo
  <2>6. /\ IsSequence(part) /\ Len(part) = P(a)
        /\ \A k \in 1..P(a) : part[k] = encoded[marks[a] + k]
    BY <2>3, <2>4, <2>5, Slicing
  <2>. HIDE DEF part
  <2>7. \A k \in 1..P(a) : ~(Len(part[k]) > budget.sequence)
    BY <2>1, <2>6 DEF TooLongToEncode, IsSequence
  <2>8. /\ IsSequence(taken') /\ Len(taken') = a /\ taken'[a] = part
        /\ \A q \in 1..(a - 1) : taken'[q] = taken[q]
    <3>1. Len(taken) + 1 = a
      BY <2>4, <2>5
    <3>2. /\ IsSequence(Append(taken, part))
          /\ Len(Append(taken, part)) = Len(taken) + 1
          /\ \A q \in 1..Len(taken) : Append(taken, part)[q] = taken[q]
          /\ Append(taken, part)[Len(taken) + 1] = part
      BY <2>5, Appending
    <3>. QED  BY <2>1, <2>5, <3>1, <3>2
  <2>9. /\ N' = N /\ Laid(N)' /\ \A q : P(q)' = P(q) /\ End(q)' = End(q)
    BY <2>1, <2>2, LaidStays
  <2>10. ASSUME NEW q \in 1..a
         PROVE  /\ IsSequence(taken'[q]) /\ Len(taken'[q]) = P(q)
                /\ \A k \in 1..P(q) : /\ taken'[q][k] = encoded[marks[q] + k]
                                       /\ ~(Len(taken'[q][k]) > budget.sequence)
    <3>1. CASE q = a
      BY <3>1, <2>6, <2>7, <2>8
    <3>2. CASE q # a
      <4>1. q \in 1..(a - 1)
        BY <3>2
      <4>. QED  BY <4>1, <2>2, <2>3, <2>8 DEF TakenUpTo
    <3>. QED  BY <3>1, <3>2
  <2>11. TakenUpTo(a)'
    BY <2>1, <2>8, <2>9, <2>10 DEF TakenUpTo
  <2>12. at' - 1 = a /\ at' \in 1..(N + 1)
    BY <2>1, <2>3, <2>4
  <2>13. TakenUpTo(at - 1)'
    BY <2>11, <2>12 DEF TakenUpTo
  <2>14. Shape'
    BY <2>1, <2>2, <2>9, <2>12 DEF Shape
  <2>15. offset' = End(at - 1)'
    <3>1. offset' = End(a)'
      BY <2>1, <2>3, <2>4, <2>9
    <3>. QED  BY <3>1, <2>12 DEF End
  <2>16. AllEncoded'
    BY <2>1, <2>2 DEF AllEncoded
  <2>. QED
    BY <2>1, <2>2, <2>9, <2>13, <2>14, <2>15, <2>16
    DEF SInv, AtStart, AtFlatten, AtTake, AtGather, AtSplit
<1>. QED  BY <1>1, <1>2

LEMMA EndOfEncodingKeeps ==
  ASSUME SInv, EndOfEncoding
  PROVE  SInv'
<1>1. CASE stage' = "over"
  BY <1>1, RefusalKeeps
<1>2. CASE stage' # "over"
  <2>1. /\ stage = "take" /\ stage' = "gather" /\ at' = 1 /\ ~(at <= N)
        /\ UNCHANGED <<budget, compiled, flat, marks, encoded, taken, sent, grouped>>
    BY <1>2 DEF EndOfEncoding, TooLong, Refuse, More, N
  <2>2. /\ Shape /\ Laid(N) /\ AllEncoded /\ TakenUpTo(at - 1)
        /\ sent = <<>> /\ grouped = <<>>
    BY <2>1 DEF SInv, AtTake
  <2>3. at - 1 = N /\ N \in Nat
    BY <2>1, <2>2, ShapeFacts DEF Shape
  <2>4. N' = N /\ Laid(N)' /\ \A q : P(q)' = P(q)
    BY <2>1, <2>2, LaidStays
  <2>5. Shape' /\ AllEncoded'
    BY <2>1, <2>2, <2>3, <2>4 DEF Shape, AllEncoded
  <2>6. TakenUpTo(N)'
    BY <2>1, <2>2, <2>3, <2>4 DEF TakenUpTo
  <2>7. at' - 1 = 0
    BY <2>1
  <2>8. SentUpTo(at - 1)'
    BY <2>1, <2>2, <2>7, EmptyIsSequence DEF SentUpTo, End
  <2>. QED
    BY <2>1, <2>2, <2>4, <2>5, <2>6, <2>8 DEF SInv, AtStart, AtFlatten, AtTake, AtGather, AtSplit
<1>. QED  BY <1>1, <1>2

LEMMA GatherKeeps ==
  ASSUME SInv, Gather
  PROVE  SInv'
<1>. DEFINE part == taken[at]
<1>1. /\ stage = "gather" /\ stage' = "gather" /\ at' = at + 1 /\ at <= N
      /\ sent' = sent \o part
      /\ UNCHANGED <<budget, compiled, flat, marks, encoded, taken, grouped>>
  BY DEF Gather, More, N
<1>2. /\ Shape /\ Laid(N) /\ AllEncoded /\ TakenUpTo(N) /\ SentUpTo(at - 1) /\ grouped = <<>>
  BY <1>1 DEF SInv, AtGather
<1>3. PICK a \in 1..N : a = at
  BY <1>1, <1>2, NextPart
<1>4. /\ N \in Nat /\ P(a) \in Nat /\ End(a - 1) \in Nat
      /\ marks[a] = End(a - 1) /\ End(a) = End(a - 1) + P(a)
  BY <1>1, <1>2, <1>3, NextPart
<1>5. /\ IsSequence(part) /\ Len(part) = P(a)
      /\ \A k \in 1..P(a) : /\ part[k] = encoded[End(a - 1) + k]
                             /\ ~(Len(part[k]) > budget.sequence)
  BY <1>2, <1>3, <1>4 DEF TakenUpTo
<1>6. /\ IsSequence(sent) /\ Len(sent) = End(a - 1)
      /\ \A i \in 1..Len(sent) : sent[i] = encoded[i] /\ ~(Len(sent[i]) > budget.sequence)
  BY <1>2, <1>3 DEF SentUpTo
<1>. HIDE DEF part
<1>7. /\ IsSequence(sent \o part) /\ Len(sent \o part) = Len(sent) + Len(part)
      /\ \A i \in 1..Len(sent) : (sent \o part)[i] = sent[i]
      /\ \A k \in 1..Len(part) : (sent \o part)[Len(sent) + k] = part[k]
  <2>1. IsSequence(sent) /\ IsSequence(part)
    BY <1>5, <1>6
  <2>. QED  BY <2>1, Concatenation
<1>8. IsSequence(sent') /\ Len(sent') = End(a)
  BY <1>1, <1>4, <1>5, <1>6, <1>7
<1>9. ASSUME NEW i \in 1..Len(sent')
      PROVE  sent'[i] = encoded[i] /\ ~(Len(sent'[i]) > budget.sequence)
  <2>1. CASE i \in 1..Len(sent)
    BY <2>1, <1>1, <1>6, <1>7
  <2>2. CASE i \notin 1..Len(sent)
    <3>1. PICK k \in 1..P(a) : i = End(a - 1) + k
      <4>1. i \in Nat /\ i > End(a - 1) /\ i <= End(a - 1) + P(a)
        BY <2>2, <1>4, <1>6, <1>8
      <4>2. i - End(a - 1) \in 1..P(a) /\ i = End(a - 1) + (i - End(a - 1))
        BY <4>1, <1>4
      <4>. QED  BY <4>2
    <3>2. sent'[i] = part[k]
      BY <3>1, <1>1, <1>5, <1>6, <1>7
    <3>. QED  BY <3>1, <3>2, <1>5
  <2>. QED  BY <2>1, <2>2
<1>10. N' = N /\ Laid(N)' /\ \A q : P(q)' = P(q) /\ End(q)' = End(q)
  BY <1>1, <1>2, LaidStays
<1>11. SentUpTo(a)'
  BY <1>1, <1>8, <1>9, <1>10 DEF SentUpTo
<1>12. at' - 1 = a /\ at' \in 1..(N + 1)
  BY <1>1, <1>3, <1>4
<1>13. SentUpTo(at - 1)'
  BY <1>11, <1>12 DEF SentUpTo, End
<1>14. Shape' /\ AllEncoded' /\ TakenUpTo(N)'
  BY <1>1, <1>2, <1>10, <1>12 DEF Shape, AllEncoded, TakenUpTo
<1>. QED
  BY <1>1, <1>2, <1>10, <1>13, <1>14 DEF SInv, AtStart, AtFlatten, AtTake, AtGather, AtSplit

LEMMA ScoreKeeps ==
  ASSUME SInv, Score
  PROVE  SInv'
<1>1. CASE stage' = "over"
  BY <1>1, RefusalKeeps
<1>2. CASE stage' # "over"
  <2>1. /\ stage = "gather" /\ stage' = "split" /\ at' = 1 /\ offset' = 0 /\ ~(at <= N)
        /\ UNCHANGED <<budget, compiled, flat, marks, encoded, taken, sent, grouped>>
    BY <1>2 DEF Score, Inexplicable, Refuse, More, N
  <2>. DEFINE n == Len(sent)
  <2>2. /\ DOMAIN logits' = 1..n /\ logits' = [i \in 1..n |-> logits'[i]]
        /\ backend' \in {"sound", "ties", "not finite"}
        /\ backend' = "sound" => \A i \in 1..n : logits'[i] = Logit(sent[i])
        /\ backend' = "ties" => \A i \in 1..n : logits'[i] = 0
        /\ backend' = "not finite" => \A i \in 1..n : i = n => logits'[i] = NotFinite
    <3>1. \/ backend' = "sound" /\ logits' = [i \in 1..n |-> Logit(sent[i])]
          \/ backend' = "ties" /\ logits' = [i \in 1..n |-> 0]
          \/ /\ backend' = "not finite"
             /\ logits' = [i \in 1..n |-> IF i = n THEN NotFinite ELSE 0]
      BY <1>2 DEF Score, Inexplicable, Refuse
    <3>. HIDE DEF n
    <3>. QED  BY <3>1
  <2>3. /\ Shape /\ Laid(N) /\ AllEncoded /\ TakenUpTo(N) /\ SentUpTo(at - 1) /\ grouped = <<>>
    BY <2>1 DEF SInv, AtGather
  <2>4. at - 1 = N /\ N \in Nat
    BY <2>1, <2>3, ShapeFacts DEF Shape
  <2>5. /\ n = Len(flat) /\ n \in Nat
        /\ \A i \in 1..n : sent[i] = encoded[i]
    BY <2>3, <2>4 DEF SentUpTo, Laid, IsSequence
  <2>. HIDE DEF n
  <2>6. IsSequence(logits') /\ Len(logits') = n
    BY <2>2, <2>5, NumberedIsSequence
  <2>7. ValuesOfAll'
    BY <2>1, <2>2, <2>5, <2>6 DEF ValuesOfAll
  <2>8. N' = N /\ Laid(N)' /\ \A q : P(q)' = P(q) /\ End(q)' = End(q)
    BY <2>1, <2>3, LaidStays
  <2>9. Shape'
    BY <2>1, <2>3, <2>4, <2>8 DEF Shape
  <2>13. AllEncoded' /\ TakenUpTo(N)'
    BY <2>1, <2>3, <2>8 DEF AllEncoded, TakenUpTo
  <2>10. SentUpTo(N)'
    BY <2>1, <2>3, <2>4, <2>8 DEF SentUpTo
  <2>11. at' - 1 = 0
    BY <2>1
  <2>12. offset' = End(at - 1)' /\ GroupedUpTo(at - 1)'
    BY <2>1, <2>3, <2>11, EmptyIsSequence DEF End, GroupedUpTo
  <2>. QED
    BY <2>1, <2>7, <2>8, <2>9, <2>10, <2>12, <2>13
    DEF SInv, AtStart, AtFlatten, AtTake, AtGather, AtSplit
<1>. QED  BY <1>1, <1>2

LEMMA SplitKeeps ==
  ASSUME SInv, Split
  PROVE  SInv'
<1>. DEFINE part == Slice(logits, offset, offset + P(at))
<1>1. /\ stage = "split" /\ stage' = "split" /\ at' = at + 1 /\ at <= N
      /\ grouped' = Append(grouped, Slice(logits, offset, offset + Len(taken[at])))
      /\ offset' = offset + Len(taken[at])
      /\ UNCHANGED <<budget, compiled, flat, marks, encoded, taken, sent, logits, backend>>
  BY DEF Split, Count, More, N
<1>2. /\ Shape /\ Laid(N) /\ AllEncoded /\ TakenUpTo(N) /\ SentUpTo(N)
      /\ ValuesOfAll /\ offset = End(at - 1) /\ GroupedUpTo(at - 1)
  BY <1>1 DEF SInv, AtSplit
<1>3. PICK a \in 1..N : a = at
  BY <1>1, <1>2, NextPart
<1>4. /\ N \in Nat /\ P(a) \in Nat /\ offset \in Nat /\ offset = End(a - 1)
      /\ End(a) = offset + P(a) /\ End(a) <= Len(logits)
      /\ \A k \in 1..P(a) : offset + k \in 1..Len(flat)
      /\ \A k \in 1..P(a) : flat[offset + k] = compiled[a].pairs[k]
  BY <1>1, <1>2, <1>3, NextPart DEF ValuesOfAll
<1>5. Len(taken[a]) = P(a)
  BY <1>2 DEF TakenUpTo
<1>6. /\ IsSequence(logits) /\ IsSequence(grouped) /\ Len(grouped) = a - 1
  BY <1>2, <1>3 DEF ValuesOfAll, GroupedUpTo
<1>7. /\ IsSequence(part) /\ Len(part) = P(a)
      /\ \A k \in 1..P(a) : part[k] = logits[offset + k]
  BY <1>3, <1>4, <1>6, Slicing
<1>8. grouped' = Append(grouped, part) /\ offset' = End(a)
  BY <1>1, <1>3, <1>4, <1>5
<1>. HIDE DEF part
<1>9. part = [k \in 1..P(a) |-> logits[marks[a] + k]]
  <2>1. marks[a] = offset
    BY <1>2, <1>3, <1>4 DEF Laid
  <2>2. part = [k \in 1..P(a) |-> part[k]]
    BY <1>7 DEF IsSequence
  <2>. QED  BY <1>7, <2>1, <2>2
<1>10. /\ IsSequence(grouped') /\ Len(grouped') = a /\ grouped'[a] = part
       /\ \A q \in 1..(a - 1) : grouped'[q] = grouped[q]
  <2>1. Len(grouped) + 1 = a
    BY <1>4, <1>6
  <2>2. /\ IsSequence(Append(grouped, part))
        /\ Len(Append(grouped, part)) = Len(grouped) + 1
        /\ \A q \in 1..Len(grouped) : Append(grouped, part)[q] = grouped[q]
        /\ Append(grouped, part)[Len(grouped) + 1] = part
    BY <1>6, Appending
  <2>. QED  BY <1>6, <1>8, <2>1, <2>2
<1>11. N' = N /\ Laid(N)' /\ \A q : P(q)' = P(q) /\ End(q)' = End(q)
  BY <1>1, <1>2, LaidStays
<1>12. ASSUME NEW q \in 1..a
       PROVE  grouped'[q] = [k \in 1..P(q) |-> logits[marks[q] + k]]
  <2>1. CASE q = a
    BY <2>1, <1>9, <1>10
  <2>2. CASE q # a
    <3>1. q \in 1..(a - 1)
      BY <2>2
    <3>. QED  BY <3>1, <1>2, <1>3, <1>10 DEF GroupedUpTo
  <2>. QED  BY <2>1, <2>2
<1>13. at' - 1 = a /\ at' \in 1..(N + 1)
  BY <1>1, <1>3, <1>4
<1>14. GroupedUpTo(at - 1)'
  BY <1>1, <1>10, <1>11, <1>12, <1>13 DEF GroupedUpTo
<1>15. offset' = End(at - 1)'
  BY <1>8, <1>11, <1>13 DEF End
<1>16. Shape' /\ AllEncoded' /\ TakenUpTo(N)' /\ SentUpTo(N)' /\ ValuesOfAll'
  <2>1. Shape' /\ AllEncoded'
    BY <1>1, <1>2, <1>11, <1>13 DEF Shape, AllEncoded
  <2>2. TakenUpTo(N)'
    BY <1>1, <1>2, <1>11 DEF TakenUpTo
  <2>3. SentUpTo(N)' /\ ValuesOfAll'
    BY <1>1, <1>2, <1>11 DEF SentUpTo, ValuesOfAll
  <2>. QED  BY <2>1, <2>2, <2>3
<1>17. AtSplit'
  BY <1>11, <1>14, <1>15, <1>16 DEF AtSplit
<1>. QED  BY <1>1, <1>17 DEF SInv, AtStart, AtFlatten, AtTake, AtGather

LEMMA StepsKeep == SInv /\ [SerializerNext]_serializer => SInv'
<1>. SUFFICES ASSUME SInv, [SerializerNext]_serializer
              PROVE  SInv'
  OBVIOUS
<1>1. CASE UNCHANGED serializer
  <2>1. /\ N' = N /\ (Laid(N) => Laid(N)')
        /\ \A q : P(q)' = P(q) /\ End(q)' = End(q)
    BY <1>1, LaidStays DEF serializer
  <2>2. /\ AtStart => AtStart'
        /\ Shape => Shape'
        /\ AllEncoded => AllEncoded'
        /\ ValuesOfAll => ValuesOfAll'
    BY <1>1, <2>1 DEF serializer, AtStart, Shape, AllEncoded, ValuesOfAll
  <2>3. Laid(at - 1) => Laid(at - 1)'
    BY <1>1, <2>1 DEF serializer, Laid
  <2>4. /\ TakenUpTo(N) => TakenUpTo(N)'
        /\ TakenUpTo(at - 1) => TakenUpTo(at - 1)'
    BY <1>1, <2>1 DEF serializer, TakenUpTo
  <2>5. /\ SentUpTo(N) => SentUpTo(N)'
        /\ SentUpTo(at - 1) => SentUpTo(at - 1)'
    BY <1>1, <2>1 DEF serializer, SentUpTo, End
  <2>6. GroupedUpTo(at - 1) => GroupedUpTo(at - 1)'
    BY <1>1, <2>1 DEF serializer, GroupedUpTo
  <2>7. offset = End(at - 1) => offset' = End(at - 1)'
    BY <1>1, <2>1 DEF serializer, End
  <2>. QED
    BY <1>1, <2>1, <2>2, <2>3, <2>4, <2>5, <2>6, <2>7
    DEF serializer, SInv, AtFlatten, AtTake, AtGather, AtSplit
<1>2. CASE SerializerNext
  <2>1. CASE \E r \in Requests, b \in Budgets : Begin(r, b)
    BY <2>1, BeginKeeps, RequestsAssumption
  <2>. QED
    BY <1>2, <2>1, CompileKeeps, FlattenKeeps, EncodingKeeps, TakeKeeps,
       EndOfEncodingKeeps, GatherKeeps, ScoreKeeps, SplitKeeps DEF SerializerNext
<1>. QED  BY <1>1, <1>2

-----------------------------------------------------------------------------
(* Theorems                                                                  *)

THEOREM SerializerInvariant == SerializerSpec => []SInv
BY StartsWell, StepsKeep, PTL DEF SerializerSpec

\* At the end of the job each question has the part of the logits that stands at its mark.
LEMMA GroupsAreParts ==
  ASSUME SInv, stage = "split", ~More
  PROVE  /\ N \in Nat /\ Len(grouped) = N /\ DOMAIN compiled = 1..N
         /\ \A q \in 1..N :
              /\ P(q) \in Nat
              /\ grouped[q] = [k \in 1..P(q) |-> logits[marks[q] + k]]
              /\ \A k \in 1..P(q) : /\ marks[q] + k \in 1..Len(flat)
                                    /\ encoded[marks[q] + k] = Encode(compiled[q].pairs[k])
<1>1. Shape /\ Laid(N) /\ AllEncoded /\ GroupedUpTo(at - 1)
  BY DEF SInv, AtSplit
<1>2. at - 1 = N /\ DOMAIN compiled = 1..N /\ N \in Nat
  BY <1>1, ShapeFacts DEF Shape, More, N, IsSequence
<1>3. ASSUME NEW q \in 1..N, NEW k \in 1..P(q)
      PROVE  /\ marks[q] + k \in 1..Len(flat)
             /\ encoded[marks[q] + k] = Encode(compiled[q].pairs[k])
  <2>1. /\ marks[q] \in Nat /\ End(q) <= Len(flat) /\ Len(flat) \in Nat /\ P(q) \in Nat
        /\ q # 0 /\ flat[marks[q] + k] = compiled[q].pairs[k]
    BY <1>1, <1>2, ShapeFacts DEF Laid, IsSequence
  <2>2. End(q) = marks[q] + P(q)
    BY <2>1 DEF End
  <2>3. marks[q] + k \in 1..Len(flat)
    BY <2>1, <2>2
  <2>. QED  BY <1>1, <2>1, <2>3 DEF AllEncoded
<1>4. \A q \in 1..N : P(q) \in Nat
  BY <1>1, ShapeFacts
<1>5. Len(grouped) = N /\ \A q \in 1..N : grouped[q] = [k \in 1..P(q) |-> logits[marks[q] + k]]
  BY <1>1, <1>2 DEF GroupedUpTo
<1>. QED  BY <1>2, <1>3, <1>4, <1>5

LEMMA InvariantBringsHome == SInv => EachToItsOwn
<1>. SUFFICES ASSUME SInv, stage = "split", ~More, backend = "sound",
                     NEW q \in DOMAIN compiled
              PROVE  grouped[q]
                       = [k \in 1..Len(compiled[q].pairs) |-> Logit(Encode(compiled[q].pairs[k]))]
  BY DEF EachToItsOwn
<1>1. /\ q \in 1..N /\ P(q) \in Nat
      /\ grouped[q] = [k \in 1..P(q) |-> logits[marks[q] + k]]
      /\ \A k \in 1..P(q) : /\ marks[q] + k \in 1..Len(flat)
                            /\ encoded[marks[q] + k] = Encode(compiled[q].pairs[k])
  BY GroupsAreParts
<1>2. \A i \in 1..Len(flat) : logits[i] = Logit(encoded[i])
  BY DEF SInv, AtSplit, ValuesOfAll
<1>. QED  BY <1>1, <1>2 DEF P

(* A value goes back to the question and the option it was computed for, for every request,
   model, tokenizer and budget. *)
THEOREM ValuesComeHome == SerializerSpec => []EachToItsOwn
BY InvariantBringsHome, SerializerInvariant, PTL

(* What score() gets is whole: no sequence is longer than max_sequence_tokens. *)
THEOREM NothingIsTruncated == SerializerSpec => []NothingToTruncate
<1>1. SInv => NothingToTruncate
  BY DEF SInv, AtGather, AtSplit, SentUpTo, NothingToTruncate
<1>. QED  BY <1>1, SerializerInvariant, PTL

\* What stands where in an assembled sequence.
LEMMA AssembleLayout ==
  ASSUME NEW premise, IsSequence(premise), NEW hypothesis, IsSequence(hypothesis)
  PROVE  LET n == Len(premise)  m == Len(hypothesis)  ids == Assemble(premise, hypothesis) IN
         /\ n \in Nat /\ m \in Nat /\ IsSequence(ids)
         /\ Len(ids) = n + m + 4 /\ DOMAIN ids = 1..(n + m + 4)
         /\ ids[1] = Bos /\ ids[n + 2] = Eos /\ ids[n + 3] = Eos /\ ids[n + m + 4] = Eos
         /\ \A i \in 1..n : ids[1 + i] = premise[i]
         /\ \A i \in 1..m : ids[n + 3 + i] = hypothesis[i]
<1>. DEFINE n == Len(premise)  m == Len(hypothesis)  ids == Assemble(premise, hypothesis)
            s1 == <<Bos>>  s2 == s1 \o premise  two == <<Eos, Eos>>  s3 == s2 \o two
            s4 == s3 \o hypothesis  s5 == <<Eos>>
<1>1. /\ n \in Nat /\ m \in Nat
      /\ IsSequence(s1) /\ IsSequence(two) /\ IsSequence(s5)
      /\ Len(s1) = 1 /\ s1[1] = Bos /\ Len(two) = 2 /\ two[1] = Eos /\ two[2] = Eos
      /\ Len(s5) = 1 /\ s5[1] = Eos
  BY OneIsSequence, TwoIsSequence, DomainOfSequence
<1>2. ids = s4 \o s5
  BY DEF Assemble
<1>. HIDE DEF n, m, ids, s1, two, s5, s2, s3, s4
<1>3. /\ IsSequence(s2) /\ Len(s2) = n + 1
      /\ s2[1] = Bos /\ \A i \in 1..n : s2[1 + i] = premise[i]
  <2>1. /\ IsSequence(s2) /\ Len(s2) = Len(s1) + Len(premise)
        /\ \A i \in 1..Len(s1) : s2[i] = s1[i]
        /\ \A i \in 1..Len(premise) : s2[Len(s1) + i] = premise[i]
    <3>1. IsSequence(s1)
      BY <1>1
    <3>. QED  BY ONLY <3>1, IsSequence(premise), Concatenation DEF s2
  <2>. QED  BY <1>1, <2>1 DEF n
<1>4. /\ IsSequence(s3) /\ Len(s3) = n + 3
      /\ s3[1] = Bos /\ (\A i \in 1..n : s3[1 + i] = premise[i])
      /\ s3[n + 2] = Eos /\ s3[n + 3] = Eos
  <2>1. /\ IsSequence(s3) /\ Len(s3) = Len(s2) + Len(two)
        /\ \A i \in 1..Len(s2) : s3[i] = s2[i]
        /\ \A i \in 1..Len(two) : s3[Len(s2) + i] = two[i]
    <3>1. IsSequence(s2)
      BY <1>3
    <3>2. IsSequence(two)
      BY <1>1
    <3>. QED  BY ONLY <3>1, <3>2, Concatenation DEF s3
  <2>2. /\ IsSequence(s3) /\ Len(s3) = (n + 1) + 2
        /\ \A i \in 1..(n + 1) : s3[i] = s2[i]
        /\ \A i \in 1..2 : s3[(n + 1) + i] = two[i]
    BY <1>1, <1>3, <2>1
  <2>3. /\ 1 \in 1..(n + 1) /\ \A i \in 1..n : 1 + i \in 1..(n + 1)
        /\ 1 \in 1..2 /\ 2 \in 1..2 /\ (n + 1) + 1 = n + 2 /\ (n + 1) + 2 = n + 3
    BY <1>1
  <2>. QED  BY <1>1, <1>3, <2>2, <2>3
<1>5. /\ IsSequence(s4) /\ Len(s4) = n + m + 3
      /\ s4[1] = Bos /\ (\A i \in 1..n : s4[1 + i] = premise[i])
      /\ s4[n + 2] = Eos /\ s4[n + 3] = Eos
      /\ \A i \in 1..m : s4[n + 3 + i] = hypothesis[i]
  <2>1. /\ IsSequence(s4) /\ Len(s4) = Len(s3) + Len(hypothesis)
        /\ \A i \in 1..Len(s3) : s4[i] = s3[i]
        /\ \A i \in 1..Len(hypothesis) : s4[Len(s3) + i] = hypothesis[i]
    <3>1. IsSequence(s3)
      BY <1>4
    <3>. QED  BY ONLY <3>1, IsSequence(hypothesis), Concatenation DEF s4
  <2>2. /\ IsSequence(s4) /\ Len(s4) = (n + 3) + m
        /\ \A i \in 1..(n + 3) : s4[i] = s3[i]
        /\ \A i \in 1..m : s4[n + 3 + i] = hypothesis[i]
    BY <1>4, <2>1 DEF m
  <2>3. /\ 1 \in 1..(n + 3) /\ (\A i \in 1..n : 1 + i \in 1..(n + 3))
        /\ n + 2 \in 1..(n + 3) /\ n + 3 \in 1..(n + 3) /\ (n + 3) + m = n + m + 3
    BY <1>1
  <2>. QED  BY <1>4, <2>2, <2>3
<1>6. /\ IsSequence(ids) /\ Len(ids) = n + m + 4
      /\ (\A i \in 1..(n + m + 3) : ids[i] = s4[i]) /\ ids[n + m + 4] = Eos
  <2>1. /\ IsSequence(ids) /\ Len(ids) = Len(s4) + Len(s5)
        /\ \A i \in 1..Len(s4) : ids[i] = s4[i]
        /\ \A i \in 1..Len(s5) : ids[Len(s4) + i] = s5[i]
    <3>1. IsSequence(s4)
      BY <1>5
    <3>2. IsSequence(s5)
      BY <1>1
    <3>. QED  BY ONLY <1>2, <3>1, <3>2, Concatenation
  <2>2. /\ IsSequence(ids) /\ Len(ids) = (n + m + 3) + 1
        /\ \A i \in 1..(n + m + 3) : ids[i] = s4[i]
        /\ \A i \in 1..1 : ids[(n + m + 3) + i] = s5[i]
    BY <1>1, <1>5, <2>1
  <2>3. 1 \in 1..1 /\ (n + m + 3) + 1 = n + m + 4
    BY <1>1
  <2>. QED  BY <1>1, <2>2, <2>3
<1>7. /\ 1 \in 1..(n + m + 3) /\ (\A i \in 1..n : 1 + i \in 1..(n + m + 3))
      /\ n + 2 \in 1..(n + m + 3) /\ n + 3 \in 1..(n + m + 3)
      /\ \A i \in 1..m : n + 3 + i \in 1..(n + m + 3)
  BY <1>1
<1>8. DOMAIN ids = 1..(n + m + 4)
  <2>1. DOMAIN ids = 1..Len(ids)
    BY <1>6, DomainOfSequence
  <2>. QED  BY <1>6, <2>1
<1>. QED  BY <1>1, <1>5, <1>6, <1>7, <1>8 DEF n, m, ids

\* The two texts stand whole between the control tokens.
LEMMA AssembleParts ==
  ASSUME NEW premise, IsSequence(premise), NEW hypothesis, IsSequence(hypothesis)
  PROVE  LET ids == Assemble(premise, hypothesis) IN
         /\ SubSeq(ids, 2, Len(premise) + 1) = premise
         /\ SubSeq(ids, Len(premise) + 4, Len(ids) - 1) = hypothesis
         /\ Len(premise) \in 0..(Len(ids) - 4)
<1>. DEFINE n == Len(premise)  m == Len(hypothesis)  ids == Assemble(premise, hypothesis)
<1>1. /\ n \in Nat /\ m \in Nat /\ IsSequence(ids) /\ Len(ids) = n + m + 4
      /\ \A i \in 1..n : ids[1 + i] = premise[i]
      /\ \A i \in 1..m : ids[n + 3 + i] = hypothesis[i]
  BY AssembleLayout
<1>. HIDE DEF n, m, ids
<1>2. /\ 1 \in Nat /\ n + 3 \in Nat /\ 1 + n <= Len(ids) /\ (n + 3) + m <= Len(ids)
      /\ 1 + 1 = 2 /\ 1 + n = n + 1 /\ (n + 3) + 1 = n + 4 /\ (n + 3) + m = Len(ids) - 1
      /\ n \in 0..(Len(ids) - 4)
  BY <1>1
<1>3. SubSeq(ids, 2, n + 1) = premise
  <2>. DEFINE part == SubSeq(ids, 2, n + 1)
  <2>1. part = SubSeq(ids, 1 + 1, 1 + n)
    BY <1>2
  <2>. HIDE DEF part
  <2>2. IsSequence(part) /\ Len(part) = n /\ \A i \in 1..n : part[i] = ids[1 + i]
    <3>1. IsSequence(ids) /\ 1 \in Nat /\ n \in Nat /\ 1 + n <= Len(ids)
      BY <1>1, <1>2
    <3>. QED  BY ONLY <2>1, <3>1, Subsequence
  <2>. QED  BY <1>1, <2>2, SameItems DEF n, part
<1>4. SubSeq(ids, n + 4, Len(ids) - 1) = hypothesis
  <2>. DEFINE part == SubSeq(ids, n + 4, Len(ids) - 1)
  <2>1. part = SubSeq(ids, (n + 3) + 1, (n + 3) + m)
    BY <1>2
  <2>. HIDE DEF part
  <2>2. IsSequence(part) /\ Len(part) = m /\ \A i \in 1..m : part[i] = ids[n + 3 + i]
    <3>. DEFINE from == n + 3
    <3>1. part = SubSeq(ids, from + 1, from + m) /\ from \in Nat /\ from + m <= Len(ids)
      BY <1>2, <2>1
    <3>. HIDE DEF from
    <3>2. IsSequence(ids) /\ m \in Nat
      BY <1>1
    <3>3. IsSequence(part) /\ Len(part) = m /\ \A i \in 1..m : part[i] = ids[from + i]
      BY ONLY <3>1, <3>2, Subsequence
    <3>. QED  BY <3>3 DEF from
  <2>3. /\ IsSequence(part) /\ Len(part) = Len(hypothesis)
        /\ \A i \in 1..Len(hypothesis) : part[i] = hypothesis[i]
    BY <1>1, <2>2 DEF m
  <2>4. part = hypothesis
    BY ONLY <2>3, IsSequence(hypothesis), SameItems
  <2>. QED  BY <2>4 DEF part
<1>. QED  BY <1>2, <1>3, <1>4 DEF n, ids

(* The last check of count_and_encode() misses nothing, and refuses nothing else: it finds no
   control token out of place in the sequence that was assembled exactly when neither text
   holds one, whatever the tokenizer made of them. *)
THEOREM MisplacedMissesNothing ==
  ASSUME NEW premise, IsSequence(premise), NEW hypothesis, IsSequence(hypothesis)
  PROVE  ~Misplaced(Assemble(premise, hypothesis), Len(premise)) <=>
           /\ \A i \in 1..Len(premise) : premise[i] \notin Control
           /\ \A i \in 1..Len(hypothesis) : hypothesis[i] \notin Control
<1>. DEFINE ids == Assemble(premise, hypothesis)  n == Len(premise)  m == Len(hypothesis)
<1>1. /\ n \in Nat /\ m \in Nat
      /\ Len(ids) = n + m + 4 /\ DOMAIN ids = 1..(n + m + 4)
      /\ ids[1] = Bos /\ ids[n + 2] = Eos /\ ids[n + 3] = Eos /\ ids[n + m + 4] = Eos
      /\ \A i \in 1..n : ids[1 + i] = premise[i]
      /\ \A i \in 1..m : ids[n + 3 + i] = hypothesis[i]
  BY AssembleLayout
<1>2. Misplaced(ids, n) <=>
        \/ Len(ids) < n + 4
        \/ \E i \in DOMAIN ids :
             IF i = 1 THEN ids[i] # Bos
             ELSE IF i \in {n + 2, n + 3, Len(ids)} THEN ids[i] # Eos
             ELSE ids[i] \in Control
  BY DEF Misplaced
<1>. HIDE DEF ids, n, m
<1>3. ASSUME ~Misplaced(ids, n)
      PROVE  /\ \A i \in 1..n : premise[i] \notin Control
             /\ \A i \in 1..m : hypothesis[i] \notin Control
  <2>1. ASSUME NEW i \in DOMAIN ids, i \notin {1, n + 2, n + 3, n + m + 4}
        PROVE  ids[i] \notin Control
    BY <1>1, <1>2, <1>3, <2>1
  <2>2. ASSUME NEW i \in 1..n PROVE premise[i] \notin Control
    <3>1. 1 + i \in DOMAIN ids /\ 1 + i \notin {1, n + 2, n + 3, n + m + 4}
      BY <1>1
    <3>. QED  BY <3>1, <1>1, <2>1
  <2>3. ASSUME NEW i \in 1..m PROVE hypothesis[i] \notin Control
    <3>1. n + 3 + i \in DOMAIN ids /\ n + 3 + i \notin {1, n + 2, n + 3, n + m + 4}
      BY <1>1
    <3>. QED  BY <3>1, <1>1, <2>1
  <2>. QED  BY <2>2, <2>3
<1>4. ASSUME \A i \in 1..n : premise[i] \notin Control,
             \A i \in 1..m : hypothesis[i] \notin Control
      PROVE  ~Misplaced(ids, n)
  <2>1. ~(Len(ids) < n + 4)
    BY <1>1
  <2>2. ASSUME NEW i \in DOMAIN ids, i \notin {1, n + 2, n + 3, n + m + 4}
        PROVE  ids[i] \notin Control
    <3>1. CASE i < n + 2
      <4>1. i - 1 \in 1..n /\ 1 + (i - 1) = i
        BY <1>1, <2>2, <3>1
      <4>2. ids[1 + (i - 1)] = premise[i - 1]
        BY <4>1, <1>1
      <4>. QED  BY <4>1, <4>2, <1>4
    <3>2. CASE ~(i < n + 2)
      <4>1. i - (n + 3) \in 1..m /\ n + 3 + (i - (n + 3)) = i
        <5>1. i \in 1..(n + m + 4) /\ i # n + 2 /\ i # n + 3 /\ i # n + m + 4
          BY <1>1, <2>2
        <5>2. n \in Nat /\ m \in Nat
          BY <1>1
        <5>. QED  BY ONLY <5>1, <5>2, <3>2
      <4>2. ids[n + 3 + (i - (n + 3))] = hypothesis[i - (n + 3)]
        BY <4>1, <1>1
      <4>. QED  BY <4>1, <4>2, <1>4
    <3>. QED  BY <3>1, <3>2
  <2>. QED  BY <1>1, <1>2, <2>1, <2>2
<1>. QED  BY <1>3, <1>4 DEF ids, n, m
-----------------------------------------------------------------------------
(* What the tokenizer reads                                                  *)

\* Whatever is written for pieces of S are pieces of S.
Closed(S) ==
  /\ Space \in S
  /\ \A piece \in DOMAIN Fold : Fold[piece] \in Seq(S)
  /\ \A both \in DOMAIN Joint : Joint[both] \in Seq(S)

\* The pieces of T, with all that the normalizer ever writes.
OfFold == UNION {Items(Fold[piece]) : piece \in DOMAIN Fold}
OfJoint == UNION {Items(Joint[both]) : both \in DOMAIN Joint}
Alphabet(T) == T \cup {Space} \cup OfFold \cup OfJoint

LEMMA ItemsAreRange ==
  ASSUME NEW s, IsSequence(s)
  PROVE  ToSet(s) = Items(s)
BY DomainOfSequence DEF ToSet, Items

LEMMA AlphabetIsClosed ==
  ASSUME NEW T
  PROVE  /\ Closed(Alphabet(T)) /\ T \subseteq Alphabet(T)
         /\ T \cap DOMAIN Spelling = {} => Alphabet(T) \cap DOMAIN Spelling = {}
<1>. DEFINE S == Alphabet(T)
<1>1. ASSUME NEW piece \in DOMAIN Fold PROVE Fold[piece] \in Seq(S)
  <2>0. Items(Fold[piece]) \subseteq OfFold
    BY DEF OfFold
  <2>1. Items(Fold[piece]) \subseteq S
    BY <2>0 DEF Alphabet
  <2>2. IsSequence(Fold[piece])
    BY FoldingAssumption
  <2>. HIDE DEF S
  <2>. QED  BY <2>1, <2>2, SequenceOfElements
<1>2. ASSUME NEW both \in DOMAIN Joint PROVE Joint[both] \in Seq(S)
  <2>0. Items(Joint[both]) \subseteq OfJoint
    BY DEF OfJoint
  <2>1. Items(Joint[both]) \subseteq S
    BY <2>0 DEF Alphabet
  <2>2. IsSequence(Joint[both])
    BY FoldingAssumption
  <2>. HIDE DEF S
  <2>. QED  BY <2>1, <2>2, SequenceOfElements
<1>3. Space \in S /\ T \subseteq S
  BY DEF Alphabet
<1>4. ASSUME T \cap DOMAIN Spelling = {} PROVE S \cap DOMAIN Spelling = {}
  <2>1. \A piece \in DOMAIN Fold : Items(Fold[piece]) \cap DOMAIN Spelling = {}
    BY FoldingAssumption, ItemsAreRange
  <2>2. \A both \in DOMAIN Joint : Items(Joint[both]) \cap DOMAIN Spelling = {}
    BY FoldingAssumption, ItemsAreRange
  <2>3. Space \notin DOMAIN Spelling
    BY SpellingAssumption
  <2>4. \A x \in OfFold : x \notin DOMAIN Spelling
    BY <2>1 DEF OfFold
  <2>5. \A x \in OfJoint : x \notin DOMAIN Spelling
    BY <2>2 DEF OfJoint
  <2>6. \A x \in T \cup {Space} : x \notin DOMAIN Spelling
    BY <1>4, <2>3
  <2>7. \A x \in Alphabet(T) : x \notin DOMAIN Spelling
    BY <2>4, <2>5, <2>6 DEF Alphabet
  <2>. QED  BY <2>7
<1>. QED  BY <1>1, <1>2, <1>3, <1>4 DEF Closed

LEMMA SingletonType ==
  ASSUME NEW S, NEW x \in S
  PROVE  <<x>> \in Seq(S) /\ Len(<<x>>) = 1 /\ <<x>>[1] = x
OBVIOUS

LEMMA FoldedType ==
  ASSUME NEW S, Closed(S), NEW x \in S
  PROVE  Folded(x) \in Seq(S)
BY SingletonType DEF Folded, Closed

LEMMA WrittenType ==
  ASSUME NEW S, Closed(S), NEW text \in Seq(S), NEW i \in 1..Len(text)
  PROVE  WrittenAt(text, i) \in Seq(S)
<1>1. text[i] \in S
  BY ElementOfSeq
<1>2. Folded(text[i]) \in Seq(S)
  BY <1>1, FoldedType
<1>3. <<>> \in Seq(S)
  BY EmptySeq
<1>4. Together(text, i) => Joint[<<text[i], text[i + 1]>>] \in Seq(S)
  BY DEF Together, Closed
<1>. QED  BY <1>2, <1>3, <1>4 DEF WrittenAt

LEMMA NormalizeType ==
  ASSUME NEW S, Closed(S), NEW text \in Seq(S)
  PROVE  /\ Normalize(text) = FlattenSeq([i \in 1..Len(text) |-> WrittenAt(text, i)])
         /\ [i \in 1..Len(text) |-> WrittenAt(text, i)] \in Seq(Seq(S))
         /\ Normalize(text) \in Seq(S)
<1>1. DOMAIN text = 1..Len(text) /\ Len(text) \in Nat
  BY LenProperties
<1>2. \A i \in 1..Len(text) : WrittenAt(text, i) \in Seq(S)
  BY WrittenType
<1>3. [i \in 1..Len(text) |-> WrittenAt(text, i)] \in Seq(Seq(S))
  BY <1>1, <1>2, IsASeq
<1>4. Normalize(text) = FlattenSeq([i \in 1..Len(text) |-> WrittenAt(text, i)])
  BY <1>1 DEF Normalize
<1>. QED  BY <1>3, <1>4, FlattenType

\* What the normalizer has written it leaves as it is.
LEMMA NormalizeSettles ==
  ASSUME NEW S, Closed(S), NEW text \in Seq(S)
  PROVE  Normalize(text) \in Seq(S \ DOMAIN Fold)
<1>. DEFINE R == S \ DOMAIN Fold
<1>1. DOMAIN text = 1..Len(text) /\ Len(text) \in Nat
  BY LenProperties
<1>2. ASSUME NEW i \in 1..Len(text) PROVE WrittenAt(text, i) \in Seq(R)
  <2>1. WrittenAt(text, i) \in Seq(S) /\ text[i] \in S
    BY WrittenType, ElementOfSeq
  <2>2. CASE Together(text, i)
    <3>. DEFINE w == Joint[<<text[i], text[i + 1]>>]
    <3>1. IsSequence(w) /\ ToSet(w) \cap DOMAIN Fold = {} /\ w \in Seq(S)
      BY <2>2, FoldingAssumption DEF Together, Closed
    <3>. HIDE DEF w
    <3>2. \A k \in 1..Len(w) : w[k] \in R
      BY <3>1, ItemsAreRange, ElementOfSeq DEF Items
    <3>3. w \in Seq(R)
      <4>. HIDE DEF R
      <4>. QED  BY <3>1, <3>2, SequenceOf
    <3>. QED  BY <2>2, <3>3 DEF WrittenAt, w
  <2>3. CASE ~Together(text, i) /\ Together(text, i - 1)
    BY <2>3, EmptySeq DEF WrittenAt
  <2>4. CASE ~Together(text, i) /\ ~Together(text, i - 1) /\ text[i] \in DOMAIN Fold
    <3>. DEFINE w == Fold[text[i]]
    <3>1. IsSequence(w) /\ ToSet(w) \cap DOMAIN Fold = {} /\ w \in Seq(S)
      BY <2>4, FoldingAssumption DEF Closed
    <3>. HIDE DEF w
    <3>2. \A k \in 1..Len(w) : w[k] \in R
      BY <3>1, ItemsAreRange, ElementOfSeq DEF Items
    <3>3. w \in Seq(R)
      <4>. HIDE DEF R
      <4>. QED  BY <3>1, <3>2, SequenceOf
    <3>. QED  BY <2>4, <3>3 DEF WrittenAt, Folded, w
  <2>5. CASE ~Together(text, i) /\ ~Together(text, i - 1) /\ text[i] \notin DOMAIN Fold
    <3>1. text[i] \in R
      BY <2>1, <2>5
    <3>. HIDE DEF R
    <3>. QED  BY <2>5, <3>1, SingletonType DEF WrittenAt, Folded
  <2>. QED  BY <2>2, <2>3, <2>4, <2>5
<1>. HIDE DEF R
<1>3. [i \in 1..Len(text) |-> WrittenAt(text, i)] \in Seq(Seq(R))
  BY <1>1, <1>2, IsASeq
<1>4. Normalize(text) \in Seq(R)
  BY <1>3, NormalizeType, FlattenType
<1>. QED  BY <1>4 DEF R

\* A space behind each piece of A.
Behind(A, S) == [x \in S |-> IF x \in A THEN <<x, Space>> ELSE <<x>>]

LEMMA SpacedType ==
  ASSUME NEW S, Space \in S, NEW text \in Seq(S), NEW A
  PROVE  /\ ListsFor(Behind(A, S), S, S)
         /\ Spaced(text, A) = Each(Behind(A, S), text)
         /\ Spaced(text, A) \in Seq(S)
<1>. DEFINE g == Behind(A, S)
<1>1. ASSUME NEW x \in S PROVE g[x] \in Seq(S)
  BY DEF Behind
<1>2. ListsFor(g, S, S)
  BY <1>1 DEF ListsFor
<1>3. DOMAIN text = 1..Len(text) /\ \A i \in 1..Len(text) : text[i] \in S
  BY LenProperties, ElementOfSeq
<1>4. [i \in DOMAIN text |-> IF text[i] \in A THEN <<text[i], Space>> ELSE <<text[i]>>]
        = [i \in 1..Len(text) |-> g[text[i]]]
  BY <1>3 DEF Behind
<1>5. Spaced(text, A) = Each(g, text)
  BY <1>4 DEF Spaced, Each
<1>. HIDE DEF g
<1>6. Each(g, text) \in Seq(S)
  BY <1>2, ListsOfEach
<1>. QED  BY <1>2, <1>5, <1>6 DEF g

LEMMA EscapesType ==
  ASSUME NEW S, Closed(S), NEW text \in Seq(S)
  PROVE  EscapeReserved(text) \in Seq(S) /\ EscapeEveryAngle(text) \in Seq(S)
<1>1. Normalize(text) \in Seq(S) /\ Space \in S
  BY NormalizeType DEF Closed
<1>2. \A A : Spaced(text, A) \in Seq(S)
  BY <1>1, SpacedType
<1>3. \A A : Spaced(Normalize(text), A) \in Seq(S)
  BY <1>1, SpacedType
<1>. QED  BY <1>2, <1>3 DEF EscapeReserved, EscapeEveryAngle

LEMMA TokenizeType ==
  ASSUME NEW S, Closed(S), NEW text \in Seq(S)
  PROVE  Tokenize(text) \in Seq(S \cup DOMAIN Spelling)
<1>. DEFINE R == S \cup DOMAIN Spelling  pieces == Normalize(text)
<1>1. pieces \in Seq(S) /\ DOMAIN pieces = 1..Len(pieces) /\ Len(pieces) \in Nat
  BY NormalizeType, LenProperties
<1>. HIDE DEF pieces
<1>2. ASSUME NEW i \in 1..Len(pieces) PROVE TokenAt(pieces, i) \in Seq(R)
  <2>1. pieces[i] \in R
    BY <1>1, ElementOfSeq
  <2>2. Spelled(pieces, i) # {} => (CHOOSE s \in Spelled(pieces, i) : TRUE) \in R
    BY DEF Spelled
  <2>. HIDE DEF R
  <2>3. <<>> \in Seq(R) /\ <<pieces[i]>> \in Seq(R)
    BY <2>1, EmptySeq, SingletonType
  <2>4. Spelled(pieces, i) # {} => <<CHOOSE s \in Spelled(pieces, i) : TRUE>> \in Seq(R)
    BY <2>2, SingletonType
  <2>. QED  BY <2>3, <2>4 DEF TokenAt
<1>. HIDE DEF R
<1>3. [i \in 1..Len(pieces) |-> TokenAt(pieces, i)] \in Seq(Seq(R))
  BY <1>1, <1>2, IsASeq
<1>4. Tokenize(text) = FlattenSeq([i \in 1..Len(pieces) |-> TokenAt(pieces, i)])
  BY <1>1 DEF Tokenize, pieces
<1>5. Tokenize(text) \in Seq(R)
  BY <1>3, <1>4, FlattenType
<1>. QED  BY <1>5 DEF R

LEMMA AssembleIsSequence ==
  ASSUME NEW premise, IsSequence(premise), NEW hypothesis, IsSequence(hypothesis)
  PROVE  IsSequence(Assemble(premise, hypothesis))
<1>1. IsSequence(<<Bos>> \o premise)
  BY OneIsSequence, Concatenation
<1>2. IsSequence((<<Bos>> \o premise) \o <<Eos, Eos>>)
  BY <1>1, TwoIsSequence, Concatenation
<1>3. IsSequence(((<<Bos>> \o premise) \o <<Eos, Eos>>) \o hypothesis)
  BY <1>2, Concatenation
<1>4. IsSequence((((<<Bos>> \o premise) \o <<Eos, Eos>>) \o hypothesis) \o <<Eos>>)
  BY <1>3, OneIsSequence, Concatenation
<1>. QED  BY <1>4 DEF Assemble

\* The tokens of both sides, at the first try and at the second.
LEMMA TriesType ==
  ASSUME NEW text, IsSequence(text)
  PROVE  IsSequence(Tokenize(EscapeReserved(text)))
         /\ IsSequence(Tokenize(EscapeEveryAngle(text)))
<1>. DEFINE S == Alphabet(Items(text))
<1>1. Closed(S) /\ Items(text) \subseteq S
  BY AlphabetIsClosed
<1>. HIDE DEF S
<1>2. text \in Seq(S)
  BY <1>1, SequenceOfElements
<1>3. EscapeReserved(text) \in Seq(S) /\ EscapeEveryAngle(text) \in Seq(S)
  BY <1>1, <1>2, EscapesType
<1>4. /\ Tokenize(EscapeReserved(text)) \in Seq(S \cup DOMAIN Spelling)
      /\ Tokenize(EscapeEveryAngle(text)) \in Seq(S \cup DOMAIN Spelling)
  BY <1>1, <1>3, TokenizeType
<1>. QED  BY <1>4, SequenceHasForm

LEMMA EncodeIsSequence ==
  ASSUME NEW pair, IsSequence(pair.premise), IsSequence(pair.hypothesis)
  PROVE  IsSequence(Encode(pair)) /\ Len(Encode(pair)) \in Nat
<1>. DEFINE p == Tokenize(EscapeReserved(pair.premise))
            h == Tokenize(EscapeReserved(pair.hypothesis))
            p2 == Tokenize(EscapeEveryAngle(pair.premise))
            h2 == Tokenize(EscapeEveryAngle(pair.hypothesis))
<1>1. IsSequence(p) /\ IsSequence(h) /\ IsSequence(p2) /\ IsSequence(h2)
  BY TriesType
<1>2. Encode(pair) \in {Assemble(p, h), Assemble(p2, h2), <<>>}
  BY DEF Encode, Reencode, NotEncoded
<1>. HIDE DEF p, h, p2, h2
<1>3. IsSequence(Encode(pair))
  BY <1>1, <1>2, AssembleIsSequence, EmptyIsSequence
<1>. QED  BY <1>3, DomainOfSequence
-----------------------------------------------------------------------------
(* An angle that a space follows begins no special token                     *)

\* An angle with a piece of S right behind it that is no space.
Loose(S) == {<<Angle, y>> : y \in S \ {Space}}

LEMMA LooseMeans ==
  ASSUME NEW S, NEW x, NEW y
  PROVE  <<x, y>> \in Loose(S) <=> x = Angle /\ y \in S /\ y # Space
BY DEF Loose

\* No reserved string begins with an angle and a space.
LEMMA NoneLooseSpellsNothing ==
  ASSUME NEW S, NEW s \in Seq(S), Avoids(s, Loose(S))
  PROVE  SpellsNothing(s)
<1>. SUFFICES ASSUME NEW i \in DOMAIN s, NEW t \in Spelled(s, i)
              PROVE  FALSE
  BY DEF SpellsNothing
<1>. DEFINE w == Spelling[t]  n == Len(s)  rest == SubSeq(s, i, n)
<1>1. /\ n \in Nat /\ DOMAIN s = 1..n /\ i \in 1..n /\ \A k \in 1..n : s[k] \in S
  BY LenProperties, ElementOfSeq
<1>2. t \in DOMAIN Spelling /\ Len(w) <= Len(rest) /\ SubSeq(w, 1, Len(w)) = SubSeq(rest, 1, Len(w))
  BY DEF Spelled, IsPrefix
<1>3. /\ IsSequence(w) /\ Len(w) > 1 /\ w[2] # Space
      /\ \A k \in DOMAIN w : w[k] = Angle <=> k = 1
  BY <1>2, SpellingAssumption
<1>. HIDE DEF w, n
<1>4. Len(w) \in Nat /\ 1 \in DOMAIN w /\ 2 \in DOMAIN w /\ 1 \in 1..Len(w) /\ 2 \in 1..Len(w)
  BY <1>3, DomainOfSequence
<1>5. /\ rest \in Seq(S) /\ Len(rest) = n - i + 1
      /\ \A k \in 1..(n - i + 1) : rest[k] = s[i + k - 1]
  <2>1. i \in Int /\ n \in Int /\ i <= n /\ \A k \in i..n : s[k] \in S
    BY <1>1
  <2>. HIDE DEF rest
  <2>. QED  BY <2>1, SubSeqProperties DEF rest
<1>. HIDE DEF rest
<1>6. 2 <= n - i + 1 /\ 1 \in 1..(n - i + 1) /\ 2 \in 1..(n - i + 1) /\ i + 1 - 1 = i
      /\ i + 2 - 1 = i + 1 /\ i \in 1..(n - 1) /\ i + 1 \in 1..n
  BY <1>1, <1>2, <1>4, <1>5
<1>7. rest[1] = s[i] /\ rest[2] = s[i + 1]
  BY <1>5, <1>6
<1>8. w[1] = rest[1] /\ w[2] = rest[2]
  <2>. DEFINE m == Len(w)  U == Items(w)
  <2>1. w \in Seq(U) /\ m \in Nat /\ m <= Len(rest)
    BY <1>2, <1>3, <1>4, SequenceOfElements
  <2>. HIDE DEF m, U
  <2>2. \A k \in 1..m : SubSeq(w, 1, m)[k] = w[1 + k - 1]
    <3>1. \A k \in 1..m : w[k] \in U
      BY <2>1, ElementOfSeq DEF m
    <3>2. m - 1 + 1 = m /\ 1 \in Int /\ m \in Int
      BY <2>1
    <3>. QED  BY <3>1, <3>2, SubSeqProperties
  <2>3. \A k \in 1..m : SubSeq(rest, 1, m)[k] = rest[1 + k - 1]
    <3>1. \A k \in 1..m : k \in 1..Len(rest)
      BY <1>1, <1>5, <2>1
    <3>2. \A k \in 1..m : rest[k] \in S
      BY <1>5, <3>1, ElementOfSeq
    <3>3. m - 1 + 1 = m /\ 1 \in Int /\ m \in Int
      BY <2>1
    <3>. QED  BY <3>2, <3>3, SubSeqProperties
  <2>4. SubSeq(w, 1, m) = SubSeq(rest, 1, m)
    BY <1>2 DEF m
  <2>5. 1 \in 1..m /\ 2 \in 1..m /\ \A k \in 1..m : 1 + k - 1 = k
    BY <1>4, <2>1 DEF m
  <2>6. \A k \in 1..m : w[k] = rest[k]
    BY <2>2, <2>3, <2>4, <2>5
  <2>. QED  BY <2>5, <2>6
<1>9. s[i] = Angle /\ s[i + 1] = w[2] /\ s[i + 1] # Space /\ s[i + 1] \in S
  BY <1>1, <1>3, <1>4, <1>6, <1>7, <1>8
<1>10. <<s[i], s[i + 1]>> \notin Loose(S)
  BY <1>6 DEF Avoids, n
<1>. QED  BY <1>9, <1>10, LooseMeans

LEMMA NoAngleSpellsNothing ==
  ASSUME NEW S, NEW s \in Seq(S), Angle \notin ToSet(s)
  PROVE  SpellsNothing(s)
<1>1. DOMAIN s = 1..Len(s) /\ Len(s) \in Nat
  BY LenProperties
<1>2. \A j \in 1..(Len(s) - 1) : j \in DOMAIN s
  BY <1>1
<1>3. \A j \in 1..(Len(s) - 1) : s[j] # Angle
  BY <1>2 DEF ToSet
<1>4. Avoids(s, Loose(S))
  BY <1>3, LooseMeans DEF Avoids
<1>. QED  BY <1>4, NoneLooseSpellsNothing

\* Behind every angle of a spaced text comes a space, whatever else is in it.
LEMMA SpacedIsNotLoose ==
  ASSUME NEW S, Space \in S, NEW text \in Seq(S)
  PROVE  Avoids(Spaced(text, {Angle}), Loose(S))
<1>. DEFINE g == Behind({Angle}, S)
            lists == [i \in 1..Len(text) |-> g[text[i]]]
<1>1. /\ ListsFor(g, S, S) /\ Spaced(text, {Angle}) = Each(g, text)
      /\ Len(text) \in Nat /\ \A i \in 1..Len(text) : text[i] \in S
  BY SpacedType, LenProperties, ElementOfSeq
<1>2. lists \in Seq(Seq(S))
  <2>. HIDE DEF g
  <2>. QED  BY <1>1, ListsOfEach
<1>3. Len(lists) = Len(text)
  BY <1>1, <1>2, LenProperties
<1>4. ASSUME NEW i \in 1..Len(text)
      PROVE  /\ lists[i] = IF text[i] = Angle THEN <<text[i], Space>> ELSE <<text[i]>>
             /\ text[i] \in S
  BY <1>1, <1>4 DEF Behind
<1>. HIDE DEF lists, g
<1>5. ASSUME NEW i \in 1..Len(text)
      PROVE  Avoids(lists[i], Loose(S)) /\ NextFits(lists, i, Loose(S), S)
  <2>1. CASE text[i] = Angle
    <3>1. lists[i] = <<Angle, Space>>
      BY <1>4, <2>1
    <3>2. Len(<<Angle, Space>>) = 2 /\ <<Angle, Space>>[1] = Angle /\ <<Angle, Space>>[2] = Space
      OBVIOUS
    <3>3. Avoids(<<Angle, Space>>, Loose(S))
      BY <3>2, LooseMeans DEF Avoids
    <3>4. \A y \in S : <<Space, y>> \notin Loose(S)
      <4>1. Space # Angle
        BY DEF Space, Angle
      <4>. QED  BY <4>1, LooseMeans
    <3>. QED  BY <3>1, <3>2, <3>3, <3>4 DEF NextFits, Fits
  <2>2. CASE text[i] # Angle
    <3>1. lists[i] = <<text[i]>> /\ Len(<<text[i]>>) = 1 /\ <<text[i]>>[1] = text[i]
      BY <1>4, <2>2
    <3>2. Avoids(<<text[i]>>, Loose(S))
      BY <3>1 DEF Avoids
    <3>3. \A y \in S : <<text[i], y>> \notin Loose(S)
      BY <2>2, LooseMeans
    <3>. QED  BY <3>1, <3>2, <3>3 DEF NextFits, Fits
  <2>. QED  BY <2>1, <2>2
<1>6. Avoids(FlattenSeq(lists), Loose(S))
  BY <1>2, <1>3, <1>5, FlattenAvoids
<1>. QED  BY <1>1, <1>6 DEF Each, lists

\* Normalizing again what is normalized and spaced brings no angle to another piece.
LEMMA SettledStaysNotLoose ==
  ASSUME NEW S, Closed(S), NEW s \in Seq(S \ DOMAIN Fold), s \in Seq(S), Avoids(s, Loose(S))
  PROVE  Avoids(Normalize(s), Loose(S))
<1>. DEFINE lists == [i \in 1..Len(s) |-> WrittenAt(s, i)]  n == Len(s)
<1>1. /\ Normalize(s) = FlattenSeq(lists) /\ lists \in Seq(Seq(S))
  BY NormalizeType
<1>2. /\ n \in Nat /\ Len(lists) = n
      /\ \A i \in 1..n : s[i] \in S /\ s[i] \notin DOMAIN Fold
  BY <1>1, LenProperties, ElementOfSeq
<1>3. \A i \in 1..n : lists[i] = WrittenAt(s, i)
  OBVIOUS
<1>. HIDE DEF lists, n
<1>4. ASSUME NEW i \in 1..n
      PROVE  \/ lists[i] = <<s[i]>> /\ ~Together(s, i) /\ ~Together(s, i - 1)
             \/ lists[i] \in Seq(S) /\ (\A k \in 1..Len(lists[i]) : lists[i][k] # Angle)
  <2>1. CASE Together(s, i)
    <3>. DEFINE both == <<s[i], s[i + 1]>>
    <3>1. both \in DOMAIN Joint /\ i + 1 \in 1..n
      BY <1>2, <2>1 DEF Together, n
    <3>2. both[1] \notin DOMAIN Fold /\ both[2] \notin DOMAIN Fold
      BY <1>2, <3>1
    <3>3. Angle \notin ToSet(Joint[both]) /\ IsSequence(Joint[both]) /\ Joint[both] \in Seq(S)
      <4>. HIDE DEF both
      <4>. QED  BY <3>1, <3>2, FoldingAssumption DEF Closed
    <3>4. lists[i] = Joint[both]
      BY <1>3, <2>1 DEF WrittenAt
    <3>5. \A k \in 1..Len(Joint[both]) : Joint[both][k] # Angle
      BY <3>3, ItemsAreRange DEF Items
    <3>. QED  BY <3>3, <3>4, <3>5
  <2>2. CASE ~Together(s, i) /\ Together(s, i - 1)
    <3>1. lists[i] = <<>> /\ Len(<<>>) = 0
      BY <1>3, <2>2, EmptySeq DEF WrittenAt
    <3>. QED  BY <3>1, EmptySeq
  <2>3. CASE ~Together(s, i) /\ ~Together(s, i - 1)
    BY <1>2, <1>3, <2>3 DEF WrittenAt, Folded
  <2>. QED  BY <2>1, <2>2, <2>3
<1>5. ASSUME NEW i \in 1..n, s[i] = Space PROVE lists[i] = <<Space>>
  <2>1. ~Together(s, i) /\ ~Together(s, i - 1)
    <3>1. \A both \in DOMAIN Joint : both[1] # Space /\ both[2] # Space
      BY FoldingAssumption
    <3>2. <<s[i], s[i + 1]>>[1] = Space /\ <<s[i - 1], s[i - 1 + 1]>>[2] = Space
      BY <1>2, <1>5
    <3>. QED  BY <3>1, <3>2 DEF Together
  <2>. QED  BY <1>2, <1>3, <1>5, <2>1 DEF WrittenAt, Folded
<1>6. ASSUME NEW i \in 1..n
      PROVE  Avoids(lists[i], Loose(S)) /\ NextFits(lists, i, Loose(S), S)
  <2>1. CASE lists[i] \in Seq(S) /\ (\A k \in 1..Len(lists[i]) : lists[i][k] # Angle)
    <3>. DEFINE w == lists[i]
    <3>1. Len(w) \in Nat /\ (w # <<>> => Len(w) \in 1..Len(w))
      BY <2>1, LenProperties, EmptySeq
    <3>2. \A k \in 1..(Len(w) - 1) : k \in 1..Len(w)
      BY <3>1
    <3>3. \A k \in 1..Len(w) : \A y : <<w[k], y>> \notin Loose(S)
      BY <2>1, LooseMeans
    <3>. HIDE DEF w
    <3>4. Avoids(w, Loose(S))
      BY <3>2, <3>3 DEF Avoids
    <3>5. w # <<>> => \A y \in S : <<w[Len(w)], y>> \notin Loose(S)
      BY <3>1, <3>3
    <3>. QED  BY <3>4, <3>5 DEF NextFits, Fits, w
  <2>2. CASE lists[i] = <<s[i]>> /\ ~Together(s, i) /\ ~Together(s, i - 1)
    <3>1. Len(<<s[i]>>) = 1 /\ <<s[i]>>[1] = s[i] /\ lists[i] = <<s[i]>>
      BY <2>2
    <3>2. Avoids(lists[i], Loose(S))
      BY <3>1 DEF Avoids
    <3>3. CASE s[i] # Angle
      <4>1. \A y \in S : <<s[i], y>> \notin Loose(S)
        BY <3>3, LooseMeans
      <4>. QED  BY <3>1, <3>2, <4>1 DEF NextFits, Fits
    <3>4. CASE s[i] = Angle /\ i # n
      <4>1. i \in 1..(n - 1) /\ i + 1 \in 1..n
        BY <1>2, <3>4
      <4>2. s[i + 1] = Space
        <5>1. <<s[i], s[i + 1]>> \notin Loose(S)
          BY <4>1 DEF Avoids, n
        <5>. QED  BY <1>2, <3>4, <4>1, <5>1, LooseMeans
      <4>3. lists[i + 1] = <<Space>> /\ <<Space>> # <<>> /\ <<Space>>[1] = Space
        BY <1>5, <4>1, <4>2
      <4>4. <<s[i], lists[i + 1][1]>> \notin Loose(S)
        BY <4>3, LooseMeans
      <4>. QED  BY <3>1, <3>2, <4>3, <4>4 DEF NextFits, Fits
    <3>5. CASE i = n
      BY <1>2, <3>2, <3>5 DEF NextFits
    <3>. QED  BY <3>3, <3>4, <3>5
  <2>. QED  BY <1>4, <2>1, <2>2
<1>7. Avoids(FlattenSeq(lists), Loose(S))
  BY <1>1, <1>2, <1>6, FlattenAvoids
<1>. QED  BY <1>1, <1>7

\* After the second escape no text spells a special token.
LEMMA EveryAngleSpellsNothing ==
  ASSUME NEW S, Closed(S), NEW text \in Seq(S)
  PROVE  SpellsNothing(Normalize(EscapeEveryAngle(text)))
<1>. DEFINE pieces == Normalize(text)  R == S \ DOMAIN Fold
<1>1. pieces \in Seq(S) /\ pieces \in Seq(R) /\ Space \in S /\ Space \in R
  <2>1. Space \notin DOMAIN Fold
    BY FoldingAssumption
  <2>. QED  BY <2>1, NormalizeType, NormalizeSettles DEF Closed
<1>. HIDE DEF pieces, R
<1>2. CASE Angle \notin ToSet(pieces)
  BY <1>1, <1>2, NoAngleSpellsNothing DEF EscapeEveryAngle, pieces
<1>3. CASE Angle \in ToSet(pieces)
  <2>. DEFINE s == Spaced(pieces, {Angle})
  <2>1. EscapeEveryAngle(text) = s
    BY <1>3 DEF EscapeEveryAngle, pieces
  <2>2. s \in Seq(S) /\ s \in Seq(R) /\ Avoids(s, Loose(S))
    BY <1>1, SpacedType, SpacedIsNotLoose
  <2>. HIDE DEF s
  <2>3. Avoids(Normalize(s), Loose(S)) /\ Normalize(s) \in Seq(S)
    BY <2>2, SettledStaysNotLoose, NormalizeType DEF R
  <2>. QED  BY <2>1, <2>3, NoneLooseSpellsNothing
<1>. QED  BY <1>2, <1>3

-----------------------------------------------------------------------------
(* What is read of a text that spells nothing                                *)

Drop(S) == [x \in S |-> IF x = Space THEN <<>> ELSE <<x>>]

LEMMA DropType ==
  ASSUME NEW S
  PROVE  ListsFor(Drop(S), S, S) /\ ListsFor(Drop(S), S, S \ {Space})
<1>. SUFFICES ASSUME NEW x \in S PROVE Drop(S)[x] \in Seq(S) /\ Drop(S)[x] \in Seq(S \ {Space})
  BY DEF ListsFor
<1>1. Drop(S)[x] = IF x = Space THEN <<>> ELSE <<x>>
  BY DEF Drop
<1>2. CASE x = Space
  BY <1>1, <1>2, EmptySeq
<1>3. CASE x # Space
  <2>1. x \in S \ {Space}
    BY <1>3
  <2>. QED  BY <1>1, <1>3, <2>1, SingletonType
<1>. QED  BY <1>2, <1>3

LEMMA DataIsDropped ==
  ASSUME NEW S, Closed(S), NEW text \in Seq(S)
  PROVE  /\ Data(text) = Each(Drop(S), Normalize(text))
         /\ Data(text) \in Seq(S)
<1>. DEFINE pieces == Normalize(text)
<1>1. /\ pieces \in Seq(S) /\ DOMAIN pieces = 1..Len(pieces)
      /\ \A i \in 1..Len(pieces) : pieces[i] \in S
  BY NormalizeType, LenProperties, ElementOfSeq
<1>. HIDE DEF pieces
<1>2. [i \in DOMAIN pieces |-> IF pieces[i] = Space THEN <<>> ELSE <<pieces[i]>>]
        = [i \in 1..Len(pieces) |-> Drop(S)[pieces[i]]]
  BY <1>1 DEF Drop
<1>3. Data(text) = Each(Drop(S), pieces)
  BY <1>2 DEF Data, Each, pieces
<1>4. Each(Drop(S), pieces) \in Seq(S)
  BY <1>1, DropType, ListsOfEach
<1>. QED  BY <1>3, <1>4 DEF pieces

LEMMA NothingSpelledIsData ==
  ASSUME NEW S, Closed(S), NEW text \in Seq(S), SpellsNothing(Normalize(text))
  PROVE  Tokenize(text) = Data(text)
<1>. DEFINE pieces == Normalize(text)
            Kept(i) == IF pieces[i] = Space THEN <<>> ELSE <<pieces[i]>>
<1>1. DOMAIN pieces = 1..Len(pieces) /\ Len(pieces) \in Nat
  BY NormalizeType, LenProperties
<1>2. \A i \in DOMAIN pieces : Spelled(pieces, i) = {}
  BY DEF SpellsNothing
<1>. HIDE DEF pieces
<1>3. ASSUME NEW i \in DOMAIN pieces PROVE TokenAt(pieces, i) = Kept(i)
  <2>1. \A j \in 1..(i - 1) : j \in DOMAIN pieces
    BY <1>1
  <2>2. ~Covered(pieces, i)
    BY <1>2, <2>1 DEF Covered
  <2>. QED  BY <1>2, <2>2 DEF TokenAt
<1>4. [i \in DOMAIN pieces |-> TokenAt(pieces, i)] = [i \in DOMAIN pieces |-> Kept(i)]
  BY <1>3
<1>5. Tokenize(text) = FlattenSeq([i \in DOMAIN pieces |-> TokenAt(pieces, i)])
  BY DEF Tokenize, pieces
<1>6. Data(text) = FlattenSeq([i \in DOMAIN pieces |-> Kept(i)])
  BY DEF Data, pieces
<1>. HIDE DEF Kept
<1>. QED  BY <1>4, <1>5, <1>6
-----------------------------------------------------------------------------
(* Texts in which nothing is folded together                                 *)

\* What is written for each piece by itself.
Single(S) == [x \in S |-> Folded(x)]

LEMMA ApartNormalize ==
  ASSUME NEW S, Closed(S), NEW text \in Seq(S), Avoids(text, DOMAIN Joint)
  PROVE  ListsFor(Single(S), S, S) /\ Normalize(text) = Each(Single(S), text)
<1>1. ASSUME NEW x \in S PROVE Single(S)[x] \in Seq(S) /\ Single(S)[x] = Folded(x)
  BY FoldedType DEF Single
<1>2. Len(text) \in Nat /\ \A i \in 1..Len(text) : text[i] \in S
  BY LenProperties, ElementOfSeq
<1>3. ASSUME NEW i \in 1..Len(text) PROVE WrittenAt(text, i) = Single(S)[text[i]]
  <2>1. ~Together(text, i)
    BY DEF Together, Avoids
  <2>2. ~Together(text, i - 1)
    BY DEF Together, Avoids
  <2>. QED  BY <1>1, <1>2, <2>1, <2>2 DEF WrittenAt
<1>4. [i \in 1..Len(text) |-> WrittenAt(text, i)] = [i \in 1..Len(text) |-> Single(S)[text[i]]]
  BY <1>3
<1>. QED  BY <1>1, <1>4, NormalizeType DEF Each, ListsFor

\* A space is no part of a pair, so the escape brings none together.
LEMMA SpacedIsApart ==
  ASSUME NEW S, Closed(S), NEW text \in Seq(S), Avoids(text, DOMAIN Joint), NEW A
  PROVE  Avoids(Spaced(text, A), DOMAIN Joint)
<1>. DEFINE g == Behind(A, S)  B == DOMAIN Joint
            lists == [i \in 1..Len(text) |-> g[text[i]]]
<1>0. Space \in S
  BY DEF Closed
<1>1. /\ ListsFor(g, S, S) /\ Spaced(text, A) = Each(g, text)
      /\ Len(text) \in Nat /\ \A i \in 1..Len(text) : text[i] \in S
  BY <1>0, SpacedType, LenProperties, ElementOfSeq
<1>2. lists \in Seq(Seq(S))
  <2>. HIDE DEF g
  <2>. QED  BY <1>1, ListsOfEach
<1>3. Len(lists) = Len(text)
  BY <1>1, <1>2, LenProperties
<1>4. ASSUME NEW i \in 1..Len(text)
      PROVE  /\ lists[i] = IF text[i] \in A THEN <<text[i], Space>> ELSE <<text[i]>>
             /\ lists[i] # <<>> /\ lists[i][1] = text[i]
  BY <1>1, <1>4 DEF Behind
<1>5. \A x : <<Space, x>> \notin B /\ <<x, Space>> \notin B
  <2>1. \A both \in B : both[1] # Space /\ both[2] # Space
    BY FoldingAssumption
  <2>2. \A x : <<Space, x>>[1] = Space /\ <<x, Space>>[2] = Space
    OBVIOUS
  <2>. QED  BY <2>1, <2>2
<1>. HIDE DEF lists, g, B
<1>6. ASSUME NEW i \in 1..Len(text)
      PROVE  Avoids(lists[i], B) /\ NextFits(lists, i, B, S)
  <2>1. CASE text[i] \in A
    <3>1. lists[i] = <<text[i], Space>>
      BY <1>4, <2>1
    <3>2. Len(<<text[i], Space>>) = 2 /\ <<text[i], Space>>[1] = text[i]
          /\ <<text[i], Space>>[2] = Space
      OBVIOUS
    <3>3. \A j \in 1..(2 - 1) : j = 1 /\ j + 1 = 2
      OBVIOUS
    <3>4. Avoids(<<text[i], Space>>, B)
      <4>. DEFINE w == <<text[i], Space>>
      <4>1. \A j \in 1..(Len(w) - 1) : w[j + 1] = Space
        BY <3>2, <3>3
      <4>. HIDE DEF w
      <4>2. ASSUME NEW j \in 1..(Len(w) - 1) PROVE <<w[j], w[j + 1]>> \notin B
        <5>1. w[j + 1] = Space /\ <<w[j], Space>> \notin B
          BY <4>1, <1>5
        <5>. QED  BY <5>1
      <4>3. Avoids(w, B)
        BY <4>2 DEF Avoids
      <4>. QED  BY <4>3 DEF w
    <3>. QED  BY <3>1, <3>2, <3>4, <1>5 DEF NextFits, Fits
  <2>2. CASE text[i] \notin A
    <3>1. lists[i] = <<text[i]>> /\ Len(<<text[i]>>) = 1 /\ <<text[i]>>[1] = text[i]
      BY <1>4, <2>2
    <3>2. Avoids(<<text[i]>>, B)
      BY <3>1 DEF Avoids
    <3>3. ASSUME i # Len(lists) PROVE Fits(text[i], lists[i + 1], B, S)
      <4>1. i \in 1..(Len(text) - 1) /\ i + 1 \in 1..Len(text)
        BY <1>1, <1>3, <3>3
      <4>2. <<text[i], text[i + 1]>> \notin B
        BY <4>1 DEF Avoids, B
      <4>. QED  BY <1>4, <4>1, <4>2 DEF Fits
    <3>. QED  BY <3>1, <3>2, <3>3 DEF NextFits
  <2>. QED  BY <2>1, <2>2
<1>7. Avoids(FlattenSeq(lists), B)
  BY <1>2, <1>3, <1>6, FlattenAvoids
<1>. QED  BY <1>1, <1>7 DEF Each, lists, B

\* What is read does not change when spaces are put into it.
LEMMA SpacedReadsTheSame ==
  ASSUME NEW S, Closed(S), NEW text \in Seq(S), Avoids(text, DOMAIN Joint), NEW A
  PROVE  Data(Spaced(text, A)) = Data(text)
<1>. DEFINE g == Single(S)  b == Behind(A, S)  d == Drop(S)  t == Spaced(text, A)
            k == [x \in S |-> Each(d, g[x])]
            m == [x \in S |-> Each(g, b[x])]
<1>0. Space \in S
  BY DEF Closed
<1>1. /\ ListsFor(g, S, S) /\ Normalize(text) = Each(g, text)
      /\ ListsFor(b, S, S) /\ t = Each(b, text) /\ t \in Seq(S) /\ ListsFor(d, S, S)
  BY <1>0, ApartNormalize, SpacedType, DropType
<1>2. Avoids(t, DOMAIN Joint)
  BY SpacedIsApart
<1>. HIDE DEF t
<1>3. Normalize(t) = Each(g, t)
  BY <1>1, <1>2, ApartNormalize
<1>4. Data(t) = Each(d, Normalize(t)) /\ Data(text) = Each(d, Normalize(text))
  BY <1>1, DataIsDropped
<1>5. ASSUME NEW x \in S
      PROVE  /\ g[x] \in Seq(S) /\ b[x] \in Seq(S)
             /\ m[x] \in Seq(S) /\ k[x] \in Seq(S) /\ k[x] = Each(d, g[x]) /\ m[x] = Each(g, b[x])
  <2>1. g[x] \in Seq(S) /\ b[x] \in Seq(S)
    BY <1>1 DEF ListsFor
  <2>2. k[x] = Each(d, g[x]) /\ m[x] = Each(g, b[x])
    OBVIOUS
  <2>. HIDE DEF k, m, g, b, d
  <2>3. Each(d, g[x]) \in Seq(S) /\ Each(g, b[x]) \in Seq(S)
    BY <1>1, <2>1, ListsOfEach
  <2>. QED  BY <2>1, <2>2, <2>3
<1>6. g[Space] = <<Space>> /\ d[Space] = <<>>
  BY <1>0, FoldingAssumption DEF Single, Folded, Drop
<1>7. ASSUME NEW x \in S PROVE b[x] = IF x \in A THEN <<x, Space>> ELSE <<x>>
  BY DEF Behind
<1>. HIDE DEF g, b, d, k, m
<1>8. ASSUME NEW x \in S PROVE Each(d, m[x]) = k[x]
  <2>1. Each(g, <<x>>) = g[x] /\ Each(g, <<Space>>) = <<Space>> /\ Each(d, <<Space>>) = <<>>
    BY <1>0, <1>1, <1>6, EachOfOne
  <2>2. CASE x \notin A
    BY <1>5, <1>7, <2>1, <2>2
  <2>3. CASE x \in A
    <3>. DEFINE u == <<x>>  v == <<Space>>
    <3>1. <<x, Space>> = u \o v /\ u \in Seq(S) /\ v \in Seq(S) /\ g[x] \in Seq(S)
      BY <1>0, <1>5
    <3>2. Each(g, u) = g[x] /\ Each(g, v) = v /\ Each(d, v) = <<>>
      BY <2>1
    <3>. HIDE DEF u, v
    <3>3. Each(g, u \o v) = g[x] \o v
      <4>1. ListsFor(g, S, S)
        BY <1>1
      <4>2. Each(g, u \o v) = Each(g, u) \o Each(g, v)
        BY ONLY <3>1, <4>1, EachOfBoth
      <4>. QED  BY <3>2, <4>2
    <3>4. Each(d, g[x] \o v) = Each(d, g[x]) \o <<>>
      <4>1. ListsFor(d, S, S)
        BY <1>1
      <4>. DEFINE w == g[x]
      <4>2. w \in Seq(S) /\ v \in Seq(S)
        BY <3>1
      <4>. HIDE DEF w
      <4>3. Each(d, w \o v) = Each(d, w) \o Each(d, v)
        BY ONLY <4>1, <4>2, EachOfBoth
      <4>. QED  BY <3>2, <4>3 DEF w
    <3>5. b[x] = u \o v
      BY <1>7, <2>3, <3>1
    <3>6. Each(d, m[x]) = k[x] \o <<>>
      BY <1>5, <3>3, <3>4, <3>5
    <3>. QED  BY <3>6, <1>5, EmptySeq
  <2>. QED  BY <2>2, <2>3
<1>9. ListsFor(k, S, S) /\ ListsFor(m, S, S)
  BY <1>5 DEF ListsFor
<1>10. \A i \in 1..Len(text) : text[i] \in S
  BY ElementOfSeq
<1>11. Each(d, Each(g, text)) = Each(k, text)
  BY <1>1, <1>5, <1>9, <1>10, EachOfEach
<1>12. Each(g, Each(b, text)) = Each(m, text)
  BY <1>1, <1>5, <1>9, <1>10, EachOfEach
<1>13. Each(d, Each(m, text)) = Each(k, text)
  BY <1>1, <1>8, <1>9, <1>10, EachOfEach
<1>. QED  BY <1>1, <1>3, <1>4, <1>11, <1>12, <1>13 DEF t

\* What the normalizer wrote it reads the same, unless two of the pieces are folded together.
LEMMA NormalizedReadsTheSame ==
  ASSUME NEW S, Closed(S), NEW text \in Seq(S), Avoids(Normalize(text), DOMAIN Joint)
  PROVE  Data(Normalize(text)) = Data(text)
<1>. DEFINE s == Normalize(text)  g == Single(S)  d == Drop(S)
<1>1. s \in Seq(S) /\ s \in Seq(S \ DOMAIN Fold)
  BY NormalizeType, NormalizeSettles
<1>2. /\ Data(text) = Each(d, s) /\ Data(s) = Each(d, Normalize(s))
      /\ ListsFor(g, S, S) /\ ListsFor(d, S, S) /\ Normalize(s) = Each(g, s)
  BY <1>1, DataIsDropped, ApartNormalize, DropType
<1>3. ASSUME NEW i \in 1..Len(s) PROVE s[i] \in S /\ g[s[i]] = <<s[i]>>
  <2>1. s[i] \in S \ DOMAIN Fold
    BY <1>1, ElementOfSeq
  <2>. QED  BY <2>1 DEF Single, Folded
<1>. HIDE DEF s, g, d
<1>4. ASSUME NEW i \in 1..Len(s) PROVE d[s[i]] = Each(d, g[s[i]])
  <2>1. Each(d, <<s[i]>>) = d[s[i]]
    BY <1>2, <1>3, EachOfOne
  <2>. QED  BY <1>3, <2>1
<1>5. Each(d, Each(g, s)) = Each(d, s)
  BY <1>1, <1>2, <1>4, EachOfEach
<1>. QED  BY <1>2, <1>5 DEF s
-----------------------------------------------------------------------------
(* What the escapes leave of a text                                          *)

LEMMA ComposedMeans ==
  ASSUME NEW S, Closed(S), NEW text \in Seq(S), ~Composed(text)
  PROVE  Avoids(text, DOMAIN Joint) /\ Avoids(Normalize(text), DOMAIN Joint)
<1>1. ASSUME NEW s \in Seq(S), \A i \in DOMAIN s : ~Together(s, i)
      PROVE  Avoids(s, DOMAIN Joint)
  <2>1. DOMAIN s = 1..Len(s) /\ Len(s) \in Nat
    BY LenProperties
  <2>2. \A i \in 1..(Len(s) - 1) : i \in DOMAIN s
    BY <2>1
  <2>. QED  BY <1>1, <2>2 DEF Together, Avoids
<1>2. Normalize(text) \in Seq(S)
  BY NormalizeType
<1>. QED  BY <1>1, <1>2 DEF Composed

LEMMA PairIsJoined ==
  ASSUME NEW y, NEW z
  PROVE  <<y>> \o <<z>> = <<y, z>>
<1>. DEFINE S == {y, z}
            a == <<y>>  b == <<z>>  c == <<y, z>>
<1>1. /\ a \in Seq(S) /\ b \in Seq(S) /\ c \in Seq(S) /\ Len(a) = 1 /\ Len(b) = 1 /\ Len(c) = 2
      /\ a[1] = y /\ b[1] = z /\ c[1] = y /\ c[2] = z
  OBVIOUS
<1>. HIDE DEF a, b, c
<1>2. a \o b \in Seq(S) /\ Len(a \o b) = 2 /\ (a \o b)[1] = y /\ (a \o b)[2] = z
  BY <1>1, ConcatProperties
<1>3. \A i \in 1..2 : i = 1 \/ i = 2
  OBVIOUS
<1>4. a \o b = c
  BY <1>1, <1>2, <1>3, SeqEqual
<1>. QED  BY <1>4 DEF a, b, c

LEMMA SpaceIsNoAngle == Space # Angle
BY DEF Space, Angle

\* A piece that gives an angle gives nothing else.
LEMMA AngleIsAlone ==
  ASSUME NEW S, Closed(S), NEW x \in S
  PROVE  /\ Folded(x) \in Seq(S)
         /\ Angle \in ToSet(Normalize(<<x>>)) => Folded(x) = <<Angle>>
         /\ Angle \notin ToSet(Normalize(<<x>>)) =>
              \A k \in 1..Len(Folded(x)) : Folded(x)[k] # Angle
<1>1. Folded(x) \in Seq(S) /\ <<x>> \in Seq(S) /\ Len(<<x>>) = 1 /\ IsSequence(Folded(x))
  BY FoldedType, SingletonType, SequenceHasForm
<1>2. Avoids(<<x>>, DOMAIN Joint)
  BY <1>1 DEF Avoids
<1>3. Normalize(<<x>>) = Each(Single(S), <<x>>) /\ ListsFor(Single(S), S, S)
  BY <1>1, <1>2, ApartNormalize
<1>4. Normalize(<<x>>) = Folded(x)
  <2>1. Each(Single(S), <<x>>) = Single(S)[x]
    BY <1>3, EachOfOne
  <2>. QED  BY <1>3, <2>1 DEF Single
<1>5. ToSet(Folded(x)) = Items(Folded(x))
  BY <1>1, ItemsAreRange
<1>6. Angle \in ToSet(Folded(x)) => Folded(x) = <<Angle>>
  <2>1. CASE x \in DOMAIN Fold
    BY <2>1, FoldingAssumption DEF Folded
  <2>2. CASE x \notin DOMAIN Fold
    BY <1>5, <2>2 DEF Folded, Items
  <2>. QED  BY <2>1, <2>2
<1>. QED  BY <1>1, <1>4, <1>5, <1>6 DEF Items

\* After the first escape a text whose pieces stay apart spells no special token.
LEMMA ReservedSpellsNothing ==
  ASSUME NEW S, Closed(S), NEW text \in Seq(S), Avoids(text, DOMAIN Joint)
  PROVE  SpellsNothing(Normalize(EscapeReserved(text)))
<1>1. CASE SpellsNothing(Normalize(text))
  BY <1>1 DEF EscapeReserved
<1>2. CASE ~SpellsNothing(Normalize(text))
  <2>. DEFINE A == {piece \in ToSet(text) : Angle \in ToSet(Normalize(<<piece>>))}
              g == Single(S)  b == Behind(A, S)  t == Spaced(text, A)
              m == [x \in S |-> Each(g, b[x])]
              lists == [i \in 1..Len(text) |-> m[text[i]]]
  <2>1. Space \in S /\ Space # Angle /\ Space \notin DOMAIN Fold
    BY FoldingAssumption, SpaceIsNoAngle DEF Closed
  <2>2. EscapeReserved(text) = t
    BY <1>2 DEF EscapeReserved
  <2>3. DOMAIN text = 1..Len(text) /\ Len(text) \in Nat /\ \A i \in 1..Len(text) : text[i] \in S
    BY LenProperties, ElementOfSeq
  <2>4. ASSUME NEW i \in 1..Len(text)
        PROVE  text[i] \in A <=> Angle \in ToSet(Normalize(<<text[i]>>))
    BY <2>3 DEF ToSet
  <2>5. \A x \in S : b[x] = IF x \in A THEN <<x, Space>> ELSE <<x>>
    BY DEF Behind
  <2>. HIDE DEF A
  <2>6. ListsFor(b, S, S) /\ t = Each(b, text) /\ t \in Seq(S) /\ Avoids(t, DOMAIN Joint)
    BY <2>1, SpacedType, SpacedIsApart
  <2>. HIDE DEF t
  <2>7. ListsFor(g, S, S) /\ Normalize(t) = Each(g, t) /\ Normalize(t) \in Seq(S)
    BY <2>6, ApartNormalize, NormalizeType
  <2>8. ASSUME NEW x \in S
        PROVE  /\ b[x] \in Seq(S) /\ m[x] \in Seq(S) /\ m[x] = Each(g, b[x])
               /\ g[x] = Folded(x) /\ g[x] \in Seq(S)
    <3>1. b[x] \in Seq(S) /\ m[x] = Each(g, b[x])
      BY <2>6 DEF ListsFor
    <3>2. g[x] = Folded(x) /\ Folded(x) \in Seq(S)
      BY FoldedType DEF Single
    <3>. HIDE DEF b, g, m
    <3>3. Each(g, b[x]) \in Seq(S)
      BY <2>7, <3>1, ListsOfEach
    <3>. QED  BY <3>1, <3>2, <3>3
  <2>9. lists = [i \in 1..Len(text) |-> m[text[i]]]
    OBVIOUS
  <2>. HIDE DEF b, g, m
  <2>10. ListsFor(m, S, S)
    BY <2>8 DEF ListsFor
  <2>11. Normalize(t) = Each(m, text)
    BY <2>3, <2>6, <2>7, <2>8, <2>10, EachOfEach
  <2>12. lists \in Seq(Seq(S)) /\ Len(lists) = Len(text)
    BY <2>3, <2>10, ListsOfEach, LenProperties
  <2>13. ASSUME NEW i \in 1..Len(text) PROVE lists[i] = m[text[i]]
    OBVIOUS
  <2>14. Normalize(t) = FlattenSeq(lists)
    BY <2>11 DEF Each
  <2>. HIDE DEF lists
  <2>15. ASSUME NEW i \in 1..Len(text)
         PROVE  Avoids(lists[i], Loose(S)) /\ NextFits(lists, i, Loose(S), S)
    <3>. DEFINE x == text[i]
    <3>1. x \in S /\ lists[i] = Each(g, b[x]) /\ lists[i] \in Seq(S)
      BY <2>3, <2>8, <2>13
    <3>2. x \in A <=> Angle \in ToSet(Normalize(<<x>>))
      BY <2>4
    <3>. HIDE DEF x
    <3>3. CASE x \in A
      <4>. DEFINE u == <<x>>  v == <<Space>>  w == <<Angle>>
      <4>1. b[x] = u \o v /\ u \in Seq(S) /\ v \in Seq(S)
        <5>1. b[x] = <<x, Space>>
          BY <3>1, <3>3, <2>5
        <5>2. <<x, Space>> = u \o v
          OBVIOUS
        <5>3. u \in Seq(S) /\ v \in Seq(S)
          BY <3>1, <2>1
        <5>. QED  BY <5>1, <5>2, <5>3
      <4>2. g[x] = w
        BY <3>1, <3>2, <3>3, <2>8, AngleIsAlone
      <4>3. Each(g, u) = w /\ Each(g, v) = v
        <5>1. g[Space] = v
          BY <2>1, <2>8 DEF Folded
        <5>2. Each(g, <<x>>) = g[x] /\ Each(g, <<Space>>) = g[Space]
          BY <2>1, <2>7, <3>1, EachOfOne
        <5>. QED  BY <4>2, <5>1, <5>2
      <4>. HIDE DEF u, v
      <4>4. Each(g, u \o v) = Each(g, u) \o Each(g, v)
        <5>1. ListsFor(g, S, S) /\ u \in Seq(S) /\ v \in Seq(S)
          BY <2>7, <4>1
        <5>. QED  BY ONLY <5>1, EachOfBoth
      <4>5. lists[i] = <<Angle, Space>>
        <5>1. lists[i] = w \o v
          BY <3>1, <4>1, <4>3, <4>4
        <5>2. <<Angle>> \o <<Space>> = <<Angle, Space>>
          BY PairIsJoined
        <5>. QED  BY <5>1, <5>2 DEF v
      <4>. DEFINE both == <<Angle, Space>>
      <4>6. Len(both) = 2 /\ both[1] = Angle /\ both[2] = Space
        OBVIOUS
      <4>7. \A j \in 1..(2 - 1) : j = 1 /\ j + 1 = 2
        OBVIOUS
      <4>. HIDE DEF both
      <4>8. Avoids(both, Loose(S))
        BY <4>6, <4>7, LooseMeans DEF Avoids
      <4>9. \A y \in S : <<Space, y>> \notin Loose(S)
        BY <2>1, LooseMeans
      <4>. QED  BY <4>5, <4>6, <4>8, <4>9 DEF NextFits, Fits, both
    <3>4. CASE x \notin A
      <4>1. lists[i] = g[x]
        <5>1. b[x] = <<x>>
          BY <3>1, <3>4, <2>5
        <5>2. Each(g, <<x>>) = g[x]
          BY <2>7, <3>1, EachOfOne
        <5>. QED  BY <3>1, <5>1, <5>2
      <4>2. \A k \in 1..Len(lists[i]) : lists[i][k] # Angle
        BY <3>1, <3>2, <3>4, <4>1, <2>8, AngleIsAlone
      <4>. DEFINE w == lists[i]
      <4>3. Len(w) \in Nat /\ (w # <<>> => Len(w) \in 1..Len(w))
        BY <3>1, LenProperties, EmptySeq
      <4>4. \A k \in 1..(Len(w) - 1) : k \in 1..Len(w)
        BY <4>3
      <4>5. \A k \in 1..Len(w) : \A y : <<w[k], y>> \notin Loose(S)
        BY <4>2, LooseMeans
      <4>. HIDE DEF w
      <4>6. Avoids(w, Loose(S))
        BY <4>4, <4>5 DEF Avoids
      <4>7. w # <<>> => \A y \in S : <<w[Len(w)], y>> \notin Loose(S)
        BY <4>3, <4>5
      <4>. QED  BY <4>6, <4>7 DEF NextFits, Fits, w
    <3>. QED  BY <3>3, <3>4
  <2>16. Avoids(FlattenSeq(lists), Loose(S))
    BY <2>12, <2>15, FlattenAvoids
  <2>. QED  BY <2>2, <2>7, <2>14, <2>16, NoneLooseSpellsNothing
<1>. QED  BY <1>1, <1>2

\* Whatever its pieces, the tokens of a text are what its writer wrote: after either escape
\* when nothing in it is folded together, and when there is no angle in it.
LEMMA EscapesReadTheText ==
  ASSUME NEW S, Closed(S), NEW text \in Seq(S),
         ~(Composed(text) /\ Angle \in ToSet(Normalize(text)))
  PROVE  /\ Tokenize(EscapeReserved(text)) = Data(text)
         /\ Tokenize(EscapeEveryAngle(text)) = Data(text)
<1>. DEFINE s == Normalize(text)
<1>1. s \in Seq(S) /\ EscapeReserved(text) \in Seq(S) /\ EscapeEveryAngle(text) \in Seq(S)
      /\ Space \in S
  BY NormalizeType, EscapesType DEF Closed
<1>2. CASE Angle \notin ToSet(s)
  <2>1. SpellsNothing(s)
    BY <1>1, <1>2, NoAngleSpellsNothing
  <2>2. EscapeReserved(text) = text /\ EscapeEveryAngle(text) = text
    BY <1>2, <2>1 DEF EscapeReserved, EscapeEveryAngle
  <2>. QED  BY <2>1, <2>2, NothingSpelledIsData
<1>3. CASE ~Composed(text)
  <2>1. Avoids(text, DOMAIN Joint) /\ Avoids(s, DOMAIN Joint)
    BY <1>3, ComposedMeans
  <2>2. Tokenize(EscapeReserved(text)) = Data(EscapeReserved(text))
    BY <1>1, <2>1, ReservedSpellsNothing, NothingSpelledIsData
  <2>3. Data(EscapeReserved(text)) = Data(text)
    BY <2>1, SpacedReadsTheSame DEF EscapeReserved
  <2>4. Tokenize(EscapeEveryAngle(text)) = Data(EscapeEveryAngle(text))
    BY <1>1, EveryAngleSpellsNothing, NothingSpelledIsData
  <2>5. Data(Spaced(s, {Angle})) = Data(s) /\ Data(s) = Data(text)
    BY <1>1, <2>1, SpacedReadsTheSame, NormalizedReadsTheSame
  <2>6. Data(EscapeEveryAngle(text)) = Data(text)
    BY <2>5 DEF EscapeEveryAngle
  <2>. QED  BY <2>2, <2>3, <2>4, <2>6
<1>. QED  BY <1>2, <1>3
-----------------------------------------------------------------------------
(* No text fails to encode, and none writes a control token                  *)

\* A pair of texts that name no token, as the request brings it.
PlainPair(pair, S) ==
  /\ Closed(S) /\ S \cap DOMAIN Spelling = {}
  /\ pair.premise \in Seq(S) /\ pair.hypothesis \in Seq(S)

LEMMA PlainSecondTry ==
  ASSUME NEW S, Closed(S), S \cap DOMAIN Spelling = {}, NEW text \in Seq(S)
  PROVE  LET tokens == Tokenize(EscapeEveryAngle(text)) IN
         IsSequence(tokens) /\ \A i \in 1..Len(tokens) : tokens[i] \notin Control
<1>. DEFINE t == EscapeEveryAngle(text)
<1>1. t \in Seq(S) /\ SpellsNothing(Normalize(t))
  BY EscapesType, EveryAngleSpellsNothing
<1>. HIDE DEF t
<1>2. Tokenize(t) = Data(t) /\ Data(t) \in Seq(S)
  BY <1>1, NothingSpelledIsData, DataIsDropped
<1>3. Control \subseteq DOMAIN Spelling
  BY DEF Control
<1>4. \A i \in 1..Len(Data(t)) : Data(t)[i] \in S
  BY <1>2, ElementOfSeq
<1>5. \A i \in 1..Len(Tokenize(t)) : Tokenize(t)[i] \notin Control
  BY <1>2, <1>3, <1>4
<1>. QED  BY <1>2, <1>5, SequenceHasForm DEF t

(* The second escape of count_and_encode() always succeeds: whatever a text is made of, there
   is no pair that ends in the ValueError of a control token out of place. *)
THEOREM EveryPairIsEncoded ==
  ASSUME NEW S, NEW pair, PlainPair(pair, S)
  PROVE  Encode(pair) # NotEncoded
<1>. DEFINE p == Tokenize(EscapeReserved(pair.premise))
            h == Tokenize(EscapeReserved(pair.hypothesis))
            p2 == Tokenize(EscapeEveryAngle(pair.premise))
            h2 == Tokenize(EscapeEveryAngle(pair.hypothesis))
<1>1. /\ IsSequence(p2) /\ \A i \in 1..Len(p2) : p2[i] \notin Control
      /\ IsSequence(h2) /\ \A i \in 1..Len(h2) : h2[i] \notin Control
  BY PlainSecondTry DEF PlainPair
<1>2. IsSequence(pair.premise) /\ IsSequence(pair.hypothesis)
  BY SequenceHasForm DEF PlainPair
<1>3. IsSequence(p) /\ IsSequence(h)
  BY <1>2, TriesType
<1>4. Encode(pair) = IF Misplaced(Assemble(p, h), Len(p))
                     THEN (IF Misplaced(Assemble(p2, h2), Len(p2)) THEN NotEncoded
                           ELSE Assemble(p2, h2))
                     ELSE Assemble(p, h)
  BY DEF Encode, Reencode
<1>. HIDE DEF p, h, p2, h2
<1>5. IsSequence(p2) /\ IsSequence(h2)
  BY <1>1
<1>6. ~Misplaced(Assemble(p2, h2), Len(p2))
  BY <1>1, <1>5, MisplacedMissesNothing
<1>7. Len(Assemble(p, h)) = Len(p) + Len(h) + 4 /\ Len(p) \in Nat /\ Len(h) \in Nat
  BY <1>3, AssembleLayout
<1>8. Len(Assemble(p2, h2)) = Len(p2) + Len(h2) + 4 /\ Len(p2) \in Nat /\ Len(h2) \in Nat
  BY <1>5, AssembleLayout
<1>9. Assemble(p, h) # <<>> /\ Assemble(p2, h2) # <<>>
  <2>1. Len(<<>>) = 0
    BY EmptyIsSequence
  <2>2. Len(Assemble(p, h)) # 0 /\ Len(Assemble(p2, h2)) # 0
    BY <1>7, <1>8
  <2>. QED  BY <2>1, <2>2
<1>. QED  BY <1>4, <1>6, <1>9 DEF NotEncoded

\* A pair that is encoded is the four control tokens around what is read in its texts.
LEMMA EncodedReads ==
  ASSUME NEW S, Closed(S), NEW pair, pair.premise \in Seq(S), pair.hypothesis \in Seq(S),
         Encode(pair) # NotEncoded
  PROVE  \E n \in 0..(Len(Encode(pair)) - 4) :
           LET ids == Encode(pair)
               premise == SubSeq(ids, 2, n + 1)
               hypothesis == SubSeq(ids, n + 4, Len(ids) - 1)
           IN /\ ids = Assemble(premise, hypothesis)
              /\ Reads(premise, pair.premise) /\ Reads(hypothesis, pair.hypothesis)
<1>. DEFINE p == Tokenize(EscapeReserved(pair.premise))
            h == Tokenize(EscapeReserved(pair.hypothesis))
            p2 == Tokenize(EscapeEveryAngle(pair.premise))
            h2 == Tokenize(EscapeEveryAngle(pair.hypothesis))
<1>1. /\ IsSequence(pair.premise) /\ IsSequence(pair.hypothesis)
  BY SequenceHasForm
<1>2. IsSequence(p) /\ IsSequence(h) /\ IsSequence(p2) /\ IsSequence(h2)
  BY <1>1, TriesType
<1>3. Encode(pair) = IF Misplaced(Assemble(p, h), Len(p))
                     THEN (IF Misplaced(Assemble(p2, h2), Len(p2)) THEN NotEncoded
                           ELSE Assemble(p2, h2))
                     ELSE Assemble(p, h)
  BY DEF Encode, Reencode
<1>4. /\ ~(Composed(pair.premise) /\ Angle \in ToSet(Normalize(pair.premise)))
           => p = Data(pair.premise) /\ p2 = Data(pair.premise)
      /\ ~(Composed(pair.hypothesis) /\ Angle \in ToSet(Normalize(pair.hypothesis)))
           => h = Data(pair.hypothesis) /\ h2 = Data(pair.hypothesis)
  BY EscapesReadTheText
<1>. HIDE DEF p, h, p2, h2
<1>5. \/ Encode(pair) = Assemble(p, h) /\ ~Misplaced(Assemble(p, h), Len(p))
      \/ Encode(pair) = Assemble(p2, h2) /\ ~Misplaced(Assemble(p2, h2), Len(p2))
  BY <1>3
<1>6. PICK a \in {p, p2}, b \in {h, h2} :
        Encode(pair) = Assemble(a, b) /\ ~Misplaced(Assemble(a, b), Len(a))
  BY <1>5
<1>7. IsSequence(a) /\ IsSequence(b)
  BY <1>2, <1>6
<1>8. /\ \A i \in 1..Len(a) : a[i] \notin Control
      /\ \A i \in 1..Len(b) : b[i] \notin Control
  BY <1>6, <1>7, MisplacedMissesNothing
<1>9. ToSet(a) \cap Control = {} /\ ToSet(b) \cap Control = {}
  BY <1>7, <1>8, ItemsAreRange DEF Items
<1>10. Reads(a, pair.premise) /\ Reads(b, pair.hypothesis)
  BY <1>4, <1>6, <1>9 DEF Reads
<1>11. LET ids == Assemble(a, b) IN
       /\ SubSeq(ids, 2, Len(a) + 1) = a
       /\ SubSeq(ids, Len(a) + 4, Len(ids) - 1) = b
       /\ Len(a) \in 0..(Len(ids) - 4)
  BY <1>7, AssembleParts
<1>. QED  BY <1>6, <1>10, <1>11
=============================================================================
