------------------------- MODULE RequestPathProofs -------------------------
(***************************************************************************)
(* Theorems about a request on its way from the bytes to the model, for    *)
(* every set of requests and configurations, every tokenizer and every     *)
(* limit: what is validated can be asked, what is asked is within every    *)
(* budget, and each value comes back to its option.                        *)
(***************************************************************************)
EXTENDS RequestPath, SerializerProofs

-----------------------------------------------------------------------------
(* The order of the options                                                  *)

Written == Seq(DOMAIN Point)

\* Two texts agree on their first n pieces.
Agree(s, t, n) == n <= Len(s) /\ n <= Len(t) /\ \A i \in 1..n : s[i] = t[i]

LEMMA AgreeMeaning ==
  ASSUME NEW s \in Written, NEW t \in Written, NEW n \in Nat, n <= Len(s), n <= Len(t)
  PROVE  SubSeq(s, 1, n) = SubSeq(t, 1, n) <=> \A i \in 1..n : s[i] = t[i]
<1>. DEFINE Pieces == DOMAIN Point  u == SubSeq(s, 1, n)  v == SubSeq(t, 1, n)
<1>1. /\ \A i \in 1..n : s[i] \in Pieces
      /\ \A i \in 1..n : t[i] \in Pieces
  BY ElementOfSeq, LenProperties DEF Written
<1>2. /\ u \in Seq(Pieces) /\ Len(u) = IF 1 <= n THEN n - 1 + 1 ELSE 0
      /\ \A i \in 1..(n - 1 + 1) : u[i] = s[1 + i - 1]
  <2>. HIDE DEF Pieces
  <2>. QED  BY <1>1, SubSeqProperties
<1>3. /\ v \in Seq(Pieces) /\ Len(v) = IF 1 <= n THEN n - 1 + 1 ELSE 0
      /\ \A i \in 1..(n - 1 + 1) : v[i] = t[1 + i - 1]
  <2>. HIDE DEF Pieces
  <2>. QED  BY <1>1, SubSeqProperties
<1>. HIDE DEF u, v, Pieces
<1>4. /\ Len(u) = n /\ Len(v) = n
      /\ \A i \in 1..n : u[i] = s[i] /\ v[i] = t[i]
  <2>1. n - 1 + 1 = n /\ (IF 1 <= n THEN n - 1 + 1 ELSE 0) = n /\ \A i \in 1..n : 1 + i - 1 = i
    OBVIOUS
  <2>. QED  BY <1>2, <1>3, <2>1
<1>5. u = v <=> \A i \in 1..n : u[i] = v[i]
  BY <1>2, <1>3, <1>4, SeqEqual
<1>6. u = v <=> \A i \in 1..n : s[i] = t[i]
  BY <1>4, <1>5
<1>. QED  BY <1>6 DEF u, v

\* Before() in terms of the pieces.
LEMMA BeforeMeaning ==
  ASSUME NEW s \in Written, NEW t \in Written
  PROVE  Before(s, t) <=>
           \E n \in Nat : /\ Agree(s, t, n) /\ n < Len(t)
                          /\ n < Len(s) => Point[s[n + 1]] < Point[t[n + 1]]
<1>1. Len(s) \in Nat /\ Len(t) \in Nat
  BY LenProperties DEF Written
<1>2. Before(s, t) <=>
        \E n \in 0..Len(s) : /\ n <= Len(t) /\ \A i \in 1..n : s[i] = t[i]
                             /\ n < Len(t) /\ (n < Len(s) => Point[s[n + 1]] < Point[t[n + 1]])
  <2>1. \A n \in 0..Len(s) : n <= Len(t) =>
          (SubSeq(s, 1, n) = SubSeq(t, 1, n) <=> \A i \in 1..n : s[i] = t[i])
    BY <1>1, AgreeMeaning
  <2>. QED  BY <2>1 DEF Before
<1>. QED  BY <1>1, <1>2 DEF Agree

LEMMA PointIsNumber ==
  ASSUME NEW s \in Written, NEW i \in 1..Len(s)
  PROVE  Point[s[i]] \in Int
BY ElementOfSeq, PointAssumption DEF Written

LEMMA NotBeforeItself ==
  ASSUME NEW s \in Written
  PROVE  ~Before(s, s)
<1>. SUFFICES ASSUME NEW n \in Nat, n < Len(s), Point[s[n + 1]] < Point[s[n + 1]]
              PROVE  FALSE
  BY BeforeMeaning
<1>1. n + 1 \in 1..Len(s)
  BY LenProperties DEF Written
<1>. QED  BY <1>1, PointIsNumber

LEMMA BeforeGoesOn ==
  ASSUME NEW s \in Written, NEW t \in Written, NEW u \in Written, Before(s, t), Before(t, u)
  PROVE  Before(s, u)
<1>1. Len(s) \in Nat /\ Len(t) \in Nat /\ Len(u) \in Nat
  BY LenProperties DEF Written
<1>2. PICK m \in Nat : /\ Agree(s, t, m) /\ m < Len(t)
                       /\ m < Len(s) => Point[s[m + 1]] < Point[t[m + 1]]
  BY BeforeMeaning
<1>3. PICK n \in Nat : /\ Agree(t, u, n) /\ n < Len(u)
                       /\ n < Len(t) => Point[t[n + 1]] < Point[u[n + 1]]
  BY BeforeMeaning
<1>4. /\ m < Len(s) => Point[s[m + 1]] \in Int
      /\ Point[t[m + 1]] \in Int
      /\ n < Len(t) => Point[t[n + 1]] \in Int
      /\ Point[u[n + 1]] \in Int
  <2>1. /\ m < Len(s) => m + 1 \in 1..Len(s)
        /\ m + 1 \in 1..Len(t)
        /\ n < Len(t) => n + 1 \in 1..Len(t)
        /\ n + 1 \in 1..Len(u)
    BY <1>1, <1>2, <1>3
  <2>. QED  BY <2>1, PointIsNumber
<1>. SUFFICES \E l \in Nat : /\ Agree(s, u, l) /\ l < Len(u)
                             /\ l < Len(s) => Point[s[l + 1]] < Point[u[l + 1]]
  BY BeforeMeaning
<1>5. CASE m < n
  <2>1. Agree(s, u, m) /\ m < Len(u) /\ t[m + 1] = u[m + 1]
    BY <1>1, <1>2, <1>3, <1>5 DEF Agree
  <2>. QED  BY <1>2, <2>1
<1>6. CASE m = n
  <2>1. Agree(s, u, m) /\ m < Len(u)
    BY <1>1, <1>2, <1>3, <1>6 DEF Agree
  <2>2. m < Len(s) => Point[s[m + 1]] < Point[u[m + 1]]
    BY <1>2, <1>3, <1>4, <1>6
  <2>. QED  BY <2>1, <2>2
<1>7. CASE n < m
  <2>1. Agree(s, u, n) /\ n < Len(s) /\ n < Len(t) /\ s[n + 1] = t[n + 1]
    BY <1>1, <1>2, <1>3, <1>7 DEF Agree
  <2>. QED  BY <1>3, <2>1
<1>. QED  BY <1>5, <1>6, <1>7

LEMMA OneIsBefore ==
  ASSUME NEW s \in Written, NEW t \in Written, s # t
  PROVE  Before(s, t) \/ Before(t, s)
<1>1. Len(s) \in Nat /\ Len(t) \in Nat
  BY LenProperties DEF Written
<1>. DEFINE Apart == {n \in Nat : n < Len(s) /\ n < Len(t) /\ s[n + 1] # t[n + 1]}
<1>2. CASE Apart = {}
  <2>1. \A i : i \in 1..Len(s) /\ i \in 1..Len(t) => s[i] = t[i]
    <3>. SUFFICES ASSUME NEW i \in 1..Len(s), i \in 1..Len(t), s[i] # t[i] PROVE FALSE
      OBVIOUS
    <3>1. i - 1 \in Nat /\ i - 1 < Len(s) /\ i - 1 < Len(t) /\ i - 1 + 1 = i
      BY <1>1
    <3>2. i - 1 \in Apart
      BY <3>1
    <3>. QED  BY <1>2, <3>2
  <2>2. CASE Len(s) = Len(t)
    <3>1. s = t
      <4>1. \A i \in 1..Len(s) : s[i] = t[i]
        BY <2>1, <2>2
      <4>. QED  BY <2>2, <4>1, SeqEqual DEF Written
    <3>. QED  BY <3>1
  <2>3. CASE Len(s) < Len(t)
    <3>1. Agree(s, t, Len(s)) /\ ~(Len(s) < Len(s))
      BY <1>1, <2>1, <2>3 DEF Agree
    <3>. QED  BY <1>1, <2>3, <3>1, BeforeMeaning
  <2>4. CASE Len(t) < Len(s)
    <3>1. Agree(t, s, Len(t)) /\ ~(Len(t) < Len(t))
      BY <1>1, <2>1, <2>4 DEF Agree
    <3>. QED  BY <1>1, <2>4, <3>1, BeforeMeaning
  <2>. QED  BY <1>1, <2>2, <2>3, <2>4
<1>3. CASE Apart # {}
  <2>1. PICK n \in Apart : \A m \in Apart : n <= m
    <3>1. Apart \subseteq Nat
      OBVIOUS
    <3>. HIDE DEF Apart
    <3>. QED  BY <1>3, <3>1, SomeLeast
  <2>2. n \in Nat /\ n < Len(s) /\ n < Len(t) /\ s[n + 1] # t[n + 1]
    OBVIOUS
  <2>3. \A i \in 1..n : s[i] = t[i]
    <3>. SUFFICES ASSUME NEW i \in 1..n, s[i] # t[i] PROVE FALSE
      OBVIOUS
    <3>1. i - 1 \in Nat /\ i - 1 < Len(s) /\ i - 1 < Len(t) /\ i - 1 + 1 = i /\ ~(n <= i - 1)
      BY <1>1, <2>2
    <3>2. i - 1 \in Apart
      BY <3>1
    <3>. HIDE DEF Apart
    <3>. QED  BY <2>1, <3>1, <3>2
  <2>4. Agree(s, t, n) /\ Agree(t, s, n)
    BY <1>1, <2>2, <2>3 DEF Agree
  <2>5. /\ s[n + 1] \in DOMAIN Point /\ t[n + 1] \in DOMAIN Point
    BY <1>1, <2>2, ElementOfSeq DEF Written
  <2>6. Point[s[n + 1]] < Point[t[n + 1]] \/ Point[t[n + 1]] < Point[s[n + 1]]
    BY <2>2, <2>5, PointAssumption
  <2>. QED  BY <2>2, <2>4, <2>6, BeforeMeaning
<1>. QED  BY <1>2, <1>3

\* The keys in the order of the model are the keys, each of them once.
LEMMA SortedKeysAreTheKeys ==
  ASSUME NEW keys \in SUBSET Written, IsFiniteSet(keys)
  PROVE  /\ Cardinality(keys) \in Nat
         /\ SortedKeys(keys) \in Bijection(1..Cardinality(keys), keys)
         /\ \A i, j \in 1..Cardinality(keys) :
              i < j => Before(SortedKeys(keys)[i], SortedKeys(keys)[j])
<1>. DEFINE n == Cardinality(keys)
            Lower(key) == {other \in keys : Before(other, key)}
            Rank == [key \in keys |-> Cardinality(Lower(key)) + 1]
<1>1. n \in Nat /\ IsFiniteSet(1..n) /\ Cardinality(1..n) = n
  <2>1. n \in Nat
    BY FS_CardinalityType
  <2>. HIDE DEF n
  <2>2. IsFiniteSet(1..n) /\ Cardinality(1..n) = IF 1 > n THEN 0 ELSE n - 1 + 1
    BY <2>1, FS_Interval
  <2>. QED  BY <2>1, <2>2
<1>2. ASSUME NEW key \in keys
      PROVE  /\ IsFiniteSet(Lower(key)) /\ Cardinality(Lower(key)) \in Nat
             /\ Cardinality(Lower(key)) < n
  <2>1. Lower(key) \in SUBSET keys /\ key \notin Lower(key)
    BY NotBeforeItself
  <2>. HIDE DEF Lower
  <2>2. /\ IsFiniteSet(Lower(key)) /\ Cardinality(Lower(key)) <= n
        /\ n = Cardinality(Lower(key)) => keys = Lower(key)
    BY <2>1, FS_Subset
  <2>3. Cardinality(Lower(key)) \in Nat
    BY <2>2, FS_CardinalityType
  <2>. HIDE DEF n
  <2>. QED  BY <1>1, <2>1, <2>2, <2>3
<1>3. ASSUME NEW a \in keys, NEW b \in keys, Before(a, b)
      PROVE  Cardinality(Lower(a)) < Cardinality(Lower(b))
  <2>1. Lower(a) \in SUBSET Lower(b) /\ a \in Lower(b) /\ a \notin Lower(a)
    BY <1>3, BeforeGoesOn, NotBeforeItself
  <2>. DEFINE A == Lower(a)  B == Lower(b)
  <2>2. IsFiniteSet(B) /\ Cardinality(A) \in Nat /\ Cardinality(B) \in Nat
    BY <1>2
  <2>. HIDE DEF A, B
  <2>3. Cardinality(A) <= Cardinality(B) /\ (Cardinality(B) = Cardinality(A) => B = A)
    BY <2>1, <2>2, FS_Subset DEF A, B
  <2>4. A # B
    BY <2>1 DEF A, B
  <2>5. Cardinality(A) < Cardinality(B)
    BY <2>2, <2>3, <2>4
  <2>. QED  BY <2>5 DEF A, B
<1>4. Rank \in Injection(keys, 1..n)
  <2>1. \A key \in keys : Rank[key] \in 1..n
    <3>. HIDE DEF n, Lower
    <3>. QED  BY <1>1, <1>2
  <2>2. ASSUME NEW a \in keys, NEW b \in keys, Rank[a] = Rank[b] PROVE a = b
    <3>1. Cardinality(Lower(a)) = Cardinality(Lower(b))
      <4>. HIDE DEF Lower
      <4>. QED  BY <1>2, <2>2
    <3>2. ~Before(a, b) /\ ~Before(b, a)
      <4>. HIDE DEF Lower
      <4>. QED  BY <1>2, <1>3, <3>1
    <3>. QED  BY <3>2, OneIsBefore
  <2>. HIDE DEF Lower, n
  <2>. QED  BY <2>1, <2>2 DEF Injection, IsInjective
<1>5. Rank \in Surjection(keys, 1..n)
  <2>. HIDE DEF Rank
  <2>. QED  BY <1>1, <1>4, FS_Injection
<1>6. ASSUME NEW i \in 1..n
      PROVE  /\ SortedKeys(keys)[i] \in keys
             /\ Cardinality(Lower(SortedKeys(keys)[i])) = i - 1
  <2>1. PICK key \in keys : Rank[key] = i
    <3>. HIDE DEF Rank
    <3>. QED  BY <1>5 DEF Surjection
  <2>2. Cardinality(Lower(key)) = i - 1
    <3>. HIDE DEF Lower, n
    <3>. QED  BY <1>2, <2>1
  <2>. HIDE DEF n
  <2>3. SortedKeys(keys)[i] = CHOOSE k \in keys : Cardinality(Lower(k)) = i - 1
    BY DEF SortedKeys, n
  <2>. HIDE DEF Lower
  <2>. QED  BY <2>2, <2>3
<1>7. DOMAIN SortedKeys(keys) = 1..n /\ SortedKeys(keys) = [i \in 1..n |-> SortedKeys(keys)[i]]
  <2>. DEFINE F(i) == CHOOSE key \in keys :
                        Cardinality({other \in keys : Before(other, key)}) = i - 1
  <2>1. SortedKeys(keys) = [i \in 1..n |-> F(i)]
    BY DEF SortedKeys
  <2>. HIDE DEF F, n
  <2>. QED  BY <2>1
<1>. DEFINE sorted == SortedKeys(keys)
<1>. HIDE DEF n, Lower, sorted
<1>8. sorted \in [1..n -> keys]
  BY <1>6, <1>7 DEF sorted
<1>9. \A i, j \in 1..n : sorted[i] = sorted[j] => i = j
  <2>1. \A i \in 1..n : Cardinality(Lower(sorted[i])) = i - 1
    BY <1>6 DEF sorted
  <2>. QED  BY <1>1, <2>1
<1>10. \A key \in keys : \E i \in 1..n : sorted[i] = key
  <2>. SUFFICES ASSUME NEW key \in keys PROVE \E i \in 1..n : sorted[i] = key
    OBVIOUS
  <2>1. Rank[key] \in 1..n /\ Rank[key] = Cardinality(Lower(key)) + 1
    BY <1>4 DEF Injection
  <2>2. sorted[Rank[key]] \in keys /\ Cardinality(Lower(sorted[Rank[key]])) = Rank[key] - 1
    <3>. HIDE DEF Rank
    <3>. QED  BY <1>6, <2>1 DEF sorted
  <2>3. Rank[sorted[Rank[key]]] = Rank[key]
    <3>1. Rank[sorted[Rank[key]]] = Cardinality(Lower(sorted[Rank[key]])) + 1
      BY <2>2
    <3>. DEFINE r == Rank[key]
    <3>2. r \in 1..n /\ Rank[sorted[r]] = r - 1 + 1
      BY <2>1, <2>2, <3>1
    <3>. HIDE DEF r, Rank
    <3>3. r - 1 + 1 = r
      BY <1>1, <3>2
    <3>. QED  BY <3>2, <3>3 DEF r
  <2>. HIDE DEF Rank
  <2>4. sorted[Rank[key]] = key
    BY <1>4, <2>2, <2>3 DEF Injection, IsInjective
  <2>. QED  BY <2>1, <2>4
<1>11. sorted \in Bijection(1..n, keys)
  BY <1>8, <1>9, <1>10 DEF Bijection, Injection, Surjection, IsInjective
<1>12. ASSUME NEW i \in 1..n, NEW j \in 1..n, i < j PROVE Before(sorted[i], sorted[j])
  <2>. DEFINE a == sorted[i]  b == sorted[j]
  <2>1. a \in keys /\ b \in keys /\ a # b
    BY <1>1, <1>8, <1>9, <1>12
  <2>2. Cardinality(Lower(a)) = i - 1 /\ Cardinality(Lower(b)) = j - 1
    BY <1>6 DEF sorted
  <2>. HIDE DEF a, b
  <2>3. ~Before(b, a)
    <3>1. Before(b, a) => Cardinality(Lower(b)) < Cardinality(Lower(a))
      BY <1>3, <2>1
    <3>. QED  BY <1>1, <1>12, <2>2, <3>1
  <2>4. Before(a, b)
    BY <2>1, <2>3, OneIsBefore
  <2>. QED  BY <2>4 DEF a, b
<1>. QED  BY <1>1, <1>11, <1>12 DEF n, sorted

-----------------------------------------------------------------------------
(* What is asked about one question                                          *)

LEMMA CriteriaFacts ==
  ASSUME NEW q, AskableQuestion(q)
  PROVE  /\ Len(q.criteria) \in Nat /\ DOMAIN q.criteria = 1..Len(q.criteria)
         /\ AsWritten(q) = [i \in 1..Len(q.criteria) |-> q.criteria[i].key]
         /\ Keys(q) = {q.criteria[i].key : i \in 1..Len(q.criteria)}
         /\ ToSet(q.criteria) = {q.criteria[i] : i \in 1..Len(q.criteria)}
<1>1. Len(q.criteria) \in Nat /\ DOMAIN q.criteria = 1..Len(q.criteria)
  BY DomainOfSequence DEF AskableQuestion
<1>. QED  BY <1>1 DEF AsWritten, Keys, ToSet

\* The keys the model is asked in the order of are the caller's, each of them once.
LEMMA OptionKeysAreTheKeys ==
  ASSUME NEW q, AskableQuestion(q)
  PROVE  /\ IsFiniteSet(Keys(q)) /\ Cardinality(Keys(q)) \in Nat
         /\ OptionKeys(q) \in Bijection(1..Cardinality(Keys(q)), Keys(q))
<1>1. SUFFICES \E n \in Nat : OptionKeys(q) \in Bijection(1..n, Keys(q))
  <2>1. PICK n \in Nat : OptionKeys(q) \in Bijection(1..n, Keys(q))
    BY <1>1
  <2>2. ExistsBijection(1..n, Keys(q))
    BY <2>1 DEF ExistsBijection
  <2>3. Cardinality(Keys(q)) = n
    BY <2>2, FS_CountingElements
  <2>4. IsFiniteSet(Keys(q))
    BY <2>2, FS_NatBijection
  <2>. QED  BY <2>1, <2>3, <2>4
<1>2. CASE q.type = "noul"
  <2>1. AsWritten(q) = <<<<"true">>, <<"false">>>>
    BY <1>2 DEF AskableQuestion
  <2>2. Keys(q) = {<<"true">>, <<"false">>}
    BY <2>1 DEF Keys, ToSet
  <2>3. OptionKeys(q) = <<<<"false">>, <<"true">>>>
    BY <1>2 DEF OptionKeys, NoulOptionOrder
  <2>4. <<"false">> # <<"true">>
    OBVIOUS
  <2>5. OptionKeys(q) \in Bijection(1..2, Keys(q))
    <3>. DEFINE f == <<<<"false">>, <<"true">>>>
    <3>1. f \in [1..2 -> Keys(q)] /\ f[1] = <<"false">> /\ f[2] = <<"true">>
      BY <2>2
    <3>2. \A i, j \in 1..2 : f[i] = f[j] => i = j
      <4>1. \A i \in 1..2 : i = 1 \/ i = 2
        OBVIOUS
      <4>. HIDE DEF f
      <4>. QED  BY <3>1, <2>4, <4>1
    <3>3. \A key \in Keys(q) : \E i \in 1..2 : f[i] = key
      <4>1. 1 \in 1..2 /\ 2 \in 1..2
        OBVIOUS
      <4>. HIDE DEF f
      <4>. QED  BY <2>2, <3>1, <4>1
    <3>. HIDE DEF f
    <3>4. f \in Bijection(1..2, Keys(q))
      BY <3>1, <3>2, <3>3 DEF Bijection, Injection, Surjection, IsInjective
    <3>. QED  BY <2>3, <3>4 DEF f
  <2>. QED  BY <2>5
<1>3. CASE q.type = "choice"
  <2>1. ToSet(AsWritten(q)) \in SUBSET Written
    BY <1>3 DEF AskableQuestion, Written
  <2>2. IsFiniteSet(ToSet(AsWritten(q)))
    <3>1. PICK n \in Nat : n = Len(q.criteria)
      BY CriteriaFacts
    <3>. DEFINE f == [i \in 1..n |-> q.criteria[i].key]
    <3>2. f \in Surjection(1..n, ToSet(AsWritten(q)))
      BY <3>1, CriteriaFacts DEF Surjection, Keys
    <3>3. IsFiniteSet(1..n)
      BY FS_Interval
    <3>. HIDE DEF f
    <3>. QED  BY <3>2, <3>3, FS_Surjection
  <2>3. OptionKeys(q) = SortedKeys(ToSet(AsWritten(q)))
    BY <1>3 DEF OptionKeys
  <2>. QED  BY <2>1, <2>2, <2>3, SortedKeysAreTheKeys DEF Keys
<1>4. CASE q.type = "score"
  <2>1. OptionKeys(q) = AsWritten(q) /\ IsInjective(AsWritten(q))
    BY <1>4 DEF OptionKeys, AskableQuestion
  <2>2. PICK n \in Nat : n = Len(q.criteria)
    BY CriteriaFacts
  <2>. DEFINE f == [i \in 1..n |-> q.criteria[i].key]
  <2>3. AsWritten(q) = f /\ Keys(q) = {q.criteria[i].key : i \in 1..n}
    BY <2>2, CriteriaFacts
  <2>4. f \in [1..n -> Keys(q)] /\ \A key \in Keys(q) : \E i \in 1..n : f[i] = key
    BY <2>3
  <2>5. \A i, j \in 1..n : f[i] = f[j] => i = j
    BY <2>1, <2>3 DEF IsInjective
  <2>. HIDE DEF f
  <2>6. f \in Bijection(1..n, Keys(q))
    BY <2>4, <2>5 DEF Bijection, Injection, Surjection, IsInjective
  <2>. QED  BY <2>1, <2>2, <2>3, <2>6
<1>. QED  BY <1>2, <1>3, <1>4 DEF AskableQuestion

LEMMA CandidatesFollowKeys ==
  ASSUME NEW q, AskableQuestion(q)
  PROVE  /\ DOMAIN Candidates(q) = 1..Cardinality(Keys(q))
         /\ \A k \in 1..Cardinality(Keys(q)) :
              [premise |-> Render(request.state),
               hypothesis |-> Hypothesis(Instruction(q), Candidates(q)[k])]
                = PairFor(q, OptionKeys(q)[k])
<1>. DEFINE n == Cardinality(Keys(q))
            Candidate(key) ==
              CASE q.type = "noul" -> NoulSide(q, key[1])
                [] q.type = "choice" -> ChoiceCandidate(q, key)
                [] q.type = "score" ->
                     Render((CHOOSE c \in ToSet(q.criteria) : c.key = key).entry)
<1>1. SUFFICES /\ DOMAIN Candidates(q) = 1..n
               /\ \A k \in 1..n : Candidates(q)[k] = Candidate(OptionKeys(q)[k])
  BY DEF PairFor
<1>2. n \in Nat /\ OptionKeys(q) \in Bijection(1..n, Keys(q)) /\ DOMAIN OptionKeys(q) = 1..n
  <2>1. n \in Nat /\ OptionKeys(q) \in Bijection(1..n, Keys(q))
    BY OptionKeysAreTheKeys
  <2>. HIDE DEF n
  <2>. QED  BY <2>1 DEF Bijection, Injection
<1>. HIDE DEF n
<1>3. CASE q.type = "noul"
  <2>1. OptionKeys(q) = <<<<"false">>, <<"true">>>>
    BY <1>3 DEF OptionKeys, NoulOptionOrder
  <2>2. 1..n = 1..2
    BY <1>2, <2>1
  <2>3. Candidates(q) = <<NoulSide(q, "false"), NoulSide(q, "true")>>
    BY <1>3 DEF Candidates
  <2>4. \A key : Candidate(key) = NoulSide(q, key[1])
    BY <1>3
  <2>. HIDE DEF Candidate
  <2>5. \A k \in 1..2 : Candidates(q)[k] = Candidate(OptionKeys(q)[k])
    <3>1. Candidates(q)[1] = NoulSide(q, "false") /\ Candidates(q)[2] = NoulSide(q, "true")
      BY <2>3
    <3>2. OptionKeys(q)[1] = <<"false">> /\ OptionKeys(q)[2] = <<"true">>
      BY <2>1
    <3>3. Candidate(<<"false">>) = NoulSide(q, "false") /\ Candidate(<<"true">>) = NoulSide(q, "true")
      BY <2>4
    <3>4. \A k \in 1..2 : k = 1 \/ k = 2
      OBVIOUS
    <3>. QED  BY <3>1, <3>2, <3>3, <3>4
  <2>6. DOMAIN Candidates(q) = 1..2
    BY <2>3
  <2>. QED  BY <2>2, <2>5, <2>6
<1>4. CASE q.type = "choice"
  <2>1. Candidates(q) = [k \in DOMAIN OptionKeys(q) |-> ChoiceCandidate(q, OptionKeys(q)[k])]
    BY <1>4 DEF Candidates
  <2>2. \A key : Candidate(key) = ChoiceCandidate(q, key)
    BY <1>4
  <2>. HIDE DEF Candidate
  <2>. QED  BY <1>2, <2>1, <2>2
<1>5. CASE q.type = "score"
  <2>1. Candidates(q) = [k \in DOMAIN q.criteria |-> Render(q.criteria[k].entry)]
    BY <1>5 DEF Candidates
  <2>2. OptionKeys(q) = AsWritten(q) /\ IsInjective(AsWritten(q))
    BY <1>5 DEF OptionKeys, AskableQuestion
  <2>3. DOMAIN q.criteria = 1..n
    BY <1>2, <2>2 DEF AsWritten
  <2>4. \A key : Candidate(key) = Render((CHOOSE c \in ToSet(q.criteria) : c.key = key).entry)
    BY <1>5
  <2>. HIDE DEF Candidate
  <2>5. ASSUME NEW k \in 1..n
        PROVE  Candidates(q)[k] = Candidate(OptionKeys(q)[k])
    <3>. DEFINE key == q.criteria[k].key
    <3>1. OptionKeys(q)[k] = key
      BY <2>2, <2>3 DEF AsWritten
    <3>2. q.criteria[k] \in ToSet(q.criteria)
      BY <2>3 DEF ToSet
    <3>3. ASSUME NEW c \in ToSet(q.criteria), c.key = key PROVE c = q.criteria[k]
      <4>1. PICK i \in 1..n : c = q.criteria[i]
        BY <2>3 DEF ToSet
      <4>2. AsWritten(q)[i] = AsWritten(q)[k] /\ i \in DOMAIN AsWritten(q) /\ k \in DOMAIN AsWritten(q)
        BY <2>3, <3>3, <4>1 DEF AsWritten
      <4>3. i = k
        BY <2>2, <4>2 DEF IsInjective
      <4>. QED  BY <4>1, <4>3
    <3>4. (CHOOSE c \in ToSet(q.criteria) : c.key = key) = q.criteria[k]
      BY <3>2, <3>3
    <3>. QED  BY <2>1, <2>3, <2>4, <3>1, <3>4
  <2>. QED  BY <2>1, <2>3, <2>5
<1>. QED  BY <1>3, <1>4, <1>5 DEF AskableQuestion

LEMMA ExpandedPairs ==
  ASSUME NEW q, AskableQuestion(q)
  PROVE  LET pairs == Expand(q, Render(request.state)).pairs IN
         /\ IsSequence(pairs) /\ Len(pairs) = Cardinality(Keys(q))
         /\ \A k \in 1..Cardinality(Keys(q)) : pairs[k] = PairFor(q, OptionKeys(q)[k])
<1>. DEFINE pairs == Expand(q, Render(request.state)).pairs  n == Cardinality(Keys(q))
            Pair(k) == [premise |-> Render(request.state),
                        hypothesis |-> Hypothesis(Instruction(q), Candidates(q)[k])]
<1>1. pairs = [k \in DOMAIN Candidates(q) |-> Pair(k)]
  BY DEF Expand
<1>2. n \in Nat /\ DOMAIN Candidates(q) = 1..n
      /\ \A k \in 1..n : Pair(k) = PairFor(q, OptionKeys(q)[k])
  BY OptionKeysAreTheKeys, CandidatesFollowKeys
<1>. HIDE DEF pairs, n, Pair
<1>3. pairs = [k \in 1..n |-> pairs[k]] /\ \A k \in 1..n : pairs[k] = PairFor(q, OptionKeys(q)[k])
  BY <1>1, <1>2
<1>4. IsSequence(pairs) /\ Len(pairs) = n
  BY <1>2, <1>3, MappedIsSequence
<1>. QED  BY <1>3, <1>4 DEF pairs, n

\* A text in which none of the pieces B occurs.
Free(s, B) == IsSequence(s) /\ Items(s) \cap B = {}

\* The texts of a question that are not keys.
FreeQuestion(q, B) ==
  /\ q.instructions # Null => Free(Render(q.instructions), B)
  /\ \A i \in DOMAIN q.criteria : q.type = "score" \/ q.criteria[i].entry # Null =>
                                   Free(Render(q.criteria[i].entry), B)

LEMMA FreeOf ==
  ASSUME NEW S, NEW B, S \cap B = {}, NEW s \in Seq(S)
  PROVE  Free(s, B)
<1>1. \A i \in 1..Len(s) : s[i] \in S
  BY ElementOfSeq
<1>. QED  BY <1>1, SequenceHasForm DEF Free, Items

LEMMA FreeJoined ==
  ASSUME NEW B, NEW s, Free(s, B), NEW t, Free(t, B)
  PROVE  Free(s \o t, B)
<1>. DEFINE S == Items(s) \cup Items(t)
<1>1. IsSequence(s) /\ IsSequence(t) /\ S \cap B = {} /\ Items(s) \subseteq S /\ Items(t) \subseteq S
  BY DEF Free
<1>. HIDE DEF S
<1>2. s \in Seq(S) /\ t \in Seq(S)
  BY <1>1, SequenceOfElements
<1>3. s \o t \in Seq(S)
  BY <1>2
<1>. QED  BY <1>1, <1>3, FreeOf

\* None of what the templates add is the name of a token.
TemplatePieces == {"The answer to the question is", "yes", "no", ".", ":", "-", Space}
LEMMA TemplateIsFree ==
  ASSUME NEW B \in SUBSET DOMAIN Spelling, NEW s \in Seq(TemplatePieces)
  PROVE  Free(s, B)
<1>1. TemplatePieces \cap B = {}
  BY TemplatesAssumption, SpellingAssumption DEF TemplatePieces
<1>. QED  BY <1>1, FreeOf

LEMMA InstructionIsFree ==
  ASSUME NEW B \in SUBSET DOMAIN Spelling, NEW q, FreeQuestion(q, B)
  PROVE  Free(Instruction(q), B)
<1>1. Free(<<>>, B)
  <2>1. <<>> \in Seq(TemplatePieces)
    OBVIOUS
  <2>. QED  BY <2>1, TemplateIsFree
<1>. QED  BY <1>1 DEF FreeQuestion, Instruction

LEMMA HypothesisIsFree ==
  ASSUME NEW B \in SUBSET DOMAIN Spelling, NEW instruction, Free(instruction, B),
         NEW candidate, Free(candidate, B)
  PROVE  Free(Hypothesis(instruction, candidate), B)
<1>1. Free(<<Space, "-", Space>>, B)
  <2>1. <<Space, "-", Space>> \in Seq(TemplatePieces)
    BY DEF TemplatePieces
  <2>. QED  BY <2>1, TemplateIsFree
<1>2. Free(instruction \o <<Space, "-", Space>>, B)
  BY <1>1, FreeJoined
<1>3. Free((instruction \o <<Space, "-", Space>>) \o candidate, B)
  BY <1>2, FreeJoined
<1>. QED  BY <1>3 DEF Hypothesis

LEMMA SomeOptionHasKey ==
  ASSUME NEW q, AskableQuestion(q), NEW key \in Keys(q)
  PROVE  \E i \in DOMAIN q.criteria :
           (CHOOSE c \in ToSet(q.criteria) : c.key = key) = q.criteria[i]
<1>1. \E c \in ToSet(q.criteria) : c.key = key
  <2>1. PICK i \in 1..Len(q.criteria) : key = q.criteria[i].key
    BY CriteriaFacts
  <2>2. q.criteria[i] \in ToSet(q.criteria)
    BY CriteriaFacts
  <2>. QED  BY <2>1, <2>2
<1>2. (CHOOSE c \in ToSet(q.criteria) : c.key = key) \in ToSet(q.criteria)
  BY <1>1
<1>. QED  BY <1>2 DEF ToSet

LEMMA NoulSideIsFree ==
  ASSUME NEW B \in SUBSET DOMAIN Spelling, NEW q, AskableQuestion(q), FreeQuestion(q, B),
         q.type = "noul", NEW side \in {"true", "false"}
  PROVE  Free(NoulSide(q, side), B)
<1>. DEFINE given == CHOOSE c \in ToSet(q.criteria) : c.key = <<side>>
<1>1. PICK i \in DOMAIN q.criteria : given = q.criteria[i]
  <2>1. AsWritten(q) = <<<<"true">>, <<"false">>>>
    BY DEF AskableQuestion
  <2>2. Keys(q) = {<<"true">>, <<"false">>}
    BY <2>1 DEF Keys, ToSet
  <2>. DEFINE key == <<side>>
  <2>3. key \in Keys(q)
    BY <2>2
  <2>. HIDE DEF key
  <2>4. \E i \in DOMAIN q.criteria :
          (CHOOSE c \in ToSet(q.criteria) : c.key = key) = q.criteria[i]
    BY <2>3, SomeOptionHasKey
  <2>. QED  BY <2>4 DEF key
<1>2. given.entry # Null => Free(Render(given.entry), B)
  <2>. HIDE DEF given
  <2>. QED  BY <1>1 DEF FreeQuestion
<1>3. ASSUME NEW word \in {"yes", "no"} PROVE Free(NoulDefault(word), B)
  <2>1. NoulDefault(word) \in Seq(TemplatePieces)
    <3>1. /\ "The answer to the question is" \in TemplatePieces /\ Space \in TemplatePieces
          /\ word \in TemplatePieces /\ "." \in TemplatePieces
      BY DEF TemplatePieces
    <3>2. ASSUME NEW a \in TemplatePieces, NEW b \in TemplatePieces, NEW c \in TemplatePieces, NEW d \in TemplatePieces
          PROVE  <<a, b, c, d>> \in Seq(TemplatePieces)
      OBVIOUS
    <3>3. NoulDefault(word) = <<"The answer to the question is", Space, word, ".">>
      BY DEF NoulDefault
    <3>. QED  BY ONLY <3>1, <3>2, <3>3
  <2>. QED  BY <2>1, TemplateIsFree
<1>4. NoulSide(q, side) = IF given.entry = Null THEN NoulDefault(IF side = "true" THEN "yes" ELSE "no")
                          ELSE Render(given.entry)
  BY DEF NoulSide
<1>. HIDE DEF given
<1>. QED  BY <1>2, <1>3, <1>4

LEMMA ChoiceCandidateIsFree ==
  ASSUME NEW B \in SUBSET DOMAIN Spelling, NEW q, AskableQuestion(q), FreeQuestion(q, B),
         q.type = "choice", NEW key \in Keys(q)
  PROVE  Free(ChoiceCandidate(q, key), B)
<1>. DEFINE given == CHOOSE c \in ToSet(q.criteria) : c.key = key
<1>1. PICK i \in DOMAIN q.criteria : given = q.criteria[i]
  BY SomeOptionHasKey
<1>2. given.entry # Null => Free(Render(given.entry), B)
  <2>. HIDE DEF given
  <2>. QED  BY <1>1 DEF FreeQuestion
<1>3. Free(key, B)
  <2>1. key \in Seq(DOMAIN Point)
    BY DEF AskableQuestion, Keys
  <2>2. DOMAIN Point \cap B = {}
    BY PointAssumption
  <2>. QED  BY <2>1, <2>2, FreeOf
<1>4. ChoiceCandidate(q, key) = IF given.entry = Null THEN key
                                ELSE key \o <<":", Space>> \o Render(given.entry)
  BY DEF ChoiceCandidate
<1>. HIDE DEF given
<1>5. Free(<<":", Space>>, B)
  <2>1. <<":", Space>> \in Seq(TemplatePieces)
    BY DEF TemplatePieces
  <2>. QED  BY <2>1, TemplateIsFree
<1>6. Free(key \o <<":", Space>>, B)
  BY <1>3, <1>5, FreeJoined
<1>7. given.entry # Null => Free((key \o <<":", Space>>) \o Render(given.entry), B)
  BY <1>2, <1>6, FreeJoined
<1>. QED  BY <1>3, <1>4, <1>7

\* What is in neither the request nor the templates is in neither side of a pair.
LEMMA PairIsFree ==
  ASSUME NEW B \in SUBSET DOMAIN Spelling, NEW q, AskableQuestion(q), FreeQuestion(q, B),
         Free(Render(request.state), B), NEW key \in Keys(q)
  PROVE  Free(PairFor(q, key).premise, B) /\ Free(PairFor(q, key).hypothesis, B)
<1>. DEFINE candidate ==
       CASE q.type = "noul" -> NoulSide(q, key[1])
         [] q.type = "choice" -> ChoiceCandidate(q, key)
         [] q.type = "score" -> Render((CHOOSE c \in ToSet(q.criteria) : c.key = key).entry)
<1>1. PairFor(q, key) = [premise |-> Render(request.state),
                         hypothesis |-> Hypothesis(Instruction(q), candidate)]
  BY DEF PairFor
<1>2. Free(candidate, B)
  <2>1. CASE q.type = "noul"
    <3>1. AsWritten(q) = <<<<"true">>, <<"false">>>>
      BY <2>1 DEF AskableQuestion
    <3>2. Keys(q) = {<<"true">>, <<"false">>}
      BY <3>1 DEF Keys, ToSet
    <3>3. key[1] \in {"true", "false"}
      BY <3>2
    <3>4. candidate = NoulSide(q, key[1])
      BY <2>1
    <3>. QED  BY <2>1, <3>3, <3>4, NoulSideIsFree
  <2>2. CASE q.type = "choice"
    <3>1. candidate = ChoiceCandidate(q, key)
      BY <2>2
    <3>. QED  BY <2>2, <3>1, ChoiceCandidateIsFree
  <2>3. CASE q.type = "score"
    <3>. DEFINE given == CHOOSE c \in ToSet(q.criteria) : c.key = key
    <3>1. candidate = Render(given.entry)
      BY <2>3
    <3>2. PICK i \in DOMAIN q.criteria : given = q.criteria[i]
      BY SomeOptionHasKey
    <3>. HIDE DEF given
    <3>4. Free(Render(given.entry), B)
      BY <2>3, <3>2 DEF FreeQuestion
    <3>. QED  BY <3>1, <3>4
  <2>. QED  BY <2>1, <2>2, <2>3 DEF AskableQuestion
<1>. HIDE DEF candidate
<1>3. Free(Instruction(q), B)
  BY InstructionIsFree
<1>4. Free(Hypothesis(Instruction(q), candidate), B)
  BY <1>2, <1>3, HypothesisIsFree
<1>. QED  BY <1>1, <1>4

\* Both sides of a pair are texts, so that it has tokens.
LEMMA PairIsText ==
  ASSUME NEW q, AskableQuestion(q), IsText(request.state), NEW key \in Keys(q)
  PROVE  /\ IsSequence(PairFor(q, key).premise) /\ IsSequence(PairFor(q, key).hypothesis)
         /\ IsSequence(Encode(PairFor(q, key))) /\ TokensOf(q, key) \in Nat
<1>1. {} \in SUBSET DOMAIN Spelling /\ \A s : Free(s, {}) <=> IsSequence(s)
  BY DEF Free
<1>2. FreeQuestion(q, {}) /\ Free(Render(request.state), {})
  BY <1>1 DEF FreeQuestion, AskableQuestion, IsText
<1>3. Free(PairFor(q, key).premise, {}) /\ Free(PairFor(q, key).hypothesis, {})
  BY <1>1, <1>2, PairIsFree
<1>. QED  BY <1>1, <1>3, EncodeIsSequence DEF TokensOf

-----------------------------------------------------------------------------
(* Lists of faults                                                           *)

\* No fault that is found before the model has to do with length, and none is the server's.
IsFault(f) ==
  /\ f = [status |-> f.status, code |-> f.code, path |-> f.path, tag |-> f.tag]
  /\ f.status \notin {0, 500} /\ f.code # "context_length_exceeded"

Listing(s) == IsSequence(s) /\ \A i \in 1..Len(s) : IsFault(s[i])

LEMMA FaultIsFault ==
  ASSUME NEW status, status \notin {0, 500}, NEW code, code # "context_length_exceeded", NEW path
  PROVE  IsFault(Fault(status, code, path))
BY DEF IsFault, Fault

LEMMA InvalidIsFault == \A path : IsFault(Invalid(path))
BY DEF IsFault, Fault, Invalid

LEMMA NoneIsListing == Listing(<<>>)
BY EmptyIsSequence DEF Listing

LEMMA WhenLists ==
  ASSUME NEW c \in BOOLEAN, NEW f, IsFault(f)
  PROVE  Listing(When(c, f)) /\ (When(c, f) = <<>> <=> ~c) /\ (c => Head(When(c, f)) = f)
<1>1. IsSequence(<<f>>) /\ Len(<<f>>) = 1 /\ <<f>>[1] = f
  BY OneIsSequence
<1>2. \A i \in 1..1 : i = 1
  OBVIOUS
<1>3. Listing(<<f>>) /\ <<f>> # <<>> /\ Head(<<f>>) = f
  BY <1>1, <1>2, EmptyIsSequence DEF Listing
<1>. QED  BY <1>3, NoneIsListing DEF When

LEMMA JoinLists ==
  ASSUME NEW s, Listing(s), NEW t, Listing(t)
  PROVE  /\ Listing(s \o t) /\ (s \o t = <<>> <=> s = <<>> /\ t = <<>>)
         /\ Head(s \o t) = IF s # <<>> THEN Head(s) ELSE Head(t)
<1>. DEFINE S == {x \in Items(s) \cup Items(t) : IsFault(x)}
<1>1. \A x \in S : IsFault(x)
  OBVIOUS
<1>2. s \in Seq(S) /\ t \in Seq(S)
  <2>1. /\ IsSequence(s) /\ \A j \in 1..Len(s) : s[j] \in S
        /\ IsSequence(t) /\ \A j \in 1..Len(t) : t[j] \in S
    BY DEF Listing, Items
  <2>. HIDE DEF S
  <2>. QED  BY <2>1, SequenceOf
<1>. HIDE DEF S
<1>3. /\ s \o t = <<>> <=> s = <<>> /\ t = <<>>
      /\ Head(s \o t) = IF s # <<>> THEN Head(s) ELSE Head(t)
  BY ONLY <1>2, HeadOfBoth
<1>4. s \o t \in Seq(S)
  BY <1>2, ConcatProperties
<1>5. Listing(s \o t)
  <2>. DEFINE both == s \o t
  <2>1. both \in Seq(S)
    BY <1>4
  <2>. HIDE DEF both
  <2>2. Listing(both)
    BY <1>1, <2>1, SequenceHasForm, ElementOfSeq DEF Listing
  <2>. QED  BY <2>2 DEF both
<1>. QED  BY ONLY <1>3, <1>5

LEMMA FlattenLists ==
  ASSUME NEW seqs, IsSequence(seqs), \A i \in 1..Len(seqs) : Listing(seqs[i])
  PROVE  Listing(FlattenSeq(seqs)) /\ BeginsWithOne(seqs)
<1>. DEFINE S == {x \in UNION {Items(seqs[i]) : i \in 1..Len(seqs)} : IsFault(x)}
<1>1. ASSUME NEW i \in 1..Len(seqs) PROVE seqs[i] \in Seq(S)
  <2>1. IsSequence(seqs[i]) /\ \A j \in 1..Len(seqs[i]) : IsFault(seqs[i][j])
    BY DEF Listing
  <2>2. \A j \in 1..Len(seqs[i]) : seqs[i][j] \in S
    BY <2>1 DEF Items
  <2>. HIDE DEF S
  <2>. QED  BY <2>1, <2>2, SequenceOf
<1>2. \A x \in S : IsFault(x)
  OBVIOUS
<1>. HIDE DEF S
<1>3. seqs \in Seq(Seq(S))
  BY <1>1, SequenceOf
<1>4. FlattenSeq(seqs) \in Seq(S)
  BY <1>3, FlattenType
<1>5. Listing(FlattenSeq(seqs))
  BY <1>2, <1>4, SequenceHasForm, ElementOfSeq DEF Listing
<1>6. BeginsWithOne(seqs)
  BY <1>3, FlattenHead
<1>. QED  BY <1>5, <1>6

\* The shape in which the code goes through a list.
LEMMA EachLists ==
  ASSUME NEW s, IsSequence(s), NEW parts, parts = [i \in DOMAIN s |-> parts[i]],
         \A i \in DOMAIN s : Listing(parts[i])
  PROVE  /\ Listing(FlattenSeq(parts))
         /\ FlattenSeq(parts) = <<>> <=> \A i \in DOMAIN s : parts[i] = <<>>
         /\ FlattenSeq(parts) # <<>> =>
              \E i \in DOMAIN s : parts[i] # <<>> /\ Head(FlattenSeq(parts)) = Head(parts[i])
<1>1. DOMAIN s = 1..Len(s) /\ Len(s) \in Nat
  BY DomainOfSequence
<1>2. IsSequence(parts) /\ Len(parts) = Len(s)
  BY <1>1, MappedIsSequence
<1>3. Listing(FlattenSeq(parts)) /\ BeginsWithOne(parts)
  BY <1>1, <1>2, FlattenLists
<1>. QED  BY <1>1, <1>2, <1>3 DEF BeginsWithOne

LEMMA HeadIsFault ==
  ASSUME NEW s, Listing(s), s # <<>>
  PROVE  IsFault(Head(s))
<1>1. Len(s) \in Nat /\ Len(s) # 0
  <2>1. IsSequence(s) /\ Len(s) \in Nat
    BY DomainOfSequence DEF Listing
  <2>2. Len(s) = 0 => s = <<>>
    BY <2>1 DEF IsSequence
  <2>. QED  BY <2>1, <2>2
<1>2. Head(s) = s[1] /\ 1 \in 1..Len(s)
  BY <1>1
<1>. QED  BY <1>2 DEF Listing

LEMMA ParseFaultsList ==
  ASSUME NEW body
  PROVE  /\ Listing(ParseFaults(body))
         /\ ParseFaults(body) = <<>> => \A part \in Parts(body.value) : ~RepeatsAKey(part)
<1>. DEFINE text == WrittenJson(body.value)
            written == IF body.bytes = "cut" THEN Front(text) ELSE text
            unknown == body.bytes \in {"bom", "latin-1"}
            a == When(unknown, Malformed)
            b == When(TooDeep(written), Fault(422, "validation_error", <<>>))
            unreadable ==
              \/ body.bytes = "cut"
              \/ \E part \in Parts(body.value) :
                   RepeatsAKey(part) \/ NotANumber(part) \/ Unpaired(part)
            c == When(unreadable, Malformed)
<1>1. IsFault(Malformed) /\ IsFault(Fault(422, "validation_error", <<>>))
  BY FaultIsFault DEF Malformed
<1>2. Listing(a) /\ Listing(b) /\ Listing(c) /\ (c = <<>> => ~unreadable)
  <2>1. Listing(a)
    <3>1. unknown \in BOOLEAN
      OBVIOUS
    <3>. HIDE DEF unknown
    <3>. QED  BY <1>1, <3>1, WhenLists
  <2>2. Listing(b)
    <3>1. TooDeep(written) \in BOOLEAN
      BY DEF TooDeep
    <3>. QED  BY <1>1, <3>1, WhenLists
  <2>3. Listing(c) /\ (c = <<>> => ~unreadable)
    <3>1. unreadable \in BOOLEAN
      OBVIOUS
    <3>. HIDE DEF unreadable
    <3>. QED  BY <1>1, <3>1, WhenLists
  <2>. QED  BY <2>1, <2>2, <2>3
<1>3. ParseFaults(body) = (a \o b) \o c
  BY DEF ParseFaults
<1>. HIDE DEF a, b, c
<1>4. Listing(ParseFaults(body)) /\ (ParseFaults(body) = <<>> => c = <<>>)
  <2>1. Listing(a \o b)
    BY <1>2, JoinLists
  <2>. QED  BY <1>2, <1>3, <2>1, JoinLists
<1>. QED  BY <1>2, <1>4

-----------------------------------------------------------------------------
(* What is validated can be asked                                            *)

\* What dict.get() finds, or does not.
Found == Json \cup {Missing, Null}

LEMMA JsonFacts ==
  ASSUME NEW v \in Json
  PROVE  /\ IsSequence(v.members) /\ IsText(v) /\ Free(Render(v), DOMAIN Spelling)
         /\ v.kind = "object" => \A i \in DOMAIN v.members :
              v.members[i].key \in Seq(DOMAIN Point) /\ v.members[i].value \in Json
         /\ v.kind = "array" => \A i \in DOMAIN v.members : v.members[i] \in Json
<1>1. /\ IsSequence(v.text) /\ IsSequence(v.members) /\ IsSequence(CanonicalJson(v))
      /\ v.kind = "object" => \A i \in DOMAIN v.members : v.members[i].key \in Seq(DOMAIN Point)
      /\ (ToSet(v.text) \cup ToSet(CanonicalJson(v))) \cap DOMAIN Spelling = {}
  BY JsonAssumption
<1>2. Within(v) \subseteq Json
  BY JsonAssumption
<1>3. v.kind = "object" => \A i \in DOMAIN v.members : v.members[i].value \in Within(v)
  BY DEF Within, ToSet
<1>4. v.kind = "array" => \A i \in DOMAIN v.members : v.members[i] \in Within(v)
  BY DEF Within, ToSet
<1>5. Free(v.text, DOMAIN Spelling) /\ Free(CanonicalJson(v), DOMAIN Spelling)
  <2>1. Items(v.text) = ToSet(v.text) /\ Items(CanonicalJson(v)) = ToSet(CanonicalJson(v))
    BY <1>1, ItemsAreRange
  <2>. QED  BY <1>1, <2>1 DEF Free
<1>. QED  BY <1>1, <1>2, <1>3, <1>4, <1>5 DEF IsText, Render

LEMMA FoundFacts ==
  ASSUME NEW v \in Found
  PROVE  /\ IsSequence(v.members) /\ IsSequence(Fields(v)) /\ IsSequence(Elements(v))
         /\ v.kind \in {"object", "array", "string"} => v \in Json
         /\ v # Null /\ v # Missing => v \in Json
<1>1. CASE v \in Json
  BY <1>1, JsonFacts, EmptyIsSequence DEF Fields, Elements
<1>2. CASE v \in {Missing, Null}
  BY <1>2, EmptyIsSequence DEF Fields, Elements, Missing, Null
<1>. QED  BY <1>1, <1>2 DEF Found

LEMMA GetFinds ==
  ASSUME NEW v \in Found, NEW key
  PROVE  Get(v, key) \in Json \cup {Missing} /\ OrNone(Get(v, key)) \in Json \cup {Null}
<1>1. CASE v.kind = "object" /\ key \in ToSet(KeysOf(v.members))
  <2>. DEFINE i == CHOOSE i \in DOMAIN v.members : v.members[i].key = key
  <2>1. i \in DOMAIN v.members
    <3>1. \E j \in DOMAIN v.members : v.members[j].key = key
      BY <1>1 DEF ToSet, KeysOf
    <3>. QED  BY <3>1
  <2>2. v \in Json
    BY <1>1, FoundFacts
  <2>3. Get(v, key) = v.members[i].value
    BY <1>1 DEF Get, Value
  <2>. HIDE DEF i
  <2>4. Get(v, key) \in Json
    BY <1>1, <2>1, <2>2, <2>3, JsonFacts
  <2>. QED  BY <2>4 DEF OrNone
<1>2. CASE ~(v.kind = "object" /\ key \in ToSet(KeysOf(v.members)))
  <2>1. Get(v, key) = Missing
    BY <1>2 DEF Get
  <2>. QED  BY <2>1 DEF OrNone
<1>. QED  BY <1>1, <1>2

LEMMA NeverMissing ==
  ASSUME NEW v \in Json
  PROVE  v.kind # "missing" /\ v # Missing /\ OrNone(v) = v
<1>1. v.kind # "missing"
  BY JsonAssumption
<1>. QED  BY <1>1 DEF Missing, OrNone

\* Only an object has fields, and only an array has elements.
LEMMA FieldsAreOfObjects ==
  ASSUME NEW v
  PROVE  /\ \A k \in DOMAIN Fields(v) : v.kind = "object" /\ Fields(v) = v.members
         /\ \A k \in DOMAIN Elements(v) : v.kind = "array" /\ Elements(v) = v.members
<1>1. DOMAIN <<>> = {}
  OBVIOUS
<1>. QED  BY <1>1 DEF Fields, Elements

\* What stands under a key is the value of a member with that key.
LEMMA SomeMember ==
  ASSUME NEW v, NEW key, Get(v, key) # Missing
  PROVE  /\ v.kind = "object"
         /\ \E i \in DOMAIN Fields(v) : /\ Fields(v)[i].key = key
                                        /\ Get(v, key) = Fields(v)[i].value
<1>1. v.kind = "object" /\ key \in ToSet(KeysOf(v.members)) /\ Get(v, key) = Value(v.members, key)
  BY DEF Get
<1>2. \E i \in DOMAIN v.members : v.members[i].key = key
  BY <1>1 DEF ToSet, KeysOf
<1>3. \E i \in DOMAIN v.members : v.members[i].key = key /\ Get(v, key) = v.members[i].value
  BY <1>1, <1>2 DEF Value
<1>. QED  BY <1>1, <1>3 DEF Fields

\* No two fields have one name.
Keyed(v) == \A i, j \in DOMAIN Fields(v) : Fields(v)[i].key = Fields(v)[j].key => i = j

LEMMA MemberIsFound ==
  ASSUME NEW v, Keyed(v), NEW k \in DOMAIN Fields(v)
  PROVE  Get(v, Fields(v)[k].key) = Fields(v)[k].value
<1>. DEFINE s == v.members  key == s[k].key
<1>1. v.kind = "object" /\ Fields(v) = s
  BY FieldsAreOfObjects
<1>2. key \in ToSet(KeysOf(s))
  BY <1>1 DEF ToSet, KeysOf
<1>3. \A i \in DOMAIN s : s[i].key = key => i = k
  BY <1>1 DEF Keyed
<1>4. Get(v, key) = Value(s, key)
  BY <1>1, <1>2 DEF Get
<1>. HIDE DEF s
<1>5. Value(s, key) = s[k].value
  BY <1>1, <1>3 DEF Value
<1>. QED  BY <1>1, <1>4, <1>5

LEMMA InvalidFields ==
  \A path : Invalid(path).code = "validation_error" /\ Invalid(path).path = path
            /\ Invalid(path).tag = ""
BY DEF Invalid, Fault

\* A fault of the criteria at base is about them, or about something in them.
InCriteria(criteria, base, fault) ==
  /\ fault.code = "validation_error"
  /\ \/ fault.path = base
     \/ criteria.kind \in {"object", "array"} /\ \E key : fault.path = Append(base, key)

\* The criteria of a "noul", where null stands for none.
NoulSchema(criteria) ==
  /\ criteria.kind \in {"object", "null"}
  /\ \A k \in DOMAIN Fields(criteria) : /\ Fields(criteria)[k].key \in {<<"true">>, <<"false">>}
                                        /\ IsEntry(Fields(criteria)[k].value)

LEMMA SidesAreEntries ==
  ASSUME NEW criteria \in Found, Keyed(criteria),
         \A k \in DOMAIN Fields(criteria) : Fields(criteria)[k].key \in {<<"true">>, <<"false">>}
  PROVE  (/\ IsEntry(OrNone(Get(criteria, <<"true">>)))
          /\ IsEntry(OrNone(Get(criteria, <<"false">>))))
         <=> \A k \in DOMAIN Fields(criteria) : IsEntry(Fields(criteria)[k].value)
<1>1. ASSUME NEW k \in DOMAIN Fields(criteria)
      PROVE  OrNone(Get(criteria, Fields(criteria)[k].key)) = Fields(criteria)[k].value
  <2>1. criteria \in Json /\ criteria.kind = "object" /\ Fields(criteria) = criteria.members
    BY FieldsAreOfObjects, FoundFacts
  <2>2. Fields(criteria)[k].value \in Json
    BY <2>1, JsonFacts
  <2>. QED  BY <2>2, MemberIsFound, NeverMissing
<1>2. ASSUME NEW key, \A k \in DOMAIN Fields(criteria) : IsEntry(Fields(criteria)[k].value)
      PROVE  IsEntry(OrNone(Get(criteria, key)))
  <2>1. CASE Get(criteria, key) = Missing
    BY <2>1 DEF OrNone, IsEntry, Null
  <2>2. CASE Get(criteria, key) # Missing
    BY <1>2, <2>2, SomeMember DEF OrNone
  <2>. QED  BY <2>1, <2>2
<1>. QED  BY <1>1, <1>2

LEMMA NoulFaultsList ==
  ASSUME NEW criteria \in Found, NEW base
  PROVE  /\ Listing(NoulFaults(criteria, base))
         /\ Keyed(criteria) => (NoulFaults(criteria, base) = <<>> <=> NoulSchema(criteria))
         /\ NoulFaults(criteria, base) # <<>> =>
              InCriteria(criteria, base, Head(NoulFaults(criteria, base)))
<1>. DEFINE s == Fields(criteria)
            wrong(k) == s[k].key \notin {<<"true">>, <<"false">>}
            parts == [k \in DOMAIN s |-> LET key == s[k].key IN
                        When(key \notin {<<"true">>, <<"false">>}, Invalid(Append(base, key)))]
            yes == Get(criteria, <<"true">>)
            no == Get(criteria, <<"false">>)
            shape == criteria.kind \in {"object", "null"}
            a == When(~shape, Invalid(base))
            b == FlattenSeq(parts)
            c == When(~IsEntry(OrNone(yes)), Invalid(Append(base, <<"true">>)))
            d == When(~IsEntry(OrNone(no)), Invalid(Append(base, <<"false">>)))
            In(f) == InCriteria(criteria, base, f)
<1>1. Listing(a) /\ (a = <<>> <=> shape) /\ (a # <<>> => In(Head(a)))
  <2>1. In(Invalid(base))
    BY InvalidFields DEF InCriteria
  <2>. HIDE DEF In
  <2>. QED  BY <2>1, InvalidIsFault, WhenLists
<1>2. /\ Listing(c) /\ (c = <<>> <=> IsEntry(OrNone(yes))) /\ (c # <<>> => In(Head(c)))
      /\ Listing(d) /\ (d = <<>> <=> IsEntry(OrNone(no))) /\ (d # <<>> => In(Head(d)))
  <2>1. ~IsEntry(OrNone(yes)) => In(Invalid(Append(base, <<"true">>)))
    <3>1. ~IsEntry(OrNone(yes)) => yes # Missing
      BY DEF IsEntry, OrNone, Null
    <3>. QED  BY <3>1, SomeMember, InvalidFields DEF InCriteria
  <2>2. ~IsEntry(OrNone(no)) => In(Invalid(Append(base, <<"false">>)))
    <3>1. ~IsEntry(OrNone(no)) => no # Missing
      BY DEF IsEntry, OrNone, Null
    <3>. QED  BY <3>1, SomeMember, InvalidFields DEF InCriteria
  <2>3. IsEntry(OrNone(yes)) \in BOOLEAN /\ IsEntry(OrNone(no)) \in BOOLEAN
    BY DEF IsEntry
  <2>. HIDE DEF In, yes, no
  <2>4. Listing(c) /\ (c = <<>> <=> IsEntry(OrNone(yes))) /\ (c # <<>> => In(Head(c)))
    BY <2>1, <2>3, InvalidIsFault, WhenLists
  <2>5. Listing(d) /\ (d = <<>> <=> IsEntry(OrNone(no))) /\ (d # <<>> => In(Head(d)))
    BY <2>2, <2>3, InvalidIsFault, WhenLists
  <2>. QED  BY <2>4, <2>5
<1>3. /\ Listing(b) /\ (b = <<>> <=> \A k \in DOMAIN s : ~wrong(k))
      /\ b # <<>> => In(Head(b))
  <2>1. ASSUME NEW k \in DOMAIN s
        PROVE  /\ Listing(parts[k]) /\ (parts[k] = <<>> <=> ~wrong(k))
               /\ parts[k] # <<>> => In(Head(parts[k]))
    <3>. DEFINE f == Invalid(Append(base, s[k].key))
    <3>1. parts[k] = When(wrong(k), f) /\ IsFault(f) /\ wrong(k) \in BOOLEAN
      BY InvalidIsFault
    <3>2. In(f)
      BY FieldsAreOfObjects, InvalidFields DEF InCriteria
    <3>. HIDE DEF f, In, parts, wrong, s
    <3>. QED  BY <3>1, <3>2, WhenLists
  <2>2. IsSequence(s) /\ parts = [k \in DOMAIN s |-> parts[k]]
    BY FoundFacts
  <2>. HIDE DEF s, parts, In, wrong
  <2>3. /\ Listing(b) /\ (b = <<>> <=> \A k \in DOMAIN s : parts[k] = <<>>)
        /\ b # <<>> => \E k \in DOMAIN s : parts[k] # <<>> /\ Head(b) = Head(parts[k])
    BY <2>1, <2>2, EachLists
  <2>. QED  BY <2>1, <2>3
<1>4. NoulFaults(criteria, base) = ((a \o b) \o c) \o d
  BY DEF NoulFaults
<1>5. Keyed(criteria) =>
        (NoulSchema(criteria) <=> /\ shape /\ \A k \in DOMAIN s : ~wrong(k)
                                  /\ IsEntry(OrNone(yes)) /\ IsEntry(OrNone(no)))
  BY SidesAreEntries DEF NoulSchema
<1>. HIDE DEF a, b, c, d, parts, shape, s, wrong, yes, no
<1>6. /\ Listing(((a \o b) \o c) \o d)
      /\ ((a \o b) \o c) \o d = <<>> <=> a = <<>> /\ b = <<>> /\ c = <<>> /\ d = <<>>
      /\ ((a \o b) \o c) \o d # <<>> => In(Head(((a \o b) \o c) \o d))
  <2>. DEFINE l1 == a \o b  l2 == l1 \o c  l3 == l2 \o d
  <2>. HIDE DEF In
  <2>1. Listing(l1) /\ (l1 = <<>> <=> a = <<>> /\ b = <<>>) /\ (l1 # <<>> => In(Head(l1)))
    BY <1>1, <1>3, JoinLists
  <2>. HIDE DEF l1
  <2>2. Listing(l2) /\ (l2 = <<>> <=> l1 = <<>> /\ c = <<>>) /\ (l2 # <<>> => In(Head(l2)))
    <3>1. /\ Listing(l1 \o c) /\ (l1 \o c = <<>> <=> l1 = <<>> /\ c = <<>>)
          /\ Head(l1 \o c) = IF l1 # <<>> THEN Head(l1) ELSE Head(c)
      BY <1>2, <2>1, JoinLists
    <3>. QED  BY <1>2, <2>1, <3>1
  <2>. HIDE DEF l2
  <2>3. Listing(l3) /\ (l3 = <<>> <=> l2 = <<>> /\ d = <<>>) /\ (l3 # <<>> => In(Head(l3)))
    <3>1. /\ Listing(l2 \o d) /\ (l2 \o d = <<>> <=> l2 = <<>> /\ d = <<>>)
          /\ Head(l2 \o d) = IF l2 # <<>> THEN Head(l2) ELSE Head(d)
      BY <1>2, <2>2, JoinLists
    <3>. QED  BY <1>2, <2>2, <3>1
  <2>. HIDE DEF l3
  <2>4. Listing(l3) /\ (l3 = <<>> <=> a = <<>> /\ b = <<>> /\ c = <<>> /\ d = <<>>)
        /\ (l3 # <<>> => In(Head(l3)))
    BY ONLY <2>1, <2>2, <2>3
  <2>. QED  BY ONLY <2>4 DEF l1, l2, l3
<1>. QED  BY <1>1, <1>2, <1>3, <1>4, <1>5, <1>6

\* The options of a "choice", and the levels of a "score".
ChoiceSchema(criteria) ==
  /\ criteria.kind = "object" /\ Len(Fields(criteria)) \in MinOptions..MaxOptions
  /\ \A k \in DOMAIN Fields(criteria) : IsEntry(Fields(criteria)[k].value)
ScoreSchema(criteria) ==
  /\ criteria.kind = "array" /\ Len(Elements(criteria)) \in MinLevels..MaxLevels
  /\ \A k \in DOMAIN Elements(criteria) : IsContent(Elements(criteria)[k])

LEMMA ChoiceFaultsList ==
  ASSUME NEW criteria \in Found, NEW base
  PROVE  /\ Listing(ChoiceFaults(criteria, base))
         /\ ChoiceFaults(criteria, base) = <<>> <=> ChoiceSchema(criteria)
         /\ ChoiceFaults(criteria, base) # <<>> =>
              InCriteria(criteria, base, Head(ChoiceFaults(criteria, base)))
<1>. DEFINE s == Fields(criteria)
            wrong(k) == ~IsEntry(s[k].value)
            parts == [k \in DOMAIN s |-> When(~IsEntry(s[k].value),
                                              Invalid(Append(base, s[k].key)))]
            shape == criteria.kind = "object" /\ Len(s) \in MinOptions..MaxOptions
            a == When(criteria.kind # "object" \/ Len(s) \notin MinOptions..MaxOptions,
                      Invalid(base))
            b == FlattenSeq(parts)
            In(f) == InCriteria(criteria, base, f)
<1>1. Listing(a) /\ (a = <<>> <=> shape) /\ (a # <<>> => In(Head(a)))
  <2>1. In(Invalid(base))
    BY InvalidFields DEF InCriteria
  <2>. HIDE DEF In
  <2>. QED  BY <2>1, InvalidIsFault, WhenLists
<1>2. /\ Listing(b) /\ (b = <<>> <=> \A k \in DOMAIN s : ~wrong(k))
      /\ b # <<>> => In(Head(b))
  <2>1. ASSUME NEW k \in DOMAIN s
        PROVE  /\ Listing(parts[k]) /\ (parts[k] = <<>> <=> ~wrong(k))
               /\ parts[k] # <<>> => In(Head(parts[k]))
    <3>. DEFINE f == Invalid(Append(base, s[k].key))
    <3>1. parts[k] = When(wrong(k), f) /\ IsFault(f)
      BY InvalidIsFault
    <3>2. wrong(k) \in BOOLEAN
      BY DEF IsEntry, IsContent
    <3>3. In(f)
      BY FieldsAreOfObjects, InvalidFields DEF InCriteria
    <3>. HIDE DEF f, In, parts, wrong, s
    <3>. QED  BY <3>1, <3>2, <3>3, WhenLists
  <2>2. IsSequence(s) /\ parts = [k \in DOMAIN s |-> parts[k]]
    BY FoundFacts
  <2>. HIDE DEF s, parts, In, wrong
  <2>3. /\ Listing(b) /\ (b = <<>> <=> \A k \in DOMAIN s : parts[k] = <<>>)
        /\ b # <<>> => \E k \in DOMAIN s : parts[k] # <<>> /\ Head(b) = Head(parts[k])
    BY <2>1, <2>2, EachLists
  <2>. QED  BY <2>1, <2>3
<1>3. ChoiceFaults(criteria, base) = a \o b
  BY DEF ChoiceFaults
<1>4. ChoiceSchema(criteria) <=> shape /\ \A k \in DOMAIN s : ~wrong(k)
  BY DEF ChoiceSchema
<1>. HIDE DEF a, b, parts, shape, s, wrong, In
<1>5. Listing(a \o b) /\ (a \o b = <<>> <=> a = <<>> /\ b = <<>>) /\ (a \o b # <<>> => In(Head(a \o b)))
  BY <1>1, <1>2, JoinLists
<1>. QED  BY <1>1, <1>2, <1>3, <1>4, <1>5 DEF In

LEMMA ScoreFaultsList ==
  ASSUME NEW criteria \in Found, NEW base
  PROVE  /\ Listing(ScoreFaults(criteria, base))
         /\ ScoreFaults(criteria, base) = <<>> <=> ScoreSchema(criteria)
         /\ ScoreFaults(criteria, base) # <<>> =>
              InCriteria(criteria, base, Head(ScoreFaults(criteria, base)))
<1>. DEFINE s == Elements(criteria)
            wrong(k) == ~IsContent(s[k])
            parts == [k \in DOMAIN s |-> When(~IsContent(s[k]),
                                              Invalid(Append(base, Digits(k - 1))))]
            shape == criteria.kind = "array" /\ Len(s) \in MinLevels..MaxLevels
            a == When(criteria.kind # "array" \/ Len(s) \notin MinLevels..MaxLevels, Invalid(base))
            b == FlattenSeq(parts)
            In(f) == InCriteria(criteria, base, f)
<1>1. Listing(a) /\ (a = <<>> <=> shape) /\ (a # <<>> => In(Head(a)))
  <2>1. In(Invalid(base))
    BY InvalidFields DEF InCriteria
  <2>. HIDE DEF In
  <2>. QED  BY <2>1, InvalidIsFault, WhenLists
<1>2. /\ Listing(b) /\ (b = <<>> <=> \A k \in DOMAIN s : ~wrong(k))
      /\ b # <<>> => In(Head(b))
  <2>1. ASSUME NEW k \in DOMAIN s
        PROVE  /\ Listing(parts[k]) /\ (parts[k] = <<>> <=> ~wrong(k))
               /\ parts[k] # <<>> => In(Head(parts[k]))
    <3>. DEFINE f == Invalid(Append(base, Digits(k - 1)))
    <3>1. parts[k] = When(wrong(k), f) /\ IsFault(f)
      BY InvalidIsFault
    <3>2. wrong(k) \in BOOLEAN
      BY DEF IsEntry, IsContent
    <3>3. In(f)
      BY FieldsAreOfObjects, InvalidFields DEF InCriteria
    <3>. HIDE DEF f, In, parts, wrong, s
    <3>. QED  BY <3>1, <3>2, <3>3, WhenLists
  <2>2. IsSequence(s) /\ parts = [k \in DOMAIN s |-> parts[k]]
    BY FoundFacts
  <2>. HIDE DEF s, parts, In, wrong
  <2>3. /\ Listing(b) /\ (b = <<>> <=> \A k \in DOMAIN s : parts[k] = <<>>)
        /\ b # <<>> => \E k \in DOMAIN s : parts[k] # <<>> /\ Head(b) = Head(parts[k])
    BY <2>1, <2>2, EachLists
  <2>. QED  BY <2>1, <2>3
<1>3. ScoreFaults(criteria, base) = a \o b
  BY DEF ScoreFaults
<1>4. ScoreSchema(criteria) <=> shape /\ \A k \in DOMAIN s : ~wrong(k)
  BY DEF ScoreSchema
<1>. HIDE DEF a, b, parts, shape, s, wrong, In
<1>5. Listing(a \o b) /\ (a \o b = <<>> <=> a = <<>> /\ b = <<>>) /\ (a \o b # <<>> => In(Head(a \o b)))
  BY <1>1, <1>2, JoinLists
<1>. QED  BY <1>1, <1>2, <1>3, <1>4, <1>5 DEF In

LEMMA DeclaredTypeFacts ==
  ASSUME NEW raw, DeclaredType(raw) # ""
  PROVE  DeclaredType(raw) \in {"noul", "choice", "score"}
<1>. DEFINE type == Get(raw, <<"type">>)
<1>1. /\ \E t \in QuestionTypes : type.text = <<t>>
      /\ DeclaredType(raw) = type.text[1]
  BY DEF DeclaredType
<1>. HIDE DEF type
<1>2. PICK t \in QuestionTypes : type.text = <<t>>
  BY <1>1
<1>3. type.text[1] = t
  <2>1. \A x : <<x>>[1] = x
    OBVIOUS
  <2>2. type.text[1] = <<t>>[1]
    BY <1>2
  <2>. QED  BY <2>1, <2>2
<1>. QED  BY <1>1, <1>2, <1>3 DEF QuestionTypes

\* The type is written into every fault of a list.
Tagged(fault, type) == [fault EXCEPT !.tag = type]

LEMMA TaggedLists ==
  ASSUME NEW s, Listing(s), NEW type, NEW t, t = [i \in DOMAIN s |-> Tagged(s[i], type)]
  PROVE  /\ Listing(t) /\ (t = <<>> <=> s = <<>>)
         /\ s # <<>> => Head(t) = Tagged(Head(s), type)
<1>1. IsSequence(s) /\ DOMAIN s = 1..Len(s) /\ Len(s) \in Nat
  BY DomainOfSequence DEF Listing
<1>2. t = [i \in 1..Len(s) |-> t[i]]
  BY <1>1
<1>3. IsSequence(t) /\ Len(t) = Len(s)
  BY <1>1, <1>2, MappedIsSequence
<1>4. ASSUME NEW i \in 1..Len(s) PROVE IsFault(t[i])
  <2>. DEFINE f == s[i]
  <2>1. IsFault(f) /\ t[i] = [f EXCEPT !.tag = type]
    BY <1>1 DEF Listing, Tagged
  <2>. HIDE DEF f
  <2>2. t[i] = [status |-> f.status, code |-> f.code, path |-> f.path, tag |-> type]
    BY <2>1 DEF IsFault
  <2>. QED  BY <2>1, <2>2 DEF IsFault
<1>5. t = <<>> <=> s = <<>>
  <2>1. \A u : IsSequence(u) => (Len(u) = 0 <=> u = <<>>)
    BY EmptyIsSequence DEF IsSequence
  <2>. QED  BY <1>1, <1>3, <2>1
<1>6. ASSUME s # <<>> PROVE Head(t) = Tagged(Head(s), type)
  <2>1. 1 \in DOMAIN s
    <3>1. Len(s) # 0
      BY <1>1, <1>6 DEF IsSequence
    <3>. QED  BY <1>1, <3>1
  <2>2. Head(s) = s[1] /\ Head(t) = t[1]
    OBVIOUS
  <2>. QED  BY <2>1, <2>2
<1>. QED  BY <1>3, <1>4, <1>5, <1>6 DEF Listing

\* The published schema of a question, part by part.
LEMMA SchemaOfQuestion ==
  ASSUME NEW raw \in Json, NEW type, type = DeclaredType(raw),
         NEW criteria, criteria = Get(raw, <<"criteria">>)
  PROVE  QuestionSchema(raw) <=>
           /\ raw.kind = "object" /\ type # ""
           /\ \A k \in DOMAIN Fields(raw) : Fields(raw)[k].key \in CommonFields
           /\ IsEntry(OrNone(Get(raw, <<"instructions">>)))
           /\ type = "noul" => NoulSchema(OrNone(criteria))
           /\ type = "choice" => ChoiceSchema(criteria)
           /\ type = "score" => ScoreSchema(criteria)
<1>. DEFINE options == {m.value : m \in ToSet(Fields(criteria))}
            keys == {m.key : m \in ToSet(Fields(criteria))}
            given == Get(raw, <<"instructions">>)
<1>1. criteria \in Json \cup {Missing} /\ given \in Json \cup {Missing}
  BY GetFinds DEF Found
<1>2. type # "" => type \in {"noul", "choice", "score"}
  BY DeclaredTypeFacts
<1>3. /\ \A S : options \subseteq S <=> \A k \in DOMAIN Fields(criteria) : Fields(criteria)[k].value \in S
      /\ \A S : keys \subseteq S <=> \A k \in DOMAIN Fields(criteria) : Fields(criteria)[k].key \in S
      /\ (\A v \in options : IsEntry(v))
           <=> \A k \in DOMAIN Fields(criteria) : IsEntry(Fields(criteria)[k].value)
  BY DEF ToSet
<1>4. raw.kind = "object" =>
        ({m.key : m \in ToSet(raw.members)} \subseteq CommonFields
           <=> \A k \in DOMAIN Fields(raw) : Fields(raw)[k].key \in CommonFields)
  BY DEF ToSet, Fields
<1>5. (Has(raw, <<"instructions">>) => IsEntry(given)) <=> IsEntry(OrNone(given))
  BY DEF Has, OrNone, IsEntry, Null
<1>6. NoulSchema(OrNone(criteria)) <=>
        /\ criteria.kind \in {"missing", "null", "object"}
        /\ keys \subseteq {<<"true">>, <<"false">>} /\ \A v \in options : IsEntry(v)
  <2>1. CASE criteria = Missing
    <3>1. Fields(criteria) = <<>> /\ Fields(OrNone(criteria)) = <<>> /\ OrNone(criteria).kind = "null"
          /\ criteria.kind = "missing"
      BY <2>1 DEF Fields, OrNone, Missing, Null
    <3>2. DOMAIN <<>> = {}
      OBVIOUS
    <3>. HIDE DEF options, keys
    <3>. QED  BY <1>3, <3>1, <3>2 DEF NoulSchema
  <2>2. CASE criteria \in Json
    <3>1. OrNone(criteria) = criteria /\ criteria.kind # "missing"
      BY <2>2, NeverMissing
    <3>. HIDE DEF options, keys
    <3>. QED  BY <1>3, <3>1 DEF NoulSchema
  <2>. QED  BY <1>1, <2>1, <2>2
<1>7. ChoiceSchema(criteria) <=>
        /\ criteria.kind = "object" /\ Len(criteria.members) \in MinOptions..MaxOptions
        /\ \A v \in options : IsEntry(v)
  <2>. HIDE DEF options
  <2>. QED  BY <1>3 DEF ChoiceSchema, Fields
<1>8. ScoreSchema(criteria) <=>
        /\ criteria.kind = "array" /\ Len(criteria.members) \in MinLevels..MaxLevels
        /\ \A v \in ToSet(criteria.members) : IsContent(v)
  BY DEF ScoreSchema, Elements, ToSet
<1>9. QuestionSchema(raw) <=>
        /\ raw.kind = "object"
        /\ {m.key : m \in ToSet(raw.members)} \subseteq CommonFields
        /\ Has(raw, <<"instructions">>) => IsEntry(given)
        /\ \/ /\ type = "noul" /\ criteria.kind \in {"missing", "null", "object"}
              /\ keys \subseteq {<<"true">>, <<"false">>} /\ \A v \in options : IsEntry(v)
           \/ /\ type = "choice" /\ criteria.kind = "object"
              /\ Len(criteria.members) \in MinOptions..MaxOptions /\ \A v \in options : IsEntry(v)
           \/ /\ type = "score" /\ criteria.kind = "array"
              /\ Len(criteria.members) \in MinLevels..MaxLevels
              /\ \A v \in ToSet(criteria.members) : IsContent(v)
  BY DEF QuestionSchema
<1>. DEFINE noul == NoulSchema(OrNone(criteria))
            choice == ChoiceSchema(criteria)
            score == ScoreSchema(criteria)
<1>10. QuestionSchema(raw) <=>
        /\ raw.kind = "object"
        /\ \A k \in DOMAIN Fields(raw) : Fields(raw)[k].key \in CommonFields
        /\ IsEntry(OrNone(given))
        /\ \/ type = "noul" /\ noul
           \/ type = "choice" /\ choice
           \/ type = "score" /\ score
  <2>. DEFINE object == raw.kind = "object"
              named == {m.key : m \in ToSet(raw.members)} \subseteq CommonFields
              known == \A k \in DOMAIN Fields(raw) : Fields(raw)[k].key \in CommonFields
              guided == Has(raw, <<"instructions">>) => IsEntry(given)
              given_noul == /\ criteria.kind \in {"missing", "null", "object"}
                            /\ keys \subseteq {<<"true">>, <<"false">>}
                            /\ \A v \in options : IsEntry(v)
              given_choice == /\ criteria.kind = "object"
                              /\ Len(criteria.members) \in MinOptions..MaxOptions
                              /\ \A v \in options : IsEntry(v)
              given_score == /\ criteria.kind = "array"
                             /\ Len(criteria.members) \in MinLevels..MaxLevels
                             /\ \A v \in ToSet(criteria.members) : IsContent(v)
  <2>1. QuestionSchema(raw) <=>
          /\ object /\ named /\ guided
          /\ \/ type = "noul" /\ given_noul
             \/ type = "choice" /\ given_choice
             \/ type = "score" /\ given_score
    BY Zenon DEF QuestionSchema
  <2>2. object => (named <=> known)
    BY <1>4
  <2>3. guided <=> IsEntry(OrNone(given))
    BY <1>5
  <2>4. (noul <=> given_noul) /\ (choice <=> given_choice) /\ (score <=> given_score)
    BY <1>6, <1>7, <1>8
  <2>. HIDE DEF object, named, known, guided, given_noul, given_choice, given_score, noul, choice,
                score, given
  <2>5. QuestionSchema(raw) <=>
          /\ object /\ known /\ IsEntry(OrNone(given))
          /\ \/ type = "noul" /\ noul
             \/ type = "choice" /\ choice
             \/ type = "score" /\ score
    BY ONLY <2>1, <2>2, <2>3, <2>4
  <2>. QED  BY <2>5 DEF object, known
<1>11. (\/ type = "noul" /\ noul
        \/ type = "choice" /\ choice
        \/ type = "score" /\ score)
         <=> /\ type # ""
             /\ type = "noul" => noul
             /\ type = "choice" => choice
             /\ type = "score" => score
  <2>0. noul \in BOOLEAN /\ choice \in BOOLEAN /\ score \in BOOLEAN
    BY DEF NoulSchema, ChoiceSchema, ScoreSchema
  <2>. HIDE DEF noul, choice, score
  <2>1. CASE type = ""
    BY ONLY <2>1
  <2>2. CASE type = "noul"
    BY ONLY <2>0, <2>2
  <2>3. CASE type = "choice"
    BY ONLY <2>0, <2>3
  <2>4. CASE type = "score"
    BY ONLY <2>0, <2>4
  <2>. QED  BY <1>2, <2>1, <2>2, <2>3, <2>4
<1>. HIDE DEF noul, choice, score
<1>12. QuestionSchema(raw) <=>
         /\ raw.kind = "object" /\ type # ""
         /\ \A k \in DOMAIN Fields(raw) : Fields(raw)[k].key \in CommonFields
         /\ IsEntry(OrNone(given))
         /\ type = "noul" => noul
         /\ type = "choice" => choice
         /\ type = "score" => score
  BY ONLY <1>10, <1>11
<1>. QED  BY <1>12 DEF noul, choice, score

\* A fault of a question is about the question, a field of it, or something in its criteria.
InQuestion(id, raw, path) ==
  LET base == <<<<"questions">>, id>>
      given == Get(raw, <<"criteria">>)
  IN \/ path = base
     \/ raw.kind = "object" /\ \E key : path = Append(base, key)
     \/ given.kind \in {"object", "array"}
        /\ \E key : path = Append(Append(base, <<"criteria">>), key)

LEMMA QuestionFaultsList ==
  ASSUME NEW raw \in Json, NEW id
  PROVE  /\ Listing(QuestionFaults(id, raw))
         /\ Keyed(Get(raw, <<"criteria">>)) =>
              (QuestionFaults(id, raw) = <<>> <=> QuestionSchema(raw))
         /\ QuestionFaults(id, raw) # <<>> =>
              LET fault == Head(QuestionFaults(id, raw)) IN
              /\ fault.code = "validation_error" /\ fault.tag = DeclaredType(raw)
              /\ InQuestion(id, raw, fault.path)
         /\ QuestionFaults(id, raw) = <<>> =>
              /\ DeclaredType(raw) \in {"noul", "choice", "score"}
              /\ DeclaredType(raw) = "choice" =>
                   /\ Get(raw, <<"criteria">>).kind = "object"
                   /\ Len(Fields(Get(raw, <<"criteria">>))) \in MinOptions..MaxOptions
              /\ DeclaredType(raw) = "score" =>
                   /\ Get(raw, <<"criteria">>).kind = "array"
                   /\ Len(Elements(Get(raw, <<"criteria">>))) \in MinLevels..MaxLevels
<1>. DEFINE base == <<<<"questions">>, id>>
            at_criteria == Append(base, <<"criteria">>)
            type == DeclaredType(raw)
            criteria == Get(raw, <<"criteria">>)
            given == OrNone(Get(raw, <<"instructions">>))
            s == Fields(raw)
            a == When(raw.kind # "object", Invalid(base))
            b == When(type = "", Invalid(Append(base, <<"type">>)))
            parts == [k \in DOMAIN s |-> When(s[k].key \notin CommonFields,
                                              Invalid(Append(base, s[k].key)))]
            c == FlattenSeq(parts)
            d == When(~IsEntry(given), Invalid(Append(base, <<"instructions">>)))
            e == CASE type = "noul" -> NoulFaults(OrNone(criteria), at_criteria)
                   [] type = "choice" -> ChoiceFaults(criteria, at_criteria)
                   [] type = "score" -> ScoreFaults(criteria, at_criteria)
                   [] OTHER -> <<>>
            faults == (((a \o b) \o c) \o d) \o e
            known == \A k \in DOMAIN s : s[k].key \in CommonFields
            At(f) == f.code = "validation_error" /\ InQuestion(id, raw, f.path)
<1>1. Listing(a) /\ (a = <<>> <=> raw.kind = "object") /\ (a # <<>> => At(Head(a)))
  <2>1. At(Invalid(base))
    BY InvalidFields DEF InQuestion
  <2>. HIDE DEF At
  <2>. QED  BY <2>1, InvalidIsFault, WhenLists
<1>2. ASSUME NEW key, raw.kind = "object" PROVE At(Invalid(Append(base, key)))
  BY <1>2, InvalidFields DEF InQuestion
<1>3. Listing(b) /\ (b = <<>> <=> type # "") /\ (b # <<>> /\ raw.kind = "object" => At(Head(b)))
  <2>. DEFINE f == Invalid(Append(base, <<"type">>))  none == type = ""
  <2>1. IsFault(f) /\ none \in BOOLEAN /\ (raw.kind = "object" => At(f)) /\ b = When(none, f)
    BY <1>2, InvalidIsFault
  <2>2. Listing(b) /\ (b = <<>> <=> ~none) /\ (b # <<>> /\ raw.kind = "object" => At(Head(b)))
    <3>. HIDE DEF At, f, none, b
    <3>. QED  BY <2>1, WhenLists
  <2>. QED  BY <2>2
<1>4. /\ Listing(d) /\ (d = <<>> <=> IsEntry(given))
      /\ d # <<>> /\ raw.kind = "object" => At(Head(d))
  <2>1. IsEntry(given) \in BOOLEAN
    BY DEF IsEntry
  <2>. HIDE DEF At, given
  <2>. QED  BY <1>2, <2>1, InvalidIsFault, WhenLists
<1>5. Listing(c) /\ (c = <<>> <=> known) /\ (c # <<>> => At(Head(c)))
  <2>1. ASSUME NEW k \in DOMAIN s
        PROVE  /\ Listing(parts[k]) /\ (parts[k] = <<>> <=> s[k].key \in CommonFields)
               /\ parts[k] # <<>> => At(Head(parts[k]))
    <3>. DEFINE f == Invalid(Append(base, s[k].key))  out == s[k].key \notin CommonFields
    <3>1. parts[k] = When(out, f) /\ IsFault(f) /\ out \in BOOLEAN
      BY InvalidIsFault
    <3>2. At(f)
      BY <1>2, FieldsAreOfObjects
    <3>3. /\ Listing(parts[k]) /\ (parts[k] = <<>> <=> ~out)
          /\ parts[k] # <<>> => At(Head(parts[k]))
      <4>. HIDE DEF f, At, parts, out, s
      <4>. QED  BY <3>1, <3>2, WhenLists
    <3>. QED  BY <3>3
  <2>2. IsSequence(s) /\ parts = [k \in DOMAIN s |-> parts[k]]
    BY FoundFacts DEF Found
  <2>. HIDE DEF s, parts, At
  <2>3. /\ Listing(c) /\ (c = <<>> <=> \A k \in DOMAIN s : parts[k] = <<>>)
        /\ c # <<>> => \E k \in DOMAIN s : parts[k] # <<>> /\ Head(c) = Head(parts[k])
    BY <2>1, <2>2, EachLists
  <2>. QED  BY <2>1, <2>3
<1>6. criteria \in Found /\ OrNone(criteria) \in Found
  BY GetFinds DEF Found
<1>7. type # "" => type \in {"noul", "choice", "score"}
  BY DeclaredTypeFacts
<1>8. /\ Listing(e)
      /\ type = "choice" => (e = <<>> <=> ChoiceSchema(criteria))
      /\ type = "score" => (e = <<>> <=> ScoreSchema(criteria))
      /\ type = "noul" /\ Keyed(criteria) => (e = <<>> <=> NoulSchema(OrNone(criteria)))
      /\ e # <<>> /\ raw.kind = "object" => At(Head(e))
  <2>1. ASSUME NEW f, NEW given_criteria, given_criteria \in {criteria, OrNone(criteria)},
               InCriteria(given_criteria, at_criteria, f), raw.kind = "object"
        PROVE  At(f)
    <3>1. given_criteria.kind \in {"object", "array"} => criteria.kind \in {"object", "array"}
      <4>. HIDE DEF criteria
      <4>. QED  BY <2>1 DEF OrNone, Null
    <3>2. f.code = "validation_error"
      BY <2>1 DEF InCriteria
    <3>3. InQuestion(id, raw, f.path)
      <4>1. f.path = Append(base, <<"criteria">>)
            \/ /\ criteria.kind \in {"object", "array"}
               /\ \E key : f.path = Append(Append(base, <<"criteria">>), key)
        BY <2>1, <3>1 DEF InCriteria
      <4>. QED  BY <2>1, <4>1 DEF InQuestion
    <3>. QED  BY <3>2, <3>3
  <2>2. Keyed(criteria) => Keyed(OrNone(criteria))
    <3>. HIDE DEF criteria
    <3>1. Fields(Null) = <<>> /\ DOMAIN <<>> = {}
      BY DEF Fields, Null
    <3>. QED  BY <3>1 DEF OrNone, Keyed
  <2>. HIDE DEF type, criteria, at_criteria, At
  <2>3. CASE type = "noul"
    BY <1>6, <2>1, <2>2, <2>3, NoulFaultsList
  <2>4. CASE type = "choice"
    BY <1>6, <2>1, <2>4, ChoiceFaultsList
  <2>5. CASE type = "score"
    BY <1>6, <2>1, <2>5, ScoreFaultsList
  <2>6. CASE type \notin {"noul", "choice", "score"}
    BY <2>6, NoneIsListing
  <2>. QED  BY <2>3, <2>4, <2>5, <2>6
<1>9. QuestionFaults(id, raw) = [i \in DOMAIN faults |-> [faults[i] EXCEPT !.tag = type]]
  BY DEF QuestionFaults
<1>10. QuestionSchema(raw) <=>
         /\ raw.kind = "object" /\ type # "" /\ known /\ IsEntry(given)
         /\ type = "noul" => NoulSchema(OrNone(criteria))
         /\ type = "choice" => ChoiceSchema(criteria)
         /\ type = "score" => ScoreSchema(criteria)
  BY SchemaOfQuestion
<1>. HIDE DEF a, b, c, parts, d, e, s, known, At, given, type, criteria
<1>11. /\ Listing(faults)
       /\ faults = <<>> <=> a = <<>> /\ b = <<>> /\ c = <<>> /\ d = <<>> /\ e = <<>>
       /\ faults # <<>> => At(Head(faults))
  <2>. DEFINE l1 == a \o b  l2 == l1 \o c  l3 == l2 \o d  l4 == l3 \o e
  <2>1. /\ Listing(l1) /\ (l1 = <<>> <=> a = <<>> /\ b = <<>>)
        /\ Head(l1) = IF a # <<>> THEN Head(a) ELSE Head(b)
    BY <1>1, <1>3, JoinLists
  <2>. HIDE DEF l1
  <2>2. /\ Listing(l2) /\ (l2 = <<>> <=> l1 = <<>> /\ c = <<>>)
        /\ Head(l2) = IF l1 # <<>> THEN Head(l1) ELSE Head(c)
    BY <1>5, <2>1, JoinLists
  <2>. HIDE DEF l2
  <2>3. /\ Listing(l3) /\ (l3 = <<>> <=> l2 = <<>> /\ d = <<>>)
        /\ Head(l3) = IF l2 # <<>> THEN Head(l2) ELSE Head(d)
    BY <1>4, <2>2, JoinLists
  <2>. HIDE DEF l3
  <2>4. /\ Listing(l4) /\ (l4 = <<>> <=> l3 = <<>> /\ e = <<>>)
        /\ Head(l4) = IF l3 # <<>> THEN Head(l3) ELSE Head(e)
    BY <1>8, <2>3, JoinLists
  <2>. HIDE DEF l4
  <2>5. l1 # <<>> => At(Head(l1))
    BY <1>1, <1>3, <2>1
  <2>6. l2 # <<>> => At(Head(l2))
    BY <1>5, <2>2, <2>5
  <2>7. l3 # <<>> => At(Head(l3))
    BY <1>1, <1>4, <2>1, <2>2, <2>3, <2>6
  <2>8. l4 # <<>> => At(Head(l4))
    BY <1>1, <1>8, <2>1, <2>2, <2>3, <2>4, <2>7
  <2>9. /\ Listing(l4) /\ (l4 # <<>> => At(Head(l4)))
        /\ l4 = <<>> <=> a = <<>> /\ b = <<>> /\ c = <<>> /\ d = <<>> /\ e = <<>>
    BY ONLY <2>1, <2>2, <2>3, <2>4, <2>8
  <2>. QED  BY ONLY <2>9 DEF l1, l2, l3, l4
<1>12. /\ Listing(QuestionFaults(id, raw)) /\ (QuestionFaults(id, raw) = <<>> <=> faults = <<>>)
       /\ faults # <<>> => LET f == Head(QuestionFaults(id, raw)) IN At(f) /\ f.tag = type
  <2>. DEFINE all == QuestionFaults(id, raw)
  <2>1. all = [i \in DOMAIN faults |-> [faults[i] EXCEPT !.tag = type]]
    BY <1>9
  <2>. HIDE DEF faults, all
  <2>2. /\ Listing(all) /\ (all = <<>> <=> faults = <<>>)
        /\ faults # <<>> => Head(all) = [Head(faults) EXCEPT !.tag = type]
    <3>1. Listing(faults)
      BY <1>11
    <3>2. all = [i \in DOMAIN faults |-> Tagged(faults[i], type)]
      BY <2>1 DEF Tagged
    <3>3. /\ Listing(all) /\ (all = <<>> <=> faults = <<>>)
          /\ faults # <<>> => Head(all) = Tagged(Head(faults), type)
      BY ONLY <3>1, <3>2, TaggedLists
    <3>. QED  BY <3>3 DEF Tagged
  <2>3. ASSUME faults # <<>> PROVE At(Head(all)) /\ Head(all).tag = type
    <3>. DEFINE f == Head(faults)
    <3>1. IsFault(f) /\ At(f)
      BY <1>11, <2>3, HeadIsFault
    <3>2. Head(all) = [f EXCEPT !.tag = type]
      BY <2>2, <2>3
    <3>. HIDE DEF f
    <3>3. Head(all) = [status |-> f.status, code |-> f.code, path |-> f.path, tag |-> type]
      BY <3>1, <3>2 DEF IsFault
    <3>. QED  BY <3>1, <3>3 DEF At
  <2>. QED  BY <2>2, <2>3 DEF all
<1>. HIDE DEF faults
<1>13. Keyed(criteria) => (QuestionFaults(id, raw) = <<>> <=> QuestionSchema(raw))
  BY <1>1, <1>3, <1>4, <1>5, <1>7, <1>8, <1>10, <1>11, <1>12
<1>14. QuestionFaults(id, raw) = <<>> =>
         /\ type \in {"noul", "choice", "score"}
         /\ type = "choice" => ChoiceSchema(criteria)
         /\ type = "score" => ScoreSchema(criteria)
  BY <1>3, <1>7, <1>8, <1>11, <1>12
<1>. QED  BY <1>12, <1>13, <1>14 DEF ChoiceSchema, ScoreSchema, type, criteria, At

\* The published schema of a request, part by part.
LEMMA SchemaOfRequest ==
  ASSUME NEW value \in Json, NEW policy, NEW asked, asked = Fields(Get(value, <<"questions">>))
  PROVE  RequestSchema(value, policy) <=>
           /\ value.kind = "object"
           /\ \A i \in DOMAIN TopLevelFields : Get(value, TopLevelFields[i]) # Missing
           /\ \A i \in DOMAIN Fields(value) :
                ~(policy = "reject" /\ Fields(value)[i].key \notin ToSet(TopLevelFields))
           /\ Get(value, <<"model">>).kind = "string" /\ Get(value, <<"model">>).text # <<>>
           /\ IsContent(Get(value, <<"state">>))
           /\ Get(value, <<"questions">>).kind = "object" /\ Len(asked) \in 1..MaxQuestions
           /\ \A q \in DOMAIN asked : QuestionSchema(asked[q].value)
<1>. DEFINE model == Get(value, <<"model">>)
            state == Get(value, <<"state">>)
            questions == Get(value, <<"questions">>)
            keys == {m.key : m \in ToSet(Fields(value))}
            present == \A i \in DOMAIN TopLevelFields : Get(value, TopLevelFields[i]) # Missing
            allowed == \A i \in DOMAIN Fields(value) :
                         ~(policy = "reject" /\ Fields(value)[i].key \notin ToSet(TopLevelFields))
            object == value.kind = "object"
            named == model.kind = "string" /\ model.text # <<>>
            known == policy = "reject" => keys \subseteq ToSet(TopLevelFields)
            counted == questions.kind = "object" /\ Len(questions.members) \in 1..MaxQuestions
            sound == \A m \in ToSet(questions.members) : QuestionSchema(m.value)
            each == \A q \in DOMAIN asked : QuestionSchema(asked[q].value)
<1>1. RequestSchema(value, policy) <=>
        /\ object /\ known /\ named /\ IsContent(state) /\ counted /\ sound
  BY Zenon DEF RequestSchema
<1>2. known <=> allowed
  <2>1. keys \subseteq ToSet(TopLevelFields)
          <=> \A i \in DOMAIN Fields(value) : Fields(value)[i].key \in ToSet(TopLevelFields)
    BY DEF ToSet
  <2>. QED  BY <2>1
<1>3. named /\ IsContent(state) /\ counted => present
  <2>1. ASSUME NEW i \in DOMAIN TopLevelFields
        PROVE  TopLevelFields[i] \in {<<"model">>, <<"state">>, <<"questions">>}
    BY DEF TopLevelFields
  <2>2. Missing.kind = "missing"
    BY DEF Missing
  <2>3. named /\ IsContent(state) /\ counted =>
          model # Missing /\ state # Missing /\ questions # Missing
    <3>. HIDE DEF model, state, questions
    <3>. QED  BY <2>2 DEF IsContent
  <2>. HIDE DEF named, counted
  <2>. QED  BY <2>1, <2>3
<1>4. questions.kind = "object" => asked = questions.members
  BY DEF Fields
<1>5. questions.kind = "object" => (sound <=> each)
  <2>. HIDE DEF questions
  <2>. QED  BY <1>4 DEF ToSet
<1>6. counted <=> questions.kind = "object" /\ Len(asked) \in 1..MaxQuestions
  <2>. HIDE DEF questions
  <2>. QED  BY <1>4
<1>. DEFINE shaped == questions.kind = "object"  many == Len(asked) \in 1..MaxQuestions
<1>7. (counted <=> shaped /\ many) /\ (shaped => (sound <=> each))
  BY <1>5, <1>6
<1>8. RequestSchema(value, policy) <=>
        /\ object /\ present /\ allowed /\ named /\ IsContent(state) /\ shaped /\ many /\ each
  <2>. HIDE DEF object, present, allowed, known, named, state, counted, sound, each, shaped, many
  <2>. QED  BY ONLY <1>1, <1>2, <1>3, <1>7
<1>. QED  BY Zenon, <1>8

\* A fault of a body is about the body, a field of it, or one of its questions, whose type
\* it then names.
InBody(value, fault) ==
  LET asked == Fields(Get(value, <<"questions">>)) IN
  /\ fault.code = "validation_error"
  /\ \/ /\ fault.tag = ""
        /\ \/ fault.path = <<>>
           \/ value.kind = "object" /\ \E key : fault.path = <<key>>
     \/ \E q \in DOMAIN asked : /\ fault.tag = DeclaredType(asked[q].value)
                                /\ InQuestion(asked[q].key, asked[q].value, fault.path)

LEMMA ValidationFaultsList ==
  ASSUME NEW value \in Json, NEW policy
  PROVE  /\ Listing(ValidationFaults(value, policy))
         /\ (\A q \in DOMAIN Fields(Get(value, <<"questions">>)) :
               Keyed(Get(Fields(Get(value, <<"questions">>))[q].value, <<"criteria">>)))
            => (ValidationFaults(value, policy) = <<>> <=> RequestSchema(value, policy))
         /\ ValidationFaults(value, policy) # <<>> =>
              InBody(value, Head(ValidationFaults(value, policy)))
         /\ ValidationFaults(value, policy) = <<>> =>
              /\ IsContent(Get(value, <<"state">>))
              /\ Get(value, <<"questions">>).kind = "object"
              /\ Len(Fields(Get(value, <<"questions">>))) \in 1..MaxQuestions
              /\ \A q \in DOMAIN Fields(Get(value, <<"questions">>)) :
                   QuestionFaults(Fields(Get(value, <<"questions">>))[q].key,
                                  Fields(Get(value, <<"questions">>))[q].value) = <<>>
<1>. DEFINE questions == Get(value, <<"questions">>)
            model == Get(value, <<"model">>)
            state == Get(value, <<"state">>)
            s == Fields(value)
            asked == Fields(questions)
            a == When(value.kind # "object", Invalid(<<>>))
            bs == [i \in DOMAIN TopLevelFields |->
                    When(Get(value, TopLevelFields[i]) = Missing, Invalid(<<TopLevelFields[i]>>))]
            b == FlattenSeq(bs)
            cs == [i \in DOMAIN s |->
                    When(policy = "reject" /\ s[i].key \notin ToSet(TopLevelFields),
                         Invalid(<<s[i].key>>))]
            c == FlattenSeq(cs)
            d == When(model.kind # "string" \/ model.text = <<>>, Invalid(<<<<"model">>>>))
            e == When(~IsContent(state), Invalid(<<<<"state">>>>))
            wrong == questions.kind # "object" \/ Len(asked) \notin 1..MaxQuestions
            f == When(wrong, Invalid(<<<<"questions">>>>))
            gs == [q \in DOMAIN asked |-> QuestionFaults(asked[q].key, asked[q].value)]
            g == FlattenSeq(gs)
            object == value.kind = "object"
            named == model.kind = "string" /\ model.text # <<>>
            present == \A i \in DOMAIN TopLevelFields : Get(value, TopLevelFields[i]) # Missing
            allowed == \A i \in DOMAIN s : ~(policy = "reject" /\ s[i].key \notin ToSet(TopLevelFields))
            each == \A q \in DOMAIN asked : QuestionSchema(asked[q].value)
            In(fault) == InBody(value, fault)
<1>1. In(Invalid(<<>>)) /\ (object => \A key : In(Invalid(<<key>>)))
  BY InvalidFields DEF InBody
<1>2. Listing(a) /\ (a = <<>> <=> object) /\ (a # <<>> => In(Head(a)))
  <2>. HIDE DEF In
  <2>. QED  BY <1>1, InvalidIsFault, WhenLists
<1>3. ASSUME NEW l, NEW condition \in BOOLEAN, NEW key, l = When(condition, Invalid(<<key>>))
      PROVE  Listing(l) /\ (l = <<>> <=> ~condition) /\ (object /\ l # <<>> => In(Head(l)))
  <2>. HIDE DEF In, object
  <2>. QED  BY <1>1, <1>3, InvalidIsFault, WhenLists
<1>4. Listing(d) /\ (d = <<>> <=> named) /\ (object /\ d # <<>> => In(Head(d)))
  <2>1. (model.kind # "string" \/ model.text = <<>>) \in BOOLEAN
    OBVIOUS
  <2>. HIDE DEF In, object, model
  <2>. QED  BY <1>3, <2>1
<1>5. Listing(e) /\ (e = <<>> <=> IsContent(state)) /\ (object /\ e # <<>> => In(Head(e)))
  <2>1. (~IsContent(state)) \in BOOLEAN /\ IsContent(state) \in BOOLEAN
    BY DEF IsContent
  <2>. HIDE DEF In, object, state
  <2>. QED  BY <1>3, <2>1
<1>6. Listing(f) /\ (f = <<>> <=> ~wrong) /\ (object /\ f # <<>> => In(Head(f)))
  <2>1. wrong \in BOOLEAN
    OBVIOUS
  <2>. HIDE DEF In, object, wrong
  <2>. QED  BY <1>3, <2>1
<1>7. questions \in Found /\ value \in Found
  BY GetFinds DEF Found
<1>8. Listing(b) /\ (b = <<>> <=> present) /\ (object /\ b # <<>> => In(Head(b)))
  <2>1. ASSUME NEW i \in DOMAIN TopLevelFields
        PROVE  /\ Listing(bs[i]) /\ (bs[i] = <<>> <=> Get(value, TopLevelFields[i]) # Missing)
               /\ object /\ bs[i] # <<>> => In(Head(bs[i]))
    <3>. DEFINE gone == Get(value, TopLevelFields[i]) = Missing  l == bs[i]
    <3>1. gone \in BOOLEAN /\ l = When(gone, Invalid(<<TopLevelFields[i]>>))
      OBVIOUS
    <3>2. Listing(l) /\ (l = <<>> <=> ~gone) /\ (object /\ l # <<>> => In(Head(l)))
      <4>. HIDE DEF In, object, gone, l
      <4>. QED  BY <1>3, <3>1
    <3>. QED  BY <3>2
  <2>2. IsSequence(TopLevelFields) /\ bs = [i \in DOMAIN TopLevelFields |-> bs[i]]
    <3>1. TopLevelFields \in Seq({<<"model">>, <<"state">>, <<"questions">>})
      BY DEF TopLevelFields
    <3>2. IsSequence(TopLevelFields)
      BY <3>1, SequenceHasForm
    <3>. QED  BY <3>2
  <2>. HIDE DEF bs, In, object
  <2>3. /\ Listing(b) /\ (b = <<>> <=> \A i \in DOMAIN TopLevelFields : bs[i] = <<>>)
        /\ b # <<>> => \E i \in DOMAIN TopLevelFields : bs[i] # <<>> /\ Head(b) = Head(bs[i])
    BY <2>1, <2>2, EachLists
  <2>. QED  BY <2>1, <2>3
<1>9. Listing(c) /\ (c = <<>> <=> allowed) /\ (object /\ c # <<>> => In(Head(c)))
  <2>1. ASSUME NEW i \in DOMAIN s
        PROVE  /\ Listing(cs[i])
               /\ cs[i] = <<>> <=> ~(policy = "reject" /\ s[i].key \notin ToSet(TopLevelFields))
               /\ object /\ cs[i] # <<>> => In(Head(cs[i]))
    <3>. DEFINE unknown == policy = "reject" /\ s[i].key \notin ToSet(TopLevelFields)  l == cs[i]
    <3>1. unknown \in BOOLEAN /\ l = When(unknown, Invalid(<<s[i].key>>))
      OBVIOUS
    <3>2. Listing(l) /\ (l = <<>> <=> ~unknown) /\ (object /\ l # <<>> => In(Head(l)))
      <4>. HIDE DEF In, object, unknown, l, s
      <4>. QED  BY <1>3, <3>1
    <3>. QED  BY <3>2
  <2>2. IsSequence(s) /\ cs = [i \in DOMAIN s |-> cs[i]]
    BY <1>7, FoundFacts
  <2>. HIDE DEF cs, In, object, s
  <2>3. /\ Listing(c) /\ (c = <<>> <=> \A i \in DOMAIN s : cs[i] = <<>>)
        /\ c # <<>> => \E i \in DOMAIN s : cs[i] # <<>> /\ Head(c) = Head(cs[i])
    BY <2>1, <2>2, EachLists
  <2>. QED  BY <2>1, <2>3
<1>10. \A q \in DOMAIN asked : asked[q].value \in Json
  <2>. SUFFICES ASSUME NEW q \in DOMAIN asked PROVE asked[q].value \in Json
    OBVIOUS
  <2>1. questions.kind = "object" /\ asked = questions.members
    BY FieldsAreOfObjects
  <2>2. questions \in Json
    BY <1>7, <2>1, FoundFacts
  <2>. HIDE DEF questions, asked
  <2>. QED  BY <2>1, <2>2, JsonFacts
<1>11. /\ Listing(g) /\ (g = <<>> <=> \A q \in DOMAIN asked : gs[q] = <<>>)
       /\ g # <<>> => In(Head(g))
  <2>1. ASSUME NEW q \in DOMAIN asked
        PROVE  /\ Listing(gs[q]) /\ (gs[q] # <<>> => In(Head(gs[q])))
    <3>. DEFINE raw == asked[q].value  id == asked[q].key  l == gs[q]  fault == Head(l)
    <3>1. l = QuestionFaults(id, raw) /\ raw \in Json
      BY <1>10
    <3>2. /\ Listing(l)
          /\ l # <<>> => /\ fault.code = "validation_error" /\ fault.tag = DeclaredType(raw)
                         /\ InQuestion(id, raw, fault.path)
      <4>. HIDE DEF l, raw, id
      <4>. QED  BY <3>1, QuestionFaultsList
    <3>. HIDE DEF l
    <3>3. l # <<>> => In(fault)
      BY <3>2 DEF InBody
    <3>. QED  BY <3>2, <3>3 DEF l
  <2>2. IsSequence(asked) /\ gs = [q \in DOMAIN asked |-> gs[q]]
    BY <1>7, FoundFacts
  <2>. HIDE DEF asked, gs, In
  <2>3. /\ Listing(g) /\ (g = <<>> <=> \A q \in DOMAIN asked : gs[q] = <<>>)
        /\ g # <<>> => \E q \in DOMAIN asked : gs[q] # <<>> /\ Head(g) = Head(gs[q])
    BY <2>1, <2>2, EachLists
  <2>. QED  BY <2>1, <2>3
<1>12. ValidationFaults(value, policy) = (((((a \o b) \o c) \o d) \o e) \o f) \o g
  BY DEF ValidationFaults
<1>13. \A q \in DOMAIN asked : gs[q] = QuestionFaults(asked[q].key, asked[q].value)
  OBVIOUS
<1>14. (\A q \in DOMAIN asked : Keyed(Get(asked[q].value, <<"criteria">>)))
         => ((\A q \in DOMAIN asked : gs[q] = <<>>) <=> each)
  <2>1. ASSUME NEW q \in DOMAIN asked, Keyed(Get(asked[q].value, <<"criteria">>))
        PROVE  gs[q] = <<>> <=> QuestionSchema(asked[q].value)
    <3>. DEFINE raw == asked[q].value  id == asked[q].key
    <3>1. gs[q] = QuestionFaults(id, raw) /\ raw \in Json /\ Keyed(Get(raw, <<"criteria">>))
      BY <1>10, <1>13, <2>1
    <3>. HIDE DEF raw, id, gs, asked
    <3>2. QuestionFaults(id, raw) = <<>> <=> QuestionSchema(raw)
      BY <3>1, QuestionFaultsList
    <3>. QED  BY <3>1, <3>2 DEF raw
  <2>. HIDE DEF gs, asked
  <2>. QED  BY <2>1
<1>. DEFINE schema == RequestSchema(value, policy)
<1>15. schema <=> /\ object /\ present /\ allowed /\ named /\ IsContent(state) /\ ~wrong /\ each
  <2>1. RequestSchema(value, policy) <=>
           /\ object /\ present /\ allowed
           /\ named /\ IsContent(state)
           /\ questions.kind = "object" /\ Len(asked) \in 1..MaxQuestions
           /\ each
    BY SchemaOfRequest
  <2>. HIDE DEF object, present, allowed, named, state, questions, asked, each
  <2>. QED  BY <2>1
<1>. HIDE DEF a, b, bs, c, cs, d, e, f, g, object, present, allowed, named, each, schema, In
<1>. DEFINE l1 == a \o b  l2 == l1 \o c  l3 == l2 \o d  l4 == l3 \o e  l5 == l4 \o f  l6 == l5 \o g
<1>16. /\ Listing(l1) /\ (l1 = <<>> <=> a = <<>> /\ b = <<>>)
       /\ l1 # <<>> => In(Head(l1))
  BY <1>2, <1>8, JoinLists
<1>. HIDE DEF l1
<1>17. ASSUME NEW l, Listing(l), l = <<>> => object, l # <<>> => In(Head(l)),
              NEW t, Listing(t), object /\ t # <<>> => In(Head(t))
       PROVE  /\ Listing(l \o t) /\ (l \o t = <<>> <=> l = <<>> /\ t = <<>>)
              /\ l \o t # <<>> => In(Head(l \o t))
  <2>1. /\ Listing(l \o t) /\ (l \o t = <<>> <=> l = <<>> /\ t = <<>>)
        /\ Head(l \o t) = IF l # <<>> THEN Head(l) ELSE Head(t)
    BY <1>17, JoinLists
  <2>. QED  BY <1>17, <2>1
<1>18. /\ Listing(l2) /\ (l2 = <<>> <=> l1 = <<>> /\ c = <<>>)
       /\ (l2 # <<>> => In(Head(l2))) /\ (l1 = <<>> => object)
  BY <1>2, <1>9, <1>16, <1>17
<1>. HIDE DEF l2
<1>19. /\ Listing(l3) /\ (l3 = <<>> <=> l2 = <<>> /\ d = <<>>)
       /\ (l3 # <<>> => In(Head(l3))) /\ (l2 = <<>> => object)
  BY <1>4, <1>17, <1>18
<1>. HIDE DEF l3
<1>20. /\ Listing(l4) /\ (l4 = <<>> <=> l3 = <<>> /\ e = <<>>)
       /\ (l4 # <<>> => In(Head(l4))) /\ (l3 = <<>> => object)
  BY <1>5, <1>17, <1>19
<1>. HIDE DEF l4
<1>21. /\ Listing(l5) /\ (l5 = <<>> <=> l4 = <<>> /\ f = <<>>)
       /\ (l5 # <<>> => In(Head(l5))) /\ (l4 = <<>> => object)
  BY <1>6, <1>17, <1>20
<1>. HIDE DEF l5
<1>22. /\ Listing(l6) /\ (l6 = <<>> <=> l5 = <<>> /\ g = <<>>)
       /\ (l6 # <<>> => In(Head(l6))) /\ (l5 = <<>> => object)
  BY <1>11, <1>17, <1>21
<1>23. ValidationFaults(value, policy) = l6
  BY <1>12 DEF l1, l2, l3, l4, l5, l6
<1>. HIDE DEF l6
<1>24. l6 = <<>> <=> /\ a = <<>> /\ b = <<>> /\ c = <<>> /\ d = <<>> /\ e = <<>> /\ f = <<>>
                     /\ g = <<>>
  BY ONLY <1>16, <1>18, <1>19, <1>20, <1>21, <1>22
<1>. HIDE DEF gs, wrong, state, asked
<1>25. (\A q \in DOMAIN asked : Keyed(Get(asked[q].value, <<"criteria">>))) => (l6 = <<>> <=> schema)
  BY <1>2, <1>4, <1>5, <1>6, <1>8, <1>9, <1>11, <1>14, <1>15, <1>24
<1>26. l6 = <<>> => /\ IsContent(state) /\ ~wrong
                    /\ \A q \in DOMAIN asked : QuestionFaults(asked[q].key, asked[q].value) = <<>>
  BY <1>5, <1>6, <1>11, <1>13, <1>24
<1>27. /\ Listing(ValidationFaults(value, policy))
       /\ ValidationFaults(value, policy) # <<>> => In(Head(ValidationFaults(value, policy)))
  BY <1>22, <1>23
<1>28. ~wrong => questions.kind = "object" /\ Len(asked) \in 1..MaxQuestions
  BY DEF wrong
<1>. HIDE DEF questions
<1>29. /\ (\A q \in DOMAIN asked : Keyed(Get(asked[q].value, <<"criteria">>)))
            => (ValidationFaults(value, policy) = <<>> <=> schema)
       /\ ValidationFaults(value, policy) = <<>> =>
            /\ IsContent(state) /\ questions.kind = "object" /\ Len(asked) \in 1..MaxQuestions
            /\ \A q \in DOMAIN asked : QuestionFaults(asked[q].key, asked[q].value) = <<>>
  BY <1>23, <1>25, <1>26, <1>28
<1>. QED  BY <1>27, <1>29 DEF In, schema, asked, state, questions

LEMMA NoulCriteria ==
  ASSUME NEW criteria \in Found, NEW options, options = Criteria("noul", criteria)
  PROVE  /\ IsSequence(options)
         /\ [i \in DOMAIN options |-> options[i].key] = <<<<"true">>, <<"false">>>>
         /\ \A i \in DOMAIN options : options[i].entry # Null => options[i].entry \in Json
<1>. DEFINE Side(k) == <<<<"true">>, <<"false">>>>[k]
<1>1. options = [k \in 1..2 |-> [key |-> Side(k), entry |-> OrNone(Get(criteria, Side(k)))]]
  BY DEF Criteria
<1>2. Side(1) = <<"true">> /\ Side(2) = <<"false">>
  OBVIOUS
<1>. HIDE DEF Side
<1>3. /\ DOMAIN options = 1..2 /\ options = [k \in 1..2 |-> options[k]]
      /\ \A k \in 1..2 : /\ options[k].key = Side(k)
                         /\ options[k].entry = OrNone(Get(criteria, Side(k)))
  BY <1>1
<1>4. IsSequence(options)
  BY <1>3, MappedIsSequence, 2 \in Nat
<1>5. [i \in DOMAIN options |-> options[i].key] = <<<<"true">>, <<"false">>>>
  <2>1. [i \in DOMAIN options |-> options[i].key] = [i \in 1..2 |-> Side(i)]
    BY <1>3
  <2>2. [i \in 1..2 |-> Side(i)] = <<Side(1), Side(2)>>
    OBVIOUS
  <2>. QED  BY <1>2, <2>1, <2>2
<1>6. ASSUME NEW i \in DOMAIN options, options[i].entry # Null PROVE options[i].entry \in Json
  BY <1>3, <1>6, GetFinds
<1>. QED  BY <1>4, <1>5, <1>6

LEMMA ChoiceCriteria ==
  ASSUME NEW criteria \in Found, criteria.kind = "object",
         NEW options, options = Criteria("choice", criteria)
  PROVE  /\ IsSequence(options)
         /\ \A i \in DOMAIN options : options[i].key \in Seq(DOMAIN Point)
         /\ \A i \in DOMAIN options : options[i].entry \in Json
         /\ Len(options) = Len(criteria.members) /\ DOMAIN options = DOMAIN criteria.members
         /\ \A i \in DOMAIN options : options[i].key = criteria.members[i].key
<1>1. criteria \in Json
  BY FoundFacts
<1>2. options = [k \in DOMAIN criteria.members |->
                  [key |-> criteria.members[k].key, entry |-> criteria.members[k].value]]
  BY DEF Criteria
<1>3. IsSequence(criteria.members) /\ DOMAIN criteria.members = 1..Len(criteria.members)
      /\ Len(criteria.members) \in Nat
  BY <1>1, JsonFacts, DomainOfSequence
<1>4. \A k \in DOMAIN criteria.members : /\ criteria.members[k].key \in Seq(DOMAIN Point)
                                         /\ criteria.members[k].value \in Json
  BY <1>1, JsonFacts
<1>5. options = [k \in 1..Len(criteria.members) |-> options[k]]
  BY <1>2, <1>3
<1>6. IsSequence(options) /\ Len(options) = Len(criteria.members)
  BY <1>3, <1>5, MappedIsSequence
<1>7. \A i \in DOMAIN options : /\ options[i].key = criteria.members[i].key
                               /\ options[i].entry = criteria.members[i].value
  BY <1>2
<1>8. DOMAIN options = DOMAIN criteria.members
  BY <1>2
<1>. QED  BY ONLY <1>4, <1>6, <1>7, <1>8

LEMMA ScoreCriteria ==
  ASSUME NEW criteria \in Found, criteria.kind = "array",
         Len(Elements(criteria)) \in MinLevels..MaxLevels,
         NEW options, options = Criteria("score", criteria)
  PROVE  /\ IsSequence(options)
         /\ IsInjective([i \in DOMAIN options |-> options[i].key])
         /\ \A i \in DOMAIN options : options[i].entry \in Json
         /\ Len(options) >= 2 /\ Len(options) <= 10
         /\ \A i \in DOMAIN options : options[i].key = Digits(i - 1)
<1>. DEFINE n == Len(criteria.members)
<1>1. criteria \in Json /\ n \in MinLevels..MaxLevels
  BY FoundFacts DEF Elements
<1>2. options = [k \in DOMAIN criteria.members |->
                  [key |-> Digits(k - 1), entry |-> criteria.members[k]]]
  BY DEF Criteria
<1>3. IsSequence(criteria.members) /\ DOMAIN criteria.members = 1..n /\ n \in Nat
  BY <1>1, JsonFacts, DomainOfSequence
<1>4. \A k \in DOMAIN criteria.members : criteria.members[k] \in Json
  BY <1>1, JsonFacts
<1>. HIDE DEF n
<1>5. options = [k \in 1..n |-> options[k]] /\ DOMAIN options = 1..n
  BY <1>2, <1>3
<1>6. IsSequence(options)
  BY <1>3, <1>5, MappedIsSequence
<1>7. IsInjective([i \in DOMAIN options |-> options[i].key])
  <2>1. [i \in DOMAIN options |-> options[i].key] = [i \in 1..n |-> Digits(i - 1)]
    BY <1>2, <1>3
  <2>2. ASSUME NEW i \in 1..n, NEW j \in 1..n, Digits(i - 1) = Digits(j - 1) PROVE i = j
    <3>. DEFINE k == i - 1  l == j - 1
    <3>1. MaxLevels \in Nat /\ n <= MaxLevels /\ n \in Nat
      BY <1>1, <1>3, LimitsAssumption
    <3>2. k \in 0..(MaxLevels - 1) /\ l \in 0..(MaxLevels - 1) /\ (k = l => i = j)
      BY <3>1
    <3>3. Digits(k) = Digits(l)
      BY <2>2
    <3>. HIDE DEF k, l
    <3>. QED  BY <3>2, <3>3, DigitsAssumption
  <2>. DEFINE key == [i \in 1..n |-> Digits(i - 1)]
  <2>3. \A i, j \in 1..n : key[i] = key[j] => i = j
    BY <2>2
  <2>4. DOMAIN key = 1..n
    OBVIOUS
  <2>. HIDE DEF key
  <2>5. IsInjective(key)
    BY <2>3, <2>4 DEF IsInjective
  <2>. QED  BY <2>1, <2>5 DEF key
<1>8. Len(options) >= 2 /\ Len(options) <= 10
  <2>1. Len(options) = n
    BY <1>3, <1>5, MappedIsSequence
  <2>2. n \in Nat /\ n >= 2 /\ n <= MaxLevels /\ MaxLevels \in Nat /\ MaxLevels <= 10
    BY <1>1, <1>3, LimitsAssumption
  <2>3. n >= 2 /\ n <= 10
    BY ONLY <2>2
  <2>. QED  BY ONLY <2>1, <2>3
<1>. QED  BY <1>2, <1>4, <1>6, <1>7, <1>8

\* Levels are numbered from 0, and there are ten of them at most.
GradedQuestion(q) ==
  q.type = "score" => /\ Len(q.criteria) <= 10
                      /\ \A k \in DOMAIN q.criteria : q.criteria[k].key = Digits(k - 1)
Graded(r) == \A i \in DOMAIN r.questions : GradedQuestion(r.questions[i])

\* No text of it has the name of a special token in it.
Legible(r) ==
  /\ Free(Render(r.state), DOMAIN Spelling)
  /\ \A i \in DOMAIN r.questions : FreeQuestion(r.questions[i], DOMAIN Spelling)

\* validate_request() hands over only what can be compiled.
THEOREM ValidatedIsAskable ==
  ASSUME NEW value \in Json, NEW policy, ValidationFaults(value, policy) = <<>>
  PROVE  Askable(Validated(value)) /\ Graded(Validated(value)) /\ Legible(Validated(value))
<1>. DEFINE asked == Get(value, <<"questions">>)
            questions == asked.members
            v == Validated(value)
            type(q) == DeclaredType(questions[q].value)
            criteria(q) == Get(questions[q].value, <<"criteria">>)
<1>1. /\ IsContent(Get(value, <<"state">>))
      /\ asked.kind = "object" /\ Len(Fields(asked)) \in 1..MaxQuestions
      /\ \A q \in DOMAIN Fields(asked) :
           QuestionFaults(Fields(asked)[q].key, Fields(asked)[q].value) = <<>>
  BY ValidationFaultsList
<1>2. Fields(asked) = questions /\ Len(questions) > 0
  <2>1. Fields(asked) = questions
    BY <1>1 DEF Fields
  <2>2. Len(questions) \in 1..MaxQuestions /\ MaxQuestions \in Nat
    BY <1>1, <2>1, LimitsAssumption
  <2>. HIDE DEF questions
  <2>. QED  BY <2>1, <2>2
<1>3. asked \in Json
  <2>1. asked \in Json \cup {Missing}
    BY GetFinds DEF Found
  <2>. HIDE DEF asked
  <2>. QED  BY <1>1, <2>1 DEF Missing
<1>4. /\ IsSequence(questions) /\ DOMAIN questions = 1..Len(questions) /\ Len(questions) \in Nat
      /\ \A q \in DOMAIN questions : questions[q].value \in Json
  BY <1>1, <1>3, JsonFacts, DomainOfSequence
<1>5. IsText(v.state) /\ Free(Render(v.state), DOMAIN Spelling)
  <2>1. v.state = Get(value, <<"state">>)
    BY DEF Validated
  <2>2. v.state \in Json
    <3>1. v.state \in Json \cup {Missing}
      BY <2>1, GetFinds DEF Found
    <3>. QED  BY <1>1, <2>1, <3>1 DEF Missing, IsContent
  <2>. QED  BY <2>1, <2>2, JsonFacts
<1>6. v.questions = [q \in DOMAIN questions |->
        [id |-> questions[q].key, type |-> type(q),
         instructions |-> OrNone(Get(questions[q].value, <<"instructions">>)),
         criteria |-> Criteria(type(q), criteria(q))]]
  BY DEF Validated
<1>. HIDE DEF v, asked, questions
<1>7. IsSequence(v.questions) /\ Len(v.questions) = Len(questions)
  <2>1. v.questions = [q \in 1..Len(questions) |-> v.questions[q]]
    BY <1>4, <1>6
  <2>. QED  BY <1>4, <2>1, MappedIsSequence
<1>8. ASSUME NEW q \in DOMAIN questions
      PROVE  /\ AskableQuestion(v.questions[q]) /\ GradedQuestion(v.questions[q])
             /\ FreeQuestion(v.questions[q], DOMAIN Spelling)
  <2>. DEFINE raw == questions[q].value
              u == v.questions[q]
  <2>1. raw \in Json /\ QuestionFaults(questions[q].key, raw) = <<>>
    BY <1>1, <1>2, <1>4
  <2>2. /\ u.type = DeclaredType(raw)
        /\ u.instructions = OrNone(Get(raw, <<"instructions">>))
        /\ u.criteria = Criteria(DeclaredType(raw), Get(raw, <<"criteria">>))
    BY <1>6
  <2>. HIDE DEF raw, u
  <2>3. /\ DeclaredType(raw) \in {"noul", "choice", "score"}
        /\ DeclaredType(raw) = "choice" => Get(raw, <<"criteria">>).kind = "object"
        /\ DeclaredType(raw) = "score" =>
             /\ Get(raw, <<"criteria">>).kind = "array"
             /\ Len(Elements(Get(raw, <<"criteria">>))) \in MinLevels..MaxLevels
    BY <2>1, QuestionFaultsList
  <2>4. Get(raw, <<"criteria">>) \in Found /\ u.instructions \in Json \cup {Null}
    BY <2>1, <2>2, GetFinds DEF Found
  <2>5. u.instructions # Null => IsText(u.instructions)
    BY <2>4, JsonFacts
  <2>6. AsWritten(u) = [i \in DOMAIN u.criteria |-> u.criteria[i].key]
    BY DEF AsWritten
  <2>7. AskableQuestion(u)
    <3>1. CASE DeclaredType(raw) = "noul"
      <4>1. /\ IsSequence(u.criteria)
            /\ AsWritten(u) = <<<<"true">>, <<"false">>>>
            /\ \A i \in DOMAIN u.criteria : u.criteria[i].entry # Null => u.criteria[i].entry \in Json
        BY <2>2, <2>4, <2>6, <3>1, NoulCriteria
      <4>. QED  BY <2>2, <2>5, <3>1, <4>1, JsonFacts DEF AskableQuestion
    <3>2. CASE DeclaredType(raw) = "choice"
      <4>1. /\ IsSequence(u.criteria)
            /\ \A i \in DOMAIN u.criteria : u.criteria[i].key \in Seq(DOMAIN Point)
            /\ \A i \in DOMAIN u.criteria : u.criteria[i].entry \in Json
        BY <2>2, <2>3, <2>4, <3>2, ChoiceCriteria
      <4>2. ToSet(AsWritten(u)) \subseteq Seq(DOMAIN Point)
        BY <2>6, <4>1 DEF ToSet
      <4>. QED  BY <2>2, <2>5, <3>2, <4>1, <4>2, JsonFacts DEF AskableQuestion
    <3>3. CASE DeclaredType(raw) = "score"
      <4>1. /\ IsSequence(u.criteria) /\ IsInjective(AsWritten(u))
            /\ \A i \in DOMAIN u.criteria : u.criteria[i].entry \in Json
        BY <2>2, <2>3, <2>4, <2>6, <3>3, ScoreCriteria
      <4>. QED  BY <2>2, <2>5, <3>3, <4>1, JsonFacts DEF AskableQuestion
    <3>. QED  BY <2>3, <3>1, <3>2, <3>3
  <2>8. GradedQuestion(u)
    BY <2>2, <2>3, <2>4, ScoreCriteria DEF GradedQuestion
  <2>9. FreeQuestion(u, DOMAIN Spelling)
    <3>1. \A i \in DOMAIN u.criteria : u.type = "score" \/ u.criteria[i].entry # Null =>
                                       u.criteria[i].entry \in Json
      <4>1. CASE DeclaredType(raw) = "noul"
        BY <2>2, <2>4, <4>1, NoulCriteria
      <4>2. CASE DeclaredType(raw) = "choice"
        BY <2>2, <2>3, <2>4, <4>2, ChoiceCriteria
      <4>3. CASE DeclaredType(raw) = "score"
        BY <2>2, <2>3, <2>4, <4>3, ScoreCriteria
      <4>. QED  BY <2>3, <4>1, <4>2, <4>3
    <3>2. u.instructions # Null => u.instructions \in Json
      BY <2>4
    <3>. QED  BY <3>1, <3>2, JsonFacts DEF FreeQuestion
  <2>. QED  BY <2>7, <2>8, <2>9 DEF u
<1>9. DOMAIN v.questions = DOMAIN questions
  BY <1>6
<1>. QED  BY <1>2, <1>5, <1>7, <1>8, <1>9 DEF Askable, Graded, Legible, v

-----------------------------------------------------------------------------
(* What is validated has no key twice                                        *)

\* Its options have different keys, and there are two of them or more.
DistinctQuestion(q) == IsInjective(AsWritten(q)) /\ Len(q.criteria) >= 2
Distinct(r) ==
  /\ \A i \in DOMAIN r.questions : DistinctQuestion(r.questions[i])
  /\ \A i, j \in DOMAIN r.questions : r.questions[i].id = r.questions[j].id => i = j

\* What is known of a validated request besides that it can be asked. The decoder looks for
\* repeated keys as deep as nesting is let through, and options are three layers down.
Orderly(r) == Graded(r) /\ Legible(r) /\ (MaxDepth >= 3 => Distinct(r))

\* The layers of a value from the outside.
Layers(value, n, f) ==
  f = [k \in 0..n |-> IF k = 0 THEN {value} ELSE UNION {Within(v) : v \in f[k - 1]}]

LEMMA SomeLayers ==
  ASSUME NEW value, NEW depth \in Nat
  PROVE  \E f : Layers(value, depth, f)
<1>. DEFINE Bad == {n \in Nat : ~ \E f : Layers(value, n, f)}
<1>1. SUFFICES ASSUME Bad # {} PROVE FALSE
  OBVIOUS
<1>2. PICK n \in Bad : \A m \in Bad : n <= m
  <2>1. Bad \subseteq Nat
    OBVIOUS
  <2>. HIDE DEF Bad
  <2>. QED  BY <1>1, <2>1, SomeLeast
<1>3. CASE n = 0
  <2>. DEFINE g == [k \in 0..0 |-> {value}]
  <2>1. Layers(value, 0, g)
    BY DEF Layers
  <2>. QED  BY <1>3, <2>1
<1>4. CASE n # 0
  <2>1. n - 1 \in Nat /\ ~(n <= n - 1)
    BY <1>4
  <2>2. PICK f : Layers(value, n - 1, f)
    <3>1. n - 1 \notin Bad
      <4>. HIDE DEF Bad
      <4>. QED  BY <1>2, <2>1
    <3>. QED  BY <2>1, <3>1
  <2>. DEFINE g == [k \in 0..n |-> IF k = 0 THEN {value} ELSE UNION {Within(v) : v \in f[k - 1]}]
  <2>3. ASSUME NEW k \in 0..(n - 1) PROVE g[k] = f[k]
    <3>1. k \in 0..n
      BY <2>1
    <3>2. f[k] = IF k = 0 THEN {value} ELSE UNION {Within(v) : v \in f[k - 1]}
      BY <2>2 DEF Layers
    <3>. QED  BY <3>1, <3>2
  <2>4. ASSUME NEW k \in 0..n, k # 0 PROVE k - 1 \in 0..(n - 1)
    BY <2>1, <2>4
  <2>5. Layers(value, n, g)
    <3>1. \A k \in 0..n : k # 0 => g[k - 1] = f[k - 1]
      <4>. HIDE DEF g
      <4>. QED  BY <2>3, <2>4
    <3>2. g = [k \in 0..n |-> IF k = 0 THEN {value} ELSE UNION {Within(v) : v \in g[k - 1]}]
      BY <3>1
    <3>. HIDE DEF g
    <3>. QED  BY <3>2 DEF Layers
  <2>. QED  BY <2>5
<1>. QED  BY <1>3, <1>4

LEMMA LayerUnfolds ==
  ASSUME NEW value
  PROVE  /\ Layer(value, 0) = {value}
         /\ \A n \in 1..MaxDepth :
              Layer(value, n) = UNION {Within(v) : v \in Layer(value, n - 1)}
<1>. DEFINE f == CHOOSE f : Layers(value, MaxDepth, f)
<1>1. MaxDepth \in Nat
  BY LimitsAssumption
<1>2. Layers(value, MaxDepth, f)
  BY <1>1, SomeLayers
<1>3. \A n : Layer(value, n) = f[n]
  BY DEF Layer, Layers
<1>. HIDE DEF f
<1>4. 0 \in 0..MaxDepth /\ \A n \in 1..MaxDepth : n \in 0..MaxDepth /\ n # 0
  BY <1>1
<1>. QED  BY <1>2, <1>3, <1>4 DEF Layers

\* What stands in a value of one layer is in the next, and is one of the parts.
LEMMA NextLayer ==
  ASSUME NEW value, NEW n \in 0..(MaxDepth - 1), NEW v \in Layer(value, n), NEW w \in Within(v)
  PROVE  w \in Layer(value, n + 1) /\ w \in Parts(value)
<1>1. n + 1 \in 1..MaxDepth /\ n + 1 \in 0..MaxDepth /\ (n + 1) - 1 = n
  BY LimitsAssumption
<1>2. Layer(value, n + 1) = UNION {Within(u) : u \in Layer(value, n)}
  BY <1>1, LayerUnfolds
<1>. QED  BY <1>1, <1>2 DEF Parts

LEMMA GetIsWithin ==
  ASSUME NEW v, NEW key, Get(v, key) # Missing
  PROVE  Get(v, key) \in Within(v)
<1>1. v.kind = "object" /\ key \in ToSet(KeysOf(v.members)) /\ Get(v, key) = Value(v.members, key)
  BY DEF Get
<1>2. \E i \in DOMAIN v.members : v.members[i].key = key
  BY <1>1 DEF ToSet, KeysOf
<1>3. \E i \in DOMAIN v.members : Get(v, key) = v.members[i].value
  BY <1>1, <1>2 DEF Value
<1>. QED  BY <1>1, <1>3 DEF Within, ToSet

\* As many keys as members: no two are the same.
LEMMA KeysAreDistinct ==
  ASSUME NEW v \in Json, v.kind = "object", ~RepeatsAKey(v)
  PROVE  \A i, j \in DOMAIN v.members : v.members[i].key = v.members[j].key => i = j
<1>. DEFINE s == v.members  keys == KeysOf(s)  n == Len(s)
<1>1. n \in Nat /\ DOMAIN s = 1..n
  BY JsonFacts, DomainOfSequence
<1>2. keys = [i \in 1..n |-> s[i].key] /\ ToSet(keys) = {s[i].key : i \in 1..n}
  BY <1>1 DEF KeysOf, ToSet
<1>3. ~(Cardinality(ToSet(keys)) < n)
  BY DEF RepeatsAKey
<1>. HIDE DEF s, keys, n
<1>4. keys \in Surjection(1..n, ToSet(keys))
  BY <1>2 DEF Surjection
<1>5. IsFiniteSet(1..n) /\ Cardinality(1..n) = n
  BY <1>1, FS_Interval
<1>6. IsFiniteSet(ToSet(keys)) /\ Cardinality(ToSet(keys)) <= n
  BY <1>4, <1>5, FS_Surjection
<1>7. Cardinality(ToSet(keys)) = Cardinality(1..n)
  BY <1>1, <1>3, <1>5, <1>6, FS_CardinalityType
<1>8. keys \in Injection(1..n, ToSet(keys))
  BY <1>4, <1>5, <1>7, FS_Surjection
<1>9. \A i, j \in 1..n : keys[i] = keys[j] => i = j
  BY <1>2, <1>8 DEF Injection, IsInjective
<1>. QED  BY <1>1, <1>2, <1>9 DEF s

\* Where the parser lets a body through, the names that matter are told apart.
LEMMA PartIsKeyed ==
  ASSUME NEW value, NEW v \in Found, v # Missing => v \in Parts(value),
         \A part \in Parts(value) : ~RepeatsAKey(part)
  PROVE  Keyed(v)
<1>1. CASE v.kind = "object"
  <2>1. v \in Json /\ v # Missing /\ Fields(v) = v.members
    BY <1>1, FoundFacts DEF Missing, Fields
  <2>. QED  BY <1>1, <2>1, KeysAreDistinct DEF Keyed
<1>2. CASE v.kind # "object"
  BY <1>2, FieldsAreOfObjects DEF Keyed
<1>. QED  BY <1>1, <1>2

LEMMA BodyIsKeyed ==
  ASSUME NEW value \in Json, MaxDepth >= 3, \A part \in Parts(value) : ~RepeatsAKey(part),
         NEW asked, asked = Get(value, <<"questions">>)
  PROVE  /\ Keyed(asked)
         /\ \A q \in DOMAIN Fields(asked) : Keyed(Get(Fields(asked)[q].value, <<"criteria">>))
<1>1. /\ 0 \in 0..(MaxDepth - 1) /\ 1 \in 0..(MaxDepth - 1) /\ 2 \in 0..(MaxDepth - 1)
      /\ 0 + 1 = 1 /\ 1 + 1 = 2
  BY LimitsAssumption
<1>2. asked \in Found /\ (asked # Missing => asked \in Layer(value, 1) /\ asked \in Parts(value))
  <2>1. value \in Layer(value, 0)
    BY LayerUnfolds
  <2>2. asked # Missing => asked \in Within(value)
    BY GetIsWithin
  <2>. QED  BY <1>1, <2>1, <2>2, GetFinds, NextLayer DEF Found
<1>3. Keyed(asked)
  BY <1>2, PartIsKeyed
<1>4. ASSUME NEW q \in DOMAIN Fields(asked)
      PROVE  Keyed(Get(Fields(asked)[q].value, <<"criteria">>))
  <2>. DEFINE raw == Fields(asked)[q].value  given == Get(raw, <<"criteria">>)
  <2>1. asked.kind = "object" /\ Fields(asked) = asked.members
    BY FieldsAreOfObjects
  <2>2. asked \in Json /\ asked # Missing
    BY <1>2, <2>1, FoundFacts DEF Missing
  <2>3. raw \in Json /\ raw \in Within(asked)
    BY <2>1, <2>2, JsonFacts DEF Within, ToSet
  <2>. HIDE DEF raw
  <2>4. raw \in Layer(value, 2)
    BY <1>1, <1>2, <2>2, <2>3, NextLayer
  <2>5. given \in Found /\ (given # Missing => given \in Within(raw))
    BY <2>3, GetFinds, GetIsWithin DEF Found
  <2>. HIDE DEF given
  <2>6. given # Missing => given \in Parts(value)
    BY <1>1, <2>4, <2>5, NextLayer
  <2>7. Keyed(given)
    BY <2>5, <2>6, PartIsKeyed
  <2>. QED  BY <2>7 DEF given, raw
<1>. QED  BY <1>3, <1>4

\* The validator, which collects faults one by one, lets through exactly what the published
\* schema allows, for every value in which no key is repeated.
THEOREM ValidatorIsTheSchema ==
  ASSUME NEW value \in Json, MaxDepth >= 3, \A part \in Parts(value) : ~RepeatsAKey(part),
         NEW policy
  PROVE  ValidationFaults(value, policy) = <<>> <=> RequestSchema(value, policy)
BY BodyIsKeyed, ValidationFaultsList

\* The strict parser refuses a repeated key, so that no two questions have one ID and no two
\* options of a question one key; the validator refuses fewer than two options.
THEOREM ValidatedIsDistinct ==
  ASSUME NEW body, body.value \in Json, MaxDepth >= 3, ParseFaults(body) = <<>>,
         NEW policy, ValidationFaults(body.value, policy) = <<>>
  PROVE  Distinct(Validated(body.value))
<1>. DEFINE value == body.value
            asked == Get(value, <<"questions">>)
            questions == asked.members
            v == Validated(value)
            type(q) == DeclaredType(questions[q].value)
            criteria(q) == Get(questions[q].value, <<"criteria">>)
<1>1. \A part \in Parts(value) : ~RepeatsAKey(part)
  BY ParseFaultsList
<1>2. value \in Json /\ ValidationFaults(value, policy) = <<>>
  OBVIOUS
<1>3. v.questions = [q \in DOMAIN questions |->
        [id |-> questions[q].key, type |-> type(q),
         instructions |-> OrNone(Get(questions[q].value, <<"instructions">>)),
         criteria |-> Criteria(type(q), criteria(q))]]
  BY DEF Validated
<1>. HIDE DEF v, value
<1>4. /\ asked.kind = "object"
      /\ \A q \in DOMAIN Fields(asked) :
           QuestionFaults(Fields(asked)[q].key, Fields(asked)[q].value) = <<>>
  BY <1>2, ValidationFaultsList
<1>5. asked # Missing /\ asked \in Json
  <2>1. asked \in Json \cup {Missing}
    BY <1>2, GetFinds DEF Found
  <2>. HIDE DEF asked
  <2>. QED  BY <1>4, <2>1 DEF Missing
<1>6. \A q \in DOMAIN questions :
        questions[q].value \in Json /\ QuestionFaults(questions[q].key, questions[q].value) = <<>>
  BY <1>4, <1>5, JsonFacts DEF Fields
<1>7. /\ 0 \in 0..(MaxDepth - 1) /\ 1 \in 0..(MaxDepth - 1) /\ 2 \in 0..(MaxDepth - 1)
      /\ 0 + 1 = 1 /\ 1 + 1 = 2
  BY LimitsAssumption
<1>8. asked \in Layer(value, 1) /\ asked \in Parts(value)
  <2>1. value \in Layer(value, 0)
    BY LayerUnfolds
  <2>2. asked \in Within(value)
    BY <1>5, GetIsWithin
  <2>. HIDE DEF asked
  <2>. QED  BY <1>7, <2>1, <2>2, NextLayer
<1>9. \A q \in DOMAIN questions : questions[q].value \in Layer(value, 2)
  <2>1. \A q \in DOMAIN questions : questions[q].value \in Within(asked)
    BY <1>4 DEF Within, ToSet
  <2>. HIDE DEF asked
  <2>. QED  BY <1>7, <1>8, <2>1, NextLayer
<1>10. \A i, j \in DOMAIN questions : questions[i].key = questions[j].key => i = j
  <2>. HIDE DEF asked
  <2>. QED  BY <1>1, <1>4, <1>5, <1>8, KeysAreDistinct
<1>. HIDE DEF asked
<1>11. DOMAIN v.questions = DOMAIN questions
  BY <1>3
<1>12. \A i, j \in DOMAIN v.questions : v.questions[i].id = v.questions[j].id => i = j
  <2>1. \A i \in DOMAIN v.questions : v.questions[i].id = questions[i].key
    BY <1>3
  <2>. QED  BY <1>10, <1>11, <2>1
<1>13. ASSUME NEW q \in DOMAIN questions PROVE DistinctQuestion(v.questions[q])
  <2>. DEFINE raw == questions[q].value  given == Get(raw, <<"criteria">>)  u == v.questions[q]
              options == u.criteria
  <2>1. raw \in Json /\ QuestionFaults(questions[q].key, raw) = <<>> /\ raw \in Layer(value, 2)
    BY <1>6, <1>9
  <2>2. options = Criteria(DeclaredType(raw), given)
    BY <1>3
  <2>3. AsWritten(u) = [i \in DOMAIN options |-> options[i].key]
    BY DEF AsWritten
  <2>. HIDE DEF raw, options
  <2>4. /\ DeclaredType(raw) \in {"noul", "choice", "score"}
        /\ DeclaredType(raw) = "choice" =>
             given.kind = "object" /\ Len(Fields(given)) \in MinOptions..MaxOptions
        /\ DeclaredType(raw) = "score" =>
             given.kind = "array" /\ Len(Elements(given)) \in MinLevels..MaxLevels
    BY <2>1, QuestionFaultsList
  <2>5. given \in Found
    BY <2>1, GetFinds DEF Found
  <2>6. IsInjective(AsWritten(u)) /\ Len(options) >= 2
    <3>1. CASE DeclaredType(raw) = "noul"
      <4>1. IsSequence(options) /\ AsWritten(u) = <<<<"true">>, <<"false">>>>
        BY <2>2, <2>3, <2>5, <3>1, NoulCriteria
      <4>2. DOMAIN options = DOMAIN <<<<"true">>, <<"false">>>>
        BY <2>3, <4>1
      <4>3. DOMAIN options = 1..Len(options) /\ Len(options) \in Nat
        BY <4>1, DomainOfSequence
      <4>4. Len(options) >= 2
        <5>1. 2 \in DOMAIN options
          BY <4>2
        <5>. QED  BY ONLY <4>3, <5>1
      <4>5. <<"true">> # <<"false">>
        OBVIOUS
      <4>6. IsInjective(<<<<"true">>, <<"false">>>>)
        BY <4>5 DEF IsInjective
      <4>. QED  BY <4>1, <4>4, <4>6
    <3>2. CASE DeclaredType(raw) = "choice"
      <4>1. given.kind = "object" /\ Len(given.members) >= 2 /\ given \in Json
        <5>1. given.kind = "object" /\ Len(given.members) \in MinOptions..MaxOptions
          BY <2>4, <3>2 DEF Fields
        <5>. QED  BY <2>5, <5>1, FoundFacts, LimitsAssumption
      <4>2. /\ Len(options) = Len(given.members) /\ DOMAIN options = DOMAIN given.members
            /\ \A i \in DOMAIN options : options[i].key = given.members[i].key
        BY <2>2, <2>5, <3>2, <4>1, ChoiceCriteria
      <4>3. given \in Parts(value)
        <5>1. given # Missing
          <6>. HIDE DEF given
          <6>. QED  BY <4>1 DEF Missing
        <5>2. given \in Within(raw)
          BY <5>1, GetIsWithin
        <5>. HIDE DEF given
        <5>. QED  BY <1>7, <2>1, <5>2, NextLayer
      <4>. HIDE DEF given
      <4>4. \A i, j \in DOMAIN given.members :
              given.members[i].key = given.members[j].key => i = j
        BY <1>1, <4>1, <4>3, KeysAreDistinct
      <4>5. \A i, j \in DOMAIN options : options[i].key = options[j].key => i = j
        BY ONLY <4>2, <4>4
      <4>6. IsInjective(AsWritten(u))
        BY <2>3, <4>5 DEF IsInjective
      <4>7. Len(options) >= 2
        BY ONLY <4>1, <4>2
      <4>. QED  BY <4>6, <4>7
    <3>3. CASE DeclaredType(raw) = "score"
      <4>1. IsInjective(AsWritten(u))
        BY <2>2, <2>3, <2>4, <2>5, <3>3, ScoreCriteria
      <4>2. Len(options) >= 2
        BY <2>2, <2>4, <2>5, <3>3, ScoreCriteria
      <4>. QED  BY <4>1, <4>2
    <3>. QED  BY <2>4, <3>1, <3>2, <3>3
  <2>. QED  BY <2>6 DEF DistinctQuestion, options
<1>14. Distinct(v)
  BY <1>11, <1>12, <1>13 DEF Distinct
<1>. QED  BY <1>14 DEF v, value

-----------------------------------------------------------------------------
(* The course of a request                                                   *)

Working == {"compile", "flatten", "take", "gather", "split"}

AsCompiled ==
  [q \in DOMAIN request.questions |-> Expand(request.questions[q], Render(request.state))]

Running == settings \in SettingsChoices /\ Startable(settings)

\* The bundle is one of the server's, and the limits are its own.
Chosen ==
  /\ Running /\ bundle \in ToSet(Registered(settings))
  /\ budget = [chars |-> EffectiveMaxRequestChars(settings),
               sequence |-> bundle.max_sequence_tokens, request |-> bundle.max_request_tokens]

Course ==
  /\ intake \in {"starting", "down", "listening", "reading", "handled"}
  /\ received \in Nat
  /\ intake \in {"listening", "reading"} => Running
  /\ intake = "reading" => call.body.value \in Json /\ call.chunks \in Seq(Nat)
  /\ intake # "handled" => stage = "idle"
  /\ stage \in Working => /\ Chosen /\ bundle \in Resolve(settings, request.model)
                         /\ Askable(request) /\ Orderly(request)
  /\ stage \in Working \ {"compile"} => compiled = AsCompiled

LEMMA PathStartsWell == PathInit => SInv /\ Course
<1>1. PathInit => SInv
  BY StartsWell DEF PathInit
<1>2. PathInit => Course
  BY DEF PathInit, SerializerInit, Course, Working
<1>. QED  BY <1>1, <1>2

LEMMA RefuseFacts ==
  ASSUME NEW status, status # 0, NEW code, NEW path, NEW tag, Refuse(status, code, path, tag)
  PROVE  stage' = "over" /\ refusal' # Nothing /\ refusal'.code = code
<1>1. refusal'.status # Nothing.status /\ refusal'.code = code
  BY DEF Refuse, Nothing
<1>. QED  BY <1>1 DEF Refuse

LEMMA TooLongFacts ==
  ASSUME NEW path, TooLong(path)
  PROVE  /\ stage' = "over" /\ refusal' # Nothing
         /\ refusal'.status = 422 /\ refusal'.code = "context_length_exceeded"
<1>1. stage' = "over" /\ refusal'.status = 422 /\ refusal'.code = "context_length_exceeded"
  BY DEF TooLong, Refuse
<1>2. Nothing.status = 0
  BY DEF Nothing
<1>. QED  BY <1>1, <1>2

LEMMA InexplicableFacts ==
  ASSUME Inexplicable
  PROVE  /\ stage' = "over" /\ refusal' # Nothing
         /\ refusal'.status = 500 /\ refusal'.code = "inference_error"
<1>1. stage' = "over" /\ refusal'.status = 500 /\ refusal'.code = "inference_error"
  BY DEF Inexplicable, Refuse
<1>2. Nothing.status = 0
  BY DEF Nothing
<1>. QED  BY <1>1, <1>2

\* What the steps of the job have in common.
LEMMA JobFacts ==
  ASSUME Job
  PROVE  /\ stage \in Working /\ stage' \in {"flatten", "take", "gather", "split", "over"}
         /\ UNCHANGED <<request, budget, intake, settings, call, received, bundle, response>>
         /\ stage # "compile" => UNCHANGED compiled
         /\ stage = "compile" /\ stage' # "over" => compiled' = AsCompiled
         /\ \/ stage' = "over" /\ refusal' # Nothing
            \/ stage' # "over" /\ UNCHANGED refusal
<1>. USE DEF Working
<1>1. UNCHANGED outside
  BY DEF Job
<1>2. CASE Compile
  BY <1>1, <1>2, TooLongFacts, InexplicableFacts DEF Compile, outside, AsCompiled
<1>3. CASE Flatten
  BY <1>1, <1>3 DEF Flatten, outside
<1>4. CASE Tokenizing
  BY <1>1, <1>4, TooLongFacts, InexplicableFacts DEF Tokenizing, outside
<1>5. CASE Take
  BY <1>1, <1>5, TooLongFacts, InexplicableFacts DEF Take, outside
<1>6. CASE EndOfEncoding
  BY <1>1, <1>6, TooLongFacts, InexplicableFacts DEF EndOfEncoding, outside
<1>7. CASE Gather
  BY <1>1, <1>7 DEF Gather, outside
<1>8. CASE Score
  BY <1>1, <1>8, TooLongFacts, InexplicableFacts DEF Score, outside
<1>9. CASE Split
  BY <1>1, <1>9 DEF Split, outside
<1>. QED  BY <1>2, <1>3, <1>4, <1>5, <1>6, <1>7, <1>8, <1>9 DEF Job

LEMMA EndKeeps ==
  ASSUME stage' \in {"answered", "over"}
  PROVE  SInv'
BY DEF SInv, AtStart, AtFlatten, AtTake, AtGather, AtSplit

LEMMA StayKeeps ==
  ASSUME SInv, UNCHANGED serializer
  PROVE  SInv'
BY StepsKeep

LEMMA JobKeeps ==
  ASSUME SInv, Course, Job
  PROVE  SInv' /\ Course'
<1>1. SInv'
  BY CompileKeeps, FlattenKeeps, EncodingKeeps, TakeKeeps, EndOfEncodingKeeps, GatherKeeps,
     ScoreKeeps, SplitKeeps DEF Job
<1>2. Course'
  <2>1. /\ stage \in Working /\ stage' \in {"flatten", "take", "gather", "split", "over"}
        /\ UNCHANGED <<request, budget, intake, settings, call, received, bundle>>
        /\ stage # "compile" => UNCHANGED compiled
        /\ stage = "compile" /\ stage' # "over" => compiled' = AsCompiled
    BY JobFacts
  <2>2. AsCompiled' = AsCompiled
    BY <2>1 DEF AsCompiled
  <2>3. intake = "handled" /\ Chosen /\ Askable(request)
    BY <2>1 DEF Course, Working
  <2>4. Chosen' /\ Askable(request)'
    BY <2>1, <2>3 DEF Chosen, Running
  <2>5. stage' \in Working \ {"compile"} => compiled' = AsCompiled'
    <3>1. CASE stage = "compile"
      BY <2>1, <2>2, <3>1 DEF Working
    <3>2. CASE stage # "compile"
      BY <2>1, <2>2, <3>2 DEF Course, Working
    <3>. QED  BY <3>1, <3>2
  <2>. QED  BY <2>1, <2>3, <2>4, <2>5 DEF Course
<1>. QED  BY <1>1, <1>2

LEMMA ServerKeeps ==
  ASSUME SInv, Course, StartServer
  PROVE  SInv' /\ Course'
<1>1. SInv'
  BY StayKeeps DEF StartServer
<1>2. /\ UNCHANGED <<serializer, call, received, bundle>> /\ intake = "starting"
      /\ \/ intake' = "listening" /\ Running'
         \/ intake' = "down"
  BY DEF StartServer, Running
<1>3. Course'
  BY <1>2 DEF Course, serializer, Working
<1>. QED  BY <1>1, <1>3

LEMMA ReceiveKeeps ==
  ASSUME SInv, Course, Receive
  PROVE  SInv' /\ Course'
<1>1. PICK c \in Calls : /\ intake = "listening" /\ call' = c /\ UNCHANGED <<settings, received, bundle>>
                         /\ \/ intake' = "handled" /\ stage' = "over"
                            \/ UNCHANGED serializer /\ intake' = "reading"
  BY DEF Receive, StopAt, Refuse
<1>2. SInv'
  BY <1>1, StayKeeps, EndKeeps
<1>3. c.body.value \in Json /\ c.chunks \in Seq(Nat)
  BY CallsAssumption
<1>4. Course'
  BY <1>1, <1>3 DEF Course, serializer, Working, Running
<1>. QED  BY <1>2, <1>4

LEMMA ChunkKeeps ==
  ASSUME SInv, Course, ReadChunk
  PROVE  SInv' /\ Course'
<1>1. /\ intake = "reading" /\ call.chunks # <<>> /\ received' = received + Head(call.chunks)
      /\ call' = [call EXCEPT !.chunks = Tail(@)] /\ UNCHANGED <<settings, bundle>>
      /\ \/ intake' = "handled" /\ stage' = "over"
         \/ UNCHANGED <<serializer, intake>>
  BY DEF ReadChunk, StopAt, Refuse
<1>2. SInv'
  BY <1>1, StayKeeps, EndKeeps
<1>3. call.body.value \in Json /\ call.chunks \in Seq(Nat) /\ received \in Nat
  BY <1>1 DEF Course
<1>4. Head(call.chunks) \in Nat /\ Tail(call.chunks) \in Seq(Nat)
  BY <1>1, <1>3, HeadTailProperties
<1>5. received' \in Nat
  BY <1>1, <1>3, <1>4
<1>6. call'.body = call.body /\ call'.chunks \in Seq(Nat)
  BY <1>1, <1>4
<1>7. Course'
  BY <1>1, <1>3, <1>5, <1>6 DEF Course, serializer, Working, Running
<1>. QED  BY <1>2, <1>7

LEMMA ResolvedIsRegistered ==
  ASSUME NEW name, NEW m \in Resolve(settings, name)
  PROVE  m \in ToSet(Registered(settings))
BY DEF Resolve, Named

\* The three ways out of the handler before the model, and the one into it.
LEMMA HandleFacts ==
  ASSUME Course, Handle
  PROVE  /\ intake = "reading" /\ intake' = "handled" /\ stage = "idle"
         /\ UNCHANGED <<settings, call, received, response>>
         /\ \/ /\ UNCHANGED bundle
               /\ \E fault : IsFault(fault) /\ StopAt(fault)
            \/ /\ bundle' \in ToSet(Registered(settings))
               /\ \/ \E fault : IsFault(fault) /\ StopAt(fault)
                  \/ \E r, b : /\ Askable(r) /\ Begin(r, b)
                               /\ Orderly(r) /\ bundle' \in Resolve(settings, r.model)
                               /\ b = [chars |-> EffectiveMaxRequestChars(settings),
                                       sequence |-> bundle'.max_sequence_tokens,
                                       request |-> bundle'.max_request_tokens]
<1>. DEFINE value == call.body.value
            parse == ParseFaults(call.body)
            valid == ValidationFaults(value, settings.unknown_top_level_fields)
            faults == parse \o valid
            named == Resolve(settings, Validated(value).model)
<1>1. /\ intake = "reading" /\ intake' = "handled"
      /\ \/ faults # <<>> /\ StopAt(Head(faults)) /\ UNCHANGED bundle
         \/ /\ faults = <<>> /\ named = {}
            /\ StopAt(Fault(422, "model_not_found", <<<<"model">>>>)) /\ UNCHANGED bundle
         \/ /\ faults = <<>> /\ named # {} /\ bundle' \in named
            /\ \/ StopAt(Fault(503, "model_unavailable", <<>>))
               \/ Begin(Validated(value),
                        [chars |-> EffectiveMaxRequestChars(settings),
                         sequence |-> bundle'.max_sequence_tokens,
                         request |-> bundle'.max_request_tokens])
      /\ UNCHANGED <<settings, call, received, response>>
  BY DEF Handle
<1>2. stage = "idle" /\ value \in Json
  BY <1>1 DEF Course
<1>3. Listing(parse) /\ Listing(valid)
  <2>. HIDE DEF value
  <2>. QED  BY <1>2, ParseFaultsList, ValidationFaultsList
<1>4. /\ Listing(faults)
      /\ faults = <<>> => Askable(Validated(value)) /\ Orderly(Validated(value))
  <2>1. Listing(faults) /\ (faults = <<>> => parse = <<>> /\ valid = <<>>)
    <3>. HIDE DEF parse, valid
    <3>. QED  BY <1>3, JoinLists
  <2>2. valid = <<>> => /\ Askable(Validated(value)) /\ Graded(Validated(value))
                       /\ Legible(Validated(value))
    <3>. HIDE DEF value
    <3>. QED  BY <1>2, ValidatedIsAskable
  <2>3. MaxDepth >= 3 /\ parse = <<>> /\ valid = <<>> => Distinct(Validated(value))
    BY <1>2, ValidatedIsDistinct
  <2>. QED  BY <2>1, <2>2, <2>3 DEF Orderly
<1>. HIDE DEF faults, parse, valid, value
<1>5. faults # <<>> => IsFault(Head(faults))
  BY <1>4, HeadIsFault
<1>6. /\ IsFault(Fault(422, "model_not_found", <<<<"model">>>>))
      /\ IsFault(Fault(503, "model_unavailable", <<>>))
  BY FaultIsFault
<1>7. \A m \in named : m \in ToSet(Registered(settings))
                      /\ m \in Resolve(settings, Validated(value).model)
  BY ResolvedIsRegistered
<1>. HIDE DEF named
<1>. QED  BY <1>1, <1>2, <1>4, <1>5, <1>6, <1>7

LEMMA StopFacts ==
  ASSUME NEW fault, IsFault(fault), StopAt(fault)
  PROVE  /\ stage' = "over" /\ refusal' # Nothing
         /\ refusal'.status # 500 /\ refusal'.code # "context_length_exceeded"
         /\ UNCHANGED <<request, budget, compiled, at, flat, marks, encoded, taken, offset, total,
                        sent, logits, grouped, backend>>
<1>1. Refuse(fault.status, fault.code, fault.path, fault.tag)
  BY DEF StopAt
<1>2. stage' = "over" /\ refusal'.status = fault.status /\ refusal'.code = fault.code
  BY <1>1 DEF Refuse
<1>3. fault.status \notin {0, 500} /\ fault.code # "context_length_exceeded"
  BY DEF IsFault
<1>4. Nothing.status = 0
  BY DEF Nothing
<1>. QED  BY <1>2, <1>3, <1>4 DEF StopAt

LEMMA HandleKeeps ==
  ASSUME SInv, Course, Handle
  PROVE  SInv' /\ Course'
<1>1. /\ intake = "reading" /\ intake' = "handled" /\ stage = "idle"
      /\ UNCHANGED <<settings, call, received, response>>
      /\ \/ /\ UNCHANGED bundle
            /\ \E fault : IsFault(fault) /\ StopAt(fault)
         \/ /\ bundle' \in ToSet(Registered(settings))
            /\ \/ \E fault : IsFault(fault) /\ StopAt(fault)
               \/ \E r, b : /\ Askable(r) /\ Begin(r, b)
                            /\ Orderly(r) /\ bundle' \in Resolve(settings, r.model)
                            /\ b = [chars |-> EffectiveMaxRequestChars(settings),
                                    sequence |-> bundle'.max_sequence_tokens,
                                    request |-> bundle'.max_request_tokens]
  BY HandleFacts
<1>2. Running /\ Running'
  BY <1>1 DEF Course, Running
<1>3. CASE \E fault : IsFault(fault) /\ StopAt(fault)
  <2>1. stage' = "over"
    BY <1>3, StopFacts
  <2>2. SInv'
    BY <2>1, EndKeeps
  <2>3. Course'
    BY <1>1, <2>1 DEF Course, Working
  <2>. QED  BY <2>2, <2>3
<1>4. CASE /\ bundle' \in ToSet(Registered(settings))
           /\ \E r, b : /\ Askable(r) /\ Begin(r, b)
                        /\ Orderly(r) /\ bundle' \in Resolve(settings, r.model)
                        /\ b = [chars |-> EffectiveMaxRequestChars(settings),
                                sequence |-> bundle'.max_sequence_tokens,
                                request |-> bundle'.max_request_tokens]
  <2>1. PICK r, b : /\ Askable(r) /\ Begin(r, b)
                    /\ Orderly(r) /\ bundle' \in Resolve(settings, r.model)
                    /\ b = [chars |-> EffectiveMaxRequestChars(settings),
                            sequence |-> bundle'.max_sequence_tokens,
                            request |-> bundle'.max_request_tokens]
    BY <1>4
  <2>2. stage' = "compile" /\ request' = r /\ budget' = b
    BY <2>1 DEF Begin
  <2>3. SInv'
    BY <2>1, BeginKeeps
  <2>4. /\ Chosen' /\ Askable(request)' /\ Orderly(request)'
        /\ (bundle \in Resolve(settings, request.model))'
    <3>1. Askable(request)' /\ Orderly(request)'
      BY <2>1, <2>2 DEF Askable, Orderly, Graded, Legible, Distinct
    <3>3. bundle' \in Resolve(settings', request'.model)
      BY <1>1, <2>1, <2>2
    <3>2. budget' = [chars |-> EffectiveMaxRequestChars(settings'),
                     sequence |-> bundle'.max_sequence_tokens,
                     request |-> bundle'.max_request_tokens]
      BY <1>1, <2>1, <2>2
    <3>. QED  BY <1>1, <1>2, <1>4, <3>1, <3>2, <3>3 DEF Chosen
  <2>5. Course'
    BY <1>1, <2>2, <2>4 DEF Course, Working
  <2>. QED  BY <2>3, <2>5
<1>. QED  BY <1>1, <1>3, <1>4

LEMMA RespondFacts ==
  ASSUME Respond
  PROVE  /\ stage = "split" /\ UNCHANGED <<request, budget, compiled, at, flat, marks, encoded, taken,
                                           offset, total, sent, logits, grouped, backend>>
         /\ UNCHANGED <<intake, settings, call, received, bundle>>
         /\ \/ /\ stage' = "answered" /\ UNCHANGED refusal
               /\ response' = Payload(bundle.public_id, bundle.temperature)
            \/ stage' = "over" /\ UNCHANGED response /\ Inexplicable
<1>. DEFINE payload == Payload(bundle.public_id, bundle.temperature)
<1>1. \/ response' = payload /\ stage' = "answered" /\ UNCHANGED refusal
      \/ Inexplicable /\ UNCHANGED response
  <2>. HIDE DEF payload
  <2>. QED  BY DEF Respond, payload
<1>. HIDE DEF payload
<1>2. Inexplicable => stage' = "over"
  BY InexplicableFacts
<1>. QED  BY <1>1, <1>2 DEF Respond, payload

LEMMA RespondKeeps ==
  ASSUME SInv, Course, Respond
  PROVE  SInv' /\ Course'
<1>1. /\ stage = "split" /\ stage' \in {"answered", "over"}
      /\ UNCHANGED <<intake, settings, call, received, bundle>>
  BY RespondFacts
<1>2. SInv'
  BY <1>1, EndKeeps
<1>3. Course'
  BY <1>1 DEF Course, Working, Running
<1>. QED  BY <1>2, <1>3

LEMMA PathStepsKeep == SInv /\ Course /\ [PathNext]_pathvars => SInv' /\ Course'
<1>. SUFFICES ASSUME SInv, Course, [PathNext]_pathvars
              PROVE  SInv' /\ Course'
  OBVIOUS
<1>1. CASE UNCHANGED pathvars
  <2>1. UNCHANGED serializer /\ UNCHANGED outside
    BY <1>1 DEF pathvars
  <2>2. SInv'
    BY <2>1, StayKeeps
  <2>3. Course'
    BY <2>1 DEF Course, outside, serializer, Working, Chosen, Running, AsCompiled
  <2>. QED  BY <2>2, <2>3
<1>2. CASE PathNext
  BY <1>2, ServerKeeps, ReceiveKeeps, ChunkKeeps, HandleKeeps, JobKeeps, RespondKeeps DEF PathNext
<1>. QED  BY <1>1, <1>2

(* From any body to the end of the job: what is compiled is what was validated, the limits
   are those of the bundle that was resolved, and the serializer's invariant holds. *)
THEOREM PathCourse == PathSpec => [](SInv /\ Course)
BY PathStartsWell, PathStepsKeep, PTL DEF PathSpec

(* Every value comes back to the option it was computed for, for every body that may be
   written and every configuration that a server starts with. *)
THEOREM PathValuesComeHome == PathSpec => []EachToItsOwn
<1>1. SInv => EachToItsOwn
  BY InvariantBringsHome
<1>. QED  BY <1>1, PathCourse, PTL

-----------------------------------------------------------------------------
(* Counting what was compiled                                                *)

EachOptions == [q \in DOMAIN request.questions |-> Cardinality(Keys(request.questions[q]))]
EachTokens ==
  [q \in DOMAIN request.questions |->
    SumFunction([key \in Keys(request.questions[q]) |-> TokensOf(request.questions[q], key)])]

LEMMA CompiledFacts ==
  ASSUME Askable(request), compiled = AsCompiled
  PROVE  /\ N \in Nat /\ DOMAIN request.questions = 1..N
         /\ \A q \in 1..N :
              /\ AskableQuestion(request.questions[q])
              /\ request.questions[q] \in ToSet(request.questions)
              /\ P(q) = Cardinality(Keys(request.questions[q])) /\ P(q) \in Nat
              /\ OptionKeys(request.questions[q]) \in Bijection(1..P(q), Keys(request.questions[q]))
              /\ \A k \in 1..P(q) :
                   compiled[q].pairs[k]
                     = PairFor(request.questions[q], OptionKeys(request.questions[q])[k])
<1>. DEFINE n == Len(request.questions)  premise == Render(request.state)
<1>1. n \in Nat /\ DOMAIN request.questions = 1..n
  BY DEF Askable, IsSequence
<1>2. compiled = [q \in 1..n |-> Expand(request.questions[q], premise)]
  BY <1>1 DEF AsCompiled
<1>. HIDE DEF n, premise
<1>3. N = n
  <2>1. compiled = [q \in 1..n |-> compiled[q]]
    BY <1>2
  <2>. QED  BY <1>1, <2>1, MappedIsSequence DEF N
<1>4. ASSUME NEW q \in 1..n
      PROVE  /\ AskableQuestion(request.questions[q])
             /\ request.questions[q] \in ToSet(request.questions)
             /\ P(q) = Cardinality(Keys(request.questions[q])) /\ P(q) \in Nat
             /\ OptionKeys(request.questions[q])
                  \in Bijection(1..P(q), Keys(request.questions[q]))
             /\ \A k \in 1..P(q) :
                  compiled[q].pairs[k]
                    = PairFor(request.questions[q], OptionKeys(request.questions[q])[k])
  <2>. DEFINE asked == request.questions[q]
  <2>1. AskableQuestion(asked) /\ asked \in ToSet(request.questions)
    BY <1>1 DEF Askable, ToSet
  <2>2. compiled[q] = Expand(asked, premise)
    BY <1>2
  <2>. HIDE DEF asked
  <2>3. /\ Len(Expand(asked, premise).pairs) = Cardinality(Keys(asked))
        /\ \A k \in 1..Cardinality(Keys(asked)) :
             Expand(asked, premise).pairs[k] = PairFor(asked, OptionKeys(asked)[k])
    BY <2>1, ExpandedPairs DEF premise
  <2>4. P(q) = Cardinality(Keys(asked))
    BY <2>2, <2>3 DEF P
  <2>5. /\ Cardinality(Keys(asked)) \in Nat
        /\ OptionKeys(asked) \in Bijection(1..Cardinality(Keys(asked)), Keys(asked))
    BY <2>1, OptionKeysAreTheKeys
  <2>. QED  BY <2>1, <2>2, <2>3, <2>4, <2>5 DEF asked
<1>. QED  BY <1>1, <1>3, <1>4

\* The tokens of a question are those of its sequences, in whatever order they are.
LEMMA TokensOfQuestion ==
  ASSUME Askable(request), compiled = AsCompiled, NEW q \in 1..N,
         NEW s, IsSequence(s), Len(s) = P(q),
         \A k \in 1..P(q) : s[k] = Encode(compiled[q].pairs[k])
  PROVE  /\ EachTokens[q] \in Nat
         /\ SumFunction([i \in DOMAIN s |-> Len(s[i])]) = EachTokens[q]
<1>. DEFINE asked == request.questions[q]  n == P(q)  keys == Keys(asked)  h == OptionKeys(asked)
            f == [i \in 1..n |-> Len(s[i])]
            g == [key \in keys |-> TokensOf(asked, key)]
<1>1. /\ AskableQuestion(asked) /\ n \in Nat /\ h \in Bijection(1..n, keys)
      /\ \A k \in 1..n : compiled[q].pairs[k] = PairFor(asked, h[k])
      /\ q \in DOMAIN request.questions
  BY CompiledFacts
<1>2. IsText(request.state)
  BY DEF Askable
<1>3. DOMAIN s = 1..n
  BY DomainOfSequence
<1>4. EachTokens[q] = SumFunctionOnSet(g, keys)
  BY <1>1 DEF EachTokens, SumFunction
<1>5. SumFunction([i \in DOMAIN s |-> Len(s[i])]) = SumFunctionOnSet(f, 1..n)
  <2>1. [i \in DOMAIN s |-> Len(s[i])] = f /\ DOMAIN f = 1..n
    BY <1>3
  <2>. QED  BY <2>1 DEF SumFunction
<1>6. ASSUME NEW k \in 1..n
      PROVE  h[k] \in keys /\ f[k] \in Nat /\ g[h[k]] = f[k]
  <2>1. h[k] \in keys
    BY <1>1 DEF Bijection, Injection
  <2>2. s[k] = Encode(PairFor(asked, h[k]))
    BY <1>1
  <2>. HIDE DEF asked, keys, h
  <2>3. TokensOf(asked, h[k]) \in Nat
    BY <1>1, <1>2, <2>1, PairIsText DEF keys
  <2>. QED  BY <2>1, <2>2, <2>3 DEF TokensOf
<1>7. \A x, y \in 1..n : h[x] = h[y] => x = y
  BY <1>1 DEF Bijection, Injection, IsInjective
<1>8. {h[x] : x \in 1..n} = keys
  <2>1. {h[x] : x \in 1..n} \subseteq keys
    BY <1>6
  <2>2. keys \subseteq {h[x] : x \in 1..n}
    BY <1>1 DEF Bijection, Surjection
  <2>. QED  BY <2>1, <2>2
<1>9. IsFiniteSet(1..n)
  BY <1>1, FS_Interval
<1>. HIDE DEF asked, keys, h, f, g, n
<1>10. SumFunctionOnSet(f, 1..n) \in Nat
  BY <1>6, <1>9, SumWithout
<1>11. SumFunctionOnSet(g, {h[x] : x \in 1..n}) = SumFunctionOnSet(f, 1..n)
  <2>. DEFINE S == 1..n
  <2>1. IsFiniteSet(S) /\ (\A x \in S : f[x] \in Nat) /\ (\A x \in S : g[h[x]] = f[x])
        /\ (\A x, y \in S : h[x] = h[y] => x = y)
    BY <1>6, <1>7, <1>9
  <2>. HIDE DEF S
  <2>2. SumFunctionOnSet(g, {h[x] : x \in S}) = SumFunctionOnSet(f, S)
    BY <2>1, SumRenamed
  <2>. QED  BY <2>2 DEF S
<1>. QED  BY <1>4, <1>5, <1>8, <1>10, <1>11

LEMMA EachTokensAreNumbers ==
  ASSUME Askable(request), compiled = AsCompiled
  PROVE  DOMAIN EachTokens = 1..N /\ \A q \in 1..N : EachTokens[q] \in Nat
<1>1. DOMAIN EachTokens = 1..N
  BY CompiledFacts DEF EachTokens
<1>2. ASSUME NEW q \in 1..N PROVE EachTokens[q] \in Nat
  <2>. DEFINE n == P(q)  s == [k \in 1..n |-> Encode(compiled[q].pairs[k])]
  <2>1. n \in Nat
    BY CompiledFacts
  <2>2. IsSequence(s) /\ Len(s) = n /\ \A k \in 1..n : s[k] = Encode(compiled[q].pairs[k])
    <3>1. s = [k \in 1..n |-> s[k]] /\ \A k \in 1..n : s[k] = Encode(compiled[q].pairs[k])
      OBVIOUS
    <3>. HIDE DEF s, n
    <3>. QED  BY <2>1, <3>1, MappedIsSequence
  <2>. HIDE DEF s
  <2>. QED  BY <2>2, TokensOfQuestion
<1>. QED  BY <1>1, <1>2

-----------------------------------------------------------------------------
(* What is counted, and what a request ends with                             *)

\* Both sides of every pair are texts, without the name of a special token in them.
InText ==
  \A i \in 1..Len(flat) : /\ Free(flat[i].premise, DOMAIN Spelling)
                           /\ Free(flat[i].hypothesis, DOMAIN Spelling)

\* What the sequences and tokens counted so far add up to.
Counted ==
  /\ stage = "flatten" => Len(flat) = SumFunctionOnSet(EachOptions, 1..(at - 1))
  /\ stage \in Working \ {"compile"} => InText
  /\ stage = "take" => total = SumFunctionOnSet(EachTokens, 1..(at - 1))
  /\ stage \in {"gather", "split"} => total = TokensInAll /\ ~(total > budget.request)

\* What is not filled yet is empty, and one thing ends a request.
Carried ==
  /\ stage \in Stages /\ backend \in Behaviours
  /\ stage \in {"idle", "compile", "flatten"} => encoded = <<>> /\ total = 0
  /\ stage \in {"idle", "compile", "flatten", "take", "gather"} => logits = <<>>
  /\ (refusal # Nothing) = (stage = "over")
  /\ (response # None) = (stage = "answered")

Lists ==
  /\ at \in 1..(Len(compiled) + 1) /\ Len(marks) <= Len(compiled)
  /\ offset \in 0..Len(flat) /\ Len(encoded) \in {0, Len(flat)}
  /\ Len(sent) <= Len(encoded) /\ Len(logits) \in {0, Len(sent)}
  /\ total \in Nat

\* Too long is only what is too long for the bundle, or stopped at a gate.
TooLongForSomething ==
  \/ OverTokens(bundle.max_sequence_tokens, bundle.max_request_tokens)
  \/ PastCeiling(request, EffectiveMaxRequestChars(settings)) # {}
  \/ SequencesInAll * MinTokensPerSequence > bundle.max_request_tokens
Overlong == refusal.code = "context_length_exceeded" => TooLongForSomething

Ledger == Counted /\ Carried /\ Lists /\ Overlong

LEMMA RequestStays ==
  ASSUME UNCHANGED request
  PROVE  /\ EachOptions' = EachOptions /\ EachTokens' = EachTokens
         /\ TokensInAll' = TokensInAll
         /\ UNCHANGED <<bundle, settings>> => TooLongForSomething' = TooLongForSomething
<1>1. \A q, key : PairFor(q, key)' = PairFor(q, key)
  BY DEF PairFor
<1>2. \A q, key : TokensOf(q, key)' = TokensOf(q, key)
  BY <1>1 DEF TokensOf
<1>3. EachOptions' = EachOptions
  BY DEF EachOptions
<1>4. EachTokens' = EachTokens
  BY <1>2 DEF EachTokens
<1>5. TokensInAll = SumFunction(EachTokens) /\ SequencesInAll = SumFunction(EachOptions)
  BY DEF TokensInAll, SequencesInAll, EachTokens, EachOptions
<1>6. TokensInAll' = SumFunction(EachTokens') /\ SequencesInAll' = SumFunction(EachOptions')
  BY DEF TokensInAll, SequencesInAll, EachTokens, EachOptions
<1>7. TokensInAll' = TokensInAll /\ SequencesInAll' = SequencesInAll
  BY <1>3, <1>4, <1>5, <1>6
<1>8. \A sequence, all : OverTokens(sequence, all)' = OverTokens(sequence, all)
  BY <1>2, <1>7 DEF OverTokens
<1>9. ASSUME UNCHANGED <<bundle, settings>> PROVE TooLongForSomething' = TooLongForSomething
  BY <1>7, <1>8, <1>9 DEF TooLongForSomething
<1>. QED  BY <1>3, <1>4, <1>7, <1>9

LEMMA OverlongStays ==
  ASSUME Overlong, UNCHANGED <<request, bundle, settings, refusal>>
  PROVE  Overlong'
BY RequestStays DEF Overlong

\* While the job is under way its lists have the lengths that its stage calls for.
UnderWay ==
  /\ SInv /\ Carried /\ total \in Nat /\ stage \notin {"answered", "over"}
  /\ stage = "gather" => offset \in 0..Len(flat)
LEMMA ListsHold == UnderWay => Lists
<1>. SUFFICES ASSUME SInv, Carried, total \in Nat, stage = "gather" => offset \in 0..Len(flat),
                     stage \notin {"answered", "over"}
              PROVE  Lists
  BY DEF UnderWay
<1>1. CASE stage \in {"idle", "compile"}
  BY <1>1, EmptyIsSequence DEF SInv, AtStart, Carried, Lists
<1>2. CASE stage \in Working \ {"compile"}
  <2>1. Shape
    BY <1>2 DEF SInv, AtFlatten, AtTake, AtGather, AtSplit, Working
  <2>2. N \in Nat /\ at \in 1..(N + 1) /\ N = Len(compiled)
    BY <2>1, ShapeFacts DEF Shape, N
  <2>3. CASE stage = "flatten"
    <3>1. Laid(at - 1) /\ at - 1 \in 0..N
      BY <2>2, <2>3 DEF SInv, AtFlatten
    <3>2. Len(marks) = at - 1 /\ Len(flat) \in Nat
      BY <3>1 DEF Laid, IsSequence
    <3>3. offset = 0 /\ sent = <<>> /\ encoded = <<>> /\ logits = <<>>
      BY <2>3 DEF SInv, AtFlatten, Carried
    <3>. QED  BY <2>2, <3>1, <3>2, <3>3, EmptyIsSequence DEF Lists
  <2>4. CASE stage \in {"take", "gather", "split"}
    <3>1. Laid(N) /\ AllEncoded
      BY <2>4 DEF SInv, AtTake, AtGather, AtSplit
    <3>2. Len(marks) = N /\ Len(flat) \in Nat /\ Len(encoded) = Len(flat) /\ Len(flat) = End(N)
      BY <3>1 DEF Laid, IsSequence, AllEncoded
    <3>3. End(at - 1) \in 0..Len(flat)
      <4>1. at - 1 \in 0..N /\ N \in 0..N
        BY <2>2
      <4>. QED  BY <2>1, <3>1, <4>1, EndsWithin
    <3>4. offset \in 0..Len(flat)
      BY <2>4, <3>3 DEF SInv, AtTake, AtSplit
    <3>5. /\ Len(sent) \in Nat /\ Len(sent) <= Len(flat)
          /\ Len(logits) \in {0, Len(sent)}
      <4>1. CASE stage = "take"
        BY <3>2, <4>1, EmptyIsSequence DEF SInv, AtTake, Carried
      <4>2. CASE stage = "gather"
        BY <3>2, <3>3, <4>2, EmptyIsSequence DEF SInv, AtGather, Carried, SentUpTo
      <4>3. CASE stage = "split"
        <5>1. SentUpTo(N) /\ ValuesOfAll
          BY <4>3 DEF SInv, AtSplit
        <5>2. Len(sent) = End(N) /\ Len(logits) = Len(flat)
          BY <5>1 DEF SentUpTo, ValuesOfAll
        <5>. QED  BY <3>2, <5>2
      <4>. QED  BY <2>4, <4>1, <4>2, <4>3
    <3>. QED  BY <2>2, <3>2, <3>4, <3>5 DEF Lists
  <2>. QED  BY <1>2, <2>3, <2>4 DEF Working
<1>. QED  BY <1>1, <1>2 DEF Carried, Stages, Working

\* A refusal leaves the lists as they are.
LEMMA RefusalEnds ==
  ASSUME Ledger, stage \notin {"answered", "over"}, stage' = "over", refusal' # Nothing,
         UNCHANGED <<compiled, at, flat, marks, encoded, offset, total, sent, logits, response>>,
         backend' \in Behaviours, Overlong'
  PROVE  Ledger'
<1>1. Counted'
  BY DEF Counted, Working
<1>2. Carried'
  BY DEF Ledger, Carried, Stages
<1>3. Lists'
  BY DEF Ledger, Lists
<1>. QED  BY <1>1, <1>2, <1>3 DEF Ledger

\* What goes on with the job, with no more to show than what it counts.
LEMMA JobGoesOn ==
  ASSUME SInv', Ledger, stage \notin {"answered", "over"}, stage' \in Working,
         UNCHANGED <<request, bundle, settings, refusal, response>>, Counted',
         backend' \in Behaviours, total' \in Nat,
         stage' \in {"compile", "flatten"} => encoded' = <<>> /\ total' = 0,
         stage' # "split" => logits' = <<>>,
         stage' = "gather" => offset' \in 0..Len(flat')
  PROVE  Ledger'
<1>1. Carried'
  BY DEF Ledger, Carried, Stages, Working
<1>2. Lists'
  <2>1. UnderWay'
    BY <1>1 DEF Working, UnderWay
  <2>. QED  BY <2>1, ListsHold, PTL
<1>3. Overlong'
  BY OverlongStays DEF Ledger
<1>. QED  BY <1>1, <1>2, <1>3 DEF Ledger

LEMMA CompileCounts ==
  ASSUME SInv, SInv', Course, Ledger, Compile, UNCHANGED outside
  PROVE  Ledger'
<1>1. /\ stage = "compile"
      /\ UNCHANGED <<request, budget, at, flat, marks, encoded, offset, total, sent, logits, backend>>
      /\ UNCHANGED <<bundle, settings, response>>
  BY DEF Compile, outside
<1>2. /\ flat = <<>> /\ at = 1 /\ encoded = <<>> /\ total = 0 /\ logits = <<>>
      /\ backend \in Behaviours
  BY <1>1 DEF SInv, AtStart, Ledger, Carried
<1>3. CASE PastCeiling(request, budget.chars) # {}
           /\ TooLong(<<<<"questions">>, request.questions[Min(PastCeiling(request, budget.chars))].id>>)
           /\ UNCHANGED compiled
  <2>1. stage' = "over" /\ refusal' # Nothing
    BY <1>3, TooLongFacts
  <2>2. budget.chars = EffectiveMaxRequestChars(settings)
    BY <1>1 DEF Course, Chosen, Working
  <2>3. TooLongForSomething
    BY <1>3, <2>2 DEF TooLongForSomething
  <2>4. Overlong'
    BY <1>1, <2>3, RequestStays DEF Overlong
  <2>. QED  BY <1>1, <1>2, <1>3, <2>1, <2>4, RefusalEnds
<1>4. CASE stage' = "flatten" /\ UNCHANGED refusal
  <2>1. Len(flat') = SumFunctionOnSet(EachOptions', 1..(at' - 1))
    <3>1. 1..(at' - 1) = {}
      BY <1>1, <1>2
    <3>2. SumFunctionOnSet(EachOptions', {}) = 0
      BY SumUnfolds, FS_EmptySet
    <3>. QED  BY <1>1, <1>2, <3>1, <3>2, EmptyIsSequence
  <2>2. InText'
    BY <1>1, <1>2, EmptyIsSequence DEF InText
  <2>3. Counted'
    BY <1>4, <2>1, <2>2 DEF Counted
  <2>. QED  BY <1>1, <1>2, <1>4, <2>3, JobGoesOn DEF Working
<1>. QED  BY <1>3, <1>4 DEF Compile

LEMMA FlattenCounts ==
  ASSUME SInv, SInv', Course, Ledger, Flatten, UNCHANGED outside
  PROVE  Ledger'
<1>1. /\ stage = "flatten" /\ stage' = "flatten" /\ at <= N
      /\ flat' = flat \o compiled[at].pairs /\ at' = at + 1
      /\ UNCHANGED <<request, compiled, encoded, total, logits, backend, refusal>>
      /\ UNCHANGED <<bundle, settings, response>>
  BY DEF Flatten, outside, More, N
<1>2. /\ Shape /\ IsSequence(flat) /\ encoded = <<>> /\ total = 0 /\ logits = <<>>
      /\ backend \in Behaviours /\ InText
      /\ Len(flat) = SumFunctionOnSet(EachOptions, 1..(at - 1))
      /\ Askable(request) /\ Legible(request) /\ compiled = AsCompiled
  BY <1>1 DEF SInv, AtFlatten, Laid, Ledger, Carried, Counted, Course, Working, Orderly
<1>3. PICK a \in 1..N : a = at /\ a - 1 \in Nat /\ N \in Nat
  BY <1>1, <1>2, ShapeFacts DEF Shape
<1>. DEFINE part == compiled[a].pairs
<1>4. /\ IsSequence(part) /\ Len(part) = P(a)
      /\ Len(flat') = Len(flat) + Len(part)
      /\ \A i \in 1..Len(flat) : flat'[i] = flat[i]
      /\ \A k \in 1..Len(part) : flat'[Len(flat) + k] = part[k]
  <2>1. /\ IsSequence(flat) /\ IsSequence(part) /\ Len(part) = P(a)
        /\ flat' = flat \o part
    BY <1>1, <1>2, <1>3 DEF Shape, P
  <2>. HIDE DEF part
  <2>2. /\ IsSequence(flat \o part)
        /\ Len(flat \o part) = Len(flat) + Len(part)
        /\ \A i \in 1..Len(flat) : (flat \o part)[i] = flat[i]
        /\ \A k \in 1..Len(part) : (flat \o part)[Len(flat) + k] = part[k]
    <3>1. IsSequence(flat) /\ IsSequence(part)
      BY <2>1
    <3>. QED  BY <3>1, Concatenation
  <2>. QED  BY <2>1, <2>2
<1>5. /\ \A i \in 1..N : EachOptions[i] \in Nat
      /\ EachOptions[a] = P(a) /\ AskableQuestion(request.questions[a])
      /\ \A k \in 1..P(a) :
           /\ OptionKeys(request.questions[a])[k] \in Keys(request.questions[a])
           /\ part[k] = PairFor(request.questions[a], OptionKeys(request.questions[a])[k])
  BY <1>2, CompiledFacts DEF EachOptions, Bijection, Injection
<1>6. Len(flat') = SumFunctionOnSet(EachOptions', 1..(at' - 1))
  <2>1. \A i \in 1..(a - 1 + 1) : EachOptions[i] \in Nat
    BY <1>3, <1>5
  <2>. DEFINE m == a - 1
  <2>2. m \in Nat /\ m + 1 = a /\ at' - 1 = a
    BY <1>1, <1>3
  <2>. HIDE DEF m
  <2>3. SumFunctionOnSet(EachOptions, 1..(m + 1))
          = SumFunctionOnSet(EachOptions, 1..m) + EachOptions[m + 1]
    BY <2>2, <1>5, <1>3, SumOfNext
  <2>4. Len(flat') = Len(flat) + P(a)
    BY <1>4
  <2>5. EachOptions' = EachOptions
    BY <1>1, RequestStays
  <2>6. SumFunctionOnSet(EachOptions, 1..m) = Len(flat)
    BY <1>2, <1>3 DEF m
  <2>. QED  BY <1>5, <2>2, <2>3, <2>4, <2>5, <2>6
<1>7. InText'
  <2>1. /\ Free(Render(request.state), DOMAIN Spelling)
        /\ FreeQuestion(request.questions[a], DOMAIN Spelling)
    <3>1. a \in DOMAIN request.questions
      BY <1>2, <1>3, CompiledFacts
    <3>. QED  BY <1>2, <3>1 DEF Legible
  <2>2. \A k \in 1..P(a) : /\ Free(part[k].premise, DOMAIN Spelling)
                           /\ Free(part[k].hypothesis, DOMAIN Spelling)
    <3>1. DOMAIN Spelling \in SUBSET DOMAIN Spelling
      OBVIOUS
    <3>. QED  BY <1>5, <2>1, <3>1, PairIsFree
  <2>. HIDE DEF part
  <2>4. Len(flat) \in Nat /\ P(a) \in Nat
    BY <1>2, <1>4 DEF IsSequence
  <2>5. ASSUME NEW i \in 1..Len(flat')
        PROVE  /\ Free(flat'[i].premise, DOMAIN Spelling)
               /\ Free(flat'[i].hypothesis, DOMAIN Spelling)
    <3>1. CASE i \in 1..Len(flat)
      BY <1>2, <1>4, <3>1 DEF InText
    <3>2. CASE i \notin 1..Len(flat)
      <4>1. PICK k \in 1..P(a) : i = Len(flat) + k
        <5>. DEFINE k == i - Len(flat)
        <5>1. k \in 1..P(a) /\ i = Len(flat) + k
          BY <1>4, <2>4, <3>2
        <5>. QED  BY <5>1
      <4>. QED  BY <1>4, <2>2, <4>1
    <3>. QED  BY <3>1, <3>2
  <2>. QED  BY <2>5 DEF InText
<1>8. Counted'
  BY <1>1, <1>6, <1>7 DEF Counted
<1>. QED  BY <1>1, <1>2, <1>8, JobGoesOn DEF Working

\* At the end of the first loop every option of the request is in the list.
LEMMA AllInTheList ==
  ASSUME SInv, Course, Ledger, stage = "flatten", ~(at <= N)
  PROVE  Len(flat) = SequencesInAll /\ Len(flat) \in Nat
<1>1. /\ Shape /\ Laid(at - 1) /\ Len(flat) = SumFunctionOnSet(EachOptions, 1..(at - 1))
      /\ Askable(request) /\ compiled = AsCompiled
  BY DEF SInv, AtFlatten, Ledger, Counted, Course, Working
<1>2. at - 1 = N /\ Len(flat) \in Nat
  BY <1>1, ShapeFacts DEF Shape, Laid, IsSequence
<1>3. DOMAIN EachOptions = 1..N
  BY <1>1, CompiledFacts DEF EachOptions
<1>. QED  BY <1>1, <1>2, <1>3 DEF SequencesInAll, EachOptions, SumFunction

LEMMA BudgetIsTheBundles ==
  ASSUME Course, stage \in Working
  PROVE  /\ budget.sequence = bundle.max_sequence_tokens
         /\ budget.request = bundle.max_request_tokens
         /\ budget.sequence \in Nat \ {0} /\ budget.request \in Nat \ {0}
         /\ bundle \in ToSet(Registered(settings)) /\ settings \in SettingsChoices
         /\ Startable(settings) /\ bundle.model_max_sequence_tokens \in Nat
         /\ bundle \in ToSet(settings.bundles) \cup {FakeManifest}
<1>1. /\ budget.sequence = bundle.max_sequence_tokens
      /\ budget.request = bundle.max_request_tokens
      /\ bundle \in ToSet(Registered(settings)) /\ settings \in SettingsChoices
      /\ Startable(settings)
  BY DEF Course, Chosen, Running
<1>2. bundle \in ToSet(settings.bundles) \cup {FakeManifest}
  <2>. DEFINE manifests == settings.bundles
  <2>1. IsSequence(manifests)
    BY <1>1, SettingsAssumption
  <2>2. CASE Registered(settings) = manifests
    BY <1>1, <2>2
  <2>3. CASE Registered(settings) = Append(manifests, FakeManifest)
    <3>. HIDE DEF manifests
    <3>1. /\ IsSequence(Append(manifests, FakeManifest))
          /\ Len(Append(manifests, FakeManifest)) = Len(manifests) + 1
          /\ \A i \in 1..Len(manifests) : Append(manifests, FakeManifest)[i] = manifests[i]
          /\ Append(manifests, FakeManifest)[Len(manifests) + 1] = FakeManifest
      BY <2>1, Appending
    <3>2. /\ Len(manifests) \in Nat /\ DOMAIN manifests = 1..Len(manifests)
          /\ DOMAIN Append(manifests, FakeManifest) = 1..(Len(manifests) + 1)
      BY <2>1, <3>1, DomainOfSequence
    <3>3. PICK i \in 1..(Len(manifests) + 1) : bundle = Append(manifests, FakeManifest)[i]
      BY <1>1, <2>3, <3>2 DEF ToSet
    <3>4. CASE i = Len(manifests) + 1
      BY <3>1, <3>3, <3>4
    <3>5. CASE i # Len(manifests) + 1
      <4>1. i \in 1..Len(manifests)
        BY <3>2, <3>5
      <4>. QED  BY <3>1, <3>2, <3>3, <4>1 DEF ToSet, manifests
    <3>. QED  BY <3>4, <3>5
  <2>. QED  BY <2>2, <2>3 DEF Registered
<1>3. /\ bundle.max_sequence_tokens \in Nat \ {0} /\ bundle.max_request_tokens \in Nat \ {0}
      /\ bundle.model_max_sequence_tokens \in Nat
  BY <1>1, <1>2, SettingsAssumption
<1>. QED  BY <1>1, <1>2, <1>3

LEMMA TokenizingCounts ==
  ASSUME SInv, SInv', Course, Ledger, Tokenizing, UNCHANGED outside
  PROVE  Ledger'
<1>1. /\ stage = "flatten" /\ ~(at <= N)
      /\ UNCHANGED <<request, budget, compiled, flat, marks, offset, total, sent, logits>>
      /\ UNCHANGED <<bundle, settings, response>>
  BY DEF Tokenizing, outside, More, N
<1>2. /\ encoded = <<>> /\ total = 0 /\ logits = <<>> /\ backend \in Behaviours /\ InText
  BY <1>1 DEF Ledger, Carried, Counted, Working
<1>3. CASE Len(flat) > MaxSequences /\ TooLong(<<>>) /\ UNCHANGED <<at, encoded, backend>>
  <2>1. stage' = "over" /\ refusal' # Nothing
    BY <1>3, TooLongFacts
  <2>2. SequencesInAll * MinTokensPerSequence > bundle.max_request_tokens
    <3>1. budget.request = bundle.max_request_tokens /\ budget.request \in Nat
      BY <1>1, BudgetIsTheBundles DEF Working
    <3>2. Len(flat) = SequencesInAll /\ Len(flat) \in Nat
      BY <1>1, AllInTheList
    <3>3. Len(flat) > budget.request \div 5
      BY <1>3 DEF MaxSequences, MinTokensPerSequence
    <3>. DEFINE n == Len(flat)  b == budget.request
    <3>4. n \in Nat /\ b \in Nat /\ n > b \div 5
      BY <3>1, <3>2, <3>3
    <3>. HIDE DEF n, b
    <3>5. n * 5 > b
      BY <3>4
    <3>. QED  BY <3>1, <3>2, <3>5 DEF MinTokensPerSequence, n, b
  <2>3. Overlong'
    BY <1>1, <2>2, RequestStays DEF Overlong, TooLongForSomething
  <2>. QED  BY <1>1, <1>2, <1>3, <2>1, <2>3, RefusalEnds
<1>4. CASE /\ Inexplicable /\ UNCHANGED <<at, encoded>>
           /\ backend' \in {"short", "raises"} \/ UNCHANGED backend
  <2>1. /\ stage' = "over" /\ refusal' # Nothing /\ refusal'.code = "inference_error"
    BY <1>4, InexplicableFacts
  <2>2. Overlong' /\ backend' \in Behaviours
    BY <1>2, <1>4, <2>1 DEF Overlong, Behaviours
  <2>. QED  BY <1>1, <1>4, <2>1, <2>2, RefusalEnds
<1>5. CASE at' = 1 /\ stage' = "take" /\ UNCHANGED <<backend, refusal>>
  <2>1. total' = SumFunctionOnSet(EachTokens', 1..(at' - 1))
    <3>1. 1..(at' - 1) = {}
      BY <1>5
    <3>2. SumFunctionOnSet(EachTokens', {}) = 0
      BY SumUnfolds, FS_EmptySet
    <3>. QED  BY <1>1, <1>2, <3>1, <3>2
  <2>2. InText'
    BY <1>1, <1>2 DEF InText
  <2>3. Counted'
    BY <1>5, <2>1, <2>2 DEF Counted
  <2>. QED  BY <1>1, <1>2, <1>5, <2>3, JobGoesOn DEF Working
<1>. QED  BY <1>3, <1>4, <1>5 DEF Tokenizing

\* What the part of one question holds, while it is taken.
LEMMA PartOfQuestion ==
  ASSUME SInv, Course, Ledger, stage = "take", at <= N
  PROVE  LET part == Slice(encoded, offset, offset + P(at)) IN
         /\ at \in 1..N /\ N \in Nat /\ IsSequence(part) /\ Len(part) = P(at)
         /\ \A k \in 1..P(at) : part[k] = Encode(compiled[at].pairs[k])
<1>. DEFINE part == Slice(encoded, offset, offset + P(at))
<1>1. Shape /\ Laid(N) /\ AllEncoded /\ offset = End(at - 1)
  BY DEF SInv, AtTake
<1>2. /\ at \in 1..N /\ N \in Nat /\ P(at) \in Nat /\ offset \in Nat
      /\ offset + P(at) <= Len(encoded)
      /\ \A k \in 1..P(at) : /\ offset + k \in 1..Len(flat)
                              /\ flat[offset + k] = compiled[at].pairs[k]
  BY <1>1, NextPart DEF AllEncoded
<1>. DEFINE n == P(at)
<1>3. n \in Nat /\ offset \in Nat /\ offset + n <= Len(encoded) /\ IsSequence(encoded)
  BY <1>1, <1>2 DEF AllEncoded
<1>. HIDE DEF n
<1>4. /\ IsSequence(Slice(encoded, offset, offset + n))
      /\ Len(Slice(encoded, offset, offset + n)) = n
      /\ \A k \in 1..n : Slice(encoded, offset, offset + n)[k] = encoded[offset + k]
  BY <1>3, Slicing
<1>5. \A k \in 1..P(at) : encoded[offset + k] = Encode(compiled[at].pairs[k])
  BY <1>1, <1>2 DEF AllEncoded
<1>. QED  BY <1>2, <1>4, <1>5 DEF n

LEMMA TakeCounts ==
  ASSUME SInv, SInv', Course, Ledger, Take, UNCHANGED outside
  PROVE  Ledger'
<1>. DEFINE part == Slice(encoded, offset, offset + P(at))
<1>1. /\ stage = "take" /\ at <= N
      /\ UNCHANGED <<request, budget, compiled, flat, marks, encoded, sent, logits, backend>>
      /\ UNCHANGED <<bundle, settings, response>>
      /\ \/ /\ TooLongToEncode(part) /\ TooLong(<<<<"questions">>, compiled[at].id>>)
            /\ UNCHANGED <<at, taken, offset, total>>
         \/ /\ at' = at + 1 /\ UNCHANGED <<stage, refusal>>
            /\ total' = total + SumFunction([i \in DOMAIN part |-> Len(part[i])])
  BY DEF Take, outside, More, N, P
<1>2. /\ logits = <<>> /\ backend \in Behaviours /\ InText /\ total \in Nat
      /\ total = SumFunctionOnSet(EachTokens, 1..(at - 1))
      /\ Askable(request) /\ compiled = AsCompiled
  BY <1>1 DEF Ledger, Carried, Counted, Lists, Course, Working
<1>3. /\ at \in 1..N /\ N \in Nat /\ IsSequence(part) /\ Len(part) = P(at)
      /\ \A k \in 1..P(at) : part[k] = Encode(compiled[at].pairs[k])
  BY <1>1, PartOfQuestion
<1>. HIDE DEF part
<1>4. CASE /\ TooLongToEncode(part) /\ TooLong(<<<<"questions">>, compiled[at].id>>)
           /\ UNCHANGED <<at, taken, offset, total>>
  <2>1. stage' = "over" /\ refusal' # Nothing
    BY <1>4, TooLongFacts
  <2>2. OverTokens(bundle.max_sequence_tokens, bundle.max_request_tokens)
    <3>. DEFINE asked == request.questions[at]
    <3>1. PICK k \in 1..P(at) : Len(part[k]) > budget.sequence
      BY <1>3, <1>4, DomainOfSequence DEF TooLongToEncode
    <3>2. /\ asked \in ToSet(request.questions)
          /\ OptionKeys(asked)[k] \in Keys(asked)
          /\ part[k] = Encode(PairFor(asked, OptionKeys(asked)[k]))
      BY <1>2, <1>3, CompiledFacts DEF Bijection, Injection
    <3>3. budget.sequence = bundle.max_sequence_tokens
      BY <1>1, BudgetIsTheBundles DEF Working
    <3>. HIDE DEF asked
    <3>4. TokensOf(asked, OptionKeys(asked)[k]) > bundle.max_sequence_tokens
      BY <3>1, <3>2, <3>3 DEF TokensOf
    <3>. QED  BY <3>2, <3>4 DEF OverTokens
  <2>3. Overlong'
    BY <1>1, <2>2, RequestStays DEF Overlong, TooLongForSomething
  <2>. QED  BY <1>1, <1>2, <1>4, <2>1, <2>3, RefusalEnds
<1>5. CASE /\ at' = at + 1 /\ UNCHANGED <<stage, refusal>>
           /\ total' = total + SumFunction([i \in DOMAIN part |-> Len(part[i])])
  <2>1. PICK a \in 1..N : a = at
    BY <1>3
  <2>2. /\ EachTokens[a] \in Nat
        /\ SumFunction([i \in DOMAIN part |-> Len(part[i])]) = EachTokens[a]
    BY <1>2, <1>3, <2>1, TokensOfQuestion
  <2>3. \A q \in 1..N : EachTokens[q] \in Nat
    BY <1>2, EachTokensAreNumbers
  <2>4. total' = total + EachTokens[a] /\ total' \in Nat
    BY <1>2, <1>5, <2>2
  <2>5. total' = SumFunctionOnSet(EachTokens', 1..(at' - 1))
    <3>. DEFINE m == a - 1
    <3>1. m \in Nat /\ m + 1 = a /\ at' - 1 = a
      BY <1>3, <1>5, <2>1
    <3>2. total = SumFunctionOnSet(EachTokens, 1..m)
      BY <1>2, <2>1
    <3>. HIDE DEF m
    <3>3. SumFunctionOnSet(EachTokens, 1..(m + 1))
            = SumFunctionOnSet(EachTokens, 1..m) + EachTokens[m + 1]
      BY <1>3, <2>3, <3>1, SumOfNext
    <3>4. EachTokens' = EachTokens
      BY <1>1, RequestStays
    <3>. QED  BY <2>4, <3>1, <3>2, <3>3, <3>4
  <2>6. InText'
    BY <1>1, <1>2 DEF InText
  <2>7. Counted'
    BY <1>1, <1>5, <2>5, <2>6 DEF Counted
  <2>. QED  BY <1>1, <1>2, <1>5, <2>4, <2>7, JobGoesOn DEF Working
<1>. QED  BY <1>1, <1>4, <1>5

LEMMA EndOfEncodingCounts ==
  ASSUME SInv, SInv', Course, Ledger, EndOfEncoding, UNCHANGED outside
  PROVE  Ledger'
<1>1. /\ stage = "take" /\ ~(at <= N)
      /\ UNCHANGED <<request, budget, compiled, flat, marks, encoded, offset, total, sent, logits,
                     backend>>
      /\ UNCHANGED <<bundle, settings, response>>
  BY DEF EndOfEncoding, outside, More, N
<1>2. /\ logits = <<>> /\ backend \in Behaviours /\ InText /\ total \in Nat
      /\ total = SumFunctionOnSet(EachTokens, 1..(at - 1))
      /\ offset \in 0..Len(flat) /\ Askable(request) /\ compiled = AsCompiled
  BY <1>1 DEF Ledger, Carried, Counted, Lists, Course, Working
<1>3. total = TokensInAll
  <2>1. Shape
    BY <1>1 DEF SInv, AtTake
  <2>2. at - 1 = N
    BY <1>1, <2>1, ShapeFacts DEF Shape
  <2>3. DOMAIN EachTokens = 1..N
    BY <1>2, EachTokensAreNumbers
  <2>. QED  BY <1>2, <2>2, <2>3 DEF TokensInAll, EachTokens, SumFunction
<1>4. CASE total > budget.request /\ TooLong(<<>>) /\ UNCHANGED at
  <2>1. stage' = "over" /\ refusal' # Nothing
    BY <1>4, TooLongFacts
  <2>2. TokensInAll > bundle.max_request_tokens
    <3>1. budget.request = bundle.max_request_tokens
      BY <1>1, BudgetIsTheBundles DEF Working
    <3>. QED  BY <1>3, <1>4, <3>1
  <2>3. Overlong'
    BY <1>1, <2>2, RequestStays DEF Overlong, TooLongForSomething, OverTokens
  <2>. QED  BY <1>1, <1>2, <1>4, <2>1, <2>3, RefusalEnds
<1>5. CASE total <= budget.request /\ stage' = "gather" /\ UNCHANGED refusal
  <2>1. ~(total > budget.request)
    <3>1. budget.request \in Nat
      BY <1>1, BudgetIsTheBundles DEF Working
    <3>. QED  BY <1>2, <1>5, <3>1
  <2>2. InText' /\ TokensInAll' = TokensInAll
    BY <1>1, <1>2, RequestStays DEF InText
  <2>3. Counted'
    BY <1>1, <1>3, <1>5, <2>1, <2>2 DEF Counted
  <2>. QED  BY <1>1, <1>2, <1>5, <2>3, JobGoesOn DEF Working
<1>. QED  BY <1>4, <1>5 DEF EndOfEncoding

LEMMA GatherCounts ==
  ASSUME SInv, SInv', Course, Ledger, Gather, UNCHANGED outside
  PROVE  Ledger'
<1>1. /\ stage = "gather" /\ stage' = "gather"
      /\ UNCHANGED <<request, budget, compiled, flat, marks, encoded, offset, total, logits,
                     backend, refusal>>
      /\ UNCHANGED <<bundle, settings, response>>
  BY DEF Gather, outside
<1>2. /\ logits = <<>> /\ backend \in Behaviours /\ InText /\ total \in Nat
      /\ total = TokensInAll /\ ~(total > budget.request) /\ offset \in 0..Len(flat)
  BY <1>1 DEF Ledger, Carried, Counted, Lists, Working
<1>3. InText' /\ TokensInAll' = TokensInAll
  BY <1>1, <1>2, RequestStays DEF InText
<1>4. Counted'
  BY <1>1, <1>2, <1>3 DEF Counted
<1>. QED  BY <1>1, <1>2, <1>4, JobGoesOn DEF Working

LEMMA ScoreCounts ==
  ASSUME SInv, SInv', Course, Ledger, Score, UNCHANGED outside
  PROVE  Ledger'
<1>1. /\ stage = "gather" /\ backend' \in Behaviours
      /\ UNCHANGED <<request, budget, compiled, flat, marks, encoded, total, sent>>
      /\ UNCHANGED <<bundle, settings, response>>
      /\ \/ Inexplicable /\ UNCHANGED <<at, offset, logits>>
         \/ stage' = "split" /\ UNCHANGED refusal
  BY DEF Score, outside, Behaviours
<1>2. /\ InText /\ total \in Nat /\ total = TokensInAll /\ ~(total > budget.request)
  BY <1>1 DEF Ledger, Counted, Lists, Working
<1>3. CASE Inexplicable /\ UNCHANGED <<at, offset, logits>>
  <2>1. /\ stage' = "over" /\ refusal' # Nothing /\ refusal'.code = "inference_error"
    BY <1>3, InexplicableFacts
  <2>2. Overlong'
    BY <2>1 DEF Overlong
  <2>. QED  BY <1>1, <1>3, <2>1, <2>2, RefusalEnds
<1>4. CASE stage' = "split" /\ UNCHANGED refusal
  <2>1. InText' /\ TokensInAll' = TokensInAll
    BY <1>1, <1>2, RequestStays DEF InText
  <2>2. Counted'
    BY <1>1, <1>2, <1>4, <2>1 DEF Counted
  <2>. QED  BY <1>1, <1>2, <1>4, <2>2, JobGoesOn DEF Working
<1>. QED  BY <1>1, <1>3, <1>4

LEMMA SplitCounts ==
  ASSUME SInv, SInv', Course, Ledger, Split, UNCHANGED outside
  PROVE  Ledger'
<1>1. /\ stage = "split" /\ stage' = "split"
      /\ UNCHANGED <<request, budget, compiled, flat, marks, encoded, total, sent, logits,
                     backend, refusal>>
      /\ UNCHANGED <<bundle, settings, response>>
  BY DEF Split, outside
<1>2. /\ InText /\ total \in Nat /\ total = TokensInAll /\ ~(total > budget.request)
      /\ backend \in Behaviours
  BY <1>1 DEF Ledger, Counted, Carried, Lists, Working
<1>3. InText' /\ TokensInAll' = TokensInAll
  BY <1>1, <1>2, RequestStays DEF InText
<1>4. Counted'
  BY <1>1, <1>2, <1>3 DEF Counted
<1>. QED  BY <1>1, <1>2, <1>4, JobGoesOn DEF Working

LEMMA JobCounts ==
  ASSUME SInv, SInv', Course, Ledger, Job
  PROVE  Ledger'
BY CompileCounts, FlattenCounts, TokenizingCounts, TakeCounts, EndOfEncodingCounts, GatherCounts,
   ScoreCounts, SplitCounts DEF Job

\* Before the model the lists are empty.
LEMMA StopCounts ==
  ASSUME SInv, Ledger, stage = "idle", NEW fault, IsFault(fault), StopAt(fault), UNCHANGED response
  PROVE  Ledger'
<1>1. /\ stage' = "over" /\ refusal' # Nothing /\ refusal'.code # "context_length_exceeded"
      /\ UNCHANGED <<compiled, at, flat, marks, encoded, offset, total, sent, logits, backend>>
  BY StopFacts
<1>2. Overlong' /\ backend' \in Behaviours
  BY <1>1 DEF Overlong, Ledger, Carried
<1>. QED  BY <1>1, <1>2, RefusalEnds

LEMMA WaitingCounts ==
  ASSUME Ledger, stage = "idle", UNCHANGED <<serializer, response>>
  PROVE  Ledger'
<1>1. Counted'
  BY DEF Counted, serializer, Working
<1>2. Carried' /\ Lists'
  BY DEF Ledger, Carried, Lists, serializer
<1>3. refusal.code # "context_length_exceeded"
  <2>1. refusal = Nothing
    BY DEF Ledger, Carried
  <2>. QED  BY <2>1 DEF Nothing
<1>4. Overlong'
  BY <1>3 DEF Overlong, serializer
<1>. QED  BY <1>1, <1>2, <1>4 DEF Ledger

\* What becomes of a request before it is understood: it is refused, or it waits.
StoppedOrWaiting ==
  /\ stage = "idle" /\ UNCHANGED response
  /\ \/ \E fault : IsFault(fault) /\ StopAt(fault)
     \/ UNCHANGED serializer

LEMMA ReceiveFacts ==
  ASSUME Course, Receive
  PROVE  StoppedOrWaiting
<1>1. stage = "idle" /\ UNCHANGED response
  BY DEF Receive, Course
<1>2. PICK c \in Calls : LET faults == When(~Authentic(c), Fault(401, "unauthorized", <<>>))
                     \o When(~JsonMediaType(c), Fault(415, "unsupported_media_type", <<>>))
                     \o When(TooLargeAsDeclared(c), Fault(413, "request_too_large", <<>>))
       IN IF faults # <<>> THEN StopAt(Head(faults)) /\ intake' = "handled"
          ELSE UNCHANGED serializer /\ intake' = "reading"
  BY DEF Receive
<1>. DEFINE first == When(~Authentic(c), Fault(401, "unauthorized", <<>>))
            second == When(~JsonMediaType(c), Fault(415, "unsupported_media_type", <<>>))
            third == When(TooLargeAsDeclared(c), Fault(413, "request_too_large", <<>>))
            faults == first \o second \o third
<1>3. Listing(first) /\ Listing(second) /\ Listing(third)
  <2>. DEFINE a == ~Authentic(c)  b == ~JsonMediaType(c)  d == TooLargeAsDeclared(c)
              f == Fault(401, "unauthorized", <<>>)
              g == Fault(415, "unsupported_media_type", <<>>)
              h == Fault(413, "request_too_large", <<>>)
  <2>1. a \in BOOLEAN /\ b \in BOOLEAN /\ d \in BOOLEAN
    BY DEF JsonMediaType, TooLargeAsDeclared
  <2>2. IsFault(f) /\ IsFault(g) /\ IsFault(h)
    BY FaultIsFault
  <2>. HIDE DEF a, b, d, f, g, h
  <2>3. Listing(When(a, f))
    BY <2>1, <2>2, WhenLists
  <2>4. Listing(When(b, g))
    BY <2>1, <2>2, WhenLists
  <2>5. Listing(When(d, h))
    BY <2>1, <2>2, WhenLists
  <2>. QED  BY <2>3, <2>4, <2>5 DEF a, b, d, f, g, h
<1>4. faults # <<>> => StopAt(Head(faults))
  BY <1>2
<1>5. faults = <<>> => UNCHANGED serializer
  BY <1>2
<1>. HIDE DEF first, second, third
<1>6. Listing(first \o second)
  BY <1>3, JoinLists
<1>7. Listing(faults)
  <2>. DEFINE two == first \o second
  <2>. HIDE DEF two
  <2>1. Listing(two)
    BY <1>6 DEF two
  <2>2. Listing(two \o third)
    BY <1>3, <2>1, JoinLists
  <2>. QED  BY <2>2 DEF two
<1>. HIDE DEF faults
<1>8. CASE faults # <<>>
  <2>1. IsFault(Head(faults))
    BY <1>7, <1>8, HeadIsFault
  <2>. DEFINE fault == Head(faults)
  <2>2. IsFault(fault) /\ StopAt(fault)
    BY <1>4, <1>8, <2>1
  <2>. HIDE DEF fault
  <2>. QED  BY <1>1, <2>2 DEF StoppedOrWaiting
<1>9. CASE faults = <<>>
  BY <1>1, <1>5, <1>9 DEF StoppedOrWaiting
<1>. QED  BY <1>8, <1>9

LEMMA ChunkFacts ==
  ASSUME Course, ReadChunk
  PROVE  StoppedOrWaiting
<1>1. /\ stage = "idle" /\ UNCHANGED response
      /\ \/ StopAt(Fault(413, "request_too_large", <<>>))
         \/ UNCHANGED serializer
  BY DEF ReadChunk, Course
<1>2. CASE StopAt(Fault(413, "request_too_large", <<>>))
  <2>. DEFINE fault == Fault(413, "request_too_large", <<>>)
  <2>1. IsFault(fault) /\ StopAt(fault)
    BY <1>2, FaultIsFault
  <2>. HIDE DEF fault
  <2>. QED  BY <1>1, <2>1 DEF StoppedOrWaiting
<1>3. CASE UNCHANGED serializer
  BY <1>1, <1>3 DEF StoppedOrWaiting
<1>. QED  BY <1>1, <1>2, <1>3

LEMMA StoppedCounts ==
  ASSUME SInv, Ledger, StoppedOrWaiting
  PROVE  Ledger'
<1>1. CASE \E fault : IsFault(fault) /\ StopAt(fault)
  BY <1>1, StopCounts DEF StoppedOrWaiting
<1>2. CASE UNCHANGED serializer
  BY <1>2, WaitingCounts DEF StoppedOrWaiting
<1>. QED  BY <1>1, <1>2 DEF StoppedOrWaiting

LEMMA HandleCounts ==
  ASSUME SInv, SInv', Course, Ledger, Handle
  PROVE  Ledger'
<1>1. /\ stage = "idle" /\ UNCHANGED response
      /\ \/ \E fault : IsFault(fault) /\ StopAt(fault)
         \/ \E r, b : Begin(r, b)
  BY HandleFacts
<1>2. CASE \E fault : IsFault(fault) /\ StopAt(fault)
  BY <1>1, <1>2, StopCounts
<1>3. CASE \E r, b : Begin(r, b)
  <2>1. /\ stage' = "compile"
        /\ UNCHANGED <<compiled, at, flat, marks, encoded, offset, total, sent, logits, backend,
                       refusal>>
    BY <1>3 DEF Begin
  <2>2. Counted'
    BY <2>1 DEF Counted, Working
  <2>3. Carried' /\ Lists'
    BY <1>1, <2>1 DEF Ledger, Carried, Lists, Stages
  <2>4. refusal.code # "context_length_exceeded"
    <3>1. refusal = Nothing
      BY <1>1 DEF Ledger, Carried
    <3>. QED  BY <3>1 DEF Nothing
  <2>5. Overlong'
    BY <2>1, <2>4 DEF Overlong
  <2>. QED  BY <2>2, <2>3, <2>5 DEF Ledger
<1>. QED  BY <1>1, <1>2, <1>3

LEMMA RespondCounts ==
  ASSUME SInv, Course, Ledger, Respond
  PROVE  Ledger'
<1>1. /\ stage = "split"
      /\ UNCHANGED <<request, bundle, settings, compiled, at, flat, marks, encoded, offset, total,
                     sent, logits, backend>>
      /\ \/ /\ stage' = "answered" /\ UNCHANGED refusal
            /\ response' = Payload(bundle.public_id, bundle.temperature)
         \/ stage' = "over" /\ UNCHANGED response /\ Inexplicable
  BY RespondFacts
<1>2. backend \in Behaviours
  BY DEF Ledger, Carried
<1>3. CASE stage' = "over" /\ UNCHANGED response /\ Inexplicable
  <2>1. refusal' # Nothing /\ refusal'.code = "inference_error"
    BY <1>3, InexplicableFacts
  <2>2. Overlong'
    BY <2>1 DEF Overlong
  <2>. QED  BY <1>1, <1>2, <1>3, <2>1, <2>2, RefusalEnds
<1>4. CASE /\ stage' = "answered" /\ UNCHANGED refusal
           /\ response' = Payload(bundle.public_id, bundle.temperature)
  <2>1. response' # None
    <3>1. "none" \in DOMAIN None /\ "none" \notin DOMAIN response'
      BY <1>4 DEF None, Payload
    <3>. QED  BY <3>1
  <2>2. Counted'
    BY <1>4 DEF Counted, Working
  <2>3. Carried'
    BY <1>1, <1>2, <1>4, <2>1 DEF Ledger, Carried, Stages
  <2>4. Lists'
    BY <1>1 DEF Ledger, Lists
  <2>5. Overlong'
    BY <1>1, <1>4, OverlongStays DEF Ledger
  <2>. QED  BY <2>2, <2>3, <2>4, <2>5 DEF Ledger
<1>. QED  BY <1>1, <1>3, <1>4

LEMMA ServerCounts ==
  ASSUME SInv, Course, Ledger, StartServer
  PROVE  Ledger'
<1>1. stage = "idle" /\ UNCHANGED <<serializer, response>>
  BY DEF StartServer, Course
<1>. QED  BY <1>1, WaitingCounts

LEMMA LedgerStarts == PathInit => Ledger
<1>. SUFFICES ASSUME PathInit PROVE Ledger
  OBVIOUS
<1>. USE DEF PathInit, SerializerInit
<1>1. Counted
  BY DEF Counted, Working
<1>2. Carried
  BY DEF Carried, Stages, Behaviours
<1>3. Lists
  BY EmptyIsSequence DEF Lists
<1>4. Overlong
  <2>1. refusal.code # "context_length_exceeded"
    BY DEF Nothing
  <2>. QED  BY <2>1 DEF Overlong
<1>. QED  BY <1>1, <1>2, <1>3, <1>4 DEF Ledger

LEMMA LedgerKeeps == SInv /\ SInv' /\ Course /\ Ledger /\ [PathNext]_pathvars => Ledger'
<1>. SUFFICES ASSUME SInv, SInv', Course, Ledger, [PathNext]_pathvars
              PROVE  Ledger'
  OBVIOUS
<1>1. CASE UNCHANGED pathvars
  <2>1. UNCHANGED serializer /\ UNCHANGED <<settings, bundle, response>>
    BY <1>1 DEF pathvars, outside
  <2>2. TokensInAll' = TokensInAll /\ EachTokens' = EachTokens /\ EachOptions' = EachOptions
    BY <2>1, RequestStays DEF serializer
  <2>3. Counted'
    BY <2>1, <2>2 DEF Ledger, Counted, InText, serializer
  <2>4. Carried' /\ Lists'
    BY <2>1 DEF Ledger, Carried, Lists, serializer
  <2>5. Overlong'
    BY <2>1, OverlongStays DEF Ledger, serializer
  <2>. QED  BY <2>3, <2>4, <2>5 DEF Ledger
<1>2. CASE PathNext
  BY <1>2, ServerCounts, ReceiveFacts, ChunkFacts, StoppedCounts, HandleCounts, JobCounts,
     RespondCounts
  DEF PathNext
<1>. QED  BY <1>1, <1>2

LEMMA PathKeepsAll ==
  SInv /\ Course /\ Ledger /\ [PathNext]_pathvars => (SInv /\ Course /\ Ledger)'
<1>. SUFFICES ASSUME SInv, Course, Ledger, [PathNext]_pathvars
              PROVE  SInv' /\ Course' /\ Ledger'
  OBVIOUS
<1>1. SInv' /\ Course'
  BY PathStepsKeep
<1>2. Ledger'
  BY <1>1, LedgerKeeps
<1>. QED  BY <1>1, <1>2

(* Through the whole path of a request the flat list has as many pairs as options were
   compiled, the total is the sum of the tokens counted, what is not filled yet is empty, and
   a refusal or a body ends it. *)
THEOREM PathLedger == PathSpec => [](SInv /\ Course /\ Ledger)
BY PathStartsWell, LedgerStarts, PathKeepsAll, PTL DEF PathSpec

(* The lists and offsets of the job stay within each other, and a request ends with a
   refusal or with a body, for every configuration, call, tokenizer and model. *)
THEOREM PathTypes == PathSpec => []PathTypeOK
<1>1. SInv /\ Course /\ Ledger => PathTypeOK
  BY DEF SInv, AtStart, Course, Ledger, Carried, Lists, PathTypeOK
<1>. QED  BY <1>1, PathLedger, PTL

\* No more than an operator allows is what a bundle allows.
LEMMA BundleIsNarrower ==
  ASSUME Course, stage \in Working
  PROVE  /\ bundle.max_sequence_tokens <= settings.max_sequence_tokens
         /\ bundle.max_request_tokens <= settings.max_request_tokens
         /\ bundle.model_max_sequence_tokens # NoLimit =>
              bundle.max_sequence_tokens <= bundle.model_max_sequence_tokens
         /\ settings.max_sequence_tokens \in Nat /\ settings.max_request_tokens \in Nat
<1>1. /\ bundle \in ToSet(Registered(settings)) /\ settings \in SettingsChoices
      /\ Startable(settings)
  BY BudgetIsTheBundles
<1>2. FitsTheServer(bundle, settings)
  BY <1>1 DEF Startable
<1>3. settings.max_sequence_tokens \in Nat /\ settings.max_request_tokens \in Nat
  BY <1>1, SettingsAssumption
<1>. QED  BY <1>2, <1>3 DEF FitsTheServer, NarrowsOnly

LEMMA SplitIsWithinBudget ==
  ASSUME SInv, Course, Ledger, stage = "split"
  PROVE  /\ ~OverTokens(settings.max_sequence_tokens, settings.max_request_tokens)
         /\ ~OverTokens(bundle.max_sequence_tokens, bundle.max_request_tokens)
         /\ bundle.model_max_sequence_tokens # NoLimit =>
              \A i \in DOMAIN sent : Len(sent[i]) <= bundle.model_max_sequence_tokens
         /\ total = TokensInAll
<1>1. /\ Shape /\ Laid(N) /\ AllEncoded /\ TakenUpTo(N) /\ SentUpTo(N)
      /\ Askable(request) /\ compiled = AsCompiled
      /\ InText /\ total \in Nat /\ total = TokensInAll /\ ~(total > budget.request)
  BY DEF SInv, AtSplit, Course, Ledger, Counted, Lists, Working
<1>2. /\ budget.sequence = bundle.max_sequence_tokens
      /\ budget.request = bundle.max_request_tokens
      /\ bundle.max_sequence_tokens \in Nat /\ bundle.max_request_tokens \in Nat
  BY BudgetIsTheBundles DEF Working
<1>3. /\ bundle.max_sequence_tokens <= settings.max_sequence_tokens
      /\ bundle.max_request_tokens <= settings.max_request_tokens
      /\ bundle.model_max_sequence_tokens # NoLimit =>
           bundle.max_sequence_tokens <= bundle.model_max_sequence_tokens
      /\ settings.max_sequence_tokens \in Nat /\ settings.max_request_tokens \in Nat
  BY BundleIsNarrower DEF Working
<1>4. ASSUME NEW asked \in ToSet(request.questions), NEW key \in Keys(asked)
      PROVE  TokensOf(asked, key) \in Nat /\ TokensOf(asked, key) <= bundle.max_sequence_tokens
  <2>1. PICK q \in 1..N : asked = request.questions[q]
    BY <1>1, CompiledFacts DEF ToSet
  <2>2. /\ AskableQuestion(asked)
        /\ OptionKeys(asked) \in Bijection(1..P(q), Keys(asked))
        /\ \A k \in 1..P(q) : compiled[q].pairs[k] = PairFor(asked, OptionKeys(asked)[k])
    BY <1>1, <2>1, CompiledFacts
  <2>3. PICK k \in 1..P(q) : key = OptionKeys(asked)[k]
    BY <2>2 DEF Bijection, Surjection
  <2>4. /\ taken[q][k] = encoded[marks[q] + k] /\ ~(Len(taken[q][k]) > budget.sequence)
        /\ flat[marks[q] + k] = compiled[q].pairs[k]
    BY <1>1 DEF TakenUpTo, Laid
  <2>5. marks[q] + k \in 1..Len(flat)
    <3>1. /\ marks[q] \in Nat /\ End(q) <= Len(flat) /\ Len(flat) \in Nat /\ P(q) \in Nat
          /\ q # 0
      BY <1>1, ShapeFacts DEF Laid, IsSequence
    <3>2. End(q) = marks[q] + P(q)
      BY <3>1 DEF End
    <3>. QED  BY <3>1, <3>2
  <2>6. encoded[marks[q] + k] = Encode(PairFor(asked, key))
    BY <1>1, <2>2, <2>3, <2>4, <2>5 DEF AllEncoded
  <2>7. TokensOf(asked, key) \in Nat
    BY <1>1, <2>2, PairIsText DEF Askable
  <2>8. ~(TokensOf(asked, key) > budget.sequence)
    BY <2>4, <2>6 DEF TokensOf
  <2>. QED  BY <1>2, <2>7, <2>8
<1>5. ASSUME NEW sequence \in Nat, NEW all \in Nat,
             bundle.max_sequence_tokens <= sequence, bundle.max_request_tokens <= all
      PROVE  ~OverTokens(sequence, all)
  <2>1. ~(TokensInAll > all)
    BY <1>1, <1>2, <1>5
  <2>2. ASSUME NEW asked \in ToSet(request.questions), NEW key \in Keys(asked)
        PROVE  ~(TokensOf(asked, key) > sequence)
    BY <1>2, <1>4, <1>5
  <2>. QED  BY <2>1, <2>2 DEF OverTokens
<1>6. ASSUME bundle.model_max_sequence_tokens # NoLimit, NEW i \in DOMAIN sent
      PROVE  Len(sent[i]) <= bundle.model_max_sequence_tokens
  <2>1. i \in 1..Len(sent) /\ Len(sent) = Len(flat)
    BY <1>1, DomainOfSequence DEF SentUpTo, Laid
  <2>2. sent[i] = Encode(flat[i]) /\ ~(Len(sent[i]) > budget.sequence)
    BY <1>1, <2>1 DEF SentUpTo, AllEncoded
  <2>3. IsSequence(Encode(flat[i]))
    BY <1>1, <2>1, EncodeIsSequence DEF InText, Free
  <2>4. Len(sent[i]) \in Nat
    BY <2>2, <2>3 DEF IsSequence
  <2>5. bundle.model_max_sequence_tokens \in Nat
    BY BudgetIsTheBundles DEF Working
  <2>. QED  BY <1>2, <1>3, <1>6, <2>2, <2>4, <2>5
<1>. QED  BY <1>1, <1>2, <1>3, <1>5, <1>6

(* What reaches the model is within every limit, and nothing is refused for its length that
   is within them and passes the gates. *)
THEOREM PathIsWithinBudget == PathSpec => []WithinBudget
<1>1. SInv /\ Course /\ Ledger => WithinBudget
  BY SplitIsWithinBudget DEF Ledger, Overlong, TooLongForSomething, WithinBudget
<1>. QED  BY <1>1, PathLedger, PTL

-----------------------------------------------------------------------------
(* The answer to one question                                                *)

LEMMA WeightIsNumber ==
  ASSUME NEW t \in DOMAIN Exp, NEW gap
  PROVE  Weight(t, gap) \in Nat
BY ExpAssumption DEF Weight

\* Each probability is the share of its option, in whatever order the options are.
LEMMA SharesOfOptions ==
  ASSUME NEW n \in Nat, NEW keys, NEW h \in Bijection(1..n, keys),
         NEW says, DOMAIN says = keys, NEW t \in DOMAIN Exp,
         NEW values, IsSequence(values), Len(values) = n,
         \A k \in 1..n : values[k] = says[h[k]],
         NEW p, p = Probabilities(values, t), p # ValueError
  PROVE  /\ n >= 2 /\ DOMAIN p = 1..n /\ IsSequence(p) /\ Len(p) = n
         /\ DOMAIN Shares(says, t) = keys
         /\ \A k \in 1..n : p[k] = Shares(says, t)[h[k]] /\ p[k].part \in Nat
<1>. DEFINE largest == Max(ToSet(values))
            Part(key) == Weight(t, largest - says[key])
            f == [k \in 1..n |-> Centered(values, t, k)]
            g == [key \in keys |-> Part(key)]
<1>1. /\ \A k \in 1..n : h[k] \in keys
      /\ \A i, j \in 1..n : h[i] = h[j] => i = j
      /\ {h[k] : k \in 1..n} = keys
  <2>1. \A k \in 1..n : h[k] \in keys
    BY DEF Bijection, Injection
  <2>2. \A i, j \in 1..n : h[i] = h[j] => i = j
    BY DEF Bijection, Injection, IsInjective
  <2>3. \A key \in keys : \E k \in 1..n : h[k] = key
    BY DEF Bijection, Surjection
  <2>. QED  BY <2>1, <2>2, <2>3
<1>2. DOMAIN values = 1..n /\ \A k \in 1..n : values[k] = says[h[k]]
  BY DomainOfSequence
<1>3. ToSet(values) = {says[other] : other \in DOMAIN says}
  <2>1. ToSet(values) = {values[k] : k \in 1..n}
    BY <1>2 DEF ToSet
  <2>. QED  BY <1>1, <1>2, <2>1
<1>5. \A k \in 1..n : f[k] \in Nat /\ g[h[k]] = f[k]
  <2>1. \A k \in 1..n : f[k] = Weight(t, largest - says[h[k]])
    BY <1>2 DEF Centered
  <2>2. \A k \in 1..n : g[h[k]] = Weight(t, largest - says[h[k]])
    BY <1>1
  <2>. HIDE DEF f, g, largest
  <2>. QED  BY <2>1, <2>2, WeightIsNumber
<1>6. SumFunction(g) = SumFunction(f)
  <2>1. SumFunction(g) = SumFunctionOnSet(g, keys) /\ SumFunction(f) = SumFunctionOnSet(f, 1..n)
    BY DEF SumFunction
  <2>2. IsFiniteSet(1..n)
    BY FS_Interval
  <2>. DEFINE S == 1..n
  <2>. HIDE DEF f, g
  <2>4. IsFiniteSet(S) /\ (\A k \in S : f[k] \in Nat) /\ (\A k \in S : g[h[k]] = f[k])
        /\ (\A i, j \in S : h[i] = h[j] => i = j)
    BY <1>1, <1>5, <2>2
  <2>. HIDE DEF S
  <2>3. SumFunctionOnSet(g, {h[k] : k \in S}) = SumFunctionOnSet(f, S)
    BY <2>4, SumRenamed
  <2>. QED  BY <1>1, <2>1, <2>3 DEF S
<1>7. /\ n >= 2
      /\ p = [k \in 1..n |-> [part |-> f[k], whole |-> SumFunction(f)]]
  <2>1. ~(Len(values) < 2 \/ t <= 0 \/ NotFinite \in ToSet(values))
    BY DEF Probabilities
  <2>2. p = [k \in DOMAIN values |->
              [part |-> Centered(values, t, k),
               whole |-> SumFunction([i \in DOMAIN values |-> Centered(values, t, i)])]]
    BY <2>1 DEF Probabilities
  <2>3. [i \in DOMAIN values |-> Centered(values, t, i)] = f /\ DOMAIN values = 1..n
    BY <1>2
  <2>4. n >= 2
    BY <2>1
  <2>. QED  BY <2>2, <2>3, <2>4
<1>8. /\ DOMAIN Shares(says, t) = keys
      /\ \A key \in keys : Shares(says, t)[key] = [part |-> g[key], whole |-> SumFunction(g)]
  <2>1. Shares(says, t)
          = [key \in keys |-> [part |-> Part(key), whole |-> SumFunction([o \in keys |-> Part(o)])]]
    BY <1>3 DEF Shares
  <2>. HIDE DEF Part
  <2>. QED  BY <2>1
<1>. HIDE DEF f, g
<1>9. DOMAIN p = 1..n /\ p = [k \in 1..n |-> p[k]]
      /\ \A k \in 1..n : p[k] = [part |-> f[k], whole |-> SumFunction(f)]
  BY <1>7
<1>10. IsSequence(p) /\ Len(p) = n
  BY <1>9, MappedIsSequence
<1>11. ASSUME NEW k \in 1..n
       PROVE  p[k] = Shares(says, t)[h[k]] /\ p[k].part \in Nat
  <2>1. Shares(says, t)[h[k]] = [part |-> g[h[k]], whole |-> SumFunction(g)]
    BY <1>1, <1>8
  <2>2. p[k] = [part |-> f[k], whole |-> SumFunction(f)]
    BY <1>9
  <2>3. p[k].part = f[k]
    BY <2>2
  <2>4. p[k] = Shares(says, t)[h[k]]
    BY <1>5, <1>6, <2>1, <2>2
  <2>. QED  BY <1>5, <2>3, <2>4
<1>. QED  BY <1>7, <1>8, <1>9, <1>10, <1>11

LEMMA ValueOfKey ==
  ASSUME NEW object, \A i, j \in DOMAIN object : object[i].key = object[j].key => i = j,
         NEW i \in DOMAIN object
  PROVE  Value(object, object[i].key) = object[i].value
<1>. DEFINE j == CHOOSE k \in DOMAIN object : object[k].key = object[i].key
<1>2. j \in DOMAIN object /\ object[j].key = object[i].key
  OBVIOUS
<1>3. j = i
  <2>. HIDE DEF j
  <2>. QED  BY <1>2
<1>4. Value(object, object[i].key) = object[j].value
  BY DEF Value
<1>. QED  BY <1>3, <1>4

\* h lists every one of the keys once.
ListsOnce(h, n, keys) ==
  /\ DOMAIN h = 1..n
  /\ \A i, j \in 1..n : h[i] = h[j] => i = j
  /\ \A k \in 1..n : h[k] \in keys
  /\ \A key \in keys : \E k \in 1..n : h[k] = key

\* The object has the keys of h, in that order.
KeyedBy(object, h, n) ==
  DOMAIN object = 1..n /\ \A k \in 1..n : object[k].key = h[k] /\ object[k].value.part \in Nat

\* The key that is chosen is the first of those with the largest value.
FirstOfBest(object, h, n) ==
  \E i \in 1..n : /\ SelectChoice(object) = h[i]
                  /\ \A j \in 1..n : object[j].value.part <= object[i].value.part
                  /\ \A j \in 1..(i - 1) : object[j].value.part < object[i].value.part

\* select_choice() finds the first of the largest.
LEMMA ChosenIsFirstOfBest ==
  ASSUME NEW n \in Nat, n # 0, NEW h, NEW keys, ListsOnce(h, n, keys), SortedKeys(keys) = h,
         NEW object, KeyedBy(object, h, n)
  PROVE  FirstOfBest(object, h, n)
<1>00. /\ DOMAIN h = 1..n
       /\ \A i, j \in 1..n : h[i] = h[j] => i = j
       /\ \A k \in 1..n : h[k] \in keys
       /\ \A key \in keys : \E k \in 1..n : h[k] = key
       /\ DOMAIN object = 1..n
       /\ \A k \in 1..n : object[k].key = h[k] /\ object[k].value.part \in Nat
  BY DEF ListsOnce, KeyedBy
<1>. DEFINE x == [k \in 1..n |-> object[k].value.part]
            Best(i) == \A j \in 1..n : x[j] <= x[i]
            First(i) == Best(i) /\ \A j \in 1..(i - 1) : ~Best(j)
            bests == {i \in 1..n : Best(i)}
<1>0. \A k \in 1..n : x[k] = object[k].value.part /\ x[k] \in Nat
  BY <1>00
<1>1. ToSet(KeysOf(object)) = keys
  <2>1. ToSet(KeysOf(object)) = {h[k] : k \in 1..n}
    BY <1>00 DEF ToSet, KeysOf
  <2>. QED  BY <1>00, <2>1
<1>2. ASSUME NEW i \in 1..n PROVE Value(object, h[i]) = object[i].value
  <2>1. \A k, l \in DOMAIN object : object[k].key = object[l].key => k = l
    BY <1>00
  <2>2. Value(object, object[i].key) = object[i].value
    <3>1. i \in DOMAIN object
      BY <1>00
    <3>. QED  BY ONLY <2>1, <3>1, ValueOfKey
  <2>. QED  BY <1>00, <2>2
<1>3. \A i \in 1..n : Value(object, h[i]).part = x[i]
  BY <1>0, <1>2
<1>. HIDE DEF x
<1>4. \E i \in 1..n : Best(i)
  <2>. DEFINE parts == {x[k] : k \in 1..n}
  <2>1. x \in Surjection(1..n, parts) /\ IsFiniteSet(1..n)
    <3>1. DOMAIN x = 1..n /\ x = [k \in 1..n |-> x[k]]
      BY DEF x
    <3>2. x \in [1..n -> parts] /\ \A y \in parts : \E k \in 1..n : x[k] = y
      BY <3>1
    <3>3. IsFiniteSet(1..n)
      BY FS_Interval
    <3>. HIDE DEF parts
    <3>. QED  BY <3>2, <3>3 DEF Surjection
  <2>2. x[1] \in parts /\ parts \subseteq Nat
    BY <1>0
  <2>. HIDE DEF parts
  <2>3. IsFiniteSet(parts)
    BY <2>1, FS_Surjection
  <2>4. PICK m \in parts : \A y \in parts : y <= m
    BY <2>2, <2>3, SomeGreatest
  <2>5. PICK i \in 1..n : x[i] = m
    BY <2>4 DEF parts
  <2>6. \A j \in 1..n : x[j] \in parts
    BY DEF parts
  <2>. QED  BY <2>4, <2>5, <2>6
<1>5. PICK i \in bests : \A j \in bests : i <= j
  <2>1. bests \subseteq Nat /\ bests # {}
    BY <1>4
  <2>. HIDE DEF bests
  <2>. QED  BY <2>1, SomeLeast
<1>6. i \in 1..n /\ First(i)
  <2>1. i \in 1..n /\ Best(i)
    BY <1>5
  <2>2. ASSUME NEW j \in 1..(i - 1) PROVE ~Best(j)
    <3>1. j \in 1..n /\ ~(i <= j)
      BY <2>1
    <3>. HIDE DEF Best
    <3>2. Best(j) => j \in bests
      BY <3>1
    <3>. HIDE DEF bests
    <3>. QED  BY <1>5, <3>1, <3>2
  <2>. HIDE DEF Best
  <2>. QED  BY <2>1, <2>2
<1>. DEFINE Largest(k) == \A j \in 1..n : Value(object, h[j]).part <= Value(object, h[k]).part
            c == CHOOSE k \in 1..n : First(k)
<1>7. SelectChoice(object)
        = h[CHOOSE k \in 1..n : Largest(k) /\ \A l \in 1..(k - 1) : ~Largest(l)]
  <2>. HIDE DEF Best
  <2>. QED  BY <1>00, <1>1 DEF SelectChoice
<1>8. \A k \in 1..n : Largest(k) <=> Best(k)
  BY <1>3
<1>9. \A k \in 1..n : (Largest(k) /\ \A l \in 1..(k - 1) : ~Largest(l)) <=> First(k)
  <2>1. \A k \in 1..n : \A l \in 1..(k - 1) : l \in 1..n
    OBVIOUS
  <2>. HIDE DEF Largest, Best
  <2>. QED  BY <1>8, <2>1
<1>. HIDE DEF Largest, First
<1>10. SelectChoice(object) = h[c]
  BY <1>7, <1>9
<1>11. c \in 1..n /\ First(c)
  BY <1>6
<1>. HIDE DEF c
<1>12. Best(c) /\ \A j \in 1..(c - 1) : ~Best(j)
  BY <1>11 DEF First
<1>13. ASSUME NEW j \in 1..(c - 1) PROVE x[j] < x[c]
  <2>1. j \in 1..n /\ ~Best(j)
    BY <1>11, <1>12
  <2>2. PICK m \in 1..n : ~(x[m] <= x[j])
    BY <2>1
  <2>3. x[m] <= x[c]
    BY <1>12
  <2>. QED  BY <1>0, <1>11, <2>1, <2>2, <2>3
<1>14. \A j \in 1..(c - 1) : j \in 1..n
  BY <1>11
<1>15. \A j \in 1..n : object[j].value.part <= object[c].value.part
  BY <1>0, <1>11, <1>12
<1>16. \A j \in 1..(c - 1) : object[j].value.part < object[c].value.part
  BY <1>0, <1>11, <1>13, <1>14
<1>. QED  BY <1>10, <1>11, <1>15, <1>16 DEF FirstOfBest

Entries(q) == [k \in DOMAIN q.criteria |-> q.criteria[k].entry]

\* An object in the order the model was asked in.
ByOption(object, keys, p) ==
  DOMAIN object = DOMAIN p
  /\ \A k \in DOMAIN p : object[k].key = keys[k] /\ object[k].value = p[k]

\* The parts of an answer that BuildAnswer() puts together.
LEMMA AnswerParts ==
  ASSUME NEW q, q.type \in {"noul", "choice", "score"}, NEW premise, NEW values, NEW t,
         NEW c, c = Expand(q, premise), NEW p, p = Probabilities(values, t),
         NEW answer, answer = BuildAnswer(c, values, t), answer # ValueError
  PROVE  /\ p # ValueError
         /\ q.type = "noul" => answer.noul = p[2]
         /\ q.type = "choice" =>
              /\ c.output_keys = AsWritten(q)
              /\ \E by_key : /\ ByOption(by_key, OptionKeys(q), p)
                             /\ answer.choice = SelectChoice(by_key)
                             /\ answer.probabilities = WireOrder(c, by_key)
         /\ q.type = "score" =>
              /\ answer.score = ExpectedScore(p)
              /\ answer.probabilities = [k \in DOMAIN p |-> answer.probabilities[k]]
              /\ \A k \in DOMAIN p : answer.probabilities[k] = [key |-> Digits(k - 1), value |-> p[k]]
              /\ ValuesOf(answer.legend) = Entries(q)
<1>1. /\ c.type = q.type /\ c.option_keys = OptionKeys(q)
      /\ q.type # "noul" => c.output_keys = AsWritten(q)
      /\ q.type = "score" => c.legend = Entries(q)
  BY DEF Expand, Entries
<1>. DEFINE by_key == [k \in DOMAIN p |-> [key |-> c.option_keys[k], value |-> p[k]]]
            by_level == [k \in DOMAIN p |-> [key |-> Digits(k - 1), value |-> p[k]]]
            legend == [k \in DOMAIN c.legend |-> [key |-> Digits(k - 1), value |-> c.legend[k]]]
<1>2. answer = CASE p = ValueError -> ValueError
                 [] p # ValueError /\ c.type = "noul" -> [type |-> "noul", noul |-> p[2]]
                 [] p # ValueError /\ c.type = "choice" ->
                      [type |-> "choice", choice |-> SelectChoice(by_key),
                       probabilities |-> WireOrder(c, by_key), confidence |-> Confidence(p)]
                 [] p # ValueError /\ c.type = "score" ->
                      [type |-> "score", score |-> ExpectedScore(p), legend |-> legend,
                       probabilities |-> by_level, confidence |-> Confidence(p)]
  BY DEF BuildAnswer
<1>. HIDE DEF by_key, by_level, legend
<1>3. p # ValueError
  BY <1>2
<1>4. q.type = "noul" => answer.noul = p[2]
  BY <1>1, <1>2, <1>3
<1>5. q.type = "choice" => /\ answer.choice = SelectChoice(by_key)
                           /\ answer.probabilities = WireOrder(c, by_key)
  BY <1>1, <1>2, <1>3
<1>6. q.type = "score" => /\ answer.score = ExpectedScore(p)
                          /\ answer.probabilities = by_level /\ answer.legend = legend
  BY <1>1, <1>2, <1>3
<1>7. ByOption(by_key, OptionKeys(q), p)
  BY <1>1 DEF ByOption, by_key
<1>8. q.type = "score" => /\ by_level = [k \in DOMAIN p |-> by_level[k]]
                          /\ \A k \in DOMAIN p : by_level[k] = [key |-> Digits(k - 1), value |-> p[k]]
  BY DEF by_level
<1>9. q.type = "score" => ValuesOf(legend) = Entries(q)
  BY <1>1 DEF ValuesOf, legend, Entries
<1>10. q.type = "choice" => \E object : /\ ByOption(object, OptionKeys(q), p)
                                        /\ answer.choice = SelectChoice(object)
                                        /\ answer.probabilities = WireOrder(c, object)
  BY <1>5, <1>7
<1>. QED  BY <1>1, <1>3, <1>4, <1>6, <1>8, <1>9, <1>10

\* What the values of the options call for is the answer that is built.
LEMMA AnswerFollowsValues ==
  ASSUME NEW q, AskableQuestion(q), GradedQuestion(q), NEW premise, NEW t \in DOMAIN Exp,
         NEW says, DOMAIN says = Keys(q),
         NEW values, IsSequence(values), Len(values) = Cardinality(Keys(q)),
         \A k \in 1..Cardinality(Keys(q)) : values[k] = says[OptionKeys(q)[k]],
         NEW answer, answer = BuildAnswer(Expand(q, premise), values, t), answer # ValueError
  PROVE  AnswerFollows(answer, q, Shares(says, t))
<1>. DEFINE n == Cardinality(Keys(q))  h == OptionKeys(q)  keys == Keys(q)
            p == Probabilities(values, t)  share == Shares(says, t)
            written == AsWritten(q)  m == Len(q.criteria)  c == Expand(q, premise)
<1>1. n \in Nat /\ h \in Bijection(1..n, keys) /\ IsFiniteSet(keys)
  BY OptionKeysAreTheKeys
<1>2. q.type \in {"noul", "choice", "score"}
  BY DEF AskableQuestion
<1>. HIDE DEF c, p
<1>3. /\ p # ValueError
      /\ q.type = "noul" => answer.noul = p[2]
      /\ q.type = "choice" =>
           /\ c.output_keys = AsWritten(q)
           /\ \E by_key : /\ ByOption(by_key, OptionKeys(q), p)
                          /\ answer.choice = SelectChoice(by_key)
                          /\ answer.probabilities = WireOrder(c, by_key)
      /\ q.type = "score" =>
           /\ answer.score = ExpectedScore(p)
           /\ answer.probabilities = [k \in DOMAIN p |-> answer.probabilities[k]]
           /\ \A k \in DOMAIN p : answer.probabilities[k] = [key |-> Digits(k - 1), value |-> p[k]]
           /\ ValuesOf(answer.legend) = Entries(q)
  <2>1. c = Expand(q, premise) /\ p = Probabilities(values, t) /\ answer = BuildAnswer(c, values, t)
    BY DEF c, p
  <2>. QED  BY <1>2, <2>1, AnswerParts
<1>. HIDE DEF n, h, keys
<1>4. /\ n >= 2 /\ DOMAIN p = 1..n /\ IsSequence(p) /\ Len(p) = n
      /\ DOMAIN share = keys
      /\ \A k \in 1..n : p[k] = share[h[k]] /\ p[k].part \in Nat
  <2>1. /\ DOMAIN says = keys /\ Len(values) = n /\ p = Probabilities(values, t)
        /\ \A k \in 1..n : values[k] = says[h[k]]
    BY DEF n, keys, h, p
  <2>. QED  BY <1>1, <1>3, <2>1, SharesOfOptions
<1>. HIDE DEF share
<1>5. /\ DOMAIN h = 1..n
      /\ \A k \in 1..n : h[k] \in keys
      /\ \A i, j \in 1..n : h[i] = h[j] => i = j
      /\ \A key \in keys : \E k \in 1..n : h[k] = key
  <2>1. h \in [1..n -> keys] /\ \A key \in keys : \E k \in 1..n : h[k] = key
    BY <1>1 DEF Bijection, Injection, Surjection
  <2>2. \A i, j \in 1..n : h[i] = h[j] => i = j
    BY <1>1 DEF Bijection, Injection, IsInjective
  <2>. QED  BY <2>1, <2>2
<1>6. /\ m \in Nat /\ DOMAIN q.criteria = 1..m /\ DOMAIN written = 1..m
      /\ \A k \in 1..m : written[k] = q.criteria[k].key /\ written[k] \in keys
      /\ keys = ToSet(written)
  <2>1. /\ m \in Nat /\ DOMAIN q.criteria = 1..m
        /\ written = [i \in 1..m |-> q.criteria[i].key]
        /\ keys = {q.criteria[i].key : i \in 1..m}
    BY CriteriaFacts DEF keys
  <2>. HIDE DEF m, written
  <2>. QED  BY <2>1 DEF ToSet
<1>. HIDE DEF m, written
<1>8. CASE q.type = "noul"
  <2>1. h = NoulOptionOrder
    BY <1>8 DEF h, OptionKeys
  <2>2. h[2] = <<"true">> /\ 2 \in 1..n
    BY <1>1, <1>4, <2>1 DEF NoulOptionOrder
  <2>3. answer.noul = share[<<"true">>]
    BY <1>3, <1>4, <1>8, <2>2
  <2>. QED  BY <1>8, <2>3 DEF AnswerFollows, share
<1>9. CASE q.type = "choice"
  <2>9. PICK by_key : /\ ByOption(by_key, h, p)
                      /\ answer.choice = SelectChoice(by_key)
                      /\ answer.probabilities = WireOrder(c, by_key)
    BY <1>3, <1>9 DEF h
  <2>10. /\ DOMAIN by_key = 1..n
         /\ \A k \in 1..n : by_key[k].key = h[k] /\ by_key[k].value = p[k]
    BY <1>4, <2>9 DEF ByOption
  <2>1. ASSUME NEW key \in keys PROVE Value(by_key, key) = share[key]
    <3>1. PICK k \in 1..n : h[k] = key
      BY <1>5
    <3>2. \A i, j \in DOMAIN by_key : by_key[i].key = by_key[j].key => i = j
      BY <1>5, <2>10
    <3>3. k \in DOMAIN by_key /\ by_key[k].key = key /\ by_key[k].value = p[k]
      BY <2>10, <3>1
    <3>4. Value(by_key, by_key[k].key) = by_key[k].value
      BY ONLY <3>2, <3>3, ValueOfKey
    <3>. QED  BY <1>4, <3>1, <3>3, <3>4
  <2>2. DistributionFollows(answer, q, share)
    <3>3. c.output_keys = written
      BY <1>3, <1>9 DEF written
    <3>1. answer.probabilities
            = [k \in 1..m |-> [key |-> written[k], value |-> Value(by_key, written[k])]]
      BY <1>6, <2>9, <3>3 DEF WireOrder
    <3>2. answer.probabilities
            = [k \in 1..m |-> [key |-> written[k], value |-> share[written[k]]]]
      BY <1>6, <2>1, <3>1
    <3>. QED  BY <1>6, <3>2 DEF DistributionFollows, written
  <2>3. /\ {h[k] : k \in 1..n} = keys /\ SortedKeys(keys) = h
        /\ keys \in SUBSET Written /\ Cardinality(keys) = n
    <3>1. h = SortedKeys(ToSet(written)) /\ ToSet(written) \subseteq Seq(DOMAIN Point)
      BY <1>9 DEF h, OptionKeys, AskableQuestion, written
    <3>2. {h[k] : k \in 1..n} = keys
      BY <1>5
    <3>. QED  BY <1>6, <3>1, <3>2 DEF Written, n, keys
  <2>4. \A i, j \in 1..n : i < j => Before(h[i], h[j])
    BY <1>1, <2>3, SortedKeysAreTheKeys
  <2>11. FirstOfBest(by_key, h, n)
    <3>1. n \in Nat /\ n # 0 /\ SortedKeys(keys) = h
      BY <1>1, <1>4, <2>3
    <3>2. ListsOnce(h, n, keys)
      BY <1>5 DEF ListsOnce
    <3>3. KeyedBy(by_key, h, n)
      BY <1>4, <2>10 DEF KeyedBy
    <3>. QED  BY ONLY <3>1, <3>2, <3>3, ChosenIsFirstOfBest
  <2>5. PICK i \in 1..n : /\ SelectChoice(by_key) = h[i]
                          /\ \A j \in 1..n : p[j].part <= p[i].part
                          /\ \A j \in 1..(i - 1) : p[j].part < p[i].part
    <3>1. PICK i \in 1..n : /\ SelectChoice(by_key) = h[i]
                            /\ \A j \in 1..n : by_key[j].value.part <= by_key[i].value.part
                            /\ \A j \in 1..(i - 1) : by_key[j].value.part < by_key[i].value.part
      BY <2>11 DEF FirstOfBest
    <3>2. \A j \in 1..(i - 1) : j \in 1..n
      BY <1>1
    <3>. QED  BY <2>10, <3>1, <3>2
  <2>6. ASSUME NEW key \in keys \ {h[i]}
        PROVE  \/ share[h[i]].part > share[key].part
               \/ share[h[i]].part = share[key].part /\ Before(h[i], key)
    <3>1. PICK j \in 1..n : h[j] = key
      BY <1>5
    <3>2. j # i /\ p[j] = share[key] /\ p[i] = share[h[i]]
      BY <1>4, <2>6, <3>1
    <3>3. p[i].part \in Nat /\ p[j].part \in Nat /\ p[j].part <= p[i].part
      BY <1>4, <2>5
    <3>4. CASE j < i
      <4>1. j \in 1..(i - 1)
        BY <3>4
      <4>2. p[j].part < p[i].part
        BY <2>5, <4>1
      <4>. QED  BY <3>2, <3>3, <4>2
    <3>5. CASE i < j
      <4>1. Before(h[i], key)
        BY <2>4, <3>1, <3>5
      <4>. QED  BY <3>2, <3>3, <4>1
    <3>. QED  BY <1>1, <3>2, <3>4, <3>5
  <2>7. answer.choice = h[i]
    BY <2>5, <2>9
  <2>8. \A key \in DOMAIN share \ {answer.choice} :
          \/ share[answer.choice].part > share[key].part
          \/ share[answer.choice].part = share[key].part /\ Before(answer.choice, key)
    BY <1>4, <2>6, <2>7
  <2>. QED  BY <1>9, <2>2, <2>8 DEF AnswerFollows, share
<1>10. CASE q.type = "score"
  <2>1. h = written
    BY <1>10 DEF h, OptionKeys, written
  <2>2. 1..m = 1..n /\ m = n
    <3>1. 1..m = 1..n
      BY <1>5, <1>6, <2>1
    <3>. QED  BY <1>1, <1>4, <1>6, <3>1
  <2>3. \A k \in 1..n : written[k] = Digits(k - 1)
    BY <1>6, <1>10, <2>2 DEF GradedQuestion
  <2>4. n <= 10
    BY <1>10, <2>2 DEF GradedQuestion, m
  <2>5. DistributionFollows(answer, q, share)
    <3>1. \A k \in 1..n : answer.probabilities[k] = [key |-> written[k], value |-> share[written[k]]]
      BY <1>3, <1>4, <1>10, <2>1, <2>3
    <3>2. answer.probabilities = [k \in 1..n |-> [key |-> written[k], value |-> share[written[k]]]]
      BY <1>3, <1>4, <1>10, <3>1
    <3>. QED  BY <1>6, <2>2, <3>2 DEF DistributionFollows, written
  <2>6. answer.score.part
          = SumFunction([k \in DOMAIN q.criteria |-> (k - 1) * share[Digits(k - 1)].part])
    <3>. DEFINE f == [k \in 1..n |-> (k - 1) * p[k].part]
                g == [k \in 1..n |-> (k - 1) * share[Digits(k - 1)].part]
    <3>1. f = g
      BY <1>4, <2>1, <2>3
    <3>2. ExpectedScore(p).part = SumFunction(f)
      <4>1. ~(Len(p) > 10)
        BY <1>1, <1>4, <2>4
      <4>. QED  BY <1>4, <4>1 DEF ExpectedScore
    <3>. QED  BY <1>3, <1>6, <1>10, <2>2, <3>1, <3>2
  <2>. QED  BY <1>3, <1>10, <2>5, <2>6 DEF AnswerFollows, Entries, share
<1>. QED  BY <1>2, <1>8, <1>9, <1>10

-----------------------------------------------------------------------------
(* The body of a 200                                                         *)

\* What the property says of a body.
BodyFollows(body) ==
  /\ body.model = bundle.public_id
  /\ \/ request.model = bundle.public_id
     \/ \E a \in ToSet(settings.aliases) :
          a.alias = request.model /\ a.target = bundle.public_id
  /\ KeysOf(body.answers) = [q \in DOMAIN request.questions |-> request.questions[q].id]
  /\ \A q \in DOMAIN request.questions :
       AnswerFollows(body.answers[q].value, request.questions[q],
                     Shares(Says(request.questions[q]), bundle.temperature[request.questions[q].type]))
  /\ body.usage.input_tokens = TokensInAll

LEMMA NameIsTheCallers ==
  ASSUME bundle \in Resolve(settings, request.model)
  PROVE  \/ request.model = bundle.public_id
         \/ \E a \in ToSet(settings.aliases) :
              a.alias = request.model /\ a.target = bundle.public_id
<1>1. CASE bundle \in Named(settings, request.model)
  BY <1>1 DEF Named
<1>2. CASE \E a \in ToSet(Aliases(settings)) : a.alias = request.model /\ bundle \in Named(settings, a.target)
  <2>1. PICK a \in ToSet(Aliases(settings)) : a.alias = request.model /\ bundle \in Named(settings, a.target)
    BY <1>2
  <2>2. a \in ToSet(settings.aliases)
    BY DEF Aliases, ToSet
  <2>. QED  BY <2>1, <2>2 DEF Named
<1>. QED  BY <1>1, <1>2 DEF Resolve

\* What is divided by is one of the temperatures the table of exponentials has.
LEMMA TemperatureIsTabled ==
  ASSUME Course, stage \in Working, NEW type \in {"noul", "choice", "score"}
  PROVE  bundle.temperature[type] \in DOMAIN Exp /\ bundle.temperature[type] > 0
<1>1. /\ bundle \in ToSet(Registered(settings)) /\ settings \in SettingsChoices
      /\ Startable(settings) /\ bundle \in ToSet(settings.bundles) \cup {FakeManifest}
  BY BudgetIsTheBundles
<1>2. FitsTheServer(bundle, settings)
  BY <1>1 DEF Startable
<1>3. type \in DOMAIN bundle.temperature /\ bundle.temperature[type] > 0
  BY <1>2 DEF FitsTheServer
<1>4. bundle.temperature[type] \in {bundle.temperature[other] : other \in DOMAIN bundle.temperature}
  BY <1>3
<1>. QED  BY <1>1, <1>3, <1>4, SettingsAssumption

\* The values of a question are what the model says of its options, in the order it was
\* asked in, or the last value of all is not finite.
LEMMA ValuesAreSaid ==
  ASSUME SInv, Course, stage = "split", ~More, NEW q \in 1..N, NEW asked,
         asked = request.questions[q]
  PROVE  /\ IsSequence(grouped[q]) /\ Len(grouped[q]) = Cardinality(Keys(asked))
         /\ backend # "not finite" =>
              \A k \in 1..Cardinality(Keys(asked)) : grouped[q][k] = Says(asked)[OptionKeys(asked)[k]]
         /\ backend = "not finite" /\ q = N =>
              Len(grouped[q]) < 2 \/ NotFinite \in ToSet(grouped[q])
<1>1. /\ Shape /\ Laid(N) /\ AllEncoded /\ ValuesOfAll
      /\ Askable(request) /\ compiled = AsCompiled
  BY DEF SInv, AtSplit, Course, Working
<1>. DEFINE n == Cardinality(Keys(asked))  h == OptionKeys(asked)  values == grouped[q]
<1>2. /\ P(q) = n /\ n \in Nat /\ h \in Bijection(1..n, Keys(asked))
      /\ \A k \in 1..n : compiled[q].pairs[k] = PairFor(asked, h[k])
  BY <1>1, CompiledFacts
<1>3. /\ values = [k \in 1..n |-> logits[marks[q] + k]]
      /\ \A k \in 1..n : /\ marks[q] + k \in 1..Len(flat)
                         /\ encoded[marks[q] + k] = Encode(compiled[q].pairs[k])
  BY <1>2, GroupsAreParts
<1>. HIDE DEF n, h, values
<1>4. /\ DOMAIN values = 1..n /\ values = [k \in 1..n |-> values[k]]
      /\ \A k \in 1..n : values[k] = logits[marks[q] + k]
  BY <1>3
<1>5. IsSequence(values) /\ Len(values) = n
  BY <1>2, <1>4, MappedIsSequence
<1>6. ASSUME backend # "not finite", NEW k \in 1..n
      PROVE  values[k] = Says(asked)[h[k]]
  <2>1. h[k] \in Keys(asked)
    BY <1>2 DEF Bijection, Injection
  <2>2. Says(asked)[h[k]]
          = IF backend = "ties" THEN 0 ELSE Logit(Encode(PairFor(asked, h[k])))
    BY <2>1 DEF Says
  <2>3. encoded[marks[q] + k] = Encode(PairFor(asked, h[k])) /\ marks[q] + k \in 1..Len(flat)
    BY <1>2, <1>3
  <2>4. CASE backend = "ties"
    BY <1>1, <1>4, <2>2, <2>3, <2>4 DEF ValuesOfAll
  <2>5. CASE backend = "sound"
    BY <1>1, <1>4, <2>2, <2>3, <2>5 DEF ValuesOfAll
  <2>. QED  BY <1>1, <1>6, <2>4, <2>5 DEF ValuesOfAll
<1>7. ASSUME backend = "not finite", q = N, ~(n < 2)
      PROVE  NotFinite \in ToSet(values)
  <2>0. n \in 1..n
    <3>1. n \in Nat /\ ~(n < 2)
      BY <1>2, <1>7
    <3>. QED  BY ONLY <3>1
  <2>1. n \in 1..n /\ marks[q] + n \in 1..Len(flat)
    BY <1>3, <2>0
  <2>2. N # 0 /\ Len(flat) = End(N)
    <3>1. N \in Nat
      BY <1>1, ShapeFacts
    <3>2. N # 0
      BY <3>1
    <3>. QED  BY <1>1, <3>2 DEF Laid
  <2>3. Len(flat) = marks[q] + n
    BY <1>2, <1>7, <2>2 DEF End
  <2>4. values[n] = NotFinite
    BY <1>1, <1>4, <1>7, <2>1, <2>3 DEF ValuesOfAll
  <2>. QED  BY <1>4, <2>1, <2>4 DEF ToSet
<1>. QED  BY <1>2, <1>5, <1>6, <1>7 DEF n, h, values

\* build_response() puts under each ID what the values of that question call for.
LEMMA PayloadFollows ==
  ASSUME SInv, Course, Ledger, stage = "split", ~More,
         NEW body, body = Payload(bundle.public_id, bundle.temperature),
         ValueError \notin ToSet(ValuesOf(body.answers))
  PROVE  BodyFollows(body)
<1>1. /\ Askable(request) /\ Graded(request) /\ compiled = AsCompiled
      /\ bundle \in Resolve(settings, request.model)
  BY DEF Course, Working, Orderly
<1>2. /\ N \in Nat /\ DOMAIN request.questions = 1..N /\ DOMAIN compiled = 1..N
      /\ Len(request.questions) > 0 /\ N > 0
  <2>1. /\ N \in Nat /\ DOMAIN request.questions = 1..N /\ DOMAIN compiled = 1..N
    BY <1>1, CompiledFacts, GroupsAreParts
  <2>2. Len(request.questions) > 0 /\ DOMAIN request.questions = 1..Len(request.questions)
        /\ Len(request.questions) \in Nat
    BY <1>1, DomainOfSequence DEF Askable
  <2>. QED  BY <2>1, <2>2
<1>3. /\ body.model = bundle.public_id
      /\ body.answers = [q \in 1..N |->
                          [key |-> compiled[q].id,
                           value |-> BuildAnswer(compiled[q], grouped[q],
                                                 bundle.temperature[compiled[q].type])]]
      /\ body.usage.input_tokens = total
  BY <1>2 DEF Payload
<1>. DEFINE premise == Render(request.state)
<1>4. ASSUME NEW q \in 1..N
      PROVE  /\ compiled[q] = Expand(request.questions[q], premise)
             /\ compiled[q].id = request.questions[q].id
             /\ compiled[q].type = request.questions[q].type
             /\ AskableQuestion(request.questions[q]) /\ GradedQuestion(request.questions[q])
  <2>1. compiled[q] = Expand(request.questions[q], premise)
    BY <1>1, <1>2 DEF AsCompiled
  <2>. HIDE DEF premise
  <2>2. AskableQuestion(request.questions[q]) /\ GradedQuestion(request.questions[q])
    BY <1>1, <1>2 DEF Askable, Graded
  <2>. QED  BY <2>1, <2>2 DEF Expand
<1>. HIDE DEF premise
<1>5. ASSUME NEW q \in 1..N
      PROVE  LET asked == request.questions[q]
                 t == bundle.temperature[asked.type]
             IN /\ body.answers[q].key = asked.id
                /\ body.answers[q].value = BuildAnswer(Expand(asked, premise), grouped[q], t)
                /\ body.answers[q].value # ValueError
  <2>1. /\ body.answers[q].key = compiled[q].id
        /\ body.answers[q].value
             = BuildAnswer(compiled[q], grouped[q], bundle.temperature[compiled[q].type])
    BY <1>3
  <2>2. DOMAIN body.answers = 1..N
    BY <1>3
  <2>3. body.answers[q].value \in ToSet(ValuesOf(body.answers))
    BY <2>2 DEF ToSet, ValuesOf
  <2>. QED  BY <1>4, <2>1, <2>3
<1>6. KeysOf(body.answers) = [q \in DOMAIN request.questions |-> request.questions[q].id]
  <2>1. DOMAIN body.answers = 1..N
    BY <1>3
  <2>. QED  BY <1>2, <1>5, <2>1 DEF KeysOf
<1>7. backend # "not finite"
  <2>1. SUFFICES ASSUME backend = "not finite" PROVE FALSE
    OBVIOUS
  <2>. DEFINE values == grouped[N]  t == bundle.temperature[request.questions[N].type]
              c == Expand(request.questions[N], premise)
  <2>2. N \in 1..N
    BY <1>2
  <2>3. Len(values) < 2 \/ NotFinite \in ToSet(values)
    BY <2>1, <2>2, ValuesAreSaid
  <2>. HIDE DEF values, t, c
  <2>4. Probabilities(values, t) = ValueError
    BY <2>3 DEF Probabilities
  <2>5. BuildAnswer(c, values, t) = ValueError
    BY <2>4 DEF BuildAnswer
  <2>. QED  BY <1>5, <2>2, <2>5 DEF values, t, c
<1>8. ASSUME NEW q \in 1..N
      PROVE  AnswerFollows(body.answers[q].value, request.questions[q],
                           Shares(Says(request.questions[q]),
                                  bundle.temperature[request.questions[q].type]))
  <2>. DEFINE asked == request.questions[q]  t == bundle.temperature[asked.type]
              says == Says(asked)  answer == body.answers[q].value  values == grouped[q]
  <2>1. /\ IsSequence(values) /\ Len(values) = Cardinality(Keys(asked))
        /\ \A k \in 1..Cardinality(Keys(asked)) : values[k] = says[OptionKeys(asked)[k]]
    BY <1>7, ValuesAreSaid
  <2>2. AskableQuestion(asked) /\ GradedQuestion(asked)
    BY <1>4
  <2>3. t \in DOMAIN Exp
    <3>1. asked.type \in {"noul", "choice", "score"}
      BY <2>2 DEF AskableQuestion
    <3>. QED  BY <3>1, TemperatureIsTabled DEF Working
  <2>4. DOMAIN says = Keys(asked)
    BY DEF Says
  <2>5. answer = BuildAnswer(Expand(asked, premise), values, t) /\ answer # ValueError
    BY <1>5
  <2>. HIDE DEF asked, t, says, answer, values
  <2>6. AnswerFollows(answer, asked, Shares(says, t))
    BY ONLY <2>1, <2>2, <2>3, <2>4, <2>5, AnswerFollowsValues
  <2>. QED  BY <2>6 DEF asked, t, says, answer
<1>9. body.usage.input_tokens = TokensInAll
  BY <1>3, SplitIsWithinBudget
<1>. QED  BY <1>1, <1>2, <1>3, <1>6, <1>8, <1>9, NameIsTheCallers DEF BodyFollows

\* The same body follows as long as what was asked, of whom and for whom, stays.
LEMMA FollowsStays ==
  ASSUME UNCHANGED <<request, settings, bundle, backend>>, NEW body, BodyFollows(body)
  PROVE  BodyFollows(body)'
<1>1. TokensInAll' = TokensInAll
  BY RequestStays
<1>2. \A q, key : PairFor(q, key)' = PairFor(q, key)
  BY DEF PairFor
<1>3. \A q : Says(q)' = Says(q)
  BY <1>2 DEF Says
<1>. QED  BY <1>1, <1>3 DEF BodyFollows

LEMMA FollowingIsTheProperty ==
  AnswersFollowOptions <=> (response # None => BodyFollows(response))
BY DEF AnswersFollowOptions, BodyFollows

LEMMA RespondAnswers ==
  ASSUME SInv, Course, Ledger, AnswersFollowOptions, Respond
  PROVE  AnswersFollowOptions'
<1>. DEFINE body == Payload(bundle.public_id, bundle.temperature)
<1>1. /\ stage = "split" /\ ~More /\ UNCHANGED <<request, settings, bundle, backend>>
      /\ \/ response' = body /\ ValueError \notin ToSet(ValuesOf(body.answers))
         \/ UNCHANGED response
  <2>. HIDE DEF body
  <2>. QED  BY DEF Respond, body
<1>. HIDE DEF body
<1>2. CASE response' = body /\ ValueError \notin ToSet(ValuesOf(body.answers))
  <2>1. BodyFollows(body)
    BY <1>1, <1>2, PayloadFollows DEF body
  <2>2. BodyFollows(response)'
    BY <1>1, <1>2, <2>1, FollowsStays
  <2>. QED  BY <2>2 DEF AnswersFollowOptions, BodyFollows
<1>3. CASE UNCHANGED response
  <2>1. response = None
    BY <1>1 DEF Ledger, Carried
  <2>. QED  BY <1>3, <2>1 DEF AnswersFollowOptions
<1>. QED  BY <1>1, <1>2, <1>3

\* A body is there at the end only, where nothing goes on.
LEMMA AnswersKeep ==
  ASSUME SInv, Course, Ledger, AnswersFollowOptions, [PathNext]_pathvars
  PROVE  AnswersFollowOptions'
<1>1. CASE Respond
  BY <1>1, RespondAnswers
<1>2. CASE UNCHANGED pathvars
  <2>1. UNCHANGED <<request, settings, bundle, backend, response>>
    BY <1>2 DEF pathvars, outside, serializer
  <2>2. CASE response = None
    BY <2>1, <2>2 DEF AnswersFollowOptions
  <2>3. CASE BodyFollows(response)
    <3>1. BodyFollows(response)'
      BY <2>1, <2>3, FollowsStays
    <3>. QED  BY <3>1 DEF AnswersFollowOptions, BodyFollows
  <2>. QED  BY <2>2, <2>3, FollowingIsTheProperty
<1>3. CASE StartServer \/ Receive \/ ReadChunk \/ Handle \/ Job
  <2>1. UNCHANGED response /\ stage # "answered"
    <3>1. CASE StartServer \/ Receive \/ ReadChunk \/ Handle
      BY <3>1 DEF Course, StartServer, Receive, ReadChunk, Handle
    <3>2. CASE Job
      BY <3>2 DEF Job, outside, Compile, Flatten, Tokenizing, Take, EndOfEncoding, Gather, Score, Split
    <3>. QED  BY <1>3, <3>1, <3>2
  <2>2. response = None
    BY <2>1 DEF Ledger, Carried
  <2>. QED  BY <2>1, <2>2 DEF AnswersFollowOptions
<1>. QED  BY <1>1, <1>2, <1>3 DEF PathNext

(* A 200 answers what was asked: under each ID, for each option, the probability the model
   gives to that option's text, in the caller's order, and the first of the most probable
   ones chosen. *)
THEOREM PathAnswersFollow == PathSpec => []AnswersFollowOptions
<1>1. PathInit => AnswersFollowOptions
  BY DEF PathInit, AnswersFollowOptions
<1>2. SInv /\ Course /\ Ledger /\ AnswersFollowOptions /\ [PathNext]_pathvars => AnswersFollowOptions'
  BY AnswersKeep
<1>. QED  BY <1>1, <1>2, PathLedger, PTL DEF PathSpec

-----------------------------------------------------------------------------
(* What a caller's text can write                                            *)

\* Every pair of the list can be encoded: no ValueError comes from the tokens.
LEMMA ListIsEncoded ==
  ASSUME InText, NEW i \in 1..Len(flat)
  PROVE  LET pair == flat[i]
             S == Alphabet(Items(pair.premise) \cup Items(pair.hypothesis))
         IN /\ Closed(S) /\ pair.premise \in Seq(S) /\ pair.hypothesis \in Seq(S)
            /\ Encode(pair) # NotEncoded
<1>. DEFINE pair == flat[i]
            T == Items(pair.premise) \cup Items(pair.hypothesis)  S == Alphabet(T)
<1>1. Free(pair.premise, DOMAIN Spelling) /\ Free(pair.hypothesis, DOMAIN Spelling)
  BY DEF InText
<1>2. IsSequence(pair.premise) /\ IsSequence(pair.hypothesis) /\ T \cap DOMAIN Spelling = {}
  BY <1>1 DEF Free
<1>3. Closed(S) /\ T \subseteq S /\ S \cap DOMAIN Spelling = {}
  BY <1>2, AlphabetIsClosed
<1>. HIDE DEF S
<1>4. Items(pair.premise) \subseteq S /\ Items(pair.hypothesis) \subseteq S
  BY <1>3
<1>. HIDE DEF T
<1>5. pair.premise \in Seq(S) /\ pair.hypothesis \in Seq(S)
  BY <1>2, <1>4, SequenceOfElements
<1>. HIDE DEF pair
<1>6. Encode(pair) # NotEncoded
  BY <1>3, <1>5, EveryPairIsEncoded DEF PlainPair
<1>. QED  BY <1>3, <1>5, <1>6 DEF S, T, pair

LEMMA ControlIsOut ==
  ASSUME SInv, Ledger
  PROVE  ControlStaysOut
<1>. SUFFICES ASSUME stage = "take", NEW i \in DOMAIN encoded
              PROVE  \E n \in 0..(Len(encoded[i]) - 4) :
                       LET premise == SubSeq(encoded[i], 2, n + 1)
                           hypothesis == SubSeq(encoded[i], n + 4, Len(encoded[i]) - 1)
                       IN /\ encoded[i] = Assemble(premise, hypothesis)
                          /\ Reads(premise, flat[i].premise)
                          /\ Reads(hypothesis, flat[i].hypothesis)
  BY DEF ControlStaysOut
<1>1. AllEncoded /\ InText
  BY DEF SInv, AtTake, Ledger, Counted, Working
<1>2. IsSequence(encoded)
  BY <1>1 DEF AllEncoded
<1>3. i \in 1..Len(flat) /\ encoded[i] = Encode(flat[i])
  BY <1>1, <1>2, DomainOfSequence DEF AllEncoded
<1>. DEFINE pair == flat[i]
            S == Alphabet(Items(pair.premise) \cup Items(pair.hypothesis))
<1>4. /\ Closed(S) /\ pair.premise \in Seq(S) /\ pair.hypothesis \in Seq(S)
      /\ Encode(pair) # NotEncoded
  BY <1>1, <1>3, ListIsEncoded
<1>. HIDE DEF pair, S
<1>5. \E n \in 0..(Len(Encode(pair)) - 4) :
        LET ids == Encode(pair)
            premise == SubSeq(ids, 2, n + 1)
            hypothesis == SubSeq(ids, n + 4, Len(ids) - 1)
        IN /\ ids = Assemble(premise, hypothesis)
           /\ Reads(premise, pair.premise) /\ Reads(hypothesis, pair.hypothesis)
  BY <1>4, EncodedReads
<1>. QED  BY <1>3, <1>5 DEF pair

(* A caller's text cannot write control tokens, whatever it is made of and whatever the
   tokenizer's normalizer makes of it: what the model is given is the four control tokens of
   the assembly around the pieces of the two texts. *)
THEOREM PathControlStaysOut == PathSpec => []ControlStaysOut
BY PathLedger, ControlIsOut, PTL
-----------------------------------------------------------------------------
(* What verify_invariants() finds                                            *)

\* What a softmax gives: parts of one whole, which they add up to.
PartsOf(p) == [k \in DOMAIN p |-> p[k].part]
IsDistribution(p, n) ==
  /\ n \in Nat /\ n >= 2 /\ DOMAIN p = 1..n /\ p = [k \in 1..n |-> p[k]]
  /\ \A k \in 1..n : p[k].part \in Nat /\ p[k].whole = SumFunctionOnSet(PartsOf(p), 1..n)

LEMMA SoftmaxIsDistribution ==
  ASSUME NEW values, IsSequence(values), Len(values) >= 2, NotFinite \notin ToSet(values),
         NEW t \in DOMAIN Exp, t > 0, NEW p, p = Probabilities(values, t)
  PROVE  p # ValueError /\ IsDistribution(p, Len(values))
<1>. DEFINE n == Len(values)
            f == [k \in 1..n |-> Centered(values, t, k)]
<1>1. n \in Nat /\ DOMAIN values = 1..n /\ n >= 2
  BY DomainOfSequence
<1>2. t \in Nat /\ ~(t <= 0)
  BY ExpAssumption
<1>3. p = [k \in 1..n |-> [part |-> f[k], whole |-> SumFunction(f)]]
  <2>1. p = [k \in DOMAIN values |->
              [part |-> Centered(values, t, k),
               whole |-> SumFunction([i \in DOMAIN values |-> Centered(values, t, i)])]]
    BY <1>1, <1>2 DEF Probabilities
  <2>2. [i \in DOMAIN values |-> Centered(values, t, i)] = f
    BY <1>1
  <2>. QED  BY <1>1, <2>1, <2>2
<1>4. \A k \in 1..n : f[k] \in Nat
  <2>1. \A k \in 1..n : f[k] = Weight(t, Max(ToSet(values)) - values[k])
    BY DEF Centered
  <2>. HIDE DEF f
  <2>. QED  BY <2>1, WeightIsNumber
<1>5. SumFunction(f) = SumFunctionOnSet(f, 1..n) /\ f = [k \in 1..n |-> f[k]]
  BY DEF SumFunction
<1>. HIDE DEF f, n
<1>6. /\ DOMAIN p = 1..n /\ p = [k \in 1..n |-> p[k]]
      /\ \A k \in 1..n : p[k] = [part |-> f[k], whole |-> SumFunction(f)]
  BY <1>3
<1>7. PartsOf(p) = f
  <2>1. ASSUME NEW k \in 1..n PROVE p[k].part = f[k]
    <3>1. p[k] = [part |-> f[k], whole |-> SumFunction(f)]
      BY <1>6
    <3>. QED  BY ONLY <3>1
  <2>2. PartsOf(p) = [k \in 1..n |-> p[k].part]
    BY <1>6 DEF PartsOf
  <2>3. [k \in 1..n |-> p[k].part] = [k \in 1..n |-> f[k]]
    BY <2>1
  <2>. QED  BY <1>5, <2>2, <2>3
<1>8. p # ValueError
  <2>1. DOMAIN p # {}
    BY <1>1, <1>6
  <2>2. DOMAIN ValueError = {}
    BY DEF ValueError
  <2>. QED  BY <2>1, <2>2
<1>9. \A k \in 1..n : p[k].part \in Nat /\ p[k].whole = SumFunctionOnSet(PartsOf(p), 1..n)
  <2>1. ASSUME NEW k \in 1..n PROVE p[k].part = f[k] /\ p[k].whole = SumFunction(f)
    <3>1. p[k] = [part |-> f[k], whole |-> SumFunction(f)]
      BY <1>6
    <3>. QED  BY ONLY <3>1
  <2>. QED  BY <1>4, <1>5, <1>7, <2>1
<1>10. IsDistribution(p, n)
  BY <1>1, <1>6, <1>9 DEF IsDistribution
<1>. QED  BY <1>8, <1>10 DEF n

LEMMA PartsAreWithin ==
  ASSUME NEW p, NEW n, IsDistribution(p, n)
  PROVE  /\ SumFunctionOnSet(PartsOf(p), 1..n) \in Nat
         /\ \A k \in 1..n : PartsOf(p)[k] = p[k].part /\ IsProbability(p[k])
<1>. DEFINE f == PartsOf(p)  S == 1..n
<1>1. \A k \in S : f[k] = p[k].part /\ f[k] \in Nat
  BY DEF IsDistribution, PartsOf
<1>2. n \in Nat /\ IsFiniteSet(S)
  BY FS_Interval DEF IsDistribution
<1>3. \A k \in S : p[k].whole = SumFunctionOnSet(f, S)
  BY DEF IsDistribution
<1>. HIDE DEF f, S
<1>4. ASSUME NEW k \in S
      PROVE  /\ SumFunctionOnSet(f, S) \in Nat /\ SumFunctionOnSet(f, S \ {k}) \in Nat
             /\ SumFunctionOnSet(f, S) = f[k] + SumFunctionOnSet(f, S \ {k})
  <2>1. \A y \in S : f[y] \in Nat
    BY <1>1
  <2>. QED  BY <1>2, <2>1, SumWithoutOne
<1>5. ASSUME NEW k \in S PROVE IsProbability(p[k])
  <2>0. f[k] \in Nat
    BY <1>1
  <2>. DEFINE a == SumFunctionOnSet(f, S)  b == SumFunctionOnSet(f, S \ {k})
  <2>2. a \in Nat /\ b \in Nat /\ a = f[k] + b
    BY <1>4
  <2>. HIDE DEF a, b
  <2>3. f[k] <= a
    BY ONLY <2>0, <2>2
  <2>1. f[k] <= SumFunctionOnSet(f, S) /\ f[k] \in Nat
    BY <2>0, <2>3 DEF a
  <2>. QED  BY <1>1, <1>3, <1>4, <2>1 DEF IsProbability
<1>6. SumFunctionOnSet(f, S) \in Nat
  BY <1>1, <1>2, SumWithout
<1>. QED  BY <1>1, <1>5, <1>6 DEF f, S

\* h puts the members of one list in the places of another.
Rearranges(h, n) ==
  /\ \A k \in 1..n : h[k] \in 1..n
  /\ \A i, j \in 1..n : h[i] = h[j] => i = j
  /\ \A k \in 1..n : \E i \in 1..n : h[i] = k
Rearranged(w, p, h, n) == DOMAIN w = 1..n /\ \A k \in 1..n : w[k] = p[h[k]]

\* What verify_invariants() asks of the probabilities w of an answer.
WellDistributed(w, p, n) ==
  /\ DOMAIN w = 1..n /\ \A k \in 1..n : IsProbability(w[k])
  /\ SumFunction(PartsOf(w)) = w[1].whole
  /\ Confidence(w) = Confidence(p)

\* Neither the sum nor the confidence depends on the order of the probabilities.
LEMMA OrderDoesNotCount ==
  ASSUME NEW p, NEW n, IsDistribution(p, n), NEW h, Rearranges(h, n),
         NEW w, Rearranged(w, p, h, n)
  PROVE  WellDistributed(w, p, n)
<1>. DEFINE S == 1..n  f == PartsOf(w)  g == PartsOf(p)
<1>1. /\ n \in Nat /\ 1 \in S /\ IsFiniteSet(S) /\ DOMAIN p = S
      /\ \A k \in S : p[k].whole = SumFunctionOnSet(g, S)
  <2>1. n \in Nat /\ n >= 2 /\ DOMAIN p = S
    BY DEF IsDistribution
  <2>2. \A k \in S : p[k].whole = SumFunctionOnSet(g, S)
    BY DEF IsDistribution
  <2>. HIDE DEF g
  <2>. QED  BY <2>1, <2>2, FS_Interval
<1>2. \A k \in S : g[k] = p[k].part /\ g[k] \in Nat
  BY DEF IsDistribution, PartsOf
<1>3. /\ \A k \in S : h[k] \in S
      /\ \A i, j \in S : h[i] = h[j] => i = j
      /\ \A k \in S : \E i \in S : h[i] = k
  BY DEF Rearranges
<1>4. \A k \in S : w[k] = p[h[k]]
  BY DEF Rearranged
<1>6. DOMAIN w = S
  BY DEF Rearranged
<1>5. DOMAIN f = S /\ \A k \in S : f[k] = w[k].part
  BY <1>6 DEF PartsOf
<1>7. \A k \in S : IsProbability(p[k])
  BY PartsAreWithin
<1>. HIDE DEF S, f, g
<1>8. ASSUME NEW k \in S PROVE f[k] \in Nat /\ g[h[k]] = f[k]
  <2>1. h[k] \in S /\ w[k] = p[h[k]]
    BY <1>3, <1>4
  <2>2. g[h[k]] = p[h[k]].part /\ g[h[k]] \in Nat
    BY <1>2, <2>1
  <2>3. f[k] = w[k].part
    BY <1>5
  <2>. QED  BY <2>1, <2>2, <2>3
<1>9. {h[k] : k \in S} = S
  BY <1>3
<1>10. SumFunctionOnSet(g, {h[k] : k \in S}) = SumFunctionOnSet(f, S)
  <2>1. IsFiniteSet(S)
    BY <1>1
  <2>2. \A k \in S : f[k] \in Nat
    BY <1>8
  <2>3. \A i, j \in S : h[i] = h[j] => i = j
    BY <1>3
  <2>4. \A k \in S : g[h[k]] = f[k]
    BY <1>8
  <2>. QED  BY ONLY <2>1, <2>2, <2>3, <2>4, SumRenamed
<1>11. SumFunction(f) = w[1].whole
  <2>1. SumFunction(f) = SumFunctionOnSet(f, S)
    BY <1>5 DEF SumFunction
  <2>2. h[1] \in S /\ w[1] = p[h[1]]
    BY <1>1, <1>3, <1>4
  <2>3. p[h[1]].whole = SumFunctionOnSet(g, S)
    BY <1>1, <2>2
  <2>. QED  BY <1>9, <1>10, <2>1, <2>2, <2>3
<1>12. Confidence(w) = Confidence(p)
  <2>1. ToSet(w) = ToSet(p)
    <3>1. ToSet(w) = {w[k] : k \in S} /\ ToSet(p) = {p[k] : k \in S}
      BY <1>1, <1>6 DEF ToSet
    <3>. QED  BY <1>3, <1>4, <3>1
  <2>2. ASSUME NEW x
        PROVE  Cardinality({i \in DOMAIN w : w[i] = x}) = Cardinality({i \in DOMAIN p : p[i] = x})
    <3>. DEFINE A == {i \in S : w[i] = x}  B == {i \in S : p[i] = x}
                b == [i \in A |-> h[i]]
    <3>1. b \in [A -> B]
      BY <1>3, <1>4
    <3>2. \A i, j \in A : b[i] = b[j] => i = j
      BY <1>3
    <3>3. \A k \in B : \E i \in A : b[i] = k
      BY <1>3, <1>4
    <3>4. IsFiniteSet(A)
      BY <1>1, FS_Subset
    <3>5. A = {i \in DOMAIN w : w[i] = x} /\ B = {i \in DOMAIN p : p[i] = x}
      BY <1>1, <1>6
    <3>. HIDE DEF A, B, b
    <3>6. b \in Bijection(A, B)
      BY <3>1, <3>2, <3>3 DEF Bijection, Injection, Surjection, IsInjective
    <3>7. Cardinality(A) = Cardinality(B)
      BY <3>4, <3>6, FS_Bijection DEF ExistsBijection
    <3>. QED  BY <3>5, <3>7
  <2>. QED  BY <2>1, <2>2 DEF Confidence
<1>13. \A k \in S : IsProbability(w[k])
  BY <1>3, <1>4, <1>7
<1>. QED  BY <1>6, <1>11, <1>12, <1>13 DEF f, S, WellDistributed

\* The choice depends on which value each key has, not on the order of the keys.
LEMMA SameValuesSameChoice ==
  ASSUME NEW a, NEW b, NEW keys, ToSet(KeysOf(a)) = keys, ToSet(KeysOf(b)) = keys,
         Cardinality(keys) \in Nat,
         \A k \in DOMAIN SortedKeys(keys) :
           Value(a, SortedKeys(keys)[k]) = Value(b, SortedKeys(keys)[k])
  PROVE  SelectChoice(a) = SelectChoice(b)
<1>. DEFINE sorted == SortedKeys(keys)
            BestOf(object, i) ==
              \A j \in DOMAIN sorted : Value(object, sorted[j]).part <= Value(object, sorted[i]).part
            FirstOf(object, i) == BestOf(object, i) /\ \A j \in 1..(i - 1) : ~BestOf(object, j)
<1>1. /\ SelectChoice(a) = sorted[CHOOSE i \in DOMAIN sorted : FirstOf(a, i)]
      /\ SelectChoice(b) = sorted[CHOOSE i \in DOMAIN sorted : FirstOf(b, i)]
  BY DEF SelectChoice
<1>2. \A k \in DOMAIN sorted : Value(a, sorted[k]) = Value(b, sorted[k])
  OBVIOUS
<1>3. DOMAIN sorted = 1..Cardinality(keys)
  BY DEF SortedKeys
<1>. HIDE DEF sorted
<1>4. \A i \in DOMAIN sorted : BestOf(a, i) <=> BestOf(b, i)
  BY <1>2
<1>5. ASSUME NEW i \in DOMAIN sorted PROVE FirstOf(a, i) <=> FirstOf(b, i)
  <2>1. \A j \in 1..(i - 1) : j \in DOMAIN sorted
    BY <1>3
  <2>. HIDE DEF BestOf
  <2>. QED  BY <1>4, <2>1
<1>. HIDE DEF FirstOf
<1>. QED  BY <1>1, <1>5

\* The fields of an answer that BuildAnswer() gives.
LEMMA AnswerFieldsOf ==
  ASSUME NEW q, q.type \in {"noul", "choice", "score"}, NEW premise, NEW values, NEW t,
         NEW c, c = Expand(q, premise), NEW p, p = Probabilities(values, t), p # ValueError,
         NEW answer, answer = BuildAnswer(c, values, t)
  PROVE  /\ answer # ValueError
         /\ answer.type = c.type /\ DOMAIN answer = AnswerFields(c.type) /\ c.type = q.type
         /\ q.type # "noul" => answer.confidence = Confidence(p) /\ c.output_keys = AsWritten(q)
         /\ q.type = "score" =>
              /\ c.legend = Entries(q) /\ ValuesOf(answer.legend) = c.legend
              /\ KeysOf(answer.legend) = [k \in DOMAIN q.criteria |-> Digits(k - 1)]
<1>1. /\ c.type = q.type
      /\ q.type # "noul" => c.output_keys = AsWritten(q)
      /\ q.type = "score" => c.legend = Entries(q)
  BY DEF Expand, Entries
<1>. DEFINE by_key == [k \in DOMAIN p |-> [key |-> c.option_keys[k], value |-> p[k]]]
            by_level == [k \in DOMAIN p |-> [key |-> Digits(k - 1), value |-> p[k]]]
            legend == [k \in DOMAIN c.legend |-> [key |-> Digits(k - 1), value |-> c.legend[k]]]
<1>2. answer = CASE p = ValueError -> ValueError
                 [] p # ValueError /\ c.type = "noul" -> [type |-> "noul", noul |-> p[2]]
                 [] p # ValueError /\ c.type = "choice" ->
                      [type |-> "choice", choice |-> SelectChoice(by_key),
                       probabilities |-> WireOrder(c, by_key), confidence |-> Confidence(p)]
                 [] p # ValueError /\ c.type = "score" ->
                      [type |-> "score", score |-> ExpectedScore(p), legend |-> legend,
                       probabilities |-> by_level, confidence |-> Confidence(p)]
  BY DEF BuildAnswer
<1>. HIDE DEF by_key, by_level, legend
<1>3. q.type = "noul" => answer = [type |-> "noul", noul |-> p[2]]
  BY <1>1, <1>2
<1>4. q.type = "choice" =>
        answer = [type |-> "choice", choice |-> SelectChoice(by_key),
                  probabilities |-> WireOrder(c, by_key), confidence |-> Confidence(p)]
  BY <1>1, <1>2
<1>5. q.type = "score" =>
        answer = [type |-> "score", score |-> ExpectedScore(p), legend |-> legend,
                  probabilities |-> by_level, confidence |-> Confidence(p)]
  BY <1>1, <1>2
<1>6. answer.type = c.type /\ DOMAIN answer = AnswerFields(c.type)
  <2>1. CASE q.type = "noul"
    BY <1>1, <1>3, <2>1 DEF AnswerFields
  <2>2. CASE q.type = "choice"
    BY <1>1, <1>4, <2>2 DEF AnswerFields
  <2>3. CASE q.type = "score"
    BY <1>1, <1>5, <2>3 DEF AnswerFields
  <2>. QED  BY <2>1, <2>2, <2>3
<1>7. answer # ValueError
  <2>1. "type" \in DOMAIN answer
    BY <1>1, <1>6 DEF AnswerFields
  <2>2. DOMAIN ValueError = {}
    BY DEF ValueError
  <2>. QED  BY <2>1, <2>2
<1>8. q.type # "noul" => answer.confidence = Confidence(p)
  BY <1>4, <1>5
<1>9. q.type = "score" => answer.legend = legend
  BY <1>5
<1>10. ValuesOf(legend) = [k \in DOMAIN c.legend |-> c.legend[k]]
       /\ KeysOf(legend) = [k \in DOMAIN c.legend |-> Digits(k - 1)]
  BY DEF ValuesOf, KeysOf, legend
<1>11. q.type = "score" => /\ c.legend = [k \in DOMAIN c.legend |-> c.legend[k]]
                           /\ DOMAIN c.legend = DOMAIN q.criteria
  BY <1>1 DEF Entries
<1>. QED  BY <1>1, <1>6, <1>7, <1>8, <1>9, <1>10, <1>11

\* No option of a question comes twice.
LEMMA OptionsAreCounted ==
  ASSUME NEW q, AskableQuestion(q), IsInjective(AsWritten(q))
  PROVE  Cardinality(Keys(q)) = Len(q.criteria)
<1>. DEFINE n == Len(q.criteria)  f == AsWritten(q)
<1>1. n \in Nat /\ f = [i \in 1..n |-> q.criteria[i].key] /\ Keys(q) = {q.criteria[i].key : i \in 1..n}
  BY CriteriaFacts
<1>2. \A i, j \in 1..n : f[i] = f[j] => i = j
  BY <1>1 DEF IsInjective
<1>3. f \in [1..n -> Keys(q)] /\ \A key \in Keys(q) : \E i \in 1..n : f[i] = key
  BY <1>1
<1>. HIDE DEF n, f
<1>4. f \in Bijection(1..n, Keys(q))
  BY <1>2, <1>3 DEF Bijection, Injection, Surjection, IsInjective
<1>5. ExistsBijection(1..n, Keys(q))
  BY <1>4 DEF ExistsBijection
<1>6. Cardinality(Keys(q)) = n
  BY <1>1, <1>5, FS_CountingElements
<1>. QED  BY <1>6 DEF n

\* A score is an average of its levels.
LEMMA ScoreIsAnAverage ==
  ASSUME NEW p, NEW n, IsDistribution(p, n), n <= 10
  PROVE  /\ ExpectedScore(p).whole = p[1].whole
         /\ ExpectedScore(p).part \in 0..((n - 1) * p[1].whole)
<1>. DEFINE S == 1..n  g == PartsOf(p)  f == [k \in S |-> (k - 1) * p[k].part]
<1>1. n \in Nat /\ n >= 2 /\ DOMAIN p = S /\ p = [k \in S |-> p[k]] /\ IsFiniteSet(S) /\ n - 1 \in Nat
  BY FS_Interval DEF IsDistribution
<1>2. Len(p) = n
  BY <1>1, MappedIsSequence
<1>3. ExpectedScore(p) = [part |-> SumFunction(f), whole |-> p[1].whole]
  <2>1. ~(Len(p) > 10)
    BY <1>1, <1>2
  <2>2. [i \in DOMAIN p |-> (i - 1) * p[i].part] = f
    BY <1>1
  <2>. HIDE DEF f
  <2>. QED  BY <2>1, <2>2 DEF ExpectedScore
<1>4. ASSUME NEW k \in S PROVE f[k] \in Nat /\ g[k] \in Nat /\ f[k] <= (n - 1) * g[k]
  <2>. DEFINE x == p[k].part
  <2>1. x \in Nat /\ g[k] = x /\ f[k] = (k - 1) * x
    BY <1>1 DEF IsDistribution, PartsOf
  <2>2. k - 1 \in Nat /\ n - 1 \in Nat /\ k - 1 <= n - 1
    BY <1>1
  <2>. HIDE DEF x, f, g
  <2>. DEFINE a == k - 1  b == n - 1
  <2>3. a \in Nat /\ b \in Nat /\ a <= b
    BY <2>2
  <2>. HIDE DEF a, b
  <2>4. a * x \in Nat /\ a * x <= b * x
    BY ONLY <2>1, <2>3, SMTT(30)
  <2>. QED  BY <2>1, <2>4 DEF a, b
<1>5. SumFunction(f) = SumFunctionOnSet(f, S)
  BY DEF SumFunction
<1>6. p[1].whole = SumFunctionOnSet(g, S)
  BY <1>1 DEF IsDistribution
<1>. HIDE DEF S, f, g
<1>7. SumFunctionOnSet(f, S) \in Nat
  BY <1>1, <1>4, SumWithout
<1>8. SumFunctionOnSet(f, S) <= (n - 1) * SumFunctionOnSet(g, S)
  BY <1>1, <1>4, SumBelow DEF S
<1>9. SumFunctionOnSet(g, S) \in Nat
  BY <1>1, <1>4, SumWithout
<1>. DEFINE a == SumFunctionOnSet(f, S)  b == SumFunctionOnSet(g, S)  m == n - 1
<1>10. a \in Nat /\ b \in Nat /\ m \in Nat /\ a <= m * b
  BY <1>1, <1>7, <1>8, <1>9
<1>11. ExpectedScore(p).part = a /\ ExpectedScore(p).whole = b /\ p[1].whole = b
  BY <1>3, <1>5, <1>6
<1>. HIDE DEF a, b, m
<1>12. a \in 0..(m * b)
  BY ONLY <1>10
<1>. QED  BY <1>11, <1>12 DEF m

\* The options of a choice, put back in the caller's order: the same probabilities, and the
\* same choice among them.
LEMMA WireHolds ==
  ASSUME NEW n, NEW p, IsDistribution(p, n), NEW h, NEW keys, ListsOnce(h, n, keys),
         SortedKeys(keys) = h, Cardinality(keys) \in Nat,
         NEW written, ListsOnce(written, n, keys), IsSequence(written),
         NEW by_key, ByOption(by_key, h, p),
         NEW c, c.output_keys = written, NEW wire, wire = WireOrder(c, by_key)
  PROVE  LET w == ValuesOf(wire) IN
         /\ KeysOf(wire) = written /\ WellDistributed(w, p, n)
         /\ SelectChoice(wire) = SelectChoice(by_key)
<1>. DEFINE w == ValuesOf(wire)  S == 1..n  r == [k \in S |-> CHOOSE j \in S : h[j] = written[k]]
<1>1. /\ \A i, j \in S : h[i] = h[j] => i = j
      /\ \A k \in S : h[k] \in keys
      /\ \A key \in keys : \E k \in S : h[k] = key
  BY DEF ListsOnce
<1>2. /\ \A i, j \in S : written[i] = written[j] => i = j
      /\ \A k \in S : written[k] \in keys
      /\ \A key \in keys : \E k \in S : written[k] = key
  BY DEF ListsOnce
<1>3. /\ DOMAIN wire = S
      /\ \A k \in S : wire[k].key = written[k] /\ wire[k].value = Value(by_key, written[k])
  <2>1. DOMAIN written = S
    BY DEF ListsOnce
  <2>2. wire = [k \in S |-> [key |-> written[k], value |-> Value(by_key, written[k])]]
    BY <2>1 DEF WireOrder
  <2>. QED  BY <2>2
<1>4. /\ DOMAIN by_key = S
      /\ \A k \in S : by_key[k].key = h[k] /\ by_key[k].value = p[k]
  BY DEF ByOption, IsDistribution
<1>5. DOMAIN w = S /\ w = [k \in S |-> w[k]] /\ \A k \in S : w[k] = wire[k].value
  BY <1>3 DEF ValuesOf
<1>6. DOMAIN h = S /\ written = [k \in S |-> written[k]]
  <2>1. written = [k \in DOMAIN written |-> written[k]]
    BY DomainOfSequence DEF IsSequence
  <2>. QED  BY <2>1 DEF ListsOnce
<1>. HIDE DEF w, S
<1>7. \A k \in S : r[k] \in S /\ h[r[k]] = written[k]
  BY <1>1, <1>2
<1>. HIDE DEF r
<1>8. ASSUME NEW k \in S PROVE Value(by_key, h[k]) = p[k]
  <2>1. \A i, j \in DOMAIN by_key : by_key[i].key = by_key[j].key => i = j
    <3>1. ASSUME NEW i \in S, NEW j \in S, by_key[i].key = by_key[j].key PROVE i = j
      <4>1. by_key[i].key = h[i] /\ by_key[j].key = h[j]
        BY ONLY <1>4, i \in S, j \in S
      <4>2. h[i] = h[j]
        BY ONLY <3>1, <4>1
      <4>. QED  BY ONLY <1>1, <4>2, i \in S, j \in S
    <3>. QED  BY ONLY <1>4, <3>1
  <2>2. k \in DOMAIN by_key
    BY <1>4
  <2>3. Value(by_key, by_key[k].key) = by_key[k].value
    BY ONLY <2>1, <2>2, ValueOfKey
  <2>. QED  BY <1>4, <2>3
<1>9. ASSUME NEW k \in S PROVE w[k] = p[r[k]]
  <2>1. w[k] = Value(by_key, written[k])
    BY ONLY <1>3, <1>5, k \in S
  <2>2. r[k] \in S /\ written[k] = h[r[k]]
    BY ONLY <1>7, k \in S
  <2>3. Value(by_key, h[r[k]]) = p[r[k]]
    BY <1>8, <2>2
  <2>. QED  BY ONLY <2>1, <2>2, <2>3
<1>10. Rearranges(r, n)
  <2>1. \A i, j \in S : r[i] = r[j] => i = j
    BY <1>2, <1>7
  <2>2. ASSUME NEW k \in S PROVE \E i \in S : r[i] = k
    <3>1. PICK i \in S : written[i] = h[k]
      BY <1>1, <1>2
    <3>. QED  BY <1>1, <1>7, <3>1
  <2>. QED  BY <1>7, <2>1, <2>2 DEF Rearranges, S
<1>11. WellDistributed(w, p, n)
  <2>1. Rearranged(w, p, r, n)
    BY <1>5, <1>9 DEF Rearranged, S
  <2>. QED  BY <1>10, <2>1, OrderDoesNotCount
<1>12. KeysOf(wire) = written
  BY <1>3, <1>6 DEF KeysOf
<1>13. SelectChoice(wire) = SelectChoice(by_key)
  <2>1. ToSet(KeysOf(wire)) = {written[k] : k \in S}
    BY <1>3 DEF KeysOf, ToSet
  <2>2. ToSet(KeysOf(by_key)) = {h[k] : k \in S}
    BY <1>4 DEF KeysOf, ToSet
  <2>3. ToSet(KeysOf(wire)) = keys /\ ToSet(KeysOf(by_key)) = keys
    BY ONLY <1>1, <1>2, <2>1, <2>2
  <2>4. ASSUME NEW k \in S PROVE Value(wire, h[k]) = Value(by_key, h[k])
    <3>1. PICK i \in S : written[i] = h[k]
      BY <1>1, <1>2
    <3>2. \A j, l \in DOMAIN wire : wire[j].key = wire[l].key => j = l
      BY <1>2, <1>3
    <3>3. i \in DOMAIN wire
      BY <1>3
    <3>4. Value(wire, wire[i].key) = wire[i].value
      BY ONLY <3>2, <3>3, ValueOfKey
    <3>. QED  BY <1>3, <3>1, <3>4
  <2>5. \A k \in DOMAIN SortedKeys(keys) :
          Value(wire, SortedKeys(keys)[k]) = Value(by_key, SortedKeys(keys)[k])
    BY <1>6, <2>4
  <2>6. Cardinality(keys) \in Nat
    OBVIOUS
  <2>. QED  BY ONLY <2>3, <2>5, <2>6, SameValuesSameChoice
<1>. QED  BY <1>11, <1>12, <1>13 DEF w

\* verify_invariants() finds nothing wrong with an answer that was built from a softmax.
LEMMA BuiltAnswerHolds ==
  ASSUME NEW q, AskableQuestion(q), GradedQuestion(q), IsInjective(AsWritten(q)),
         NEW premise, NEW c, c = Expand(q, premise), NEW values, NEW t,
         NEW p, p = Probabilities(values, t), p # ValueError,
         NEW n, n = Cardinality(Keys(q)), IsDistribution(p, n),
         NEW answer, answer = BuildAnswer(c, values, t)
  PROVE  answer # ValueError /\ AnswerHolds(answer, c)
<1>. DEFINE h == OptionKeys(q)  keys == Keys(q)  written == AsWritten(q)  w == ValuesOf(answer.probabilities)
<1>1. q.type \in {"noul", "choice", "score"}
  BY DEF AskableQuestion
<1>2. /\ answer # ValueError
      /\ answer.type = c.type /\ DOMAIN answer = AnswerFields(c.type) /\ c.type = q.type
      /\ q.type # "noul" => answer.confidence = Confidence(p) /\ c.output_keys = written
      /\ q.type = "score" =>
           /\ c.legend = Entries(q) /\ ValuesOf(answer.legend) = c.legend
           /\ KeysOf(answer.legend) = [k \in DOMAIN q.criteria |-> Digits(k - 1)]
  BY <1>1, AnswerFieldsOf
<1>3. /\ q.type = "noul" => answer.noul = p[2]
      /\ q.type = "choice" =>
           /\ c.output_keys = written
           /\ \E by_key : /\ ByOption(by_key, h, p)
                          /\ answer.choice = SelectChoice(by_key)
                          /\ answer.probabilities = WireOrder(c, by_key)
      /\ q.type = "score" =>
           /\ answer.score = ExpectedScore(p)
           /\ answer.probabilities = [k \in DOMAIN p |-> answer.probabilities[k]]
           /\ \A k \in DOMAIN p : answer.probabilities[k] = [key |-> Digits(k - 1), value |-> p[k]]
  BY <1>1, <1>2, AnswerParts
<1>4. n = Len(q.criteria) /\ n \in Nat /\ n >= 2 /\ DOMAIN p = 1..n /\ p = [k \in 1..n |-> p[k]]
  BY OptionsAreCounted DEF IsDistribution
<1>5. /\ DOMAIN q.criteria = 1..n /\ written = [k \in 1..n |-> written[k]]
      /\ \A k \in 1..n : written[k] = q.criteria[k].key
      /\ ListsOnce(written, n, keys)
  <2>1. /\ DOMAIN q.criteria = 1..n /\ written = [i \in 1..n |-> q.criteria[i].key]
        /\ keys = {q.criteria[i].key : i \in 1..n}
    BY <1>4, CriteriaFacts
  <2>2. \A i, j \in 1..n : written[i] = written[j] => i = j
    BY <2>1 DEF IsInjective
  <2>. HIDE DEF written, keys
  <2>. QED  BY <2>1, <2>2 DEF ListsOnce
<1>6. ListsOnce(h, n, keys) /\ Cardinality(keys) \in Nat
  <2>1. h \in Bijection(1..n, keys) /\ Cardinality(keys) \in Nat
    BY OptionKeysAreTheKeys
  <2>. HIDE DEF h, keys
  <2>2. h \in [1..n -> keys] /\ \A key \in keys : \E k \in 1..n : h[k] = key
    BY <2>1 DEF Bijection, Injection, Surjection
  <2>3. \A i, j \in 1..n : h[i] = h[j] => i = j
    BY <2>1 DEF Bijection, Injection, IsInjective
  <2>. QED  BY <2>1, <2>2, <2>3 DEF ListsOnce
<1>7. IsDistribution(p, n)
  OBVIOUS
<1>. HIDE DEF h, keys, written, w
<1>8. ASSUME WellDistributed(w, p, n), KeysOf(answer.probabilities) = written, q.type # "noul"
      PROVE  DistributionHolds(answer, c)
  <2>1. /\ KeysOf(answer.probabilities) = c.output_keys /\ answer.confidence = Confidence(w)
    BY <1>2, <1>8 DEF WellDistributed
  <2>2. (\A k \in DOMAIN w : IsProbability(w[k])) /\ SumFunction(PartsOf(w)) = w[1].whole
    BY <1>8 DEF WellDistributed
  <2>. QED  BY <2>1, <2>2 DEF DistributionHolds, PartsOf, w
<1>9. CASE q.type = "noul"
  <2>1. IsProbability(p[2])
    BY <1>4, PartsAreWithin
  <2>. QED  BY <1>2, <1>3, <1>9, <2>1 DEF AnswerHolds
<1>10. CASE q.type = "choice"
  <2>1. PICK by_key : /\ ByOption(by_key, h, p)
                      /\ answer.choice = SelectChoice(by_key)
                      /\ answer.probabilities = WireOrder(c, by_key)
    BY <1>3, <1>10
  <2>2. c.output_keys = written /\ IsSequence(written)
    BY <1>3, <1>4, <1>5, <1>10, MappedIsSequence
  <2>4. SortedKeys(keys) = h
    BY <1>10 DEF h, OptionKeys, keys, Keys
  <2>5. /\ KeysOf(answer.probabilities) = written /\ WellDistributed(w, p, n)
        /\ SelectChoice(answer.probabilities) = SelectChoice(by_key)
    BY ONLY <1>5, <1>6, <1>7, <2>1, <2>2, <2>4, WireHolds DEF w
  <2>6. DistributionHolds(answer, c) /\ ChoiceHolds(answer)
    BY <1>8, <1>10, <2>1, <2>5 DEF ChoiceHolds
  <2>. QED  BY <1>2, <1>10, <2>6 DEF AnswerHolds
<1>11. CASE q.type = "score"
  <2>1. /\ n <= 10 /\ \A k \in 1..n : written[k] = Digits(k - 1)
        /\ written = [k \in 1..n |-> Digits(k - 1)]
    BY <1>4, <1>5, <1>11 DEF GradedQuestion
  <2>2. /\ answer.probabilities = [k \in 1..n |-> answer.probabilities[k]]
        /\ \A k \in 1..n : answer.probabilities[k] = [key |-> Digits(k - 1), value |-> p[k]]
        /\ answer.score = ExpectedScore(p)
    BY <1>3, <1>4, <1>11
  <2>10. ASSUME NEW k \in 1..n
         PROVE  answer.probabilities[k].value = p[k] /\ answer.probabilities[k].key = Digits(k - 1)
    <3>1. answer.probabilities[k] = [key |-> Digits(k - 1), value |-> p[k]]
      BY <2>2
    <3>. QED  BY ONLY <3>1
  <2>11. DOMAIN answer.probabilities = 1..n
    BY <2>2
  <2>3. KeysOf(answer.probabilities) = written
    BY <2>1, <2>10, <2>11 DEF KeysOf
  <2>4. w = p
    <3>1. w = [k \in 1..n |-> answer.probabilities[k].value]
      BY <2>11 DEF w, ValuesOf
    <3>. QED  BY <1>4, <2>10, <3>1
  <2>5. WellDistributed(w, p, n)
    <3>. DEFINE same == [k \in 1..n |-> k]
    <3>1. Rearranges(same, n) /\ Rearranged(p, p, same, n)
      BY <1>4 DEF Rearranges, Rearranged
    <3>. HIDE DEF same
    <3>2. WellDistributed(p, p, n)
      BY <1>7, <3>1, OrderDoesNotCount
    <3>. QED  BY <2>4, <3>2
  <2>6. DistributionHolds(answer, c)
    BY <1>8, <1>11, <2>3, <2>5
  <2>7. /\ ExpectedScore(p).whole = p[1].whole
        /\ ExpectedScore(p).part \in 0..((n - 1) * p[1].whole)
    BY <1>7, <2>1, ScoreIsAnAverage
  <2>8. Len(answer.probabilities) = n
    BY <1>4, <2>2, MappedIsSequence
  <2>9. ScoreHolds(answer, c)
    <3>1. answer.score = ExpectedScore(ValuesOf(answer.probabilities))
      BY <2>2, <2>4 DEF w
    <3>2. answer.score.part \in 0..((Len(answer.probabilities) - 1) * answer.score.whole)
      BY <2>2, <2>7, <2>8
    <3>3. KeysOf(answer.legend) = c.output_keys /\ ValuesOf(answer.legend) = c.legend
      BY <1>2, <1>5, <1>11, <2>1
    <3>. QED  BY <3>1, <3>2, <3>3 DEF ScoreHolds
  <2>. QED  BY <1>2, <1>11, <2>6, <2>9 DEF AnswerHolds
<1>. QED  BY <1>1, <1>9, <1>10, <1>11

-----------------------------------------------------------------------------
(* What becomes of an answer                                                 *)

\* The model's words for a sequence are finite numbers.
FiniteLogits == NotFinite # 0 /\ \A ids : Logit(ids) # NotFinite

\* A backend that does what it should is answered with a body without fault.
LEMMA SoundPayloadHolds ==
  ASSUME FiniteLogits, SInv, Course, Ledger, MaxDepth >= 3, stage = "split", ~More,
         backend \in {"sound", "ties"},
         NEW body, body = Payload(bundle.public_id, bundle.temperature)
  PROVE  ValueError \notin ToSet(ValuesOf(body.answers)) /\ InvariantsHold(body)
<1>1. /\ Askable(request) /\ Graded(request) /\ Distinct(request)
      /\ compiled = AsCompiled
  BY DEF Course, Working, Orderly
<1>2. N \in Nat /\ DOMAIN request.questions = 1..N /\ DOMAIN compiled = 1..N
  BY <1>1, CompiledFacts, GroupsAreParts
<1>. DEFINE premise == Render(request.state)
<1>3. /\ DOMAIN body = {"model", "answers", "usage"}
      /\ body.answers = [q \in 1..N |->
                          [key |-> compiled[q].id,
                           value |-> BuildAnswer(compiled[q], grouped[q],
                                                 bundle.temperature[compiled[q].type])]]
      /\ body.usage = [input_tokens |-> total, output_tokens |-> 0]
  BY <1>2 DEF Payload
<1>4. ASSUME NEW q \in 1..N
      PROVE  /\ compiled[q] = Expand(request.questions[q], premise)
             /\ compiled[q].id = request.questions[q].id
             /\ compiled[q].type = request.questions[q].type
             /\ AskableQuestion(request.questions[q]) /\ GradedQuestion(request.questions[q])
             /\ DistinctQuestion(request.questions[q])
  <2>1. compiled[q] = Expand(request.questions[q], premise)
    BY <1>1, <1>2 DEF AsCompiled
  <2>. HIDE DEF premise
  <2>2. /\ AskableQuestion(request.questions[q]) /\ GradedQuestion(request.questions[q])
        /\ DistinctQuestion(request.questions[q])
    BY <1>1, <1>2 DEF Askable, Graded, Distinct
  <2>. QED  BY <2>1, <2>2 DEF Expand
<1>. HIDE DEF premise
<1>5. ASSUME NEW q \in 1..N
      PROVE  /\ body.answers[q].key = compiled[q].id
             /\ body.answers[q].value
                  = BuildAnswer(compiled[q], grouped[q], bundle.temperature[compiled[q].type])
  <2>1. body.answers[q]
          = [key |-> compiled[q].id,
             value |-> BuildAnswer(compiled[q], grouped[q], bundle.temperature[compiled[q].type])]
    BY <1>3
  <2>. QED  BY ONLY <2>1
<1>6. ASSUME NEW q \in 1..N
      PROVE  body.answers[q].value # ValueError /\ AnswerHolds(body.answers[q].value, compiled[q])
  <2>. DEFINE asked == request.questions[q]  t == bundle.temperature[asked.type]
              says == Says(asked)  answer == body.answers[q].value  values == grouped[q]
              n == Cardinality(Keys(asked))  c == compiled[q]  p == Probabilities(values, t)
  <2>1. /\ IsSequence(values) /\ Len(values) = n
        /\ \A k \in 1..n : values[k] = says[OptionKeys(asked)[k]]
    BY ValuesAreSaid
  <2>2. /\ AskableQuestion(asked) /\ GradedQuestion(asked) /\ IsInjective(AsWritten(asked))
        /\ n >= 2
    BY <1>4, OptionsAreCounted DEF DistinctQuestion
  <2>3. t \in DOMAIN Exp /\ t > 0
    BY <2>2, TemperatureIsTabled DEF AskableQuestion, Working
  <2>4. answer = BuildAnswer(c, values, t) /\ c = Expand(asked, premise)
    BY <1>4, <1>5
  <2>5. \A key \in Keys(asked) : says[key] # NotFinite
    BY DEF Says, FiniteLogits
  <2>6. n \in Nat /\ OptionKeys(asked) \in Bijection(1..n, Keys(asked))
    BY <2>2, OptionKeysAreTheKeys
  <2>. HIDE DEF asked, t, says, answer, values, n, c
  <2>7. NotFinite \notin ToSet(values)
    <3>1. DOMAIN values = 1..n
      BY <2>1, DomainOfSequence
    <3>2. \A k \in 1..n : OptionKeys(asked)[k] \in Keys(asked)
      BY <2>6 DEF Bijection, Injection
    <3>. QED  BY <2>1, <2>5, <3>1, <3>2 DEF ToSet
  <2>8. p # ValueError /\ IsDistribution(p, n)
    <3>1. p # ValueError /\ IsDistribution(p, Len(values))
      BY <2>1, <2>2, <2>3, <2>7, SoftmaxIsDistribution
    <3>. QED  BY <2>1, <3>1
  <2>9. n = Cardinality(Keys(asked)) /\ p = Probabilities(values, t)
    BY DEF n
  <2>. HIDE DEF p
  <2>10. answer # ValueError /\ AnswerHolds(answer, c)
    BY <2>2, <2>4, <2>8, <2>9, BuiltAnswerHolds
  <2>. QED  BY <2>10 DEF answer, c
<1>7. DOMAIN body.answers = 1..N
  BY <1>3
<1>8. ValueError \notin ToSet(ValuesOf(body.answers))
  BY <1>6, <1>7 DEF ToSet, ValuesOf
<1>9. \A i, j \in 1..N : compiled[i].id = compiled[j].id => i = j
  <2>1. \A i, j \in 1..N : request.questions[i].id = request.questions[j].id => i = j
    BY <1>1, <1>2 DEF Distinct
  <2>. QED  BY <1>4, <2>1
<1>10. ASSUME NEW q \in 1..N
       PROVE  Value(body.answers, compiled[q].id) = body.answers[q].value
  <2>. DEFINE object == body.answers
  <2>1. \A i, j \in DOMAIN object : object[i].key = object[j].key => i = j
    BY <1>5, <1>7, <1>9
  <2>2. q \in DOMAIN object
    BY <1>7
  <2>. HIDE DEF object
  <2>3. Value(object, object[q].key) = object[q].value
    BY ONLY <2>1, <2>2, ValueOfKey
  <2>. QED  BY <1>5, <2>3 DEF object
<1>11. ToSet(KeysOf(body.answers)) = {compiled[q].id : q \in DOMAIN compiled}
  <2>1. ToSet(KeysOf(body.answers)) = {body.answers[q].key : q \in 1..N}
    BY <1>7 DEF ToSet, KeysOf
  <2>. QED  BY <1>2, <1>5, <2>1
<1>12. /\ DOMAIN body.usage = {"input_tokens", "output_tokens"}
       /\ body.usage.input_tokens = total /\ body.usage.output_tokens = 0
  BY <1>3
<1>13. \A q \in DOMAIN compiled : AnswerHolds(Value(body.answers, compiled[q].id), compiled[q])
  BY <1>2, <1>6, <1>10
<1>. QED  BY <1>3, <1>8, <1>11, <1>12, <1>13 DEF InvariantsHold

\* Where the last value of all is no number there is no body.
LEMMA NotFiniteIsNoBody ==
  ASSUME SInv, Course, stage = "split", ~More, backend = "not finite",
         NEW body, body = Payload(bundle.public_id, bundle.temperature)
  PROVE  ValueError \in ToSet(ValuesOf(body.answers))
<1>1. Askable(request) /\ compiled = AsCompiled
  BY DEF Course, Working
<1>2. N \in Nat /\ DOMAIN compiled = 1..N /\ N > 0
  <2>1. /\ N \in Nat /\ DOMAIN request.questions = 1..N /\ DOMAIN compiled = 1..N
    BY <1>1, CompiledFacts, GroupsAreParts
  <2>2. Len(request.questions) > 0 /\ DOMAIN request.questions = 1..Len(request.questions)
        /\ Len(request.questions) \in Nat
    BY <1>1, DomainOfSequence DEF Askable
  <2>3. 1 \in DOMAIN request.questions
    BY ONLY <2>2
  <2>. QED  BY ONLY <2>1, <2>3
<1>. DEFINE values == grouped[N]  c == compiled[N]  t == bundle.temperature[c.type]
<1>3. Len(values) < 2 \/ NotFinite \in ToSet(values)
  <2>1. N \in 1..N
    BY ONLY <1>2
  <2>. QED  BY <2>1, ValuesAreSaid
<1>4. /\ DOMAIN body.answers = 1..N
      /\ body.answers[N] = [key |-> c.id, value |-> BuildAnswer(c, values, t)]
  <2>1. N \in 1..N
    BY ONLY <1>2
  <2>2. body.answers = [q \in 1..N |->
                         [key |-> compiled[q].id,
                          value |-> BuildAnswer(compiled[q], grouped[q],
                                                bundle.temperature[compiled[q].type])]]
    BY <1>2 DEF Payload
  <2>. QED  BY ONLY <2>1, <2>2
<1>. HIDE DEF values, c, t
<1>5. Probabilities(values, t) = ValueError
  BY <1>3 DEF Probabilities
<1>6. BuildAnswer(c, values, t) = ValueError
  BY <1>5 DEF BuildAnswer
<1>7. body.answers[N].value = ValueError
  BY ONLY <1>4, <1>6
<1>8. N \in DOMAIN body.answers
  BY ONLY <1>2, <1>4
<1>. QED  BY ONLY <1>7, <1>8 DEF ToSet, ValuesOf

\* Up to the call of score() a backend that fails ends the request; after it, a 500 and a
\* backend that breaks its contract come together.
Blamed ==
  /\ stage \in {"idle", "compile", "flatten", "take", "gather"} => backend = "sound"
  /\ stage = "split" => backend \in {"sound", "ties", "not finite"}
  /\ stage = "over" => (refusal.status = 500 <=> backend \in Broken)
  /\ stage = "answered" => backend \notin Broken

\* The tokens of a valid request never are the server's fault.
LEMMA TokenizingBlames ==
  ASSUME Ledger, Blamed, Tokenizing
  PROVE  Blamed'
<1>1. backend = "sound" /\ stage = "flatten" /\ InText
  BY DEF Tokenizing, Blamed, Ledger, Counted, Working
<1>. DEFINE sequences == [i \in 1..Len(flat) |-> Encode(flat[i])]
<1>2. \A i \in 1..Len(flat) : sequences[i] # NotEncoded
  BY <1>1, ListIsEncoded
<1>3. \/ TooLong(<<>>) /\ UNCHANGED backend
      \/ /\ backend' \in {"short", "raises"} \/ \E i \in 1..Len(flat) : sequences[i] = NotEncoded
         /\ Inexplicable
      \/ stage' = "take" /\ UNCHANGED backend
  BY DEF Tokenizing
<1>. HIDE DEF sequences
<1>4. CASE TooLong(<<>>) /\ UNCHANGED backend
  BY <1>1, <1>4, TooLongFacts DEF Blamed, Broken
<1>5. CASE backend' \in {"short", "raises"} /\ Inexplicable
  BY <1>5, InexplicableFacts DEF Blamed, Broken
<1>6. CASE stage' = "take" /\ UNCHANGED backend
  BY <1>1, <1>6 DEF Blamed
<1>. QED  BY <1>2, <1>3, <1>4, <1>5, <1>6

LEMMA JobBlames ==
  ASSUME Ledger, Blamed, Job
  PROVE  Blamed'
<1>1. CASE Tokenizing
  BY <1>1, TokenizingBlames
<1>2. CASE Compile \/ Take \/ EndOfEncoding
  <2>1. /\ backend = "sound" /\ UNCHANGED backend
        /\ \/ stage' \in {"flatten", "take", "gather"}
           \/ \E path : TooLong(path)
    BY <1>2 DEF Compile, Take, EndOfEncoding, Blamed
  <2>2. CASE \E path : TooLong(path)
    BY <2>1, <2>2, TooLongFacts DEF Blamed, Broken
  <2>3. CASE stage' \in {"flatten", "take", "gather"}
    BY <2>1, <2>3 DEF Blamed
  <2>. QED  BY <2>1, <2>2, <2>3
<1>3. CASE Flatten \/ Gather \/ Split
  <2>1. UNCHANGED <<stage, backend>> /\ stage \in {"flatten", "gather", "split"}
    BY <1>3 DEF Flatten, Gather, Split
  <2>. QED  BY <2>1 DEF Blamed
<1>4. CASE Score
  <2>1. \/ backend' \in {"short", "raises"} /\ Inexplicable
        \/ stage' = "split" /\ backend' \in {"sound", "ties", "not finite"}
    BY <1>4 DEF Score
  <2>2. CASE backend' \in {"short", "raises"} /\ Inexplicable
    BY <2>2, InexplicableFacts DEF Blamed, Broken
  <2>3. CASE stage' = "split" /\ backend' \in {"sound", "ties", "not finite"}
    BY <2>3 DEF Blamed
  <2>. QED  BY <2>1, <2>2, <2>3
<1>. QED  BY <1>1, <1>2, <1>3, <1>4 DEF Job

\* A body is made of what a backend that keeps its contract has said, and of nothing else.
LEMMA RespondBlames ==
  ASSUME FiniteLogits, MaxDepth >= 3, SInv, Course, Ledger, Blamed, Respond
  PROVE  Blamed'
<1>. DEFINE body == Payload(bundle.public_id, bundle.temperature)
            complete == ValueError \notin ToSet(ValuesOf(body.answers)) /\ InvariantsHold(body)
<1>1. /\ stage = "split" /\ ~More /\ UNCHANGED backend
      /\ \/ complete /\ stage' = "answered"
         \/ ~complete /\ Inexplicable
  <2>. HIDE DEF body
  <2>. QED  BY DEF Respond, body
<1>2. backend \in {"sound", "ties", "not finite"}
  BY <1>1 DEF Blamed
<1>3. backend \in {"sound", "ties"} => complete
  BY <1>1, SoundPayloadHolds
<1>4. backend = "not finite" => ~complete
  BY <1>1, NotFiniteIsNoBody
<1>. HIDE DEF complete
<1>5. CASE complete /\ stage' = "answered"
  BY <1>1, <1>2, <1>4, <1>5 DEF Blamed, Broken
<1>6. CASE ~complete /\ Inexplicable
  <2>1. stage' = "over" /\ refusal'.status = 500 /\ backend' \in Broken
    BY <1>1, <1>2, <1>3, <1>6, InexplicableFacts DEF Broken
  <2>. QED  BY <2>1 DEF Blamed
<1>. QED  BY <1>1, <1>5, <1>6

LEMMA StopBlames ==
  ASSUME Blamed, stage = "idle", NEW fault, IsFault(fault), StopAt(fault)
  PROVE  Blamed'
<1>1. stage' = "over" /\ refusal'.status # 500 /\ backend' = backend
  BY StopFacts
<1>2. backend' \notin Broken
  BY <1>1 DEF Blamed, Broken
<1>3. (refusal'.status = 500) <=> (backend' \in Broken)
  BY <1>1, <1>2
<1>. QED  BY <1>1, <1>3 DEF Blamed

LEMMA BlamedKeeps ==
  ASSUME FiniteLogits, MaxDepth >= 3, SInv, Course, Ledger, Blamed, [PathNext]_pathvars
  PROVE  Blamed'
<1>1. CASE UNCHANGED pathvars
  BY <1>1 DEF pathvars, serializer, Blamed
<1>2. CASE StartServer
  <2>1. UNCHANGED <<stage, refusal, backend>>
    BY <1>2 DEF StartServer, serializer
  <2>. QED  BY <2>1 DEF Blamed
<1>3. CASE Receive \/ ReadChunk
  <2>1. StoppedOrWaiting
    BY <1>3, ReceiveFacts, ChunkFacts
  <2>2. CASE \E fault : IsFault(fault) /\ StopAt(fault)
    BY <2>1, <2>2, StopBlames DEF StoppedOrWaiting
  <2>3. CASE UNCHANGED serializer
    BY <2>3 DEF serializer, Blamed
  <2>. QED  BY <2>1, <2>2, <2>3 DEF StoppedOrWaiting
<1>4. CASE Handle
  <2>1. /\ stage = "idle"
        /\ \/ \E fault : IsFault(fault) /\ StopAt(fault)
           \/ \E r, b : Begin(r, b)
    BY <1>4, HandleFacts
  <2>2. CASE \E fault : IsFault(fault) /\ StopAt(fault)
    BY <2>1, <2>2, StopBlames
  <2>3. CASE \E r, b : Begin(r, b)
    BY <2>1, <2>3 DEF Begin, Blamed
  <2>. QED  BY <2>1, <2>2, <2>3
<1>5. CASE Job
  BY <1>5, JobBlames
<1>6. CASE Respond
  BY <1>6, RespondBlames
<1>. QED  BY <1>1, <1>2, <1>3, <1>4, <1>5, <1>6 DEF PathNext

(* A 500 is the backend's doing, and a backend that breaks its contract never makes a 200:
   whatever a caller writes, a request that is not refused for itself is encoded, and what
   the softmax makes of finite logits passes verify_invariants(). The model's words are taken
   to be finite, and the limit on nesting (max_json_depth, 32 as shipped) to let a question
   through at all. *)
THEOREM PathOnlyBackendFaults500 ==
  ASSUME FiniteLogits, MaxDepth >= 3
  PROVE  PathSpec => []OnlyBackendFaults500
<1>. DEFINE All == SInv /\ Course /\ Ledger /\ Blamed
<1>1. PathInit => All
  <2>1. PathInit => Blamed
    BY DEF PathInit, SerializerInit, Blamed
  <2>. QED  BY <2>1, PathStartsWell, LedgerStarts
<1>2. All /\ [PathNext]_pathvars => All'
  BY PathKeepsAll, BlamedKeeps
<1>3. All => OnlyBackendFaults500
  <2>. SUFFICES ASSUME All, Ended PROVE refusal.status = 500 <=> backend \in Broken
    BY DEF OnlyBackendFaults500
  <2>1. CASE stage = "over"
    BY <2>1 DEF Blamed
  <2>2. CASE stage = "answered"
    <3>1. refusal = Nothing
      BY <2>2 DEF Ledger, Carried
    <3>2. refusal.status # 500
      <4>1. Nothing.status = 0
        BY DEF Nothing
      <4>. QED  BY <3>1, <4>1
    <3>. QED  BY <2>2, <3>2 DEF Blamed
  <2>. QED  BY <2>1, <2>2 DEF Ended
<1>. HIDE DEF All
<1>. QED  BY <1>1, <1>2, <1>3, PTL DEF PathSpec

-----------------------------------------------------------------------------
(* What the scan of a text sees                                              *)

\* The states of the scan, after each of the first n characters.
Scanned(start, text, n, f) ==
  f = [i \in 0..n |-> IF i = 0 THEN start ELSE Scan(f[i - 1], text[i])]
ScanEnd(start, text) == (CHOOSE f : Scanned(start, text, Len(text), f))[Len(text)]

LEMMA SomeScan ==
  ASSUME NEW start, NEW text, NEW last \in Nat
  PROVE  \E f : Scanned(start, text, last, f)
<1>. DEFINE Bad == {n \in Nat : ~ \E f : Scanned(start, text, n, f)}
<1>1. SUFFICES ASSUME Bad # {} PROVE FALSE
  OBVIOUS
<1>2. PICK n \in Bad : \A m \in Bad : n <= m
  <2>1. Bad \subseteq Nat
    OBVIOUS
  <2>. HIDE DEF Bad
  <2>. QED  BY <1>1, <2>1, SomeLeast
<1>3. CASE n = 0
  <2>. DEFINE g == [i \in 0..0 |-> start]
  <2>1. Scanned(start, text, 0, g)
    BY DEF Scanned
  <2>. QED  BY <1>3, <2>1
<1>4. CASE n # 0
  <2>1. n - 1 \in Nat /\ ~(n <= n - 1)
    BY <1>4
  <2>2. PICK f : Scanned(start, text, n - 1, f)
    <3>1. n - 1 \notin Bad
      <4>. HIDE DEF Bad
      <4>. QED  BY <1>2, <2>1
    <3>. QED  BY <2>1, <3>1
  <2>. DEFINE g == [i \in 0..n |-> IF i = 0 THEN start ELSE Scan(f[i - 1], text[i])]
  <2>3. ASSUME NEW i \in 0..(n - 1) PROVE g[i] = f[i]
    <3>1. i \in 0..n
      BY <2>1
    <3>2. f[i] = IF i = 0 THEN start ELSE Scan(f[i - 1], text[i])
      BY <2>2 DEF Scanned
    <3>. QED  BY <3>1, <3>2
  <2>4. ASSUME NEW i \in 0..n, i # 0 PROVE i - 1 \in 0..(n - 1)
    BY <2>1, <2>4
  <2>5. Scanned(start, text, n, g)
    <3>1. \A i \in 0..n : i # 0 => g[i - 1] = f[i - 1]
      <4>. HIDE DEF g
      <4>. QED  BY <2>3, <2>4
    <3>2. g = [i \in 0..n |-> IF i = 0 THEN start ELSE Scan(g[i - 1], text[i])]
      BY <3>1
    <3>. HIDE DEF g
    <3>. QED  BY <3>2 DEF Scanned
  <2>. QED  BY <2>5
<1>. QED  BY <1>3, <1>4

\* What follows does not change what has been scanned.
LEMMA ScansAgree ==
  ASSUME NEW start, NEW s, NEW t, NEW last \in Nat, NEW more \in Nat, last <= more,
         \A i \in 1..last : s[i] = t[i],
         NEW f, Scanned(start, s, last, f), NEW g, Scanned(start, t, more, g)
  PROVE  \A i \in 0..last : f[i] = g[i]
<1>. DEFINE Bad == {n \in Nat : n <= last /\ f[n] # g[n]}
<1>1. SUFFICES ASSUME Bad # {} PROVE FALSE
  OBVIOUS
<1>2. PICK n \in Bad : \A m \in Bad : n <= m
  <2>1. Bad \subseteq Nat
    OBVIOUS
  <2>. HIDE DEF Bad
  <2>. QED  BY <1>1, <2>1, SomeLeast
<1>3. n \in 0..last /\ n \in 0..more /\ n \in Nat /\ f[n] # g[n]
  OBVIOUS
<1>4. f[n] = (IF n = 0 THEN start ELSE Scan(f[n - 1], s[n]))
      /\ g[n] = (IF n = 0 THEN start ELSE Scan(g[n - 1], t[n]))
  BY <1>3 DEF Scanned
<1>5. n # 0
  BY <1>3, <1>4
<1>6. n - 1 \in Nat /\ n - 1 <= last /\ ~(n <= n - 1) /\ n \in 1..last
  BY <1>3, <1>5
<1>7. f[n - 1] = g[n - 1] /\ s[n] = t[n]
  BY <1>2, <1>6
<1>. QED  BY <1>3, <1>4, <1>5, <1>7

LEMMA ScanOfNothing ==
  ASSUME NEW start
  PROVE  ScanEnd(start, <<>>) = start
<1>. DEFINE f == CHOOSE f : Scanned(start, <<>>, 0, f)
<1>1. Len(<<>>) = 0
  BY EmptySeq
<1>2. Scanned(start, <<>>, 0, f)
  BY SomeScan
<1>3. ScanEnd(start, <<>>) = f[0]
  BY <1>1 DEF ScanEnd
<1>. HIDE DEF f
<1>4. 0 \in 0..0
  OBVIOUS
<1>. QED  BY <1>2, <1>3, <1>4 DEF Scanned

LEMMA ScanAppends ==
  ASSUME NEW start, NEW S, NEW s \in Seq(S), NEW c \in S
  PROVE  ScanEnd(start, Append(s, c)) = Scan(ScanEnd(start, s), c)
<1>. DEFINE n == Len(s)  t == Append(s, c)
            f == CHOOSE f : Scanned(start, s, n, f)
            g == CHOOSE g : Scanned(start, t, n + 1, g)
<1>1. n \in Nat /\ Len(t) = n + 1 /\ t[n + 1] = c /\ \A i \in 1..n : s[i] = t[i]
  BY LenProperties, AppendProperties
<1>. HIDE DEF t, n
<1>2. n + 1 \in Nat
  BY <1>1
<1>3. Scanned(start, s, n, f)
  BY <1>1, SomeScan
<1>4. Scanned(start, t, n + 1, g)
  BY <1>2, SomeScan
<1>5. ScanEnd(start, s) = f[n]
  BY DEF ScanEnd, n
<1>6. ScanEnd(start, t) = g[n + 1]
  BY <1>1 DEF ScanEnd
<1>. HIDE DEF f, g
<1>7. f[n] = g[n]
  <2>1. n <= n + 1 /\ n \in 0..n
    BY <1>1
  <2>2. \A i \in 0..n : f[i] = g[i]
    <3>. DEFINE more == n + 1
    <3>1. more \in Nat /\ n <= more /\ Scanned(start, t, more, g)
      BY <1>2, <1>4, <2>1
    <3>2. n \in Nat /\ Scanned(start, s, n, f) /\ \A i \in 1..n : s[i] = t[i]
      BY <1>1, <1>3
    <3>. HIDE DEF more
    <3>. QED  BY ONLY <3>1, <3>2, ScansAgree
  <2>. QED  BY <2>1, <2>2
<1>8. g[n + 1] = Scan(g[n], c)
  <2>1. n + 1 \in 0..(n + 1) /\ n + 1 # 0 /\ (n + 1) - 1 = n
    BY <1>1
  <2>. QED  BY <1>1, <1>4, <2>1 DEF Scanned
<1>9. ScanEnd(start, t) = Scan(ScanEnd(start, s), c)
  BY <1>5, <1>6, <1>7, <1>8
<1>. QED  BY <1>9 DEF t

LEMMA ScanJoins ==
  ASSUME NEW start, NEW S, NEW s \in Seq(S), NEW t \in Seq(S)
  PROVE  ScanEnd(start, s \o t) = ScanEnd(ScanEnd(start, s), t)
<1>. DEFINE Good == {u \in Seq(S) : ScanEnd(start, s \o u) = ScanEnd(ScanEnd(start, s), u)}
<1>1. <<>> \in Good
  <2>1. s \o <<>> = s /\ <<>> \in Seq(S)
    BY ConcatEmptySeq, EmptySeq
  <2>. QED  BY <2>1, ScanOfNothing
<1>2. ASSUME NEW u \in Seq(S), NEW c \in S, u \in Good PROVE Append(u, c) \in Good
  <2>1. s \o Append(u, c) = Append(s \o u, c)
    BY AppendIsConcat, ConcatAssociative
  <2>2. s \o u \in Seq(S) /\ Append(u, c) \in Seq(S)
    BY ConcatProperties, AppendProperties
  <2>. DEFINE su == s \o u  middle == ScanEnd(start, s)
  <2>3. ScanEnd(start, su) = ScanEnd(middle, u)
    BY <1>2
  <2>. HIDE DEF su, middle
  <2>4. ScanEnd(start, Append(su, c)) = Scan(ScanEnd(start, su), c)
    BY <2>2, ScanAppends DEF su
  <2>5. ScanEnd(middle, Append(u, c)) = Scan(ScanEnd(middle, u), c)
    BY ScanAppends
  <2>6. ScanEnd(start, Append(su, c)) = ScanEnd(middle, Append(u, c))
    BY <2>3, <2>4, <2>5
  <2>. QED  BY <2>1, <2>2, <2>6 DEF su, middle
<1>. HIDE DEF Good
<1>3. t \in Good
  BY <1>1, <1>2, ByAppending
<1>. QED  BY <1>3 DEF Good

LEMMA ScanOfOne ==
  ASSUME NEW start, NEW c
  PROVE  ScanEnd(start, <<c>>) = Scan(start, c)
<1>1. <<>> \in Seq({c}) /\ Append(<<>>, c) = <<c>>
  BY EmptySeq
<1>2. ScanEnd(start, Append(<<>>, c)) = Scan(ScanEnd(start, <<>>), c)
  BY <1>1, ScanAppends
<1>. QED  BY <1>1, <1>2, ScanOfNothing

LEMMA PairIsAppended ==
  ASSUME NEW S, NEW one \in Seq(S), Len(one) = 1, NEW c \in S,
         NEW pair \in Seq(S), Len(pair) = 2, pair[1] = one[1], pair[2] = c
  PROVE  Append(one, c) = pair
<1>. DEFINE two == Append(one, c)
<1>1. two \in Seq(S) /\ Len(two) = 2 /\ two[1] = one[1] /\ two[2] = c
  <2>1. Len(one) \in Nat /\ 1 \in 1..Len(one) /\ Len(one) + 1 = 2
    OBVIOUS
  <2>2. two \in Seq(S)
    BY AppendProperties
  <2>3. Len(two) = Len(one) + 1
    BY AppendProperties
  <2>. DEFINE n == Len(one)
  <2>4. n \in Nat /\ \A i \in 1..n : one[i] = two[i]
    BY LenProperties, AppendProperties
  <2>5. two[Len(one) + 1] = c
    BY AppendProperties
  <2>. HIDE DEF two
  <2>. QED  BY <2>1, <2>2, <2>3, <2>4, <2>5
<1>. HIDE DEF two
<1>2. \A i \in 1..Len(two) : two[i] = pair[i]
  BY <1>1
<1>3. two = pair
  BY <1>1, <1>2, SeqEqual
<1>. QED  BY <1>3 DEF two

LEMMA ScanOfTwo ==
  ASSUME NEW start, NEW b, NEW c
  PROVE  ScanEnd(start, <<b, c>>) = Scan(Scan(start, b), c)
<1>. DEFINE S == {b, c}  one == <<b>>  pair == <<b, c>>
<1>1. one \in Seq(S) /\ c \in S /\ Len(one) = 1 /\ one[1] = b
  OBVIOUS
<1>2. pair \in Seq(S) /\ Len(pair) = 2 /\ pair[1] = one[1] /\ pair[2] = c
  OBVIOUS
<1>3. ScanEnd(start, one) = Scan(start, b)
  BY ScanOfOne
<1>. HIDE DEF one, pair, S
<1>4. ScanEnd(start, Append(one, c)) = Scan(ScanEnd(start, one), c)
  BY <1>1, ScanAppends
<1>5. Append(one, c) = pair
  BY <1>1, <1>2, PairIsAppended
<1>. QED  BY <1>3, <1>4, <1>5 DEF pair

\* A scan outside and inside a string.
Outside(depth, deepest) ==
  [depth |-> depth, deepest |-> deepest, in_string |-> FALSE, escaped |-> FALSE]
InString(depth, deepest) ==
  [depth |-> depth, deepest |-> deepest, in_string |-> TRUE, escaped |-> FALSE]
Escaped(depth, deepest) ==
  [depth |-> depth, deepest |-> deepest, in_string |-> TRUE, escaped |-> TRUE]

Brackets == {"[", "{", "]", "}"}

LEMMA LargerDepth ==
  ASSUME NEW d \in Int, NEW m \in Int
  PROVE  Max({m, d + 1}) = IF m >= d + 1 THEN m ELSE d + 1
<1>. DEFINE n == d + 1
<1>0. n \in Int
  OBVIOUS
<1>. HIDE DEF n
<1>1. \E x \in {m, n} : \A y \in {m, n} : x >= y
  BY <1>0
<1>2. Max({m, n}) \in {m, n} /\ \A y \in {m, n} : Max({m, n}) >= y
  BY <1>1 DEF Max
<1>3. Max({m, n}) = IF m >= n THEN m ELSE n
  BY <1>0, <1>2
<1>. QED  BY <1>3 DEF n

LEMMA ScanSteps ==
  ASSUME NEW d \in Int, NEW m \in Int
  PROVE  /\ Scan(Outside(d, m), Quote) = InString(d, m)
         /\ \A c \in {"[", "{"} :
              Scan(Outside(d, m), c) = Outside(d + 1, IF m >= d + 1 THEN m ELSE d + 1)
         /\ \A c \in {"]", "}"} : Scan(Outside(d, m), c) = Outside(d - 1, m)
         /\ \A c : c # Quote /\ c \notin Brackets => Scan(Outside(d, m), c) = Outside(d, m)
         /\ Scan(InString(d, m), Quote) = Outside(d, m)
         /\ Scan(InString(d, m), Backslash) = Escaped(d, m)
         /\ \A c : c # Quote /\ c # Backslash => Scan(InString(d, m), c) = InString(d, m)
         /\ \A c : Scan(Escaped(d, m), c) = InString(d, m)
<1>1. Quote \notin Brackets /\ Quote # Backslash
  BY DEF Quote, Backslash, Brackets
<1>2. Scan(Outside(d, m), Quote) = InString(d, m)
  BY <1>1 DEF Scan, Outside, InString, Brackets
<1>3. ASSUME NEW c \in {"[", "{"}
      PROVE  Scan(Outside(d, m), c) = Outside(d + 1, IF m >= d + 1 THEN m ELSE d + 1)
  <2>1. c # Quote
    BY <1>1 DEF Brackets
  <2>2. Max({m, d + 1}) = IF m >= d + 1 THEN m ELSE d + 1
    BY LargerDepth
  <2>3. Scan(Outside(d, m), c) = Outside(d + 1, Max({m, d + 1}))
    BY <2>1 DEF Scan, Outside
  <2>. QED  BY <2>2, <2>3
<1>4. ASSUME NEW c \in {"]", "}"} PROVE Scan(Outside(d, m), c) = Outside(d - 1, m)
  <2>1. c # Quote /\ c \notin {"[", "{"}
    BY <1>1 DEF Brackets
  <2>. QED  BY <2>1 DEF Scan, Outside
<1>5. ASSUME NEW c, c # Quote, c \notin Brackets PROVE Scan(Outside(d, m), c) = Outside(d, m)
  BY <1>5 DEF Scan, Outside, Brackets
<1>6. Scan(InString(d, m), Quote) = Outside(d, m)
  BY <1>1 DEF Scan, Outside, InString
<1>7. Scan(InString(d, m), Backslash) = Escaped(d, m)
  BY <1>1 DEF Scan, InString, Escaped
<1>8. ASSUME NEW c, c # Quote, c # Backslash PROVE Scan(InString(d, m), c) = InString(d, m)
  BY <1>8 DEF Scan, InString
<1>9. ASSUME NEW c PROVE Scan(Escaped(d, m), c) = InString(d, m)
  BY DEF Scan, InString, Escaped
<1>. QED  BY <1>2, <1>3, <1>4, <1>5, <1>6, <1>7, <1>8, <1>9

\* A text that is passed at some depth leaves the scan at that depth; p says whether it goes
\* deeper than is let through.
Passes(text, d, p) ==
  /\ IsSequence(text)
  /\ \A m \in Nat : m >= d =>
       \E k \in Nat : /\ k >= m /\ ScanEnd(Outside(d, m), text) = Outside(d, k)
                      /\ k > MaxDepth <=> m > MaxDepth \/ p

LEMMA PassesNothing ==
  ASSUME NEW d \in Nat
  PROVE  Passes(<<>>, d, FALSE)
BY EmptyIsSequence, ScanOfNothing DEF Passes

LEMMA PassesOne ==
  ASSUME NEW d \in Nat, NEW c, c # Quote, c \notin Brackets
  PROVE  Passes(<<c>>, d, FALSE)
<1>1. ASSUME NEW m \in Nat PROVE ScanEnd(Outside(d, m), <<c>>) = Outside(d, m)
  <2>1. m \in Int /\ d \in Int
    OBVIOUS
  <2>2. Scan(Outside(d, m), c) = Outside(d, m)
    BY <2>1, ScanSteps
  <2>. QED  BY <2>2, ScanOfOne
<1>. QED  BY <1>1, OneIsSequence DEF Passes

\* At a depth that is not let through it makes no difference.
LEMMA PassesSame ==
  ASSUME NEW d \in Nat, NEW text, NEW p \in BOOLEAN, Passes(text, d, p),
         NEW q \in BOOLEAN, d <= MaxDepth => (p <=> q)
  PROVE  Passes(text, d, q)
<1>0. MaxDepth \in Nat
  BY LimitsAssumption
<1>1. ASSUME NEW m \in Nat, m >= d
      PROVE  \E k \in Nat : /\ k >= m /\ ScanEnd(Outside(d, m), text) = Outside(d, k)
                            /\ k > MaxDepth <=> m > MaxDepth \/ q
  <2>1. PICK k \in Nat : /\ k >= m /\ ScanEnd(Outside(d, m), text) = Outside(d, k)
                         /\ k > MaxDepth <=> m > MaxDepth \/ p
    BY <1>1 DEF Passes
  <2>2. k > MaxDepth <=> m > MaxDepth \/ q
    BY <1>0, <1>1, <2>1
  <2>. QED  BY <2>1, <2>2
<1>. QED  BY <1>1 DEF Passes

LEMMA PassesBoth ==
  ASSUME NEW d \in Nat, NEW s, NEW t, NEW p \in BOOLEAN, NEW q \in BOOLEAN,
         Passes(s, d, p), Passes(t, d, q)
  PROVE  Passes(s \o t, d, p \/ q)
<1>0. MaxDepth \in Nat
  BY LimitsAssumption
<1>1. IsSequence(s) /\ IsSequence(t)
  BY DEF Passes
<1>. DEFINE S == Items(s) \cup Items(t)
<1>2. s \in Seq(S) /\ t \in Seq(S)
  BY <1>1, SequenceOfElements
<1>. HIDE DEF S
<1>3. IsSequence(s \o t)
  BY <1>1, Concatenation
<1>. DEFINE st == s \o t
<1>. HIDE DEF st
<1>4. ASSUME NEW m \in Nat, m >= d
      PROVE  \E k \in Nat : /\ k >= m /\ ScanEnd(Outside(d, m), st) = Outside(d, k)
                            /\ k > MaxDepth <=> m > MaxDepth \/ (p \/ q)
  <2>1. PICK j \in Nat : /\ j >= m /\ ScanEnd(Outside(d, m), s) = Outside(d, j)
                         /\ j > MaxDepth <=> m > MaxDepth \/ p
    BY <1>4 DEF Passes
  <2>2. j >= d
    BY <1>4, <2>1
  <2>3. PICK k \in Nat : /\ k >= j /\ ScanEnd(Outside(d, j), t) = Outside(d, k)
                         /\ k > MaxDepth <=> j > MaxDepth \/ q
    BY <2>2 DEF Passes
  <2>4. ScanEnd(Outside(d, m), st) = ScanEnd(ScanEnd(Outside(d, m), s), t)
    BY <1>2, ScanJoins DEF st
  <2>5. k >= m
    BY <2>1, <2>3
  <2>6. k > MaxDepth <=> m > MaxDepth \/ (p \/ q)
    BY <2>1, <2>3
  <2>. QED  BY <2>1, <2>3, <2>4, <2>5, <2>6
<1>5. IsSequence(st)
  BY <1>3 DEF st
<1>6. Passes(st, d, p \/ q)
  BY <1>4, <1>5 DEF Passes
<1>. QED  BY <1>6 DEF st

LEMMA ScanOfThree ==
  ASSUME NEW start, NEW a, IsSequence(a), NEW b, IsSequence(b), NEW c, IsSequence(c)
  PROVE  /\ IsSequence(a \o b \o c)
         /\ ScanEnd(start, a \o b \o c) = ScanEnd(ScanEnd(ScanEnd(start, a), b), c)
<1>. DEFINE S == Items(a) \cup Items(b) \cup Items(c)  ab == a \o b
<1>1. a \in Seq(S) /\ b \in Seq(S) /\ c \in Seq(S)
  BY SequenceOfElements
<1>. HIDE DEF S
<1>2. ab \in Seq(S) /\ ScanEnd(start, ab) = ScanEnd(ScanEnd(start, a), b)
  BY <1>1, ConcatProperties, ScanJoins
<1>. HIDE DEF ab
<1>3. ab \o c \in Seq(S) /\ ScanEnd(start, ab \o c) = ScanEnd(ScanEnd(start, ab), c)
  BY <1>1, <1>2, ConcatProperties, ScanJoins
<1>4. IsSequence(ab \o c)
  BY <1>3, SequenceHasForm
<1>. QED  BY <1>2, <1>3, <1>4 DEF ab

LEMMA ScansOfThree ==
  ASSUME NEW a, IsSequence(a), NEW b, IsSequence(b), NEW c, IsSequence(c)
  PROVE  /\ IsSequence(a \o b \o c)
         /\ \A from : ScanEnd(from, a \o b \o c) = ScanEnd(ScanEnd(ScanEnd(from, a), b), c)
BY ScanOfThree

\* The characters of a string, as they are written, leave the scan inside it.
Stays(text, d) ==
  IsSequence(text) /\ \A m \in Nat : ScanEnd(InString(d, m), text) = InString(d, m)

LEMMA StaysAll ==
  ASSUME NEW d \in Nat, NEW seqs, IsSequence(seqs), \A i \in 1..Len(seqs) : Stays(seqs[i], d)
  PROVE  Stays(FlattenSeq(seqs), d)
<1>. DEFINE S == UNION {Items(seqs[i]) : i \in 1..Len(seqs)}
            T == {x \in Seq(S) : Stays(x, d)}
            Good == {u \in Seq(T) : Stays(FlattenSeq(u), d)}
<1>1. seqs \in Seq(T)
  <2>1. ASSUME NEW i \in 1..Len(seqs) PROVE seqs[i] \in T
    <3>1. IsSequence(seqs[i]) /\ Items(seqs[i]) \subseteq S
      BY DEF Stays
    <3>. HIDE DEF S
    <3>. QED  BY <3>1, SequenceOfElements
  <2>. HIDE DEF T
  <2>. QED  BY <2>1, SequenceOf
<1>2. T \subseteq Seq(S) /\ \A x \in T : Stays(x, d)
  OBVIOUS
<1>. HIDE DEF S, T
<1>3. Seq(T) \subseteq Seq(Seq(S))
  BY <1>2
<1>4. <<>> \in Good
  <2>1. \A m \in Nat : ScanEnd(InString(d, m), <<>>) = InString(d, m)
    BY ScanOfNothing
  <2>2. Stays(<<>>, d)
    BY <2>1, EmptyIsSequence DEF Stays
  <2>. QED  BY <2>2, FlattenNothing, EmptySeq
<1>5. ASSUME NEW u \in Seq(T), NEW x \in T, u \in Good PROVE Append(u, x) \in Good
  <2>1. FlattenSeq(Append(u, x)) = FlattenSeq(u) \o x
    BY <1>2, <1>3, FlattenAppend
  <2>2. FlattenSeq(u) \in Seq(S) /\ x \in Seq(S)
    BY <1>2, <1>3, FlattenType
  <2>. DEFINE joined == FlattenSeq(u)
  <2>3. Stays(joined, d) /\ Stays(x, d)
    BY <1>2, <1>5
  <2>. HIDE DEF joined
  <2>4. ASSUME NEW m \in Nat PROVE ScanEnd(InString(d, m), joined \o x) = InString(d, m)
    <3>1. ScanEnd(InString(d, m), joined \o x) = ScanEnd(ScanEnd(InString(d, m), joined), x)
      BY <2>2, ScanJoins DEF joined
    <3>. QED  BY <2>3, <3>1 DEF Stays
  <2>5. IsSequence(joined \o x)
    BY <2>3, Concatenation DEF Stays
  <2>6. Stays(joined \o x, d)
    BY <2>4, <2>5 DEF Stays
  <2>7. Append(u, x) \in Seq(T)
    BY AppendProperties
  <2>. QED  BY <2>1, <2>6, <2>7 DEF joined
<1>. HIDE DEF Good
<1>6. seqs \in Good
  BY <1>1, <1>4, <1>5, ByAppending
<1>. QED  BY <1>6 DEF Good

LEMMA PassesString ==
  ASSUME NEW d \in Nat, NEW text, IsSequence(text)
  PROVE  Passes(Quoted(text), d, FALSE)
<1>. DEFINE parts == [i \in DOMAIN text |->
                       IF text[i] \in {Quote, Backslash} THEN <<Backslash, text[i]>>
                       ELSE <<text[i]>>]
            joined == FlattenSeq(parts)
            mark == <<Quote>>
<1>1. DOMAIN text = 1..Len(text) /\ Len(text) \in Nat
  BY DomainOfSequence
<1>2. IsSequence(parts) /\ Len(parts) = Len(text)
  <2>1. DOMAIN parts = 1..Len(text) /\ parts = [i \in 1..Len(text) |-> parts[i]]
    BY <1>1
  <2>. HIDE DEF parts
  <2>. QED  BY <1>1, <2>1, NumberedIsSequence
<1>3. ASSUME NEW i \in 1..Len(text) PROVE Stays(parts[i], d)
  <2>. DEFINE c == text[i]
  <2>0. i \in DOMAIN text
    BY <1>1
  <2>1. parts[i] = IF c \in {Quote, Backslash} THEN <<Backslash, c>> ELSE <<c>>
    BY <2>0
  <2>. HIDE DEF c, parts
  <2>2. CASE c \in {Quote, Backslash}
    <3>1. ASSUME NEW m \in Nat PROVE ScanEnd(InString(d, m), <<Backslash, c>>) = InString(d, m)
      <4>1. d \in Int /\ m \in Int
        OBVIOUS
      <4>2. ScanEnd(InString(d, m), <<Backslash, c>>) = Scan(Scan(InString(d, m), Backslash), c)
        BY ScanOfTwo
      <4>3. Scan(InString(d, m), Backslash) = Escaped(d, m)
        BY <4>1, ScanSteps
      <4>4. Scan(Escaped(d, m), c) = InString(d, m)
        BY <4>1, ScanSteps
      <4>. QED  BY <4>2, <4>3, <4>4
    <3>2. IsSequence(<<Backslash, c>>)
      <4>1. <<Backslash, c>> \in Seq({Backslash, c})
        OBVIOUS
      <4>. QED  BY <4>1, SequenceHasForm
    <3>. QED  BY <2>1, <2>2, <3>1, <3>2 DEF Stays
  <2>3. CASE c \notin {Quote, Backslash}
    <3>1. ASSUME NEW m \in Nat PROVE ScanEnd(InString(d, m), <<c>>) = InString(d, m)
      <4>1. d \in Int /\ m \in Int /\ c # Quote /\ c # Backslash
        BY <2>3
      <4>2. Scan(InString(d, m), c) = InString(d, m)
        BY <4>1, ScanSteps
      <4>. QED  BY <4>2, ScanOfOne
    <3>. QED  BY <2>1, <2>3, <3>1, OneIsSequence DEF Stays
  <2>. QED  BY <2>2, <2>3
<1>4. Stays(joined, d)
  <2>. HIDE DEF parts
  <2>. QED  BY <1>2, <1>3, StaysAll
<1>5. Quoted(text) = mark \o joined \o mark
  BY DEF Quoted
<1>6. IsSequence(joined) /\ IsSequence(mark)
  BY <1>4, OneIsSequence DEF Stays
<1>. HIDE DEF joined
<1>7. ASSUME NEW m \in Nat
      PROVE  ScanEnd(Outside(d, m), mark \o joined \o mark) = Outside(d, m)
  <2>1. d \in Int /\ m \in Int
    OBVIOUS
  <2>2. ScanEnd(Outside(d, m), mark) = InString(d, m)
    <3>1. Scan(Outside(d, m), Quote) = InString(d, m)
      BY <2>1, ScanSteps
    <3>. QED  BY <3>1, ScanOfOne
  <2>3. ScanEnd(InString(d, m), joined) = InString(d, m)
    BY <1>4 DEF Stays
  <2>4. ScanEnd(InString(d, m), mark) = Outside(d, m)
    <3>1. Scan(InString(d, m), Quote) = Outside(d, m)
      BY <2>1, ScanSteps
    <3>. QED  BY <3>1, ScanOfOne
  <2>. HIDE DEF mark
  <2>5. ScanEnd(Outside(d, m), mark \o joined \o mark)
          = ScanEnd(ScanEnd(ScanEnd(Outside(d, m), mark), joined), mark)
    BY <1>6, ScanOfThree
  <2>. QED  BY <2>2, <2>3, <2>4, <2>5
<1>8. IsSequence(mark \o joined \o mark)
  <2>. HIDE DEF mark
  <2>. QED  BY <1>6, ScanOfThree
<1>. DEFINE written == mark \o joined \o mark
<1>. HIDE DEF mark, written
<1>9. Passes(written, d, FALSE)
  BY <1>7, <1>8 DEF Passes, written
<1>. QED  BY <1>5, <1>9 DEF written

LEMMA NextDepth ==
  ASSUME NEW d \in Nat
  PROVE  d \in Int /\ d + 1 \in Nat /\ d + 1 \in Int /\ (d + 1) - 1 = d
OBVIOUS

LEMMA DepthInside ==
  ASSUME NEW m \in Nat, NEW e \in Nat, NEW j, j = (IF m >= e THEN m ELSE e),
         NEW limit \in Nat
  PROVE  /\ j \in Nat /\ j >= e /\ j >= m
         /\ j > limit <=> m > limit \/ e > limit
OBVIOUS

LEMMA ThroughDepths ==
  ASSUME NEW m \in Nat, NEW j \in Nat, NEW k \in Nat, j >= m, k >= j
  PROVE  k >= m
OBVIOUS

\* A text between brackets is scanned one deeper.
LEMMA PassesBetween ==
  ASSUME NEW d \in Nat, NEW e \in Nat, NEW text, NEW p \in BOOLEAN, Passes(text, e, p),
         NEW first, IsSequence(first), NEW last, IsSequence(last),
         \A m \in Nat : ScanEnd(Outside(d, m), first) = Outside(e, IF m >= e THEN m ELSE e),
         \A k \in Nat : ScanEnd(Outside(e, k), last) = Outside(d, k)
  PROVE  Passes(first \o text \o last, d, e > MaxDepth \/ p)
<1>1. MaxDepth \in Nat
  BY LimitsAssumption
<1>. DEFINE written == first \o text \o last
<1>2. IsSequence(text)
  BY DEF Passes
<1>3. IsSequence(written)
  BY <1>2, ScansOfThree
<1>4. \A from : ScanEnd(from, written) = ScanEnd(ScanEnd(ScanEnd(from, first), text), last)
  BY <1>2, ScansOfThree
<1>. HIDE DEF written
<1>5. ASSUME NEW m \in Nat, m >= d
      PROVE  \E k \in Nat : /\ k >= m /\ ScanEnd(Outside(d, m), written) = Outside(d, k)
                            /\ k > MaxDepth <=> m > MaxDepth \/ (e > MaxDepth \/ p)
  <2>. DEFINE j == IF m >= e THEN m ELSE e
  <2>1. j \in Nat /\ j >= e /\ j >= m /\ (j > MaxDepth <=> m > MaxDepth \/ e > MaxDepth)
    BY <1>1, DepthInside
  <2>2. ScanEnd(Outside(d, m), first) = Outside(e, j)
    OBVIOUS
  <2>. HIDE DEF j
  <2>3. PICK k \in Nat : /\ k >= j /\ ScanEnd(Outside(e, j), text) = Outside(e, k)
                         /\ k > MaxDepth <=> j > MaxDepth \/ p
    BY <2>1 DEF Passes
  <2>4. ScanEnd(Outside(e, k), last) = Outside(d, k)
    OBVIOUS
  <2>5. ScanEnd(Outside(d, m), written) = Outside(d, k)
    BY <1>4, <2>2, <2>3, <2>4
  <2>6. k >= m
    BY <2>1, <2>3, ThroughDepths
  <2>7. k > MaxDepth <=> m > MaxDepth \/ (e > MaxDepth \/ p)
    BY <2>1, <2>3
  <2>. QED  BY <2>5, <2>6, <2>7
<1>6. Passes(written, d, e > MaxDepth \/ p)
  BY <1>3, <1>5 DEF Passes
<1>. QED  BY <1>6 DEF written

LEMMA PassesNested ==
  ASSUME NEW d \in Nat, NEW text, NEW p \in BOOLEAN, Passes(text, d + 1, p),
         NEW open \in {"[", "{"}, NEW close \in {"]", "}"}
  PROVE  Passes(<<open>> \o text \o <<close>>, d, d + 1 > MaxDepth \/ p)
<1>. DEFINE e == d + 1  first == <<open>>  last == <<close>>
<1>1. d \in Int /\ e \in Nat /\ e \in Int /\ e - 1 = d
  BY ONLY d \in Nat, NextDepth
<1>2. IsSequence(first) /\ IsSequence(last)
  BY OneIsSequence
<1>3. ASSUME NEW m \in Nat
      PROVE  ScanEnd(Outside(d, m), first) = Outside(e, IF m >= e THEN m ELSE e)
  <2>1. m \in Int
    BY NextDepth
  <2>2. Scan(Outside(d, m), open) = Outside(e, IF m >= e THEN m ELSE e)
    BY <1>1, <2>1, ScanSteps
  <2>. QED  BY <2>2, ScanOfOne
<1>4. ASSUME NEW k \in Nat PROVE ScanEnd(Outside(e, k), last) = Outside(d, k)
  <2>1. k \in Int
    BY NextDepth
  <2>. HIDE DEF e
  <2>2. Scan(Outside(e, k), close) = Outside(e - 1, k)
    BY <1>1, <2>1, ScanSteps
  <2>. QED  BY <1>1, <2>2, ScanOfOne
<1>5. Passes(text, e, p)
  OBVIOUS
<1>. HIDE DEF first, last, e
<1>6. Passes(first \o text \o last, d, e > MaxDepth \/ p)
  BY ONLY d \in Nat, p \in BOOLEAN, <1>1, <1>2, <1>3, <1>4, <1>5, PassesBetween
<1>. QED  BY <1>6 DEF first, last, e

\* Texts one after the other go deeper when one of them does.
LEMMA PassesFlatten ==
  ASSUME NEW d \in Nat, NEW seqs, IsSequence(seqs), NEW D,
         \A i \in 1..Len(seqs) : Passes(seqs[i], d, i \in D)
  PROVE  Passes(FlattenSeq(seqs), d, \E i \in 1..Len(seqs) : i \in D)
<1>. DEFINE S == UNION {Items(seqs[i]) : i \in 1..Len(seqs)}
            Goes(u) == \E i \in 1..Len(u) : i \in D
            Part(u) == \A i \in 1..Len(u) : u[i] \in Seq(S) /\ Passes(u[i], d, i \in D)
            Good == {u \in Seq(Seq(S)) : Part(u) => Passes(FlattenSeq(u), d, Goes(u))}
<1>1. \A i \in 1..Len(seqs) : seqs[i] \in Seq(S)
  <2>1. ASSUME NEW i \in 1..Len(seqs) PROVE seqs[i] \in Seq(S)
    <3>1. IsSequence(seqs[i]) /\ Items(seqs[i]) \subseteq S
      BY DEF Passes
    <3>. HIDE DEF S
    <3>. QED  BY <3>1, SequenceOfElements
  <2>. QED  BY <2>1
<1>. HIDE DEF S
<1>2. seqs \in Seq(Seq(S)) /\ Part(seqs)
  BY <1>1, SequenceOf
<1>3. <<>> \in Good
  <2>1. Len(<<>>) = 0 /\ <<>> \in Seq(Seq(S))
    BY EmptySeq
  <2>2. Goes(<<>>) = FALSE
    BY <2>1
  <2>3. Passes(FlattenSeq(<<>>), d, FALSE)
    BY FlattenNothing, PassesNothing
  <2>. QED  BY <2>1, <2>2, <2>3
<1>4. ASSUME NEW u \in Seq(Seq(S)), NEW x \in Seq(S), u \in Good PROVE Append(u, x) \in Good
  <2>. DEFINE n == Len(u)  more == Append(u, x)
  <2>1. /\ n \in Nat /\ Len(more) = n + 1 /\ more[n + 1] = x
        /\ \A i \in 1..n : more[i] = u[i]
    BY LenProperties, AppendProperties
  <2>2. more \in Seq(Seq(S))
    BY AppendProperties
  <2>3. FlattenSeq(more) = FlattenSeq(u) \o x
    BY FlattenAppend
  <2>. HIDE DEF more
  <2>4. ASSUME Part(more) PROVE Passes(FlattenSeq(more), d, Goes(more))
    <3>1. Part(u)
      <4>1. ASSUME NEW i \in 1..Len(u)
            PROVE  u[i] \in Seq(S) /\ Passes(u[i], d, i \in D)
        <5>1. i \in 1..Len(more) /\ more[i] = u[i]
          BY <2>1
        <5>2. more[i] \in Seq(S) /\ Passes(more[i], d, i \in D)
          BY <2>4, <5>1
        <5>. QED  BY <5>1, <5>2
      <4>. QED  BY <4>1
    <3>2. Passes(FlattenSeq(u), d, Goes(u))
      BY <1>4, <3>1
    <3>. DEFINE k == n + 1
    <3>3. Passes(x, d, k \in D)
      <4>1. k \in 1..Len(more) /\ more[k] = x
        BY <2>1
      <4>. HIDE DEF k, n
      <4>2. Passes(more[k], d, k \in D)
        BY <2>4, <4>1
      <4>. QED  BY <4>1, <4>2
    <3>. HIDE DEF k
    <3>4. Passes(FlattenSeq(u) \o x, d, Goes(u) \/ k \in D)
      <4>. DEFINE joined == FlattenSeq(u)  p == Goes(u)  q == k \in D
      <4>1. Passes(joined, d, p) /\ Passes(x, d, q) /\ p \in BOOLEAN /\ q \in BOOLEAN
        <5>1. Goes(u) \in BOOLEAN /\ (k \in D) \in BOOLEAN
          OBVIOUS
        <5>. HIDE DEF Goes
        <5>. QED  BY Zenon, <3>2, <3>3, <5>1
      <4>. HIDE DEF joined, p, q
      <4>2. Passes(joined \o x, d, p \/ q)
        BY <4>1, PassesBoth
      <4>. QED  BY <4>2 DEF joined, p, q
    <3>5. (Goes(u) \/ k \in D) = Goes(more)
      <4>1. \A i : i \in 1..(n + 1) <=> i \in 1..n \/ i = n + 1
        BY <2>1
      <4>2. \A i : i \in 1..Len(more) <=> i \in 1..Len(u) \/ i = k
        BY <2>1, <4>1 DEF k
      <4>. QED  BY <4>2
    <3>. HIDE DEF Goes, n
    <3>. QED  BY <2>3, <3>4, <3>5
  <2>. HIDE DEF Part, Goes
  <2>. QED  BY <2>2, <2>4 DEF more
<1>. HIDE DEF Good
<1>5. seqs \in Good
  BY <1>2, <1>3, <1>4, ByAppending
<1>. QED  BY <1>2, <1>5 DEF Good

LEMMA PassesSeparated ==
  ASSUME NEW d \in Nat, NEW parts, IsSequence(parts), NEW D,
         \A i \in 1..Len(parts) : Passes(parts[i], d, i \in D)
  PROVE  Passes(Separated(parts), d, \E i \in 1..Len(parts) : i \in D)
<1>. DEFINE seqs == [i \in DOMAIN parts |-> IF i = 1 THEN parts[i] ELSE <<",">> \o parts[i]]
            n == Len(parts)
<1>1. DOMAIN parts = 1..n /\ n \in Nat
  BY DomainOfSequence
<1>2. IsSequence(seqs) /\ Len(seqs) = n
  <2>1. DOMAIN seqs = 1..n /\ seqs = [i \in 1..n |-> seqs[i]]
    BY <1>1
  <2>. HIDE DEF seqs, n
  <2>. QED  BY <1>1, <2>1, NumberedIsSequence
<1>3. ASSUME NEW i \in 1..n PROVE Passes(seqs[i], d, i \in D)
  <2>1. seqs[i] = IF i = 1 THEN parts[i] ELSE <<",">> \o parts[i]
    BY <1>1
  <2>2. Passes(parts[i], d, i \in D)
    OBVIOUS
  <2>3. Passes(<<",">> \o parts[i], d, i \in D)
    <3>. DEFINE comma == <<",">>  part == parts[i]  q == i \in D
    <3>1. Passes(comma, d, FALSE)
      <4>1. "," # Quote /\ "," \notin Brackets
        BY DEF Quote, Brackets
      <4>. QED  BY <4>1, PassesOne
    <3>2. Passes(part, d, q) /\ q \in BOOLEAN /\ FALSE \in BOOLEAN
      BY <2>2
    <3>. HIDE DEF comma, part, q
    <3>3. Passes(comma \o part, d, FALSE \/ q)
      BY <3>1, <3>2, PassesBoth
    <3>4. (FALSE \/ q) = q
      BY <3>2
    <3>. QED  BY <3>3, <3>4 DEF comma, part, q
  <2>. HIDE DEF seqs
  <2>. QED  BY <2>1, <2>2, <2>3
<1>4. Separated(parts) = FlattenSeq(seqs)
  BY DEF Separated
<1>. HIDE DEF seqs
<1>5. Passes(FlattenSeq(seqs), d, \E i \in 1..Len(seqs) : i \in D)
  BY <1>2, <1>3, PassesFlatten
<1>. QED  BY <1>2, <1>4, <1>5

LEMMA PassesNeutral ==
  ASSUME NEW d \in Nat, NEW text, IsSequence(text),
         ToSet(text) \cap {Quote, "[", "{", "]", "}"} = {}
  PROVE  Passes(text, d, FALSE)
<1>. DEFINE S == {c \in Items(text) : c # Quote /\ c \notin Brackets}
            Good == {u \in Seq(S) : Passes(u, d, FALSE)}
<1>1. text \in Seq(S)
  <2>1. ASSUME NEW i \in 1..Len(text) PROVE text[i] \in S
    <3>1. text[i] \in ToSet(text)
      BY DomainOfSequence DEF ToSet
    <3>. QED  BY <3>1 DEF Items, Brackets
  <2>. HIDE DEF S
  <2>. QED  BY <2>1, SequenceOf
<1>2. \A c \in S : c # Quote /\ c \notin Brackets
  OBVIOUS
<1>. HIDE DEF S
<1>3. <<>> \in Good
  BY PassesNothing, EmptySeq
<1>4. ASSUME NEW u \in Seq(S), NEW c \in S, u \in Good PROVE Append(u, c) \in Good
  <2>1. Append(u, c) \in Seq(S) /\ Append(u, c) = u \o <<c>>
    BY AppendProperties, AppendIsConcat
  <2>. DEFINE one == <<c>>
  <2>2. Passes(one, d, FALSE)
    BY <1>2, PassesOne
  <2>3. Passes(u, d, FALSE)
    BY <1>4
  <2>. HIDE DEF one
  <2>4. Passes(u \o one, d, FALSE \/ FALSE)
    BY <2>2, <2>3, PassesBoth
  <2>5. (FALSE \/ FALSE) = FALSE
    OBVIOUS
  <2>6. Passes(u \o one, d, FALSE)
    BY <2>4, <2>5
  <2>. QED  BY <2>1, <2>6 DEF one
<1>. HIDE DEF Good
<1>5. text \in Good
  BY <1>1, <1>3, <1>4, ByAppending
<1>. QED  BY <1>5 DEF Good

\* The layers of a value are those of what is in it, one further down.
LEMMA LayerFromOutside ==
  ASSUME NEW v, NEW n \in 1..MaxDepth
  PROVE  \A x : x \in Layer(v, n) <=> \E w \in Within(v) : x \in Layer(w, n - 1)
<1>. DEFINE Same(m) == \A x : x \in Layer(v, m) <=> \E w \in Within(v) : x \in Layer(w, m - 1)
            Bad == {m \in Nat : m \in 1..MaxDepth /\ ~Same(m)}
<1>0. MaxDepth \in Nat
  BY LimitsAssumption
<1>1. SUFFICES ASSUME Bad # {} PROVE FALSE
  OBVIOUS
<1>2. PICK m \in Bad : \A k \in Bad : m <= k
  <2>1. Bad \subseteq Nat
    OBVIOUS
  <2>. HIDE DEF Bad
  <2>. QED  BY <1>1, <2>1, SomeLeast
<1>3. m \in 1..MaxDepth /\ m \in Nat /\ ~Same(m)
  OBVIOUS
<1>. DEFINE k == m - 1
<1>4. Layer(v, m) = UNION {Within(x) : x \in Layer(v, k)}
  BY <1>3, LayerUnfolds
<1>5. k = 0 \/ (k \in 1..MaxDepth /\ k \in Nat /\ ~(m <= k))
  BY <1>0, <1>3
<1>6. CASE k = 0
  <2>1. Layer(v, 0) = {v} /\ \A w \in Within(v) : Layer(w, 0) = {w}
    BY LayerUnfolds
  <2>2. \A x : x \in Layer(v, m) <=> x \in Within(v)
    BY <1>4, <1>6, <2>1
  <2>3. \A w \in Within(v) : Layer(w, k) = {w}
    BY <1>6, <2>1
  <2>. HIDE DEF k
  <2>4. \A x : x \in Layer(v, m) <=> \E w \in Within(v) : x \in Layer(w, k)
    BY <2>2, <2>3
  <2>. QED  BY <1>3, <2>4 DEF k
<1>7. CASE k \in 1..MaxDepth /\ k \in Nat /\ ~(m <= k)
  <2>1. Same(k)
    <3>1. k \notin Bad
      <4>. HIDE DEF Bad, k
      <4>. QED  BY <1>2, <1>7
    <3>. HIDE DEF Same
    <3>. QED  BY <1>7, <3>1
  <2>. DEFINE j == k - 1
  <2>2. \A x : x \in Layer(v, k) <=> \E w \in Within(v) : x \in Layer(w, j)
    BY <2>1
  <2>3. \A w : Layer(w, k) = UNION {Within(x) : x \in Layer(w, j)}
    <3>. HIDE DEF k
    <3>. QED  BY <1>7, LayerUnfolds
  <2>. HIDE DEF j, k, Same, Bad
  <2>4. \A x : x \in Layer(v, m) <=> \E w \in Within(v) : x \in Layer(w, k)
    BY <1>4, <2>2, <2>3
  <2>. QED  BY <1>3, <2>4 DEF k, Same
<1>. QED  BY <1>5, <1>6, <1>7

IsContainer(v) == v.kind \in {"array", "object"}

\* Inside d brackets, a value goes deeper than is let through.
Goes(v, d) == d <= MaxDepth /\ \E w \in Layer(v, MaxDepth - d) : IsContainer(w)

LEMMA ContainerGoes ==
  ASSUME NEW v, NEW d \in Nat, d <= MaxDepth
  PROVE  IsContainer(v) => (Goes(v, d) <=> d + 1 > MaxDepth \/ \E w \in Within(v) : Goes(w, d + 1))
<1>0. MaxDepth \in Nat
  BY LimitsAssumption
<1>. DEFINE n == MaxDepth - d
<1>1. CASE d = MaxDepth
  <2>1. n = 0 /\ d + 1 > MaxDepth
    BY <1>0, <1>1
  <2>2. Layer(v, n) = {v}
    BY <2>1, LayerUnfolds
  <2>. QED  BY <2>1, <2>2 DEF Goes
<1>2. CASE d # MaxDepth
  <2>1. n \in 1..MaxDepth /\ ~(d + 1 > MaxDepth) /\ d + 1 <= MaxDepth
        /\ n - 1 = MaxDepth - (d + 1)
    BY <1>0, <1>2
  <2>. DEFINE k == n - 1  e == d + 1
  <2>2. \A x : x \in Layer(v, n) <=> \E w \in Within(v) : x \in Layer(w, k)
    BY <2>1, LayerFromOutside
  <2>3. Goes(v, d) <=> \E x \in Layer(v, n) : IsContainer(x)
    BY DEF Goes
  <2>4. \A w : Goes(w, e) <=> \E x \in Layer(w, k) : IsContainer(x)
    BY <2>1 DEF Goes
  <2>5. ~(e > MaxDepth)
    BY <2>1
  <2>. HIDE DEF n, k, e
  <2>6. Goes(v, d) <=> \E w \in Within(v) : Goes(w, e)
    BY <2>2, <2>3, <2>4
  <2>. QED  BY <2>5, <2>6 DEF e
<1>. QED  BY <1>1, <1>2

LEMMA ScalarStays ==
  ASSUME NEW v, NEW d \in Nat, ~IsContainer(v)
  PROVE  ~Goes(v, d)
<1>0. MaxDepth \in Nat
  BY LimitsAssumption
<1>1. SUFFICES ASSUME d <= MaxDepth PROVE ~ \E w \in Layer(v, MaxDepth - d) : IsContainer(w)
  BY DEF Goes
<1>. DEFINE n == MaxDepth - d
<1>2. CASE d = MaxDepth
  <2>1. n = 0
    BY <1>0, <1>2
  <2>2. Layer(v, n) = {v}
    BY <2>1, LayerUnfolds
  <2>. QED  BY <2>2
<1>3. CASE d # MaxDepth
  <2>1. n \in 1..MaxDepth
    BY <1>0, <1>1, <1>3
  <2>2. Within(v) = {}
    BY DEF Within, IsContainer
  <2>. HIDE DEF n
  <2>3. \A x : x \notin Layer(v, n)
    BY <2>1, <2>2, LayerFromOutside
  <2>. QED  BY <2>3 DEF n
<1>. QED  BY <1>2, <1>3

LEMMA PartIsNoLonger ==
  ASSUME NEW seqs, IsSequence(seqs), \A i \in 1..Len(seqs) : IsSequence(seqs[i])
  PROVE  \A i \in 1..Len(seqs) : Len(seqs[i]) <= Len(FlattenSeq(seqs))
<1>. DEFINE S == UNION {Items(seqs[i]) : i \in 1..Len(seqs)}
            Good == {u \in Seq(Seq(S)) : \A i \in 1..Len(u) : Len(u[i]) <= Len(FlattenSeq(u))}
<1>1. ASSUME NEW i \in 1..Len(seqs) PROVE seqs[i] \in Seq(S)
  <2>1. IsSequence(seqs[i]) /\ Items(seqs[i]) \subseteq S
    OBVIOUS
  <2>. HIDE DEF S
  <2>. QED  BY <2>1, SequenceOfElements
<1>. HIDE DEF S
<1>2. seqs \in Seq(Seq(S))
  BY <1>1, SequenceOf
<1>3. <<>> \in Good
  <2>1. Len(<<>>) = 0 /\ <<>> \in Seq(Seq(S))
    BY EmptySeq
  <2>. QED  BY <2>1
<1>4. ASSUME NEW u \in Seq(Seq(S)), NEW x \in Seq(S), u \in Good PROVE Append(u, x) \in Good
  <2>. DEFINE n == Len(u)  more == Append(u, x)  joined == FlattenSeq(u)
  <2>1. /\ n \in Nat /\ Len(more) = n + 1 /\ more[n + 1] = x
        /\ \A i \in 1..n : more[i] = u[i]
    BY LenProperties, AppendProperties
  <2>2. more \in Seq(Seq(S))
    BY AppendProperties
  <2>3. FlattenSeq(more) = joined \o x
    BY FlattenAppend
  <2>4. joined \in Seq(S)
    BY FlattenType
  <2>5. \A i \in 1..n : Len(u[i]) <= Len(joined) /\ Len(u[i]) \in Nat
    <3>1. \A i \in 1..n : u[i] \in Seq(S)
      BY ElementOfSeq
    <3>2. \A i \in 1..n : Len(u[i]) <= Len(joined)
      BY <1>4
    <3>. HIDE DEF n, joined
    <3>. QED  BY <3>1, <3>2, LenProperties
  <2>. HIDE DEF more, joined
  <2>6. /\ Len(joined \o x) = Len(joined) + Len(x)
        /\ Len(joined) \in Nat /\ Len(x) \in Nat
    BY <2>4, ConcatProperties, LenProperties
  <2>7. ASSUME NEW i \in 1..Len(more) PROVE Len(more[i]) <= Len(FlattenSeq(more))
    <3>1. i = n + 1 \/ i \in 1..n
      BY <2>1
    <3>. HIDE DEF n
    <3>2. CASE i = n + 1
      BY <2>1, <2>3, <2>6, <3>2
    <3>3. CASE i \in 1..n
      BY <2>1, <2>3, <2>5, <2>6, <3>3
    <3>. QED  BY <3>1, <3>2, <3>3
  <2>. QED  BY <2>2, <2>7 DEF more
<1>. HIDE DEF Good
<1>5. seqs \in Good
  BY <1>2, <1>3, <1>4, ByAppending
<1>. QED  BY <1>5 DEF Good
Inside(v, i) == IF v.kind = "array" THEN v.members[i] ELSE v.members[i].value
PartOf(v, i) ==
  IF v.kind = "array" THEN WrittenJson(Inside(v, i))
  ELSE Quoted(v.members[i].key) \o <<":">> \o WrittenJson(Inside(v, i))
PartsWritten(v) == [i \in DOMAIN v.members |-> PartOf(v, i)]

LEMMA InsideIsWithin ==
  ASSUME NEW v \in Json, IsContainer(v)
  PROVE  /\ \A x : x \in Within(v) <=> \E i \in DOMAIN v.members : x = Inside(v, i)
         /\ \A i \in DOMAIN v.members : Inside(v, i) \in Json
<1>1. CASE v.kind = "array"
  <2>1. Within(v) = {v.members[i] : i \in DOMAIN v.members}
    BY <1>1 DEF Within, ToSet
  <2>2. \A i \in DOMAIN v.members : v.members[i] \in Json
    BY <1>1, JsonFacts
  <2>. QED  BY <1>1, <2>1, <2>2 DEF Inside
<1>2. CASE v.kind = "object"
  <2>1. Within(v) = {m.value : m \in {v.members[i] : i \in DOMAIN v.members}}
    BY <1>2 DEF Within, ToSet
  <2>2. \A i \in DOMAIN v.members : v.members[i].value \in Json
    BY <1>2, JsonFacts
  <2>3. \A i : Inside(v, i) = v.members[i].value
    BY <1>2 DEF Inside
  <2>. QED  BY <2>1, <2>2, <2>3
<1>. QED  BY <1>1, <1>2 DEF IsContainer

LEMMA WrittenContainer ==
  ASSUME NEW v \in Json, IsContainer(v)
  PROVE  \E open \in {"[", "{"}, close \in {"]", "}"} :
           WrittenJson(v) = <<open>> \o Separated(PartsWritten(v)) \o <<close>>
<1>1. CASE v.kind = "array"
  <2>1. WrittenJson(v)
          = <<"[">> \o Separated([i \in DOMAIN v.members |-> WrittenJson(v.members[i])]) \o <<"]">>
    BY <1>1, WrittenAssumption
  <2>2. [i \in DOMAIN v.members |-> WrittenJson(v.members[i])] = PartsWritten(v)
    BY <1>1 DEF PartsWritten, PartOf, Inside
  <2>3. WrittenJson(v) = <<"[">> \o Separated(PartsWritten(v)) \o <<"]">>
    BY <2>1, <2>2
  <2>. QED  BY <2>3
<1>2. CASE v.kind = "object"
  <2>1. WrittenJson(v)
          = <<"{">> \o Separated([i \in DOMAIN v.members |->
                          Quoted(v.members[i].key) \o <<":">>
                          \o WrittenJson(v.members[i].value)]) \o <<"}">>
    BY <1>2, WrittenAssumption
  <2>2. [i \in DOMAIN v.members |-> Quoted(v.members[i].key) \o <<":">>
                                    \o WrittenJson(v.members[i].value)] = PartsWritten(v)
    BY <1>2 DEF PartsWritten, PartOf, Inside
  <2>3. WrittenJson(v) = <<"{">> \o Separated(PartsWritten(v)) \o <<"}">>
    BY <2>1, <2>2
  <2>. QED  BY <2>3
<1>. QED  BY <1>1, <1>2 DEF IsContainer

LEMMA PartIsText ==
  ASSUME NEW v \in Json, IsContainer(v), NEW i \in DOMAIN v.members
  PROVE  /\ IsSequence(PartOf(v, i))
         /\ Len(WrittenJson(Inside(v, i))) <= Len(PartOf(v, i))
         /\ \A d \in Nat : \A p \in BOOLEAN :
              Passes(WrittenJson(Inside(v, i)), d, p) => Passes(PartOf(v, i), d, p)
<1>1. Inside(v, i) \in Json
  BY InsideIsWithin
<1>. DEFINE text == WrittenJson(Inside(v, i))
<1>2. IsSequence(text) /\ Len(text) \in Nat
  BY <1>1, WrittenAssumption DEF IsSequence
<1>3. CASE v.kind = "array"
  <2>1. PartOf(v, i) = text
    BY <1>3 DEF PartOf
  <2>. HIDE DEF text
  <2>2. Len(text) <= Len(text)
    BY <1>2
  <2>. QED  BY <1>2, <2>1, <2>2 DEF text
<1>4. CASE v.kind # "array"
  <2>. DEFINE key == v.members[i].key  quoted == Quoted(key)  colon == <<":">>  front == quoted \o colon
  <2>1. PartOf(v, i) = front \o text
    BY <1>4 DEF PartOf
  <2>2. IsSequence(key)
    <3>1. v.kind = "object"
      BY <1>4 DEF IsContainer
    <3>2. key \in Seq(DOMAIN Point)
      BY <3>1, JsonFacts
    <3>. QED  BY <3>2, SequenceHasForm
  <2>3. ASSUME NEW d \in Nat PROVE Passes(front, d, FALSE)
    <3>1. Passes(quoted, d, FALSE)
      BY <2>2, PassesString
    <3>2. Passes(colon, d, FALSE)
      <4>1. ":" # Quote /\ ":" \notin Brackets
        BY DEF Quote, Brackets
      <4>. QED  BY <4>1, PassesOne
    <3>. HIDE DEF quoted, colon
    <3>3. Passes(front, d, FALSE \/ FALSE)
      BY <3>1, <3>2, PassesBoth
    <3>4. (FALSE \/ FALSE) = FALSE
      OBVIOUS
    <3>. QED  BY <3>3, <3>4
  <2>. HIDE DEF text, front
  <2>4. IsSequence(front)
    <3>1. 0 \in Nat
      OBVIOUS
    <3>. QED  BY <2>3, <3>1 DEF Passes
  <2>5. IsSequence(front \o text) /\ Len(front \o text) = Len(front) + Len(text)
    BY <1>2, <2>4, Concatenation
  <2>6. Len(front) \in Nat
    BY <2>4 DEF IsSequence
  <2>7. ASSUME NEW d \in Nat, NEW p \in BOOLEAN, Passes(text, d, p)
        PROVE  Passes(front \o text, d, p)
    <3>1. Passes(front \o text, d, FALSE \/ p)
      BY <2>3, <2>7, PassesBoth
    <3>2. (FALSE \/ p) = p
      OBVIOUS
    <3>. QED  BY <3>1, <3>2
  <2>8. Len(text) <= Len(front \o text)
    BY <1>2, <2>5, <2>6
  <2>. QED  BY <2>1, <2>5, <2>7, <2>8 DEF text
<1>. QED  BY <1>3, <1>4

LEMMA PartsAreTexts ==
  ASSUME NEW v \in Json, IsContainer(v)
  PROVE  /\ DOMAIN v.members = 1..Len(v.members) /\ Len(v.members) \in Nat
         /\ IsSequence(PartsWritten(v)) /\ Len(PartsWritten(v)) = Len(v.members)
         /\ \A i \in DOMAIN v.members : PartsWritten(v)[i] = PartOf(v, i)
<1>. DEFINE n == Len(v.members)  parts == PartsWritten(v)
<1>1. DOMAIN v.members = 1..n /\ n \in Nat
  BY JsonFacts, DomainOfSequence
<1>2. DOMAIN parts = 1..n /\ parts = [i \in 1..n |-> parts[i]]
      /\ \A i \in DOMAIN v.members : parts[i] = PartOf(v, i)
  BY <1>1 DEF PartsWritten
<1>. HIDE DEF n, parts
<1>3. IsSequence(parts) /\ Len(parts) = n
  BY <1>1, <1>2, NumberedIsSequence
<1>. QED  BY <1>1, <1>2, <1>3 DEF n, parts

LEMMA OneBefore ==
  ASSUME NEW s, IsSequence(s), Len(s) = 1, NEW t, IsSequence(t)
  PROVE  IsSequence(s \o t) /\ Len(s \o t) = 1 + Len(t)
<1>1. IsSequence(s \o t) /\ Len(s \o t) = Len(s) + Len(t)
  BY Concatenation
<1>. QED  BY <1>1

LEMMA OneBehind ==
  ASSUME NEW s, IsSequence(s), NEW t, IsSequence(t), Len(t) = 1
  PROVE  IsSequence(s \o t) /\ Len(s \o t) = Len(s) + 1
<1>1. IsSequence(s \o t) /\ Len(s \o t) = Len(s) + Len(t)
  BY Concatenation
<1>. QED  BY <1>1

LEMMA WithinIsShorter ==
  ASSUME NEW v \in Json, NEW x \in Within(v)
  PROVE  x \in Json /\ Len(WrittenJson(x)) < Len(WrittenJson(v))
<1>1. IsContainer(v)
  BY DEF Within, IsContainer
<1>2. PICK i \in DOMAIN v.members : x = Inside(v, i)
  BY <1>1, InsideIsWithin
<1>3. x \in Json
  BY <1>1, <1>2, InsideIsWithin
<1>. DEFINE parts == PartsWritten(v)  n == Len(v.members)
            seqs == [k \in DOMAIN parts |-> IF k = 1 THEN parts[k] ELSE <<",">> \o parts[k]]
            joined == FlattenSeq(seqs)  short == WrittenJson(x)
<1>4. /\ DOMAIN v.members = 1..n /\ n \in Nat /\ IsSequence(parts) /\ Len(parts) = n
      /\ \A k \in 1..n : parts[k] = PartOf(v, k)
  BY <1>1, PartsAreTexts
<1>5. DOMAIN parts = 1..n
  BY <1>4, DomainOfSequence
<1>6. IsSequence(seqs) /\ Len(seqs) = n
  <2>1. DOMAIN seqs = 1..n /\ seqs = [k \in 1..n |-> seqs[k]]
    BY <1>5
  <2>. HIDE DEF seqs, n
  <2>. QED  BY <1>4, <2>1, NumberedIsSequence
<1>7. ASSUME NEW k \in 1..n
      PROVE  IsSequence(seqs[k]) /\ Len(seqs[k]) \in Nat /\ Len(PartOf(v, k)) <= Len(seqs[k])
  <2>. DEFINE part == PartOf(v, k)  comma == <<",">>
  <2>1. seqs[k] = IF k = 1 THEN part ELSE comma \o part
    BY <1>4, <1>5
  <2>2. IsSequence(part) /\ Len(part) \in Nat
    BY <1>1, <1>4, PartIsText DEF IsSequence
  <2>3. IsSequence(comma) /\ Len(comma) = 1
    BY OneIsSequence
  <2>. HIDE DEF part, comma, seqs
  <2>4. IsSequence(comma \o part) /\ Len(comma \o part) = 1 + Len(part)
    BY <2>2, <2>3, OneBefore
  <2>5. IsSequence(seqs[k]) /\ Len(part) <= Len(seqs[k])
    BY <2>1, <2>2, <2>4
  <2>6. Len(seqs[k]) \in Nat
    BY <2>5 DEF IsSequence
  <2>. QED  BY <2>5, <2>6 DEF part
<1>8. Separated(parts) = joined
  BY DEF Separated
<1>. HIDE DEF seqs, parts
<1>9. Len(seqs[i]) <= Len(joined)
  BY <1>4, <1>6, <1>7, PartIsNoLonger
<1>10. Len(short) <= Len(seqs[i])
  <2>1. Len(short) <= Len(PartOf(v, i)) /\ IsSequence(PartOf(v, i))
    BY <1>1, <1>2, PartIsText
  <2>2. Len(PartOf(v, i)) \in Nat
    BY <2>1 DEF IsSequence
  <2>3. Len(short) \in Nat
    BY <1>3, WrittenAssumption DEF IsSequence
  <2>. HIDE DEF short
  <2>. QED  BY <1>4, <1>7, <2>1, <2>2, <2>3
<1>11. IsSequence(joined)
  BY <1>6, <1>7, JoinedIsSequence
<1>12. PICK open, close : WrittenJson(v) = <<open>> \o joined \o <<close>>
  BY <1>1, <1>8, WrittenContainer DEF parts
<1>. DEFINE first == <<open>>  last == <<close>>  fj == first \o joined
<1>. HIDE DEF joined
<1>13. IsSequence(first) /\ Len(first) = 1 /\ IsSequence(last) /\ Len(last) = 1
  BY OneIsSequence
<1>. HIDE DEF first, last
<1>14. IsSequence(fj) /\ Len(fj) = 1 + Len(joined)
  BY <1>11, <1>13, OneBefore
<1>. HIDE DEF fj
<1>15. Len(fj \o last) = Len(fj) + 1
  BY <1>13, <1>14, OneBehind
<1>16. WrittenJson(v) = fj \o last
  BY <1>12 DEF fj, first, last
<1>17. Len(short) \in Nat /\ Len(joined) \in Nat /\ Len(seqs[i]) \in Nat
  <2>1. Len(short) \in Nat
    BY <1>3, WrittenAssumption DEF IsSequence
  <2>2. Len(joined) \in Nat
    BY <1>11 DEF IsSequence
  <2>. QED  BY <1>4, <1>7, <2>1, <2>2
<1>. HIDE DEF short
<1>18. Len(short) < Len(fj \o last)
  BY <1>9, <1>10, <1>14, <1>15, <1>17
<1>. QED  BY <1>3, <1>16, <1>18 DEF short

\* The text of a value is passed, and found to go too deep just when the value does.
LEMMA TextPasses ==
  ASSUME NEW v \in Json, NEW d \in Nat,
         \A x \in Within(v) : \A e \in Nat : Passes(WrittenJson(x), e, Goes(x, e))
  PROVE  Passes(WrittenJson(v), d, Goes(v, d))
<1>1. CASE IsContainer(v)
  <2>. DEFINE n == Len(v.members)  e == d + 1  D == {i \in 1..n : Goes(Inside(v, i), e)}
              parts == PartsWritten(v)  some == \E i \in 1..n : i \in D
              deeper == e > MaxDepth \/ some
  <2>1. /\ DOMAIN v.members = 1..n /\ n \in Nat /\ IsSequence(parts) /\ Len(parts) = n
        /\ \A i \in 1..n : parts[i] = PartOf(v, i)
    BY <1>1, PartsAreTexts
  <2>2. e \in Nat
    BY NextDepth
  <2>3. ASSUME NEW i \in 1..n PROVE Passes(parts[i], e, i \in D)
    <3>. DEFINE x == Inside(v, i)
    <3>1. x \in Within(v)
      BY <1>1, <2>1, InsideIsWithin
    <3>2. Passes(WrittenJson(x), e, Goes(x, e))
      BY <2>2, <3>1
    <3>3. Goes(x, e) = (i \in D)
      BY DEF Goes
    <3>. HIDE DEF e, D
    <3>4. Passes(WrittenJson(x), e, i \in D)
      BY <3>2, <3>3
    <3>. DEFINE q == i \in D
    <3>5. q \in BOOLEAN /\ Passes(WrittenJson(x), e, q)
      BY <3>4
    <3>. HIDE DEF q
    <3>6. Passes(PartOf(v, i), e, q)
      BY <1>1, <2>1, <2>2, <3>5, PartIsText
    <3>. QED  BY <2>1, <3>6 DEF q
  <2>4. Passes(Separated(parts), e, some)
    <3>. HIDE DEF D, parts, e, n
    <3>1. Passes(Separated(parts), e, \E i \in 1..Len(parts) : i \in D)
      BY <2>1, <2>2, <2>3, PassesSeparated
    <3>. QED  BY <2>1, <3>1
  <2>5. some <=> \E x \in Within(v) : Goes(x, e)
    <3>. HIDE DEF e
    <3>1. \A x : x \in Within(v) <=> \E i \in 1..n : x = Inside(v, i)
      BY <1>1, <2>1, InsideIsWithin
    <3>. QED  BY <3>1
  <2>6. Goes(v, d) \in BOOLEAN /\ some \in BOOLEAN /\ deeper \in BOOLEAN
    BY DEF Goes
  <2>7. d <= MaxDepth => (deeper <=> Goes(v, d))
    BY <1>1, <2>5, ContainerGoes
  <2>8. PICK open \in {"[", "{"}, close \in {"]", "}"} :
          WrittenJson(v) = <<open>> \o Separated(parts) \o <<close>>
    BY <1>1, WrittenContainer
  <2>9. Passes(WrittenJson(v), d, deeper)
    <3>. DEFINE text == Separated(parts)
    <3>1. Passes(text, d + 1, some)
      BY <2>4
    <3>. HIDE DEF text, some
    <3>2. Passes(<<open>> \o text \o <<close>>, d, d + 1 > MaxDepth \/ some)
      BY <2>6, <3>1, PassesNested
    <3>. QED  BY <2>8, <3>2 DEF text
  <2>. DEFINE goes == Goes(v, d)
  <2>. HIDE DEF deeper, goes
  <2>10. goes \in BOOLEAN /\ (d <= MaxDepth => (deeper <=> goes))
    BY <2>6, <2>7 DEF goes
  <2>11. Passes(WrittenJson(v), d, goes)
    BY <2>6, <2>9, <2>10, PassesSame
  <2>. QED  BY <2>11 DEF goes
<1>2. CASE ~IsContainer(v)
  <2>1. Passes(WrittenJson(v), d, FALSE)
    <3>1. CASE v.kind = "string"
      <4>1. WrittenJson(v) = Quoted(v.text)
        BY <3>1, WrittenAssumption
      <4>2. IsSequence(v.text)
        BY JsonAssumption
      <4>. QED  BY <4>1, <4>2, PassesString
    <3>2. CASE v.kind # "string"
      <4>1. v.kind \notin {"array", "object", "string"}
        BY <1>2, <3>2 DEF IsContainer
      <4>2. WrittenJson(v) = v.text /\ ToSet(v.text) \cap {Quote, "[", "{", "]", "}"} = {}
        BY <4>1, WrittenAssumption
      <4>3. IsSequence(v.text)
        BY JsonAssumption
      <4>. QED  BY <4>2, <4>3, PassesNeutral
    <3>. QED  BY <3>1, <3>2
  <2>2. Goes(v, d) = FALSE
    <3>1. ~Goes(v, d)
      BY <1>2, ScalarStays
    <3>. QED  BY <3>1 DEF Goes
  <2>. QED  BY <2>1, <2>2
<1>. QED  BY <1>1, <1>2

LEMMA EveryTextPasses ==
  ASSUME NEW v \in Json, NEW d \in Nat
  PROVE  Passes(WrittenJson(v), d, Goes(v, d))
<1>. DEFINE Fails(x) == \E e \in Nat : ~Passes(WrittenJson(x), e, Goes(x, e))
            Bad == {n \in Nat : \E x \in Json : Len(WrittenJson(x)) = n /\ Fails(x)}
<1>0. \A x \in Json : Len(WrittenJson(x)) \in Nat
  BY WrittenAssumption DEF IsSequence
<1>1. SUFFICES ASSUME Bad # {} PROVE FALSE
  BY <1>0
<1>2. PICK n \in Bad : \A m \in Bad : n <= m
  <2>1. Bad \subseteq Nat
    OBVIOUS
  <2>. HIDE DEF Bad
  <2>. QED  BY <1>1, <2>1, SomeLeast
<1>3. PICK x \in Json : Len(WrittenJson(x)) = n /\ Fails(x)
  OBVIOUS
<1>4. ASSUME NEW w \in Within(x) PROVE \A e \in Nat : Passes(WrittenJson(w), e, Goes(w, e))
  <2>1. w \in Json /\ Len(WrittenJson(w)) < n
    BY <1>3, WithinIsShorter
  <2>2. Len(WrittenJson(w)) \notin Bad
    <3>1. ~(n <= Len(WrittenJson(w)))
      BY <1>0, <1>3, <2>1
    <3>. HIDE DEF Bad
    <3>. QED  BY <1>2, <3>1
  <2>3. ~Fails(w)
    <3>. HIDE DEF Fails
    <3>. QED  BY <1>0, <2>1, <2>2
  <2>. QED  BY <2>3
<1>5. \A e \in Nat : Passes(WrittenJson(x), e, Goes(x, e))
  BY <1>4, TextPasses
<1>. QED  BY <1>3, <1>5

\* What a scan keeps.
ScanStates == [depth : Int, deepest : Int, in_string : BOOLEAN, escaped : BOOLEAN]

LEMMA ScanTyped ==
  ASSUME NEW z \in ScanStates, NEW c
  PROVE  /\ Scan(z, c) \in ScanStates
         /\ c \notin {"[", "{"} => Scan(z, c).deepest = z.deepest
<1>1. /\ z.depth \in Int /\ z.deepest \in Int /\ z.in_string \in BOOLEAN /\ z.escaped \in BOOLEAN
      /\ z = [depth |-> z.depth, deepest |-> z.deepest, in_string |-> z.in_string,
              escaped |-> z.escaped]
  BY DEF ScanStates
<1>2. CASE z.in_string
  <2>1. Scan(z, c) = [z EXCEPT !.escaped = ~z.escaped /\ c = Backslash,
                               !.in_string = z.escaped \/ c # Quote]
    BY <1>2 DEF Scan
  <2>2. (~z.escaped /\ c = Backslash) \in BOOLEAN /\ (z.escaped \/ c # Quote) \in BOOLEAN
    OBVIOUS
  <2>. QED  BY <2>1, <2>2 DEF ScanStates
<1>3. CASE ~z.in_string /\ c = Quote
  <2>1. Scan(z, c) = [z EXCEPT !.in_string = TRUE]
    <3>1. c \notin {"[", "{"} /\ c \notin {"]", "}"}
      BY <1>3 DEF Quote
    <3>. QED  BY <1>3, <3>1 DEF Scan
  <2>. QED  BY <2>1 DEF ScanStates
<1>4. CASE ~z.in_string /\ c # Quote /\ c \in {"[", "{"}
  <2>. DEFINE m == Max({z.deepest, z.depth + 1})
  <2>1. Scan(z, c) = [z EXCEPT !.depth = z.depth + 1, !.deepest = m]
    BY <1>4 DEF Scan
  <2>2. m \in Int /\ z.depth + 1 \in Int
    <3>1. m = IF z.deepest >= z.depth + 1 THEN z.deepest ELSE z.depth + 1
      BY <1>1, LargerDepth
    <3>. HIDE DEF m
    <3>. QED  BY <1>1, <3>1
  <2>. HIDE DEF m
  <2>3. Scan(z, c) \in ScanStates
    BY <2>1, <2>2 DEF ScanStates
  <2>. QED  BY <1>4, <2>3
<1>5. CASE ~z.in_string /\ c # Quote /\ c \notin {"[", "{"} /\ c \in {"]", "}"}
  <2>1. Scan(z, c) = [z EXCEPT !.depth = z.depth - 1]
    BY <1>5 DEF Scan
  <2>2. z.depth - 1 \in Int
    BY <1>1
  <2>. QED  BY <2>1, <2>2 DEF ScanStates
<1>6. CASE ~z.in_string /\ c # Quote /\ c \notin {"[", "{"} /\ c \notin {"]", "}"}
  <2>1. Scan(z, c) = z
    BY <1>6 DEF Scan
  <2>. QED  BY <2>1
<1>. QED  BY <1>2, <1>3, <1>4, <1>5, <1>6

LEMMA ScanEndTyped ==
  ASSUME NEW z \in ScanStates, NEW S, NEW text \in Seq(S)
  PROVE  ScanEnd(z, text) \in ScanStates
<1>. DEFINE Good == {u \in Seq(S) : ScanEnd(z, u) \in ScanStates}
<1>1. <<>> \in Good
  BY ScanOfNothing, EmptySeq
<1>2. ASSUME NEW u \in Seq(S), NEW c \in S, u \in Good PROVE Append(u, c) \in Good
  <2>1. ScanEnd(z, Append(u, c)) = Scan(ScanEnd(z, u), c)
    BY ScanAppends
  <2>2. ScanEnd(z, u) \in ScanStates
    BY <1>2
  <2>3. Scan(ScanEnd(z, u), c) \in ScanStates
    BY <2>2, ScanTyped
  <2>. QED  BY <2>1, <2>3, AppendProperties
<1>. HIDE DEF Good
<1>3. text \in Good
  BY <1>1, <1>2, ByAppending
<1>. QED  BY <1>3 DEF Good

LEMMA PositiveLength ==
  ASSUME NEW n \in Nat, n > 0
  PROVE  /\ n \in Nat /\ 1 \in Int /\ 1 \in 1..n /\ n \in 1..n /\ n - 1 \in Int
         /\ \A i \in 1..(n - 1) : i \in 1..n
OBVIOUS

\* The end that is cut off opens nothing.
LEMMA CutChangesNothing ==
  ASSUME NEW z \in ScanStates, NEW text, IsSequence(text), Len(text) > 0,
         text[Len(text)] \notin {"[", "{"}
  PROVE  ScanEnd(z, text).deepest = ScanEnd(z, Front(text)).deepest
<1>. DEFINE S == Items(text)  n == Len(text)  rest == SubSeq(text, 1, n - 1)  c == text[n]
<1>1. text \in Seq(S)
  BY SequenceOfElements
<1>2. /\ n \in Nat /\ 1 \in Int /\ 1 \in 1..n /\ n \in 1..n /\ n - 1 \in Int
      /\ \A i \in 1..(n - 1) : i \in 1..n
  <2>1. n \in Nat /\ n > 0
    BY DEF IsSequence
  <2>. HIDE DEF n
  <2>. QED  BY ONLY <2>1, PositiveLength
<1>3. c \in S
  BY <1>2 DEF Items
<1>. HIDE DEF S
<1>4. text = rest \o <<c>>
  <2>1. SubSeq(text, 1, n) = text
    BY <1>1, SubSeqFull
  <2>2. SubSeq(text, 1, n) = SubSeq(text, 1, n - 1) \o <<text[n]>>
    BY <1>1, <1>2, SubSeqRecursiveSecond
  <2>. QED  BY <2>1, <2>2
<1>5. rest \in Seq(S)
  <2>1. \A i \in 1..(n - 1) : text[i] \in S
    BY <1>1, <1>2, ElementOfSeq
  <2>2. 1 \in Int /\ n - 1 \in Int
    <3>. HIDE DEF n
    <3>. QED  BY ONLY <1>2
  <2>. DEFINE k == n - 1
  <2>. HIDE DEF k
  <2>3. SubSeq(text, 1, k) \in Seq(S)
    BY <2>1, <2>2, SubSeqProperties DEF k
  <2>. QED  BY <2>3 DEF k
<1>6. Front(text) = rest
  BY DEF Front
<1>7. c \notin {"[", "{"}
  OBVIOUS
<1>. HIDE DEF rest, c
<1>8. Append(rest, c) = text
  BY <1>3, <1>4, <1>5, AppendIsConcat
<1>9. ScanEnd(z, text) = Scan(ScanEnd(z, rest), c)
  BY <1>3, <1>5, <1>8, ScanAppends
<1>10. ScanEnd(z, rest) \in ScanStates
  BY <1>5, ScanEndTyped
<1>11. Scan(ScanEnd(z, rest), c).deepest = ScanEnd(z, rest).deepest
  BY <1>7, <1>10, ScanTyped
<1>. QED  BY <1>6, <1>9, <1>11

LEMMA LastIsLast ==
  ASSUME NEW s, IsSequence(s), NEW c, NEW text, text = s \o <<c>>
  PROVE  Len(text) > 0 /\ text[Len(text)] = c
<1>. DEFINE one == <<c>>
<1>1. IsSequence(one) /\ Len(one) = 1 /\ one[1] = c
  BY OneIsSequence
<1>2. text = s \o one
  OBVIOUS
<1>. HIDE DEF one
<1>9. IsSequence(one)
  BY <1>1
<1>10. Len(s \o one) = Len(s) + Len(one)
  BY <1>9, Concatenation
<1>3. \A i \in 1..Len(one) : (s \o one)[Len(s) + i] = one[i]
  BY <1>9, Concatenation
<1>4. Len(s) \in Nat /\ 1 \in 1..Len(one)
  BY <1>1 DEF IsSequence
<1>5. (s \o one)[Len(s) + 1] = c
  BY <1>1, <1>3, <1>4
<1>6. Len(s \o one) = Len(s) + 1 /\ Len(s) + 1 > 0
  BY <1>1, <1>10, <1>4
<1>. QED  BY <1>2, <1>5, <1>6

LEMMA SeparatedIsSequence ==
  ASSUME NEW parts, IsSequence(parts), \A i \in 1..Len(parts) : IsSequence(parts[i])
  PROVE  IsSequence(Separated(parts))
<1>. DEFINE seqs == [k \in DOMAIN parts |-> IF k = 1 THEN parts[k] ELSE <<",">> \o parts[k]]
            n == Len(parts)
<1>1. DOMAIN parts = 1..n /\ n \in Nat
  BY DomainOfSequence
<1>2. IsSequence(seqs) /\ Len(seqs) = n
  <2>1. DOMAIN seqs = 1..n /\ seqs = [k \in 1..n |-> seqs[k]]
    BY <1>1
  <2>. HIDE DEF seqs, n
  <2>. QED  BY <1>1, <2>1, NumberedIsSequence
<1>3. ASSUME NEW k \in 1..n PROVE IsSequence(seqs[k])
  <2>. DEFINE comma == <<",">>
  <2>1. seqs[k] = IF k = 1 THEN parts[k] ELSE comma \o parts[k]
    BY <1>1
  <2>2. IsSequence(comma) /\ IsSequence(parts[k])
    BY OneIsSequence
  <2>. HIDE DEF comma, seqs
  <2>3. IsSequence(comma \o parts[k])
    BY <2>2, Concatenation
  <2>. QED  BY <2>1, <2>2, <2>3
<1>. HIDE DEF seqs
<1>4. IsSequence(FlattenSeq(seqs))
  BY <1>2, <1>3, JoinedIsSequence
<1>. QED  BY <1>4 DEF Separated, seqs

LEMMA TextEndsShut ==
  ASSUME NEW v \in Json
  PROVE  LET text == WrittenJson(v) IN
         Len(text) > 0 /\ text[Len(text)] \notin {"[", "{"}
<1>. DEFINE text == WrittenJson(v)
<1>1. CASE IsContainer(v)
  <2>1. PICK open \in {"[", "{"}, close \in {"]", "}"} :
          text = <<open>> \o Separated(PartsWritten(v)) \o <<close>>
    BY <1>1, WrittenContainer
  <2>. DEFINE joined == Separated(PartsWritten(v))  front == <<open>> \o joined
  <2>2. IsSequence(joined)
    <3>. DEFINE parts == PartsWritten(v)
    <3>1. /\ IsSequence(parts) /\ DOMAIN v.members = 1..Len(parts)
          /\ \A i \in 1..Len(parts) : parts[i] = PartOf(v, i)
      BY <1>1, PartsAreTexts
    <3>. HIDE DEF parts
    <3>2. \A i \in 1..Len(parts) : IsSequence(parts[i])
      BY <1>1, <3>1, PartIsText
    <3>3. IsSequence(Separated(parts))
      BY <3>1, <3>2, SeparatedIsSequence
    <3>. QED  BY <3>3 DEF parts
  <2>. HIDE DEF joined
  <2>3. IsSequence(front)
    BY <2>2, OneIsSequence, Concatenation
  <2>4. text = front \o <<close>>
    BY <2>1 DEF joined
  <2>5. close \notin {"[", "{"}
    OBVIOUS
  <2>. HIDE DEF front, text
  <2>6. Len(text) > 0 /\ text[Len(text)] = close
    BY <2>3, <2>4, LastIsLast
  <2>. QED  BY <2>5, <2>6 DEF text
<1>2. CASE ~IsContainer(v) /\ v.kind = "string"
  <2>. DEFINE parts == [i \in DOMAIN v.text |->
                         IF v.text[i] \in {Quote, Backslash} THEN <<Backslash, v.text[i]>>
                         ELSE <<v.text[i]>>]
              joined == FlattenSeq(parts)  mark == <<Quote>>  front == mark \o joined
  <2>1. text = front \o <<Quote>>
    BY <1>2, WrittenAssumption DEF Quoted
  <2>2. DOMAIN v.text = 1..Len(v.text) /\ Len(v.text) \in Nat
    BY JsonAssumption, DomainOfSequence
  <2>3. IsSequence(parts) /\ Len(parts) = Len(v.text)
    <3>1. DOMAIN parts = 1..Len(v.text) /\ parts = [i \in 1..Len(v.text) |-> parts[i]]
      BY <2>2
    <3>. HIDE DEF parts
    <3>. QED  BY <2>2, <3>1, NumberedIsSequence
  <2>4. ASSUME NEW i \in 1..Len(parts) PROVE IsSequence(parts[i])
    <3>. DEFINE c == v.text[i]
    <3>1. parts[i] = IF c \in {Quote, Backslash} THEN <<Backslash, c>> ELSE <<c>>
      BY <2>2, <2>3
    <3>2. IsSequence(<<Backslash, c>>) /\ IsSequence(<<c>>)
      BY OneIsSequence, TwoIsSequence
    <3>. HIDE DEF parts, c
    <3>. QED  BY <3>1, <3>2
  <2>. HIDE DEF parts
  <2>5. IsSequence(joined)
    BY <2>3, <2>4, JoinedIsSequence
  <2>6. IsSequence(mark)
    BY OneIsSequence
  <2>. HIDE DEF joined, mark
  <2>7. IsSequence(front)
    BY <2>5, <2>6, Concatenation
  <2>. HIDE DEF front, text
  <2>8. Len(text) > 0 /\ text[Len(text)] = Quote
    BY <2>1, <2>7, LastIsLast
  <2>. QED  BY <2>8 DEF text, Quote
<1>3. CASE ~IsContainer(v) /\ v.kind # "string"
  <2>1. v.kind \notin {"array", "object", "string"}
    BY <1>3 DEF IsContainer
  <2>2. text = v.text /\ v.text # <<>> /\ ToSet(v.text) \cap {Quote, "[", "{", "]", "}"} = {}
    BY <2>1, WrittenAssumption
  <2>3. IsSequence(v.text)
    BY JsonAssumption
  <2>. DEFINE s == v.text  n == Len(s)
  <2>4. n \in Nat /\ DOMAIN s = 1..n /\ s \in Seq(Items(s))
    BY <2>3, DomainOfSequence, SequenceOfElements
  <2>5. n # 0
    BY <2>2, <2>4, EmptySeq
  <2>6. n > 0 /\ n \in DOMAIN s
    BY <2>4, <2>5
  <2>7. s[n] \in ToSet(s)
    BY <2>6 DEF ToSet
  <2>8. s[n] \notin {"[", "{"}
    BY <2>2, <2>7
  <2>. QED  BY <2>2, <2>6, <2>8
<1>. QED  BY <1>1, <1>2, <1>3

SeesNesting(body) ==
  LET text == WrittenJson(body.value) IN
  TooDeep(IF body.bytes = "cut" THEN Front(text) ELSE text) <=> Nested(body)

(* The scan counts the brackets of the raw text, and is not misled by those in a string, by
   an escaped quote, or by an end that was cut off: whatever value was written, it reports the
   text as too deep just when the value has a container below the layers that are let
   through. *)
THEOREM ScanMeasuresNesting ==
  \A body : body.value \in Json => SeesNesting(body)
<1>1. SUFFICES ASSUME NEW body, body.value \in Json PROVE SeesNesting(body)
  OBVIOUS
<1>. DEFINE v == body.value  text == WrittenJson(v)  start == Outside(0, 0)
<1>2. \A t : TooDeep(t) <=> ScanEnd(start, t).deepest > MaxDepth
  BY DEF TooDeep, ScanEnd, Scanned, Outside
<1>3. start \in ScanStates
  BY DEF Outside, ScanStates
<1>4. ScanEnd(start, text).deepest > MaxDepth <=> Goes(v, 0)
  <2>1. 0 \in Nat /\ 0 >= 0
    OBVIOUS
  <2>2. Passes(text, 0, Goes(v, 0))
    BY <1>1, <2>1, EveryTextPasses
  <2>3. PICK k \in Nat : /\ ScanEnd(Outside(0, 0), text) = Outside(0, k)
                         /\ k > MaxDepth <=> 0 > MaxDepth \/ Goes(v, 0)
    BY <2>1, <2>2 DEF Passes
  <2>4. ~(0 > MaxDepth)
    BY LimitsAssumption
  <2>5. Outside(0, k).deepest = k
    BY DEF Outside
  <2>. QED  BY <2>3, <2>4, <2>5
<1>5. Goes(v, 0) <=> Nested(body)
  <2>1. 0 <= MaxDepth /\ MaxDepth - 0 = MaxDepth
    BY LimitsAssumption
  <2>. QED  BY <2>1 DEF Goes, Nested, IsContainer
<1>6. ScanEnd(start, text).deepest = ScanEnd(start, Front(text)).deepest
  <2>1. IsSequence(text) /\ Len(text) > 0 /\ text[Len(text)] \notin {"[", "{"}
    BY <1>1, WrittenAssumption, TextEndsShut
  <2>. HIDE DEF start, text
  <2>. QED  BY <1>3, <2>1, CutChangesNothing
<1>7. TooDeep(text) <=> Nested(body)
  BY <1>2, <1>4, <1>5
<1>8. TooDeep(Front(text)) <=> Nested(body)
  BY <1>2, <1>4, <1>5, <1>6
<1>. QED  BY <1>7, <1>8 DEF SeesNesting

-----------------------------------------------------------------------------
(* What a request is refused for                                             *)

\* The values a path passes by, the first of them the body.
Trail(value, path, f) ==
  f = [n \in 0..(Len(path) - 1) |-> IF n = 0 THEN value ELSE Inner(f[n - 1], path[n])]

LEMMA LeadsAlong ==
  ASSUME NEW value, NEW path, Len(path) \in Nat, NEW g, Trail(value, path, g)
  PROVE  Leads(value, path) <=> path = <<>> \/ g[Len(path) - 1].kind \in {"object", "array"}
<1>. DEFINE f == CHOOSE f : Trail(value, path, f)  last == Len(path) - 1
<1>1. Trail(value, path, f)
  OBVIOUS
<1>2. Leads(value, path) <=> path = <<>> \/ f[last].kind \in {"object", "array"}
  BY DEF Leads, Trail
<1>. HIDE DEF f
<1>3. last \in Int
  OBVIOUS
<1>. DEFINE Bad == {n \in Nat : n <= last /\ f[n] # g[n]}
<1>4. Bad = {}
  <2>. SUFFICES ASSUME Bad # {} PROVE FALSE
    OBVIOUS
  <2>1. PICK n \in Bad : \A m \in Bad : n <= m
    <3>1. Bad \subseteq Nat
      OBVIOUS
    <3>. HIDE DEF Bad
    <3>. QED  BY <3>1, SomeLeast
  <2>2. n \in 0..last /\ n \in Nat /\ f[n] # g[n]
    BY <1>3
  <2>3. f[n] = (IF n = 0 THEN value ELSE Inner(f[n - 1], path[n]))
        /\ g[n] = (IF n = 0 THEN value ELSE Inner(g[n - 1], path[n]))
    BY <1>1, <2>2 DEF Trail
  <2>4. n # 0
    BY <2>2, <2>3
  <2>5. n - 1 \in Nat /\ n - 1 <= last /\ ~(n <= n - 1)
    BY <1>3, <2>2, <2>4
  <2>6. f[n - 1] = g[n - 1]
    BY <2>1, <2>5
  <2>. QED  BY <2>2, <2>3, <2>4, <2>6
<1>5. CASE path = <<>>
  BY <1>2, <1>5
<1>6. CASE path # <<>>
  <2>1. Len(path) # 0 => f[last] = g[last]
    BY <1>3, <1>4
  <2>2. Len(path) = 0 => f = g
    BY <1>1, <2>1 DEF Trail
  <2>. QED  BY <1>2, <2>1, <2>2
<1>. QED  BY <1>5, <1>6

\* The paths of a body have at most four keys.
LEMMA ShortTrail ==
  ASSUME NEW value, NEW path, NEW n \in 1..4, Len(path) = n,
         NEW a, NEW b, NEW c,
         n >= 2 => a = Inner(value, path[1]),
         n >= 3 => b = Inner(a, path[2]),
         n >= 4 => c = Inner(b, path[3]),
         NEW last, last = (IF n = 1 THEN value ELSE IF n = 2 THEN a ELSE IF n = 3 THEN b ELSE c),
         last.kind \in {"object", "array"}
  PROVE  Leads(value, path)
<1>. DEFINE g == [k \in 0..(n - 1) |-> IF k = 0 THEN value
                                       ELSE IF k = 1 THEN a ELSE IF k = 2 THEN b ELSE c]
<1>1. g = [k \in 0..(n - 1) |-> IF k = 0 THEN value ELSE Inner(g[k - 1], path[k])]
  <2>1. ASSUME NEW k \in 0..(n - 1)
        PROVE  g[k] = IF k = 0 THEN value ELSE Inner(g[k - 1], path[k])
    <3>1. g[0] = value /\ (n >= 2 => g[1] = a) /\ (n >= 3 => g[2] = b) /\ (n >= 4 => g[3] = c)
      OBVIOUS
    <3>. HIDE DEF g
    <3>2. \/ k = 0
          \/ k = 1 /\ n >= 2 /\ k - 1 = 0
          \/ k = 2 /\ n >= 3 /\ n >= 2 /\ k - 1 = 1
          \/ k = 3 /\ n >= 4 /\ n >= 3 /\ n >= 2 /\ k - 1 = 2
      OBVIOUS
    <3>. QED  BY <3>1, <3>2
  <2>. DEFINE Step(k) == IF k = 0 THEN value ELSE Inner(g[k - 1], path[k])
  <2>2. \A k \in 0..(n - 1) : g[k] = Step(k)
    BY <2>1
  <2>3. g = [k \in 0..(n - 1) |-> g[k]]
    OBVIOUS
  <2>. HIDE DEF g, Step
  <2>4. g = [k \in 0..(n - 1) |-> Step(k)]
    BY <2>2, <2>3
  <2>. QED  BY <2>4 DEF Step
<1>2. g[n - 1] = last
  OBVIOUS
<1>. HIDE DEF g
<1>3. Trail(value, path, g)
  BY <1>1 DEF Trail
<1>4. Len(path) \in Nat
  OBVIOUS
<1>. QED  BY <1>2, <1>3, <1>4, LeadsAlong

LEMMA TrailOfThree ==
  ASSUME NEW value, NEW path, Len(path) = 3, NEW a, a = Inner(value, path[1]),
         NEW b, b = Inner(a, path[2]), b.kind \in {"object", "array"}
  PROVE  Leads(value, path)
<1>1. 3 \in 1..4 /\ b = (IF 3 = 1 THEN value ELSE IF 3 = 2 THEN a ELSE IF 3 = 3 THEN b ELSE b)
  OBVIOUS
<1>. QED  BY <1>1, ShortTrail

LEMMA TrailOfFour ==
  ASSUME NEW value, NEW path, Len(path) = 4, NEW a, a = Inner(value, path[1]),
         NEW b, b = Inner(a, path[2]), NEW c, c = Inner(b, path[3]),
         c.kind \in {"object", "array"}
  PROVE  Leads(value, path)
<1>1. 4 \in 1..4 /\ c = (IF 4 = 1 THEN value ELSE IF 4 = 2 THEN a ELSE IF 4 = 3 THEN b ELSE c)
  OBVIOUS
<1>. QED  BY <1>1, ShortTrail

LEMMA InnerOfObject ==
  ASSUME NEW v, NEW key, Get(v, key).kind \in {"object", "array"}
  PROVE  v.kind = "object" /\ Inner(v, key) = Get(v, key)
<1>1. Get(v, key) # Missing
  BY DEF Missing
<1>2. v.kind = "object"
  BY <1>1, SomeMember
<1>. QED  BY <1>2 DEF Inner

\* What is found at fault is found along its path.
LEMMA FaultIsReached ==
  ASSUME NEW value, NEW fault, InBody(value, fault), Keyed(Get(value, <<"questions">>))
  PROVE  Leads(value, fault.path)
<1>. DEFINE questions == Get(value, <<"questions">>)  path == fault.path
<1>1. CASE path = <<>>
  BY <1>1 DEF Leads
<1>2. CASE value.kind = "object" /\ \E key : path = <<key>>
  <2>1. Len(path) = 1 /\ 1 \in 1..4
    BY <1>2
  <2>. HIDE DEF path
  <2>2. Leads(value, path)
    BY <1>2, <2>1, ShortTrail
  <2>. QED  BY <2>2 DEF path
<1>3. ASSUME NEW q \in DOMAIN Fields(questions),
             InQuestion(Fields(questions)[q].key, Fields(questions)[q].value, path)
      PROVE  Leads(value, path)
  <2>. DEFINE id == Fields(questions)[q].key
              raw == Fields(questions)[q].value
              given == Get(raw, <<"criteria">>)
              base == <<<<"questions">>, id>>
  <2>1. questions.kind = "object"
    BY FieldsAreOfObjects
  <2>2. Inner(value, <<"questions">>) = questions
    BY <2>1, InnerOfObject
  <2>3. Inner(questions, id) = raw
    <3>1. Get(questions, id) = raw
      BY MemberIsFound
    <3>. HIDE DEF questions, id
    <3>. QED  BY <2>1, <3>1 DEF Inner
  <2>4. \/ path = base
        \/ raw.kind = "object" /\ \E key : path = Append(base, key)
        \/ /\ given.kind \in {"object", "array"}
           /\ \E key : path = Append(Append(base, <<"criteria">>), key)
    BY <1>3 DEF InQuestion
  <2>. HIDE DEF questions, id, raw, path
  <2>5. Len(base) = 2 /\ base[1] = <<"questions">> /\ base[2] = id
    OBVIOUS
  <2>6. CASE path = base
    <3>1. Len(path) = 2 /\ 2 \in 1..4 /\ path[1] = <<"questions">>
      BY <2>5, <2>6
    <3>. QED  BY <2>1, <2>2, <3>1, ShortTrail
  <2>7. CASE raw.kind = "object" /\ \E key : path = Append(base, key)
    <3>1. Len(path) = 3 /\ path[1] = <<"questions">> /\ path[2] = id
      BY <2>7
    <3>. QED  BY <2>2, <2>3, <2>7, <3>1, TrailOfThree
  <2>8. CASE /\ given.kind \in {"object", "array"}
             /\ \E key : path = Append(Append(base, <<"criteria">>), key)
    <3>1. /\ Len(path) = 4 /\ path[1] = <<"questions">> /\ path[2] = id
          /\ path[3] = <<"criteria">>
      BY <2>8
    <3>2. Inner(raw, <<"criteria">>) = given
      BY <2>8, InnerOfObject
    <3>. HIDE DEF given
    <3>. QED  BY <2>2, <2>3, <2>8, <3>1, <3>2, TrailOfFour
  <2>. QED  BY <2>4, <2>6, <2>7, <2>8
<1>. HIDE DEF path, questions
<1>4. \/ path = <<>>
      \/ value.kind = "object" /\ \E key : path = <<key>>
      \/ \E q \in DOMAIN Fields(questions) :
           InQuestion(Fields(questions)[q].key, Fields(questions)[q].value, path)
  BY DEF InBody, path, questions
<1>. QED  BY <1>1, <1>2, <1>3, <1>4 DEF path

\* A type that has been established is the word under "type".
LEMMA TypeIsWritten ==
  ASSUME NEW raw, DeclaredType(raw) # ""
  PROVE  Get(raw, <<"type">>).text = <<DeclaredType(raw)>>
<1>. DEFINE type == Get(raw, <<"type">>)
<1>1. /\ \E t \in QuestionTypes : type.text = <<t>>
      /\ DeclaredType(raw) = type.text[1]
  BY DEF DeclaredType
<1>2. \A t : <<t>>[1] = t
  OBVIOUS
<1>. HIDE DEF type
<1>3. type.text = <<DeclaredType(raw)>>
  BY <1>1, <1>2
<1>. QED  BY <1>3 DEF type

\* The pieces that a location is joined from.
LEMMA OneInFront ==
  ASSUME NEW S, NEW x \in S, NEW s \in Seq(S)
  PROVE  /\ <<x>> \o s \in Seq(S) /\ Len(<<x>> \o s) = Len(s) + 1
         /\ \A i \in 1..Len(s) : (<<x>> \o s)[i + 1] = s[i]
<1>1. <<x>> \in Seq(S) /\ Len(<<x>>) = 1
  OBVIOUS
<1>. DEFINE one == <<x>>
<1>. HIDE DEF one
<1>2. one \in Seq(S) /\ Len(one) = 1 /\ Len(s) \in Nat
  BY <1>1, LenProperties DEF one
<1>3. one \o s \in Seq(S) /\ Len(one \o s) = 1 + Len(s)
  BY <1>2, ConcatProperties
<1>4. ASSUME NEW i \in 1..Len(s) PROVE (one \o s)[i + 1] = s[i]
  <2>1. i + 1 \in 1..(Len(one) + Len(s)) /\ ~(i + 1 <= Len(one)) /\ (i + 1) - Len(one) = i
    BY <1>2
  <2>2. (one \o s)[i + 1] = IF i + 1 <= Len(one) THEN one[i + 1] ELSE s[(i + 1) - Len(one)]
    <3>. DEFINE j == i + 1
    <3>1. j \in 1..(Len(one) + Len(s))
      BY <2>1
    <3>. HIDE DEF j
    <3>2. (one \o s)[j] = IF j <= Len(one) THEN one[j] ELSE s[j - Len(one)]
      BY Zenon, <1>2, <3>1, ConcatProperties
    <3>. QED  BY <3>2 DEF j
  <2>. QED  BY Zenon, <2>1, <2>2
<1>5. 1 + Len(s) = Len(s) + 1
  BY <1>2
<1>. QED  BY <1>3, <1>4, <1>5 DEF one

LEMMA AtMostTwo == \A n \in Nat : ~(n <= 2 /\ n > 2)
OBVIOUS

\* A location is longer than its path by the body and, where it names one, by the type.
LEMMA ShortLocation ==
  ASSUME NEW fault, NEW n \in Nat, Len(fault.path) = n, IsSequence(fault.path),
         n <= 2 \/ fault.tag = ""
  PROVE  Len(Location(fault)) = n + 1
<1>. DEFINE path == fault.path  b == <<"body">>  S == Items(path) \cup {b}
<1>1. Location(fault) = <<b>> \o path
  <2>1. ~(n <= 2 /\ n > 2)
    BY AtMostTwo
  <2>. QED  BY Zenon, <2>1 DEF Location
<1>2. path \in Seq(S)
  <2>1. \A i \in 1..Len(path) : path[i] \in S
    BY DEF Items
  <2>. HIDE DEF S
  <2>. QED  BY <2>1, SequenceOf
<1>3. b \in S
  OBVIOUS
<1>. HIDE DEF b, S
<1>4. Len(<<b>> \o path) = Len(path) + 1
  BY <1>2, <1>3, OneInFront
<1>. QED  BY <1>1, <1>4

LEMMA LongLocation ==
  ASSUME NEW fault, IsSequence(fault.path), Len(fault.path) > 2
  PROVE  Location(fault)[4] = <<fault.tag>> \/ Len(Location(fault)) = Len(fault.path) + 1
<1>. DEFINE path == fault.path  b == <<"body">>  t == <<fault.tag>>
            S == Items(path) \cup {b, t}
            front == SubSeq(path, 1, 2)
            back == SubSeq(path, 3, Len(path))
<1>1. path \in Seq(S)
  <2>1. \A i \in 1..Len(path) : path[i] \in S
    BY DEF Items
  <2>. HIDE DEF S
  <2>. QED  BY <2>1, SequenceOf
<1>2. b \in S /\ t \in S
  OBVIOUS
<1>3. \/ Location(fault) = <<b>> \o (front \o <<t>> \o back)
      \/ Location(fault) = <<b>> \o path
  BY Zenon DEF Location
<1>4. Len(path) \in Nat /\ 1 \in 1..(Len(path) + 1) /\ 3 \in 1..(Len(path) + 1)
      /\ 2 \in 1..Len(path) /\ Len(path) \in 1..Len(path)
  <2>1. Len(path) \in Nat
    BY <1>1, LenProperties
  <2>. HIDE DEF path
  <2>2. Len(path) > 2
    BY DEF path
  <2>. QED  BY <2>1, <2>2
<1>. HIDE DEF path, b, t, S
<1>5. front \in Seq(S) /\ Len(front) = 2 /\ back \in Seq(S)
  <2>1. \A m, n \in Int : 1 <= m /\ m <= n + 1 /\ n <= Len(path) =>
          SubSeq(path, m, n) \in Seq(S) /\ Len(SubSeq(path, m, n)) = n - m + 1
    BY <1>1, <1>4
  <2>. QED  BY <1>4, <2>1
<1>. HIDE DEF front, back
<1>6. <<t>> \o back \in Seq(S) /\ Len(front \o <<t>>) = 3 /\ front \o <<t>> \in Seq(S)
      /\ (front \o <<t>>)[3] = t
  <2>1. <<t>> \in Seq(S) /\ Len(<<t>>) = 1 /\ <<t>>[1] = t
    BY <1>2
  <2>. DEFINE one == <<t>>
  <2>. HIDE DEF one
  <2>2. one \in Seq(S) /\ Len(one) = 1 /\ one[1] = t
    BY <2>1 DEF one
  <2>3. one \o back \in Seq(S) /\ front \o one \in Seq(S) /\ Len(front \o one) = 3
    <3>1. Len(front \o one) = Len(front) + Len(one)
      BY Zenon, <1>5, <2>2, ConcatProperties
    <3>2. one \o back \in Seq(S) /\ front \o one \in Seq(S)
      BY Zenon, <1>5, <2>2, ConcatProperties
    <3>. QED  BY <1>5, <2>2, <3>1, <3>2
  <2>4. (front \o one)[3] = one[3 - 2]
    <3>1. 3 \in 1..(Len(front) + Len(one)) /\ ~(3 <= Len(front))
      BY <1>5, <2>2
    <3>2. 3 - Len(front) = 3 - 2
      BY <1>5
    <3>. DEFINE j == 3
    <3>3. j \in 1..(Len(front) + Len(one)) /\ ~(j <= Len(front)) /\ j - Len(front) = 3 - 2
      BY <3>1, <3>2
    <3>. HIDE DEF j
    <3>4. (front \o one)[j] = IF j <= Len(front) THEN front[j] ELSE one[j - Len(front)]
      BY Zenon, <1>5, <2>2, <3>3, ConcatProperties
    <3>5. (front \o one)[j] = one[3 - 2]
      BY Zenon, <3>3, <3>4
    <3>. QED  BY <3>5 DEF j
  <2>. QED  BY <2>2, <2>3, <2>4 DEF one
<1>. DEFINE three == front \o <<t>>
<1>. HIDE DEF three
<1>7. three \o back \in Seq(S) /\ 3 \in 1..Len(three \o back) /\ (three \o back)[3] = t
  <2>1. three \in Seq(S) /\ Len(three) = 3 /\ three[3] = t /\ Len(back) \in Nat
    BY <1>5, <1>6, LenProperties DEF three
  <2>2. three \o back \in Seq(S) /\ Len(three \o back) = Len(three) + Len(back)
    BY <1>5, <2>1, ConcatProperties
  <2>3. 3 \in 1..(Len(three) + Len(back)) /\ 3 <= Len(three)
    BY <2>1
  <2>4. (three \o back)[3] = three[3]
    BY <1>5, <2>1, <2>3, ConcatProperties
  <2>. QED  BY <2>1, <2>2, <2>3, <2>4
<1>. DEFINE rest == three \o back
<1>. HIDE DEF rest
<1>8. (<<b>> \o rest)[4] = t
  <2>1. rest \in Seq(S) /\ 3 \in 1..Len(rest) /\ rest[3] = t
    BY <1>7 DEF rest
  <2>2. (<<b>> \o rest)[3 + 1] = rest[3]
    BY <1>2, <2>1, OneInFront
  <2>3. 3 + 1 = 4
    OBVIOUS
  <2>. QED  BY <2>1, <2>2, <2>3
<1>9. Len(<<b>> \o path) = Len(path) + 1
  BY <1>1, <1>2, OneInFront
<1>. QED  BY <1>3, <1>8, <1>9 DEF path, t, rest, three

LEMMA FaultNamesItsType ==
  ASSUME NEW value, NEW fault, InBody(value, fault), Keyed(Get(value, <<"questions">>))
  PROVE  NamesItsType(value, fault)
<1>. DEFINE questions == Get(value, <<"questions">>)  path == fault.path
<1>1. SUFFICES ASSUME Len(Location(fault)) > Len(path) + 1
               PROVE  Get(Get(questions, path[2]), <<"type">>).text = Location(fault)[4]
  BY DEF NamesItsType
<1>2. CASE fault.tag = "" /\ (path = <<>> \/ \E key : path = <<key>>)
  <2>1. IsSequence(path) /\ Len(path) \in Nat
    <3>1. path = <<>> \/ \E key : path = <<key>>
      BY <1>2
    <3>. HIDE DEF path
    <3>. QED  BY <3>1, EmptyIsSequence, OneIsSequence
  <2>2. Len(Location(fault)) = Len(path) + 1
    BY <1>2, <2>1, ShortLocation
  <2>. QED  BY <1>1, <2>1, <2>2
<1>3. ASSUME NEW q \in DOMAIN Fields(questions), fault.tag = DeclaredType(Fields(questions)[q].value),
             InQuestion(Fields(questions)[q].key, Fields(questions)[q].value, path)
      PROVE  Get(Get(questions, path[2]), <<"type">>).text = Location(fault)[4]
  <2>. DEFINE id == Fields(questions)[q].key
              raw == Fields(questions)[q].value
              base == <<<<"questions">>, id>>
  <2>1. Get(questions, id) = raw
    BY MemberIsFound
  <2>2. \/ path = base
        \/ \E key : path = Append(base, key)
        \/ \E key : path = Append(Append(base, <<"criteria">>), key)
    BY <1>3 DEF InQuestion
  <2>3. IsSequence(path) /\ Len(path) \in Nat /\ path[2] = id
    <3>. HIDE DEF id, path
    <3>. DEFINE S == {<<"questions">>, id, <<"criteria">>} \cup {path[3], path[4]}
    <3>1. base \in Seq(S)
      OBVIOUS
    <3>2. CASE path = base
      BY <3>1, <3>2 DEF IsSequence
    <3>3. ASSUME NEW key, path = Append(base, key)
          PROVE  IsSequence(path) /\ Len(path) \in Nat /\ path[2] = id
      BY <3>3 DEF IsSequence
    <3>4. ASSUME NEW key, path = Append(Append(base, <<"criteria">>), key)
          PROVE  IsSequence(path) /\ Len(path) \in Nat /\ path[2] = id
      BY <3>4 DEF IsSequence
    <3>. QED  BY <2>2, <3>2, <3>3, <3>4
  <2>4. Len(path) > 2 /\ fault.tag # ""
    <3>1. Len(Location(fault)) # Len(path) + 1
      BY <1>1, <2>3
    <3>2. ~(Len(path) <= 2 \/ fault.tag = "")
      BY <2>3, <3>1, ShortLocation
    <3>. DEFINE named == fault.tag # ""
    <3>3. ~(Len(path) <= 2) /\ named
      BY <3>2
    <3>. HIDE DEF path, named
    <3>4. Len(path) > 2 /\ named
      BY <2>3, <3>3
    <3>. QED  BY <3>4 DEF path, named
  <2>5. Location(fault)[4] = <<fault.tag>>
    <3>1. Len(Location(fault)) # Len(path) + 1
      BY <1>1, <2>3
    <3>. QED  BY <2>3, <2>4, <3>1, LongLocation
  <2>6. Get(raw, <<"type">>).text = <<fault.tag>>
    BY <1>3, <2>4, TypeIsWritten
  <2>. QED  BY <2>1, <2>3, <2>5, <2>6
<1>4. \/ fault.tag = "" /\ (path = <<>> \/ \E key : path = <<key>>)
      \/ \E q \in DOMAIN Fields(questions) :
           /\ fault.tag = DeclaredType(Fields(questions)[q].value)
           /\ InQuestion(Fields(questions)[q].key, Fields(questions)[q].value, path)
  <2>. HIDE DEF path, questions
  <2>. QED  BY Zenon DEF InBody, path, questions
<1>. HIDE DEF questions, path
<1>. QED  BY <1>2, <1>3, <1>4

\* A list of at most three faults, of which the first will be raised.
OneOfThree(p, q, r, f, g, h, all) ==
  /\ all = <<>> <=> ~p /\ ~q /\ ~r
  /\ all # <<>> => Head(all) = IF p THEN f ELSE IF q THEN g ELSE h

LEMMA FirstOfThree ==
  ASSUME NEW p \in BOOLEAN, NEW q \in BOOLEAN, NEW r \in BOOLEAN,
         NEW f, IsFault(f), NEW g, IsFault(g), NEW h, IsFault(h)
  PROVE  OneOfThree(p, q, r, f, g, h, When(p, f) \o When(q, g) \o When(r, h))
<1>. DEFINE a == When(p, f)  b == When(q, g)  c == When(r, h)
<1>1. /\ Listing(a) /\ (a = <<>> <=> ~p) /\ (p => Head(a) = f)
      /\ Listing(b) /\ (b = <<>> <=> ~q) /\ (q => Head(b) = g)
      /\ Listing(c) /\ (c = <<>> <=> ~r) /\ (r => Head(c) = h)
  BY WhenLists
<1>. DEFINE all == a \o b \o c
<1>2. all = a \o b \o c
  OBVIOUS
<1>. HIDE DEF a, b, c, all
<1>3. /\ Listing(a \o b) /\ (a \o b = <<>> <=> a = <<>> /\ b = <<>>)
      /\ Head(a \o b) = IF a # <<>> THEN Head(a) ELSE Head(b)
  BY <1>1, JoinLists
<1>. DEFINE ab == a \o b
<1>. HIDE DEF ab
<1>4. Listing(ab)
  BY <1>3 DEF ab
<1>5. /\ ab \o c = <<>> <=> ab = <<>> /\ c = <<>>
      /\ Head(ab \o c) = IF ab # <<>> THEN Head(ab) ELSE Head(c)
  BY <1>1, <1>4, JoinLists
<1>6. all = ab \o c
  BY <1>2 DEF ab
<1>7. /\ ab = <<>> <=> a = <<>> /\ b = <<>>
      /\ Head(ab) = IF a # <<>> THEN Head(a) ELSE Head(b)
  BY <1>3 DEF ab
<1>8. OneOfThree(p, q, r, f, g, h, all)
  BY <1>1, <1>5, <1>6, <1>7 DEF OneOfThree
<1>. QED  BY <1>8 DEF all, a, b, c

\* The parser raises the first of three faults, which has no path.
LEMMA FirstOfParsing ==
  ASSUME NEW body, body.value \in Json, body.bytes \in Bytes
  PROVE  /\ ParseFaults(body) = <<>> <=>
              /\ body.bytes \notin {"bom", "latin-1"} /\ ~Nested(body) /\ WellWritten(body)
         /\ ParseFaults(body) # <<>> =>
              /\ Head(ParseFaults(body))
                   = IF body.bytes \in {"bom", "latin-1"} THEN Malformed
                     ELSE IF Nested(body) THEN Fault(422, "validation_error", <<>>)
                     ELSE Malformed
<1>. DEFINE text == WrittenJson(body.value)
            written == IF body.bytes = "cut" THEN Front(text) ELSE text
            deep == Fault(422, "validation_error", <<>>)
            unknown == body.bytes \in {"bom", "latin-1"}
            nested == TooDeep(written)
            bad == \E part \in Parts(body.value) :
                     RepeatsAKey(part) \/ NotANumber(part) \/ Unpaired(part)
            unreadable == body.bytes = "cut" \/ bad
            a == When(unknown, Malformed)
            b == When(nested, deep)
            c == When(unreadable, Malformed)
<1>1. IsFault(Malformed) /\ IsFault(deep)
  BY FaultIsFault DEF Malformed
<1>2. unknown \in BOOLEAN /\ nested \in BOOLEAN /\ unreadable \in BOOLEAN
  BY DEF TooDeep
<1>3. ParseFaults(body) = a \o b \o c
  BY Zenon DEF ParseFaults
<1>4. nested <=> Nested(body)
  <2>1. SeesNesting(body)
    BY ScanMeasuresNesting
  <2>. QED  BY Zenon, <2>1 DEF SeesNesting
<1>5. ~unknown => (unreadable <=> ~WellWritten(body))
  <2>1. WellWritten(body) <=> body.bytes = "plain" /\ ~bad
    BY Zenon DEF WellWritten
  <2>2. ~unknown => (body.bytes = "cut" <=> body.bytes # "plain")
    BY DEF Bytes
  <2>. HIDE DEF bad
  <2>. QED  BY <2>1, <2>2
<1>. HIDE DEF deep, unknown, nested, unreadable
<1>. DEFINE all == a \o b \o c
<1>6. /\ all = <<>> <=> ~unknown /\ ~nested /\ ~unreadable
      /\ all # <<>> => Head(all) = IF unknown THEN Malformed ELSE IF nested THEN deep ELSE Malformed
  <2>. HIDE DEF a, b, c
  <2>1. OneOfThree(unknown, nested, unreadable, Malformed, deep, Malformed,
                   When(unknown, Malformed) \o When(nested, deep) \o When(unreadable, Malformed))
    BY ONLY <1>1, <1>2, FirstOfThree
  <2>. QED  BY Zenon, <2>1 DEF OneOfThree, a, b, c
<1>. HIDE DEF all
<1>7. ParseFaults(body) = all
  BY <1>3 DEF all
<1>8. body.bytes \in {"bom", "latin-1"} <=> unknown
  BY DEF unknown
<1>9. deep = Fault(422, "validation_error", <<>>)
  BY DEF deep
<1>. QED  BY Zenon, <1>4, <1>5, <1>6, <1>7, <1>8, <1>9

\* What the handler finds wrong with a body, in the words of the property.
FaultOfBody(body, policy) ==
  IF body.bytes \in {"bom", "latin-1"} THEN "invalid_json"
  ELSE IF Nested(body) THEN "validation_error"
  ELSE IF ~WellWritten(body) THEN "invalid_json"
  ELSE IF ~RequestSchema(body.value, policy) THEN "validation_error"
  ELSE "none"

LEMMA BodyFaults ==
  ASSUME NEW body, body.value \in Json, body.bytes \in Bytes, MaxDepth >= 3,
         NEW policy, NEW faults, faults = ParseFaults(body) \o ValidationFaults(body.value, policy)
  PROVE  /\ faults = <<>> <=> FaultOfBody(body, policy) = "none"
         /\ faults # <<>> => /\ Head(faults).code = FaultOfBody(body, policy)
                             /\ Leads(body.value, Head(faults).path)
                             /\ NamesItsType(body.value, Head(faults))
<1>. DEFINE value == body.value
            parse == ParseFaults(body)
            valid == ValidationFaults(value, policy)
            unknown == body.bytes \in {"bom", "latin-1"}
            deep == Fault(422, "validation_error", <<>>)
<1>1. /\ parse = <<>> <=> ~unknown /\ ~Nested(body) /\ WellWritten(body)
      /\ parse # <<>> => Head(parse) = IF unknown THEN Malformed
                                       ELSE IF Nested(body) THEN deep ELSE Malformed
  BY Zenon, FirstOfParsing
<1>2. parse = <<>> => \A part \in Parts(value) : ~RepeatsAKey(part)
  BY ParseFaultsList
<1>3. parse = <<>> => (valid = <<>> <=> RequestSchema(value, policy))
  BY <1>2, ValidatorIsTheSchema
<1>4. parse = <<>> /\ valid # <<>> => /\ Head(valid).code = "validation_error"
                                      /\ Leads(value, Head(valid).path)
                                      /\ NamesItsType(value, Head(valid))
  <2>. SUFFICES ASSUME parse = <<>>, valid # <<>>
                PROVE  /\ Head(valid).code = "validation_error"
                       /\ Leads(value, Head(valid).path)
                       /\ NamesItsType(value, Head(valid))
    OBVIOUS
  <2>1. InBody(value, Head(valid))
    BY ValidationFaultsList
  <2>2. Keyed(Get(value, <<"questions">>))
    BY <1>2, BodyIsKeyed
  <2>. HIDE DEF valid, value
  <2>3. Head(valid).code = "validation_error"
    BY <2>1 DEF InBody
  <2>. QED  BY <2>1, <2>2, <2>3, FaultIsReached, FaultNamesItsType
<1>5. ASSUME NEW fault, fault \in {Malformed, deep}
      PROVE  Leads(value, fault.path) /\ NamesItsType(value, fault)
  <2>1. fault.path = <<>> /\ fault.tag = ""
    <3>1. /\ Malformed.path = <<>> /\ Malformed.tag = ""
          /\ deep.path = <<>> /\ deep.tag = ""
      BY DEF Malformed, Fault
    <3>. HIDE DEF deep
    <3>. QED  BY <1>5, <3>1
  <2>2. Len(Location(fault)) = 0 + 1
    BY <2>1, EmptyIsSequence, ShortLocation
  <2>3. NamesItsType(value, fault)
    <3>1. ~(Len(Location(fault)) > Len(fault.path) + 1)
      <4>. DEFINE l == Len(Location(fault))  n == Len(fault.path)
      <4>1. l = 0 + 1 /\ n = 0
        BY <2>1, <2>2, EmptyIsSequence
      <4>. HIDE DEF l, n
      <4>2. ~(l > n + 1)
        BY <4>1
      <4>. QED  BY <4>2 DEF l, n
    <3>. QED  BY Zenon, <3>1 DEF NamesItsType
  <2>. QED  BY <2>1, <2>3 DEF Leads
<1>6. Malformed.code = "invalid_json" /\ deep.code = "validation_error"
  BY DEF Malformed, Fault
<1>7. /\ faults = <<>> <=> parse = <<>> /\ valid = <<>>
      /\ Head(faults) = IF parse # <<>> THEN Head(parse) ELSE Head(valid)
  <2>1. Listing(parse) /\ Listing(valid)
    BY ParseFaultsList, ValidationFaultsList
  <2>. HIDE DEF parse, valid
  <2>. QED  BY <2>1, JoinLists DEF parse, valid
<1>8. FaultOfBody(body, policy) = (IF unknown THEN "invalid_json"
                                   ELSE IF Nested(body) THEN "validation_error"
                                   ELSE IF ~WellWritten(body) THEN "invalid_json"
                                   ELSE IF ~RequestSchema(value, policy) THEN "validation_error"
                                   ELSE "none")
  BY Zenon DEF FaultOfBody
<1>. DEFINE head == Head(faults)  known == FaultOfBody(body, policy)
            first == Head(parse)  second == Head(valid)
<1>. HIDE DEF parse, valid, deep, unknown, value, known, head, first, second
<1>9. CASE parse = <<>>
  <2>1. known = IF RequestSchema(value, policy) THEN "none" ELSE "validation_error"
    BY <1>1, <1>8, <1>9 DEF known
  <2>2. head = second
    BY <1>7, <1>9 DEF head, second
  <2>3. faults = <<>> <=> known = "none"
    BY <1>3, <1>7, <1>9, <2>1
  <2>4. faults # <<>> => /\ second.code = known
                         /\ Leads(value, second.path) /\ NamesItsType(value, second)
    BY <1>3, <1>4, <1>7, <1>9, <2>1 DEF second
  <2>. QED  BY <2>2, <2>3, <2>4 DEF known, head, value
<1>10. CASE parse # <<>>
  <2>1. head = first
    BY <1>7, <1>10 DEF head, first
  <2>2. faults # <<>>
    BY <1>7, <1>10
  <2>3. first \in {Malformed, deep} /\ known = first.code /\ known # "none"
    BY <1>1, <1>6, <1>8, <1>10 DEF known, first
  <2>4. Leads(value, first.path) /\ NamesItsType(value, first)
    BY <1>5, <2>3
  <2>. QED  BY <2>1, <2>2, <2>3, <2>4 DEF known, head, value
<1>. QED  BY <1>9, <1>10

LEMMA SizesAreNumbers ==
  /\ \A s \in Seq(Nat) : SumFunction(s) \in Nat
  /\ SumFunction(<<>>) = 0
<1>1. ASSUME NEW s \in Seq(Nat) PROVE SumFunction(s) \in Nat
  <2>1. DOMAIN s = 1..Len(s) /\ Len(s) \in Nat /\ \A i \in 1..Len(s) : s[i] \in Nat
    BY LenProperties
  <2>2. IsFiniteSet(1..Len(s))
    BY <2>1, FS_Interval
  <2>3. SumFunctionOnSet(s, 1..Len(s)) \in Nat
    BY <2>1, <2>2, SumWithout
  <2>. QED  BY <2>1, <2>3 DEF SumFunction
<1>2. SumFunction(<<>>) = 0
  <2>1. DOMAIN <<>> = {}
    OBVIOUS
  <2>2. IsFiniteSet({})
    BY FS_EmptySet
  <2>3. SumFunctionOnSet(<<>>, {}) = 0
    BY <2>2, SumUnfolds
  <2>. QED  BY <2>1, <2>3 DEF SumFunction
<1>. QED  BY <1>1, <1>2

\* FirstFault of a call to a server, with so many bytes.
FaultOf(c, s, size) ==
  IF ~(c.scheme = "bearer" /\ c.token \in ToSet(ApiKeys(s))) THEN "unauthorized"
  ELSE IF ~JsonMediaType(c) THEN "unsupported_media_type"
  ELSE IF c.declared > MaxBodyBytes \/ size > MaxBodyBytes THEN "request_too_large"
  ELSE IF FaultOfBody(c.body, s.unknown_top_level_fields) # "none"
         THEN FaultOfBody(c.body, s.unknown_top_level_fields)
  ELSE IF Resolve(s, Get(c.body.value, <<"model">>).text) = {} THEN "model_not_found"
  ELSE "none"

LEMMA FirstFaultIs ==
  FirstFault = FaultOf(call, settings, Size) /\ FirstFault' = FaultOf(call', settings', Size')
<1>1. "invalid_json" # "none" /\ "validation_error" # "none"
  OBVIOUS
<1>2. FirstFault = FaultOf(call, settings, Size)
  BY Zenon, <1>1 DEF FirstFault, FaultOf, FaultOfBody, Authentic
<1>3. FirstFault' = FaultOf(call', settings', Size')
  BY Zenon, <1>1 DEF FirstFault, FaultOf, FaultOfBody, Authentic
<1>. QED  BY <1>2, <1>3

\* What has been found in order when a request is being read.
Screened ==
  /\ intake \in {"starting", "listening"} => received = 0
  /\ intake = "reading" =>
       /\ call.body.bytes \in Bytes
       /\ Authentic(call) /\ JsonMediaType(call) /\ ~TooLargeAsDeclared(call)
       /\ received <= MaxBodyBytes
  /\ RefusedForFirstFault

LEMMA PlainFaultNamesNoType ==
  ASSUME NEW value, NEW status, NEW code, NEW path, path \in {<<>>, <<<<"model">>>>}
  PROVE  NamesItsType(value, Fault(status, code, path))
<1>. DEFINE fault == Fault(status, code, path)
<1>1. fault.path = path /\ fault.tag = ""
  BY DEF Fault
<1>2. IsSequence(path) /\ Len(path) \in Nat
  <2>1. path = <<>> \/ \E x : path = <<x>>
    OBVIOUS
  <2>. QED  BY <2>1, EmptyIsSequence, OneIsSequence
<1>. HIDE DEF fault
<1>3. Len(Location(fault)) = Len(path) + 1
  BY <1>1, <1>2, ShortLocation
<1>4. ~(Len(Location(fault)) > Len(fault.path) + 1)
  <2>. DEFINE l == Len(Location(fault))  n == Len(fault.path)
  <2>1. l = n + 1 /\ n \in Nat
    BY <1>1, <1>2, <1>3
  <2>. HIDE DEF l, n
  <2>2. ~(l > n + 1)
    BY <2>1
  <2>. QED  BY <2>2 DEF l, n
<1>5. NamesItsType(value, fault)
  BY Zenon, <1>4 DEF NamesItsType
<1>. QED  BY <1>5 DEF fault

\* A refusal is the fault that it was raised for.
LEMMA RefusalIsFault ==
  ASSUME NEW fault, IsFault(fault), StopAt(fault)
  PROVE  stage' = "over" /\ refusal' = fault
<1>1. Refuse(fault.status, fault.code, fault.path, fault.tag)
  BY DEF StopAt
<1>. QED  BY <1>1 DEF Refuse, IsFault

LEMMA StopsForFirstFault ==
  ASSUME NEW fault, IsFault(fault), StopAt(fault),
         \/ fault.code = FirstFault'
         \/ fault.code = "model_unavailable" /\ FirstFault' = "none",
         fault.code = "validation_error" => Leads(call'.body.value, fault.path),
         NamesItsType(call'.body.value, fault)
  PROVE  RefusedForFirstFault'
<1>1. stage' = "over" /\ refusal' = fault
  BY RefusalIsFault
<1>2. stage' # "compile"
  BY <1>1
<1>3. refusal'.code \in {FirstFault'} \cup (IF FirstFault' = "none" THEN {"model_unavailable"}
                                           ELSE {})
  BY <1>1
<1>4. refusal'.code = "validation_error" => Leads(call'.body.value, refusal'.path)
  BY <1>1
<1>5. NamesItsType(call'.body.value, refusal')
  BY <1>1
<1>. QED  BY Zenon, <1>2, <1>3, <1>4, <1>5 DEF RefusedForFirstFault

LEMMA NotYetRefused ==
  ASSUME stage' \notin {"over", "compile"}
  PROVE  RefusedForFirstFault'
<1>1. stage' # "over" /\ stage' # "compile"
  OBVIOUS
<1>. QED  BY Zenon, <1>1 DEF RefusedForFirstFault

LEMMA ServerScreens ==
  ASSUME Course, Screened, StartServer
  PROVE  Screened'
<1>1. /\ intake = "starting" /\ intake' \in {"listening", "down"}
      /\ UNCHANGED <<serializer, received>>
  BY DEF StartServer
<1>2. stage' = "idle"
  BY <1>1 DEF Course, serializer
<1>3. RefusedForFirstFault'
  BY <1>2, NotYetRefused
<1>4. received' = 0
  BY <1>1 DEF Screened
<1>. QED  BY <1>1, <1>3, <1>4 DEF Screened

LEMMA ReceiveScreens ==
  ASSUME Course, Screened, Receive
  PROVE  Screened'
<1>. DEFINE Faults(c) == When(~Authentic(c), Fault(401, "unauthorized", <<>>))
                         \o When(~JsonMediaType(c), Fault(415, "unsupported_media_type", <<>>))
                         \o When(TooLargeAsDeclared(c), Fault(413, "request_too_large", <<>>))
<1>1. PICK c \in Calls :
        /\ call' = c
        /\ IF Faults(c) # <<>> THEN StopAt(Head(Faults(c))) /\ intake' = "handled"
           ELSE UNCHANGED serializer /\ intake' = "reading"
  BY Zenon DEF Receive
<1>2. /\ intake = "listening" /\ stage = "idle" /\ received' = 0 /\ UNCHANGED settings
  BY DEF Receive, Course, Screened
<1>. DEFINE p == ~Authentic(c)  q == ~JsonMediaType(c)  r == TooLargeAsDeclared(c)
            f == Fault(401, "unauthorized", <<>>)
            g == Fault(415, "unsupported_media_type", <<>>)
            h == Fault(413, "request_too_large", <<>>)
            all == Faults(c)
<1>3. OneOfThree(p, q, r, f, g, h, all)
  <2>1. p \in BOOLEAN /\ q \in BOOLEAN /\ r \in BOOLEAN
    BY DEF JsonMediaType, TooLargeAsDeclared
  <2>2. IsFault(f) /\ IsFault(g) /\ IsFault(h)
    BY FaultIsFault
  <2>. HIDE DEF p, q, r, f, g, h
  <2>3. OneOfThree(p, q, r, f, g, h, When(p, f) \o When(q, g) \o When(r, h))
    BY ONLY <2>1, <2>2, FirstOfThree
  <2>. QED  BY Zenon, <2>3 DEF p, q, r, f, g, h
<1>4. /\ (IF p THEN FirstFault' = f.code
          ELSE IF q THEN FirstFault' = g.code
          ELSE r => FirstFault' = h.code)
  <2>1. f.code = "unauthorized" /\ g.code = "unsupported_media_type" /\ h.code = "request_too_large"
    BY DEF Fault
  <2>2. /\ p <=> ~(c.scheme = "bearer" /\ c.token \in ToSet(ApiKeys(settings)))
        /\ r <=> c.declared > MaxBodyBytes
    BY Zenon DEF Authentic, TooLargeAsDeclared
  <2>3. FirstFault' = FaultOf(c, settings, Size')
    BY <1>1, <1>2, FirstFaultIs
  <2>. HIDE DEF p, q, r, f, g, h
  <2>4. CASE p
    BY Zenon, <2>1, <2>2, <2>3, <2>4 DEF FaultOf
  <2>5. CASE ~p /\ q
    BY Zenon, <2>1, <2>2, <2>3, <2>5 DEF FaultOf, q
  <2>6. CASE ~p /\ ~q /\ r
    BY Zenon, <2>1, <2>2, <2>3, <2>6 DEF FaultOf, q
  <2>. QED  BY <2>4, <2>5, <2>6
<1>. HIDE DEF p, q, r, all
<1>5. CASE all # <<>>
  <2>. DEFINE fault == Head(all)
  <2>1. StopAt(fault) /\ intake' = "handled"
    BY <1>1, <1>5 DEF all
  <2>2. fault \in {f, g, h} /\ fault.code = FirstFault'
    <3>1. (p \/ q \/ r) /\ fault = IF p THEN f ELSE IF q THEN g ELSE h
      BY <1>3, <1>5 DEF OneOfThree
    <3>. HIDE DEF fault, f, g, h
    <3>. QED  BY <1>4, <3>1
  <2>3. /\ IsFault(fault) /\ fault.code # "validation_error" /\ NamesItsType(call'.body.value, fault)
    <3>1. /\ IsFault(f) /\ f.code # "validation_error" /\ NamesItsType(call'.body.value, f)
          /\ IsFault(g) /\ g.code # "validation_error" /\ NamesItsType(call'.body.value, g)
          /\ IsFault(h) /\ h.code # "validation_error" /\ NamesItsType(call'.body.value, h)
      <4>1. /\ NamesItsType(call'.body.value, f) /\ NamesItsType(call'.body.value, g)
            /\ NamesItsType(call'.body.value, h)
        BY PlainFaultNamesNoType
      <4>2. IsFault(f) /\ IsFault(g) /\ IsFault(h)
        BY FaultIsFault
      <4>3. f.code # "validation_error" /\ g.code # "validation_error" /\ h.code # "validation_error"
        BY DEF Fault
      <4>. QED  BY <4>1, <4>2, <4>3
    <3>. HIDE DEF fault, f, g, h
    <3>. QED  BY <2>2, <3>1
  <2>. HIDE DEF fault
  <2>4. RefusedForFirstFault'
    BY <2>1, <2>2, <2>3, StopsForFirstFault
  <2>. QED  BY <2>1, <2>4 DEF Screened
<1>6. CASE all = <<>>
  <2>1. UNCHANGED serializer /\ intake' = "reading"
    BY <1>1, <1>6 DEF all
  <2>2. ~p /\ ~q /\ ~r
    BY <1>3, <1>6 DEF OneOfThree
  <2>3. Authentic(call)' /\ JsonMediaType(call)' /\ ~TooLargeAsDeclared(call)'
    BY <1>1, <1>2, <2>2 DEF p, q, r, Authentic, JsonMediaType, TooLargeAsDeclared
  <2>4. call'.body.bytes \in Bytes
    BY <1>1, CallsAssumption
  <2>5. received' <= MaxBodyBytes
    BY <1>2, CallsAssumption
  <2>6. stage' = "idle"
    BY <1>2, <2>1 DEF serializer
  <2>7. RefusedForFirstFault'
    BY <2>6, NotYetRefused
  <2>8. intake' \notin {"starting", "listening"}
    BY <2>1
  <2>. QED  BY Zenon, <2>3, <2>4, <2>5, <2>7, <2>8 DEF Screened
<1>. QED  BY <1>5, <1>6

LEMMA ChunkScreens ==
  ASSUME Course, Screened, ReadChunk
  PROVE  Screened'
<1>. DEFINE fault == Fault(413, "request_too_large", <<>>)
<1>1. /\ intake = "reading" /\ stage = "idle" /\ UNCHANGED settings /\ call.chunks # <<>>
      /\ received' = received + Head(call.chunks)
      /\ call' = [call EXCEPT !.chunks = Tail(@)]
      /\ IF received' > MaxBodyBytes THEN StopAt(fault) /\ intake' = "handled"
         ELSE UNCHANGED <<serializer, intake>>
  BY DEF ReadChunk, Course
<1>2. call.chunks \in Seq(Nat) /\ received \in Nat
  BY <1>1 DEF Course
<1>3. Head(call.chunks) \in Nat /\ Tail(call.chunks) \in Seq(Nat)
  BY <1>1, <1>2, HeadTailProperties
<1>4. received' \in Nat /\ MaxBodyBytes \in Nat
  BY <1>1, <1>2, <1>3, CallsAssumption
<1>5. /\ Authentic(call) /\ JsonMediaType(call) /\ ~TooLargeAsDeclared(call)
      /\ call.body.bytes \in Bytes
  BY <1>1 DEF Screened
<1>6. /\ call'.body = call.body /\ call'.declared = call.declared
      /\ call'.scheme = call.scheme /\ call'.token = call.token
      /\ call'.media_type = call.media_type /\ call'.charset = call.charset
      /\ call'.encoding = call.encoding /\ call'.chunks \in Seq(Nat)
  <2>1. call' = [call EXCEPT !.chunks = Tail(call.chunks)]
    BY <1>1
  <2>2. call.chunks # <<>> /\ call.chunks \in Seq(Nat)
    BY <1>1, <1>2
  <2>3. call'.chunks \in Seq(Nat)
    BY <2>1, <1>3
  <2>. QED  BY <2>1, <2>3
<1>7. Authentic(call)' /\ JsonMediaType(call)' /\ ~TooLargeAsDeclared(call)'
  BY <1>1, <1>5, <1>6 DEF Authentic, JsonMediaType, TooLargeAsDeclared
<1>8. CASE received' > MaxBodyBytes
  <2>1. StopAt(fault) /\ intake' = "handled"
    BY <1>1, <1>8
  <2>2. Size' > MaxBodyBytes
    <3>1. SumFunction(call'.chunks) \in Nat
      BY <1>6, SizesAreNumbers
    <3>. DEFINE rest == SumFunction(call'.chunks)
    <3>. HIDE DEF rest
    <3>2. rest \in Nat
      BY <3>1 DEF rest
    <3>3. received' + rest > MaxBodyBytes
      <4>. DEFINE sum == received'  limit == MaxBodyBytes
      <4>1. sum \in Nat /\ limit \in Nat /\ sum > limit
        BY <1>4, <1>8
      <4>. HIDE DEF sum, limit
      <4>2. sum + rest > limit
        BY ONLY <3>2, <4>1
      <4>. QED  BY <4>2 DEF sum, limit
    <3>4. Size' = received' + rest
      BY Zenon DEF Size, rest
    <3>. QED  BY <3>3, <3>4
  <2>3. FirstFault' = "request_too_large"
    <3>1. FirstFault' = FaultOf(call', settings', Size')
      BY FirstFaultIs
    <3>2. call'.scheme = "bearer" /\ call'.token \in ToSet(ApiKeys(settings'))
      BY <1>7 DEF Authentic
    <3>. QED  BY Zenon, <1>7, <2>2, <3>1, <3>2 DEF FaultOf
  <2>4. fault.code = "request_too_large" /\ IsFault(fault)
    <3>1. fault.code = "request_too_large"
      BY DEF Fault
    <3>2. IsFault(fault)
      BY FaultIsFault
    <3>. QED  BY <3>1, <3>2
  <2>5. NamesItsType(call'.body.value, fault)
    BY PlainFaultNamesNoType
  <2>. HIDE DEF fault
  <2>6. fault.code = FirstFault' /\ fault.code # "validation_error"
    BY <2>3, <2>4
  <2>7. RefusedForFirstFault'
    BY <2>1, <2>4, <2>5, <2>6, StopsForFirstFault
  <2>. QED  BY <2>1, <2>7 DEF Screened
<1>9. CASE ~(received' > MaxBodyBytes)
  <2>1. UNCHANGED serializer /\ intake' = "reading"
    BY <1>1, <1>9
  <2>2. stage' = "idle"
    BY <1>1, <2>1 DEF serializer
  <2>3. RefusedForFirstFault'
    BY <2>2, NotYetRefused
  <2>4. received' <= MaxBodyBytes
    BY <1>4, <1>9
  <2>5. call'.body.bytes \in Bytes
    BY <1>5, <1>6
  <2>6. intake' \notin {"starting", "listening"}
    BY <2>1
  <2>. QED  BY Zenon, <1>7, <2>3, <2>4, <2>5, <2>6 DEF Screened
<1>. QED  BY <1>8, <1>9

LEMMA HandleScreens ==
  ASSUME MaxDepth >= 3, Course, Screened, Handle
  PROVE  Screened'
<1>. DEFINE body == call.body
            value == body.value
            policy == settings.unknown_top_level_fields
            faults == ParseFaults(body) \o ValidationFaults(value, policy)
            name == Validated(value).model
            named == Resolve(settings, name)
            unknown == Fault(422, "model_not_found", <<<<"model">>>>)
            busy == Fault(503, "model_unavailable", <<>>)
            limits == [chars |-> EffectiveMaxRequestChars(settings),
                       sequence |-> bundle'.max_sequence_tokens,
                       request |-> bundle'.max_request_tokens]
<1>1. /\ intake = "reading" /\ call.chunks = <<>> /\ intake' = "handled"
      /\ UNCHANGED <<settings, call, received>>
      /\ \/ faults # <<>> /\ StopAt(Head(faults))
         \/ faults = <<>> /\ named = {} /\ StopAt(unknown)
         \/ faults = <<>> /\ named # {} /\ (StopAt(busy) \/ Begin(Validated(value), limits))
  BY DEF Handle
<1>2. /\ value \in Json /\ received \in Nat /\ received <= MaxBodyBytes
      /\ Authentic(call) /\ JsonMediaType(call) /\ ~TooLargeAsDeclared(call)
      /\ body.bytes \in Bytes
  BY <1>1 DEF Course, Screened
<1>3. Listing(faults)
  <2>. DEFINE parse == ParseFaults(body)  valid == ValidationFaults(value, policy)
  <2>1. Listing(parse) /\ Listing(valid)
    <3>. HIDE DEF value, policy
    <3>. QED  BY <1>2, ParseFaultsList, ValidationFaultsList
  <2>. HIDE DEF parse, valid
  <2>2. Listing(parse \o valid)
    BY <2>1, JoinLists
  <2>. QED  BY <2>2 DEF parse, valid
<1>4. /\ faults = <<>> <=> FaultOfBody(body, policy) = "none"
      /\ faults # <<>> => /\ Head(faults).code = FaultOfBody(body, policy)
                          /\ Leads(value, Head(faults).path)
                          /\ NamesItsType(value, Head(faults))
  <2>. HIDE DEF body, policy
  <2>. QED  BY <1>2, BodyFaults DEF body
<1>5. /\ FaultOfBody(body, policy) # "none" => FirstFault' = FaultOfBody(body, policy)
      /\ FaultOfBody(body, policy) = "none" =>
           FirstFault' = IF named = {} THEN "model_not_found" ELSE "none"
  <2>1. ~(call.declared > MaxBodyBytes \/ Size' > MaxBodyBytes)
    <3>1. Size' = received + SumFunction(<<>>)
      BY <1>1 DEF Size
    <3>2. Size' = received
      <4>. DEFINE rest == SumFunction(<<>>)
      <4>1. rest = 0 /\ Size' = received + rest
        BY <3>1, SizesAreNumbers
      <4>. HIDE DEF rest
      <4>. QED  BY <1>2, <4>1
    <3>3. ~(received > MaxBodyBytes)
      BY <1>2, CallsAssumption
    <3>. QED  BY Zenon, <1>2, <3>2, <3>3 DEF TooLargeAsDeclared
  <2>2. FirstFault' = FaultOf(call, settings, Size')
    BY <1>1, FirstFaultIs
  <2>3. call.scheme = "bearer" /\ call.token \in ToSet(ApiKeys(settings))
    BY <1>2 DEF Authentic
  <2>4. name = Get(value, <<"model">>).text
    BY DEF Validated
  <2>5. named = Resolve(settings, Get(value, <<"model">>).text)
    BY <2>4
  <2>. HIDE DEF named
  <2>. QED  BY Zenon, <1>2, <2>1, <2>2, <2>3, <2>5 DEF FaultOf
<1>. DEFINE known == FaultOfBody(body, policy)
<1>. HIDE DEF faults, known, limits, name
<1>6. CASE faults # <<>> /\ StopAt(Head(faults))
  <2>. DEFINE fault == Head(faults)
  <2>1. IsFault(fault) /\ StopAt(fault)
    BY <1>3, <1>6, HeadIsFault
  <2>2. fault.code = FirstFault' /\ Leads(call'.body.value, fault.path)
        /\ NamesItsType(call'.body.value, fault)
    <3>1. fault.code = known /\ Leads(value, fault.path) /\ NamesItsType(value, fault)
      BY Zenon, <1>4, <1>6 DEF known
    <3>2. known # "none"
      BY Zenon, <1>4, <1>6 DEF known
    <3>3. FirstFault' = known
      BY Zenon, <1>5, <3>2 DEF known
    <3>4. call'.body.value = value
      BY <1>1
    <3>. HIDE DEF fault, value
    <3>. QED  BY <3>1, <3>3, <3>4
  <2>. HIDE DEF fault
  <2>3. RefusedForFirstFault'
    BY <2>1, <2>2, StopsForFirstFault
  <2>. QED  BY <1>1, <2>3 DEF Screened
<1>7. CASE faults = <<>> /\ named = {} /\ StopAt(unknown)
  <2>1. FirstFault' = "model_not_found"
    BY Zenon, <1>4, <1>5, <1>7
  <2>2. unknown.code = "model_not_found" /\ IsFault(unknown)
    <3>1. unknown.code = "model_not_found"
      BY DEF Fault
    <3>2. IsFault(unknown)
      BY FaultIsFault
    <3>. QED  BY <3>1, <3>2
  <2>3. NamesItsType(call'.body.value, unknown)
    BY PlainFaultNamesNoType
  <2>. HIDE DEF unknown
  <2>4. unknown.code = FirstFault' /\ unknown.code # "validation_error"
    BY <2>1, <2>2
  <2>5. RefusedForFirstFault'
    BY <1>7, <2>2, <2>3, <2>4, StopsForFirstFault
  <2>. QED  BY <1>1, <2>5 DEF Screened
<1>8. ASSUME faults = <<>>, named # {} PROVE FirstFault' = "none"
  BY Zenon, <1>4, <1>5, <1>8
<1>9. CASE faults = <<>> /\ named # {} /\ StopAt(busy)
  <2>1. FirstFault' = "none"
    BY <1>8, <1>9
  <2>2. busy.code = "model_unavailable" /\ IsFault(busy)
    <3>1. busy.code = "model_unavailable"
      BY DEF Fault
    <3>2. IsFault(busy)
      BY FaultIsFault
    <3>. QED  BY <3>1, <3>2
  <2>3. NamesItsType(call'.body.value, busy)
    BY PlainFaultNamesNoType
  <2>. HIDE DEF busy
  <2>4. busy.code # "validation_error"
    BY <2>2
  <2>5. RefusedForFirstFault'
    BY <1>9, <2>1, <2>2, <2>3, <2>4, StopsForFirstFault
  <2>. QED  BY <1>1, <2>5 DEF Screened
<1>10. CASE faults = <<>> /\ named # {} /\ Begin(Validated(value), limits)
  <2>1. FirstFault' = "none"
    BY <1>8, <1>10
  <2>2. stage' # "over"
    BY <1>10 DEF Begin
  <2>3. RefusedForFirstFault'
    BY Zenon, <2>1, <2>2 DEF RefusedForFirstFault
  <2>. QED  BY <1>1, <2>3 DEF Screened
<1>. QED  BY Zenon, <1>1, <1>6, <1>7, <1>9, <1>10

\* Once it is under way, a request has a question.
LEMMA WorkedOnIsSomebody ==
  ASSUME Course, stage \in Working
  PROVE  request # Nobody
<1>1. Askable(request)
  BY DEF Course
<1>. QED  BY <1>1 DEF Askable, Nobody

LEMMA WorkScreens ==
  ASSUME Course, Screened, Job \/ Respond
  PROVE  Screened'
<1>1. stage \in Working /\ stage' # "compile"
      /\ UNCHANGED <<request, intake, settings, call, received>>
  <2>1. CASE Job
    BY <2>1, JobFacts
  <2>2. CASE Respond
    BY <2>2, RespondFacts DEF Working
  <2>. QED  BY <2>1, <2>2
<1>2. request' # Nobody
  BY <1>1, WorkedOnIsSomebody
<1>3. RefusedForFirstFault'
  BY Zenon, <1>1, <1>2 DEF RefusedForFirstFault
<1>4. intake' = "handled"
  BY <1>1 DEF Course, Working
<1>. QED  BY <1>3, <1>4 DEF Screened

LEMMA ScreenKeeps ==
  ASSUME MaxDepth >= 3, Course, Screened, [PathNext]_pathvars
  PROVE  Screened'
<1>1. CASE UNCHANGED pathvars
  <2>1. UNCHANGED <<stage, request, refusal, intake, settings, call, received>>
    BY <1>1 DEF pathvars, serializer, outside
  <2>2. FirstFault' = FirstFault
    BY <2>1, FirstFaultIs DEF Size
  <2>3. RefusedForFirstFault'
    BY <2>1, <2>2 DEF Screened, RefusedForFirstFault
  <2>. QED  BY <2>1, <2>3 DEF Screened, Authentic, JsonMediaType, TooLargeAsDeclared
<1>2. CASE StartServer
  BY <1>2, ServerScreens
<1>3. CASE Receive
  BY <1>3, ReceiveScreens
<1>4. CASE ReadChunk
  BY <1>4, ChunkScreens
<1>5. CASE Handle
  BY <1>5, HandleScreens
<1>6. CASE Job \/ Respond
  BY <1>6, WorkScreens
<1>. QED  BY <1>1, <1>2, <1>3, <1>4, <1>5, <1>6 DEF PathNext

(* A request is refused before the model for the first thing that is wrong with it in the
   documented order, under its code, with the path to it, and no detail of it names a type
   that is not there. The limit on nesting (max_json_depth, 32 as shipped) lets a question
   through at all. *)
THEOREM PathRefusedForFirstFault ==
  ASSUME MaxDepth >= 3
  PROVE  PathSpec => []RefusedForFirstFault
<1>. DEFINE All == SInv /\ Course /\ Screened
<1>1. PathInit => All
  <2>1. PathInit => Screened
    BY Zenon DEF PathInit, SerializerInit, Screened, RefusedForFirstFault
  <2>. QED  BY <2>1, PathStartsWell
<1>2. All /\ [PathNext]_pathvars => All'
  BY PathStepsKeep, ScreenKeeps
<1>3. All => RefusedForFirstFault
  BY DEF Screened
<1>. HIDE DEF All
<1>. QED  BY <1>1, <1>2, <1>3, PTL DEF PathSpec
=============================================================================
