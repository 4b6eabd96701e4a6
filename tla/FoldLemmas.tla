------------------------------ MODULE FoldLemmas ------------------------------
(***************************************************************************)
(* Facts about finite sets of numbers, sums and joined lists that the      *)
(* proofs about the components share. An induction is written as the       *)
(* search for a least counterexample.                                      *)
(***************************************************************************)
EXTENDS SequencesExt, FiniteSetTheorems, SequenceTheorems, TLAPS

-----------------------------------------------------------------------------
(* Least and last                                                            *)

\* A set of naturals has a least member.
LEMMA SomeLeast ==
  ASSUME NEW T, T \subseteq Nat, T # {}
  PROVE  \E x \in T : \A y \in T : x <= y
<1>1. PICK x \in T : \A y \in T : ~(<<y, x>> \in OpToRel(<, Nat))
  BY NatLessThanWellFounded, WFMin
<1>2. \A y \in T : ~(y < x)
  BY <1>1 DEF OpToRel
<1>. QED  BY <1>2

\* A finite set of naturals has a largest member.
LEMMA SomeGreatest ==
  ASSUME NEW T, IsFiniteSet(T), T \subseteq Nat, T # {}
  PROVE  \E x \in T : \A y \in T : y <= x
<1>. DEFINE Counts == {n \in Nat : \E S \in SUBSET T :
                        /\ S # {} /\ Cardinality(S) = n
                        /\ ~\E x \in S : \A y \in S : y <= x}
<1>1. ASSUME Counts # {} PROVE FALSE
  <2>1. PICK n \in Counts : \A m \in Counts : n <= m
    <3>1. Counts \subseteq Nat
      OBVIOUS
    <3>. HIDE DEF Counts
    <3>. QED  BY <1>1, <3>1, SomeLeast
  <2>2. PICK S \in SUBSET T : /\ S # {} /\ Cardinality(S) = n
                             /\ ~\E x \in S : \A y \in S : y <= x
    BY <2>1
  <2>3. PICK z \in S : TRUE
    BY <2>2
  <2>. DEFINE R == S \ {z}
  <2>4. IsFiniteSet(S) /\ IsFiniteSet(R) /\ Cardinality(S) \in Nat /\ Cardinality(R) \in Nat
        /\ Cardinality(R) = Cardinality(S) - 1
    <3>1. IsFiniteSet(S)
      BY FS_Subset
    <3>. QED  BY <2>3, <3>1, FS_RemoveElement, FS_CardinalityType
  <2>5. R # {}
    BY <2>2, <2>3
  <2>6. \E x \in R : \A y \in R : y <= x
    <3>1. Cardinality(R) \notin Counts
      <4>. HIDE DEF Counts, R
      <4>. QED  BY <2>1, <2>2, <2>4
    <3>. QED  BY <2>4, <2>5, <3>1
  <2>7. PICK x \in R : \A y \in R : y <= x
    BY <2>6
  <2>. QED  BY <2>2, <2>3, <2>7
<1>2. Cardinality(T) \in Nat
  BY FS_CardinalityType
<1>. QED  BY <1>1, <1>2

\* A bounded set of naturals has a last member.
LEMMA SomeLast ==
  ASSUME NEW n \in Nat, NEW S \in SUBSET (1..n), S # {}
  PROVE  \E m \in S : \A j \in S : j <= m
<1>. DEFINE T == {n - j : j \in S}
<1>1. T \subseteq Nat /\ T # {}
  <2>1. \A j \in S : n - j \in Nat
    OBVIOUS
  <2>2. PICK j \in S : TRUE
    OBVIOUS
  <2>3. n - j \in T
    OBVIOUS
  <2>. QED  BY <2>1, <2>3
<1>2. PICK x \in T : \A y \in T : x <= y
  <2>. HIDE DEF T
  <2>. QED  BY <1>1, SomeLeast
<1>3. PICK m \in S : x = n - m
  OBVIOUS
<1>4. ASSUME NEW j \in S PROVE j <= m
  <2>1. n - j \in T
    OBVIOUS
  <2>2. n - m <= n - j
    BY <2>1, <1>2, <1>3
  <2>. QED  BY <2>2
<1>. QED  BY <1>4

-----------------------------------------------------------------------------
(* Sums                                                                      *)

\* SumFunctionOnSet() is a function on the subsets that takes one member away at a time.
Adds(f, S, g) ==
  g = [s \in SUBSET S |-> IF s = {} THEN 0
                         ELSE f[CHOOSE x \in s : TRUE] + g[s \ {CHOOSE x \in s : TRUE}]]

LEMMA SomethingAdds ==
  ASSUME NEW f, NEW S, IsFiniteSet(S)
  PROVE  \E g : Adds(f, S, g)
<1>. DEFINE Small(n) == {s \in SUBSET S : Cardinality(s) <= n}
            First(s) == CHOOSE x \in s : TRUE
            AddsSmall(n, g) ==
              g = [s \in Small(n) |-> IF s = {} THEN 0 ELSE f[First(s)] + g[s \ {First(s)}]]
            Bad == {n \in Nat : ~ \E g : AddsSmall(n, g)}
<1>1. \A s \in SUBSET S : /\ IsFiniteSet(s) /\ Cardinality(s) \in Nat
                          /\ Cardinality(s) <= Cardinality(S)
                          /\ Cardinality(s) = 0 <=> s = {}
                          /\ s # {} => /\ First(s) \in s
                                       /\ Cardinality(s \ {First(s)}) = Cardinality(s) - 1
  <2>. SUFFICES ASSUME NEW s \in SUBSET S
                PROVE  /\ IsFiniteSet(s) /\ Cardinality(s) \in Nat
                       /\ Cardinality(s) <= Cardinality(S)
                       /\ Cardinality(s) = 0 <=> s = {}
                       /\ s # {} => /\ First(s) \in s
                                    /\ Cardinality(s \ {First(s)}) = Cardinality(s) - 1
    OBVIOUS
  <2>1. IsFiniteSet(s) /\ Cardinality(s) <= Cardinality(S)
    BY FS_Subset
  <2>2. Cardinality(s) \in Nat
    BY <2>1, FS_CardinalityType
  <2>3. Cardinality(s) = 0 <=> s = {}
    BY <2>1, FS_EmptySet
  <2>4. s # {} => First(s) \in s
    OBVIOUS
  <2>5. \A x \in s : Cardinality(s \ {x}) = Cardinality(s) - 1
    BY <2>1, FS_RemoveElement
  <2>. QED  BY <2>1, <2>2, <2>3, <2>4, <2>5
<1>2. Bad = {}
  <2>. SUFFICES ASSUME Bad # {} PROVE FALSE
    OBVIOUS
  <2>1. PICK n \in Bad : \A m \in Bad : n <= m
    <3>1. Bad \subseteq Nat
      OBVIOUS
    <3>. HIDE DEF Bad
    <3>. QED  BY <3>1, SomeLeast
  <2>2. CASE n = 0
    <3>1. AddsSmall(0, [s \in Small(0) |-> 0])
      <4>1. \A s \in Small(0) : s = {}
        <5>. SUFFICES ASSUME NEW s \in SUBSET S, Cardinality(s) <= 0 PROVE s = {}
          OBVIOUS
        <5>1. Cardinality(s) \in Nat /\ (Cardinality(s) = 0 <=> s = {})
          BY <1>1
        <5>. QED  BY <5>1
      <4>. QED  BY <4>1
    <3>. QED  BY <2>2, <3>1
  <2>3. CASE n # 0
    <3>1. n - 1 \in Nat /\ n - 1 \notin Bad
      <4>1. n \in Nat
        OBVIOUS
      <4>. HIDE DEF Bad
      <4>. QED  BY <2>1, <2>3, <4>1
    <3>2. PICK g : AddsSmall(n - 1, g)
      BY <3>1
    <3>. DEFINE h == [s \in Small(n) |-> IF s = {} THEN 0 ELSE f[First(s)] + g[s \ {First(s)}]]
    <3>3. \A s \in Small(n - 1) : s \in Small(n) /\ h[s] = g[s]
      <4>. SUFFICES ASSUME NEW s \in Small(n - 1) PROVE s \in Small(n) /\ h[s] = g[s]
        OBVIOUS
      <4>1. s \in Small(n)
        <5>. DEFINE c == Cardinality(s)
        <5>1. s \in SUBSET S /\ c <= n - 1 /\ n \in Nat
          OBVIOUS
        <5>2. c \in Nat
          <6>. HIDE DEF First
          <6>. QED  BY <1>1, <5>1
        <5>3. c <= n
          <6>. HIDE DEF c
          <6>. QED  BY <5>1, <5>2
        <5>. QED  BY <5>1, <5>3
      <4>2. g[s] = IF s = {} THEN 0 ELSE f[First(s)] + g[s \ {First(s)}]
        <5>. HIDE DEF Small, First
        <5>. QED  BY <3>2
      <4>. HIDE DEF Small, First
      <4>. QED  BY <4>1, <4>2
    <3>4. \A s \in Small(n) : s # {} => s \ {First(s)} \in Small(n - 1)
      <4>. SUFFICES ASSUME NEW s \in Small(n), s # {} PROVE s \ {First(s)} \in Small(n - 1)
        OBVIOUS
      <4>1. Cardinality(s) <= n /\ Cardinality(s) \in Nat /\ n \in Nat
        BY <1>1
      <4>2. Cardinality(s \ {First(s)}) = Cardinality(s) - 1
        <5>1. s \in SUBSET S
          OBVIOUS
        <5>. HIDE DEF First, Small
        <5>. QED  BY <1>1, <5>1
      <4>3. Cardinality(s) - 1 <= n - 1
        BY <4>1
      <4>. HIDE DEF First
      <4>. QED  BY <4>2, <4>3
    <3>5. AddsSmall(n, h)
      <4>. SUFFICES ASSUME NEW s \in Small(n)
                    PROVE  h[s] = IF s = {} THEN 0 ELSE f[First(s)] + h[s \ {First(s)}]
        <5>. HIDE DEF Small, First
        <5>. QED  OBVIOUS
      <4>1. s # {} => h[s \ {First(s)}] = g[s \ {First(s)}]
        <5>. HIDE DEF Small, First, h
        <5>. QED  BY <3>3, <3>4
      <4>2. h[s] = IF s = {} THEN 0 ELSE f[First(s)] + g[s \ {First(s)}]
        <5>. HIDE DEF Small, First
        <5>. QED  OBVIOUS
      <4>. HIDE DEF Small, First, h
      <4>. QED  BY <4>1, <4>2
    <3>. QED  BY <3>5
  <2>. QED  BY <2>2, <2>3
<1>3. PICK g : AddsSmall(Cardinality(S), g)
  <2>1. Cardinality(S) \in Nat
    BY FS_CardinalityType
  <2>. QED  BY <1>2, <2>1
<1>4. Small(Cardinality(S)) = SUBSET S
  BY <1>1
<1>5. g = [s \in SUBSET S |-> IF s = {} THEN 0 ELSE f[First(s)] + g[s \ {First(s)}]]
  <2>. HIDE DEF Small, First
  <2>. QED  BY <1>3, <1>4
<1>6. Adds(f, S, g)
  BY <1>5 DEF Adds
<1>. QED  BY <1>6

LEMMA AddsAgree ==
  ASSUME NEW f, NEW S, IsFiniteSet(S), NEW g, Adds(f, S, g),
         NEW T \in SUBSET S, NEW h, Adds(f, T, h)
  PROVE  \A t \in SUBSET T : g[t] = h[t]
<1>. DEFINE First(s) == CHOOSE x \in s : TRUE
            Bad == {n \in Nat : \E t \in SUBSET T : Cardinality(t) = n /\ g[t] # h[t]}
<1>1. \A t \in SUBSET T : /\ Cardinality(t) \in Nat
                          /\ t # {} => /\ First(t) \in t
                                       /\ Cardinality(t \ {First(t)}) = Cardinality(t) - 1
  <2>. SUFFICES ASSUME NEW t \in SUBSET T
                PROVE  /\ Cardinality(t) \in Nat
                       /\ t # {} => /\ First(t) \in t
                                    /\ Cardinality(t \ {First(t)}) = Cardinality(t) - 1
    OBVIOUS
  <2>1. IsFiniteSet(t)
    <3>1. t \in SUBSET S
      OBVIOUS
    <3>. QED  BY <3>1, FS_Subset
  <2>2. Cardinality(t) \in Nat
    BY <2>1, FS_CardinalityType
  <2>3. \A x \in t : Cardinality(t \ {x}) = Cardinality(t) - 1
    BY <2>1, FS_RemoveElement
  <2>. QED  BY <2>2, <2>3
<1>2. SUFFICES Bad = {}
  BY <1>1
<1>3. SUFFICES ASSUME Bad # {} PROVE FALSE
  OBVIOUS
<1>4. PICK n \in Bad : \A m \in Bad : n <= m
  <2>1. Bad \subseteq Nat
    OBVIOUS
  <2>. HIDE DEF Bad
  <2>. QED  BY <1>3, <2>1, SomeLeast
<1>5. PICK t \in SUBSET T : Cardinality(t) = n /\ g[t] # h[t]
  OBVIOUS
<1>6. /\ t \in SUBSET S /\ t \ {First(t)} \in SUBSET T
      /\ g[t] = IF t = {} THEN 0 ELSE f[First(t)] + g[t \ {First(t)}]
      /\ h[t] = IF t = {} THEN 0 ELSE f[First(t)] + h[t \ {First(t)}]
  BY DEF Adds
<1>7. t # {} /\ g[t \ {First(t)}] # h[t \ {First(t)}]
  <2>. HIDE DEF First
  <2>. QED  BY <1>5, <1>6
<1>8. n - 1 \in Bad
  <2>1. Cardinality(t \ {First(t)}) = n - 1 /\ n - 1 \in Nat
    <3>1. /\ Cardinality(t) \in Nat /\ Cardinality(t \ {First(t)}) = Cardinality(t) - 1
          /\ Cardinality(t \ {First(t)}) \in Nat
      BY <1>1, <1>6, <1>7
    <3>. HIDE DEF First
    <3>. QED  BY <1>5, <3>1
  <2>. HIDE DEF First
  <2>. QED  BY <1>6, <1>7, <2>1
<1>9. n \in Nat
  OBVIOUS
<1>. HIDE DEF Bad
<1>. QED  BY <1>4, <1>8, <1>9

LEMMA SumUnfolds ==
  ASSUME NEW f, NEW S, IsFiniteSet(S)
  PROVE  /\ SumFunctionOnSet(f, {}) = 0
         /\ S # {} => \E x \in S : SumFunctionOnSet(f, S) = f[x] + SumFunctionOnSet(f, S \ {x})
<1>1. ASSUME NEW T PROVE SumFunctionOnSet(f, T) = (CHOOSE g : Adds(f, T, g))[T]
  BY DEF SumFunctionOnSet, FoldFunctionOnSet, MapThenFoldSet, Adds
<1>2. ASSUME NEW T, IsFiniteSet(T)
      PROVE  Adds(f, T, CHOOSE g : Adds(f, T, g))
  BY <1>2, SomethingAdds
<1>3. SumFunctionOnSet(f, {}) = 0
  <2>. DEFINE g == CHOOSE g : Adds(f, {}, g)
  <2>1. Adds(f, {}, g)
    BY <1>2, FS_EmptySet
  <2>2. g[{}] = 0
    <3>. HIDE DEF g
    <3>. QED  BY <2>1 DEF Adds
  <2>. QED  BY <1>1, <2>2
<1>4. ASSUME S # {}
      PROVE  \E x \in S : SumFunctionOnSet(f, S) = f[x] + SumFunctionOnSet(f, S \ {x})
  <2>. DEFINE x == CHOOSE x \in S : TRUE
              g == CHOOSE g : Adds(f, S, g)
              h == CHOOSE h : Adds(f, S \ {x}, h)
  <2>1. x \in S
    BY <1>4
  <2>2. IsFiniteSet(S \ {x})
    BY FS_Subset
  <2>3. Adds(f, S, g) /\ Adds(f, S \ {x}, h)
    BY <1>2, <2>2
  <2>4. g[S] = f[x] + g[S \ {x}]
    <3>. HIDE DEF g
    <3>. QED  BY <1>4, <2>3 DEF Adds
  <2>5. g[S \ {x}] = h[S \ {x}]
    <3>1. S \ {x} \in SUBSET S /\ S \ {x} \in SUBSET (S \ {x})
      OBVIOUS
    <3>. HIDE DEF g, h, x
    <3>2. \A t \in SUBSET (S \ {x}) : g[t] = h[t]
      BY <2>3, <3>1, AddsAgree
    <3>. QED  BY <3>1, <3>2
  <2>6. SumFunctionOnSet(f, S) = g[S] /\ SumFunctionOnSet(f, S \ {x}) = h[S \ {x}]
    BY <1>1
  <2>. QED  BY <2>1, <2>4, <2>5, <2>6
<1>. QED  BY <1>3, <1>4

\* A finite set without one of its members, for the inductions below.
LEMMA OneLess ==
  ASSUME NEW S, IsFiniteSet(S), NEW x \in S
  PROVE  /\ IsFiniteSet(S \ {x}) /\ Cardinality(S) \in Nat \ {0}
         /\ Cardinality(S \ {x}) = Cardinality(S) - 1 /\ Cardinality(S) - 1 \in Nat
<1>1. IsFiniteSet(S \ {x}) /\ Cardinality(S \ {x}) = Cardinality(S) - 1
  BY FS_RemoveElement
<1>2. Cardinality(S) \in Nat
  BY FS_CardinalityType
<1>3. Cardinality(S) # 0
  BY FS_EmptySet
<1>. QED  BY <1>1, <1>2, <1>3

\* Any member may be the one that is taken away.
LEMMA SumWithout ==
  ASSUME NEW f, NEW S, IsFiniteSet(S), \A x \in S : f[x] \in Nat
  PROVE  /\ SumFunctionOnSet(f, S) \in Nat
         /\ \A x \in S : /\ SumFunctionOnSet(f, S \ {x}) \in Nat
                         /\ SumFunctionOnSet(f, S) = f[x] + SumFunctionOnSet(f, S \ {x})
<1>. DEFINE Sum(T) == SumFunctionOnSet(f, T)
            Right(T) == /\ Sum(T) \in Nat
                        /\ \A x \in T : Sum(T \ {x}) \in Nat /\ Sum(T) = f[x] + Sum(T \ {x})
            Bad == {n \in Nat : \E T \in SUBSET S : Cardinality(T) = n /\ ~Right(T)}
<1>1. ASSUME NEW T \in SUBSET S PROVE IsFiniteSet(T) /\ Cardinality(T) \in Nat
  <2>1. IsFiniteSet(T)
    BY FS_Subset
  <2>. QED  BY <2>1, FS_CardinalityType
<1>2. SUFFICES Bad = {}
  <2>1. S \in SUBSET S
    OBVIOUS
  <2>2. Right(S)
    <3>. HIDE DEF Right
    <3>. QED  BY <1>1, <1>2, <2>1
  <2>. QED  BY <2>2
<1>3. SUFFICES ASSUME Bad # {} PROVE FALSE
  OBVIOUS
<1>4. PICK n \in Bad : \A m \in Bad : n <= m
  <2>1. Bad \subseteq Nat
    OBVIOUS
  <2>. HIDE DEF Bad
  <2>. QED  BY <1>3, <2>1, SomeLeast
<1>5. PICK T \in SUBSET S : Cardinality(T) = n /\ ~Right(T)
  <2>. HIDE DEF Right
  <2>. QED  OBVIOUS
<1>. HIDE DEF Right
<1>6. ASSUME NEW x \in T PROVE Right(T \ {x}) /\ T \ {x} \in SUBSET S /\ IsFiniteSet(T \ {x})
  <2>1. /\ IsFiniteSet(T \ {x}) /\ Cardinality(T) \in Nat \ {0}
        /\ Cardinality(T \ {x}) = Cardinality(T) - 1 /\ Cardinality(T) - 1 \in Nat
    BY <1>1, OneLess
  <2>2. n - 1 \in Nat /\ ~(n <= n - 1)
    BY <1>5, <2>1
  <2>3. n - 1 \notin Bad
    <3>. HIDE DEF Bad
    <3>. QED  BY <1>4, <2>2
  <2>4. T \ {x} \in SUBSET S /\ Cardinality(T \ {x}) = n - 1
    BY <1>5, <2>1
  <2>. QED  BY <2>1, <2>2, <2>3, <2>4
<1>7. Sum({}) = 0
  BY SumUnfolds, FS_EmptySet
<1>8. T # {}
  <2>. SUFFICES ASSUME T = {} PROVE FALSE
    OBVIOUS
  <2>. QED  BY <1>5, <1>7 DEF Right
<1>9. PICK c \in T : Sum(T) = f[c] + Sum(T \ {c})
  BY <1>1, <1>8, SumUnfolds
<1>10. Sum(T \ {c}) \in Nat /\ f[c] \in Nat /\ Sum(T) \in Nat
  <2>1. Right(T \ {c})
    BY <1>6
  <2>2. Sum(T \ {c}) \in Nat /\ f[c] \in Nat
    BY <2>1 DEF Right
  <2>. HIDE DEF Sum
  <2>. QED  BY <1>9, <2>2
<1>11. ASSUME NEW x \in T PROVE Sum(T \ {x}) \in Nat /\ Sum(T) = f[x] + Sum(T \ {x})
  <2>1. CASE x = c
    <3>. HIDE DEF Sum
    <3>. QED  BY <1>9, <1>10, <2>1
  <2>2. CASE x # c
    <3>1. Right(T \ {c}) /\ Right(T \ {x}) /\ x \in T \ {c} /\ c \in T \ {x}
      BY <1>6, <2>2
    <3>2. (T \ {c}) \ {x} = (T \ {x}) \ {c}
      OBVIOUS
    <3>3. /\ Sum(T \ {x}) \in Nat /\ Sum((T \ {x}) \ {c}) \in Nat
          /\ Sum(T \ {x}) = f[c] + Sum((T \ {x}) \ {c})
          /\ Sum(T \ {c}) = f[x] + Sum((T \ {c}) \ {x})
          /\ f[x] \in Nat /\ f[c] \in Nat
      BY <3>1 DEF Right
    <3>4. Sum((T \ {c}) \ {x}) = Sum((T \ {x}) \ {c})
      BY <3>2
    <3>. HIDE DEF Sum
    <3>. QED  BY <1>9, <1>10, <3>3, <3>4
  <2>. QED  BY <2>1, <2>2
<1>12. Right(T)
  BY <1>10, <1>11 DEF Right
<1>. QED  BY <1>5, <1>12

LEMMA SumWithoutOne ==
  ASSUME NEW f, NEW S, IsFiniteSet(S), \A y \in S : f[y] \in Nat, NEW x \in S
  PROVE  /\ SumFunctionOnSet(f, S) \in Nat /\ SumFunctionOnSet(f, S \ {x}) \in Nat
         /\ SumFunctionOnSet(f, S) = f[x] + SumFunctionOnSet(f, S \ {x})
<1>1. \A y \in S : /\ SumFunctionOnSet(f, S \ {y}) \in Nat
                   /\ SumFunctionOnSet(f, S) = f[y] + SumFunctionOnSet(f, S \ {y})
  BY SumWithout
<1>2. SumFunctionOnSet(f, S) \in Nat
  BY SumWithout
<1>. QED  BY <1>1, <1>2

\* A sum is the same when its members are given other names.
LEMMA SumRenamed ==
  ASSUME NEW f, NEW S, IsFiniteSet(S), \A x \in S : f[x] \in Nat,
         NEW h, \A x, y \in S : h[x] = h[y] => x = y,
         NEW g, \A x \in S : g[h[x]] = f[x]
  PROVE  SumFunctionOnSet(g, {h[x] : x \in S}) = SumFunctionOnSet(f, S)
<1>. DEFINE Image(T) == {h[x] : x \in T}
            Same(T) == SumFunctionOnSet(g, Image(T)) = SumFunctionOnSet(f, T)
            Bad == {n \in Nat : \E T \in SUBSET S : Cardinality(T) = n /\ ~Same(T)}
<1>1. ASSUME NEW T \in SUBSET S
      PROVE  IsFiniteSet(T) /\ Cardinality(T) \in Nat /\ IsFiniteSet(Image(T))
  <2>1. IsFiniteSet(T)
    BY FS_Subset
  <2>2. IsFiniteSet(Image(T))
    <3>. DEFINE k == [x \in T |-> h[x]]
    <3>1. k \in Surjection(T, Image(T))
      BY DEF Surjection
    <3>. HIDE DEF k
    <3>. QED  BY <2>1, <3>1, FS_Surjection
  <2>. QED  BY <2>1, <2>2, FS_CardinalityType
<1>2. SUFFICES Bad = {}
  <2>1. S \in SUBSET S
    OBVIOUS
  <2>2. Same(S)
    <3>. HIDE DEF Same
    <3>. QED  BY <1>1, <1>2, <2>1
  <2>. QED  BY <2>2
<1>3. SUFFICES ASSUME Bad # {} PROVE FALSE
  OBVIOUS
<1>4. PICK n \in Bad : \A m \in Bad : n <= m
  <2>1. Bad \subseteq Nat
    OBVIOUS
  <2>. HIDE DEF Bad
  <2>. QED  BY <1>3, <2>1, SomeLeast
<1>5. PICK T \in SUBSET S : Cardinality(T) = n /\ ~Same(T)
  <2>. HIDE DEF Same
  <2>. QED  OBVIOUS
<1>6. T # {}
  <2>. SUFFICES ASSUME T = {} PROVE Same(T)
    BY <1>5
  <2>1. Image(T) = {}
    OBVIOUS
  <2>2. SumFunctionOnSet(g, {}) = 0 /\ SumFunctionOnSet(f, {}) = 0
    BY SumUnfolds, FS_EmptySet
  <2>. QED  BY <2>1, <2>2
<1>7. PICK x \in T : TRUE
  BY <1>6
<1>8. Same(T \ {x})
  <2>1. /\ Cardinality(T) \in Nat \ {0}
        /\ Cardinality(T \ {x}) = Cardinality(T) - 1 /\ Cardinality(T) - 1 \in Nat
    BY <1>1, OneLess
  <2>2. n - 1 \in Nat /\ ~(n <= n - 1)
    BY <1>5, <2>1
  <2>3. n - 1 \notin Bad
    <3>. HIDE DEF Bad
    <3>. QED  BY <1>4, <2>2
  <2>4. T \ {x} \in SUBSET S /\ Cardinality(T \ {x}) = n - 1
    BY <1>5, <2>1
  <2>. HIDE DEF Same
  <2>. QED  BY <2>2, <2>3, <2>4
<1>9. Image(T) \ {h[x]} = Image(T \ {x}) /\ h[x] \in Image(T)
  OBVIOUS
<1>10. SumFunctionOnSet(f, T) = f[x] + SumFunctionOnSet(f, T \ {x})
  <2>1. IsFiniteSet(T) /\ \A y \in T : f[y] \in Nat
    BY <1>1
  <2>2. x \in T
    BY <1>7
  <2>. QED  BY <2>1, <2>2, SumWithoutOne
<1>11. SumFunctionOnSet(g, Image(T)) = g[h[x]] + SumFunctionOnSet(g, Image(T) \ {h[x]})
  <2>1. IsFiniteSet(Image(T))
    BY <1>1
  <2>2. \A z \in Image(T) : g[z] \in Nat
    <3>. SUFFICES ASSUME NEW y \in T PROVE g[h[y]] \in Nat
      OBVIOUS
    <3>1. y \in S
      OBVIOUS
    <3>2. g[h[y]] = f[y] /\ f[y] \in Nat
      BY <3>1
    <3>. QED  BY <3>2
  <2>. HIDE DEF Image
  <2>. QED  BY <1>9, <2>1, <2>2, SumWithoutOne
<1>12. Same(T)
  <2>1. g[h[x]] = f[x]
    OBVIOUS
  <2>. HIDE DEF Image
  <2>. QED  BY <1>8, <1>9, <1>10, <1>11, <2>1
<1>. QED  BY <1>5, <1>12

LEMMA SumOfEqual ==
  ASSUME NEW f, NEW g, NEW S, IsFiniteSet(S), \A x \in S : f[x] \in Nat /\ g[x] = f[x]
  PROVE  SumFunctionOnSet(g, S) = SumFunctionOnSet(f, S)
<1>. DEFINE h == [x \in S |-> x]
<1>1. \A x, y \in S : h[x] = h[y] => x = y
  OBVIOUS
<1>2. \A x \in S : g[h[x]] = f[x]
  OBVIOUS
<1>3. {h[x] : x \in S} = S
  OBVIOUS
<1>. HIDE DEF h
<1>. QED  BY <1>1, <1>2, <1>3, SumRenamed

\* A sum over the first numbers grows by the next.
LEMMA SumOfNext ==
  ASSUME NEW f, NEW n \in Nat, \A i \in 1..(n + 1) : f[i] \in Nat
  PROVE  /\ SumFunctionOnSet(f, 1..n) \in Nat
         /\ SumFunctionOnSet(f, 1..(n + 1)) = SumFunctionOnSet(f, 1..n) + f[n + 1]
<1>1. IsFiniteSet(1..(n + 1)) /\ n + 1 \in 1..(n + 1) /\ (1..(n + 1)) \ {n + 1} = 1..n
  <2>1. IsFiniteSet(1..(n + 1))
    BY FS_Interval
  <2>. QED  BY <2>1
<1>2. /\ SumFunctionOnSet(f, 1..n) \in Nat
      /\ SumFunctionOnSet(f, 1..(n + 1)) = f[n + 1] + SumFunctionOnSet(f, 1..n)
  <2>. DEFINE S == 1..(n + 1)  last == n + 1
  <2>1. (\A i \in S : f[i] \in Nat) /\ IsFiniteSet(S) /\ last \in S /\ S \ {last} = 1..n
    BY <1>1
  <2>. HIDE DEF S, last
  <2>2. /\ SumFunctionOnSet(f, S \ {last}) \in Nat
        /\ SumFunctionOnSet(f, S) = f[last] + SumFunctionOnSet(f, S \ {last})
    BY <2>1, SumWithoutOne
  <2>3. /\ SumFunctionOnSet(f, 1..n) \in Nat
        /\ SumFunctionOnSet(f, S) = f[last] + SumFunctionOnSet(f, 1..n)
    BY <2>1, <2>2
  <2>. QED  BY <2>3 DEF S, last
<1>3. f[n + 1] \in Nat
  BY <1>1
<1>. QED  BY <1>2, <1>3

\* A sum whose members are at most so many times another's is at most so many times the other.
LEMMA SumBelow ==
  ASSUME NEW n \in Nat, NEW c \in Nat, NEW f, NEW g,
         \A i \in 1..n : f[i] \in Nat /\ g[i] \in Nat /\ f[i] <= c * g[i]
  PROVE  SumFunctionOnSet(f, 1..n) <= c * SumFunctionOnSet(g, 1..n)
<1>. DEFINE F(m) == SumFunctionOnSet(f, 1..m)
            G(m) == SumFunctionOnSet(g, 1..m)
            Bad == {m \in 0..n : ~(F(m) <= c * G(m))}
<1>1. SUFFICES ASSUME Bad # {} PROVE FALSE
  <2>1. n \in 0..n /\ n \notin Bad
    BY <1>1
  <2>. QED  BY <2>1
<1>2. PICK m \in Bad : \A k \in Bad : m <= k
  <2>1. Bad \subseteq Nat
    OBVIOUS
  <2>. HIDE DEF Bad
  <2>. QED  BY <1>1, <2>1, SomeLeast
<1>3. m \in 0..n /\ ~(F(m) <= c * G(m))
  BY <1>2
<1>4. F(0) = 0 /\ G(0) = 0
  <2>1. 1..0 = {} /\ IsFiniteSet({})
    BY FS_EmptySet
  <2>. QED  BY <2>1, SumUnfolds
<1>5. CASE m = 0
  <2>1. c * 0 = 0
    OBVIOUS
  <2>. QED  BY <1>3, <1>4, <1>5, <2>1
<1>6. CASE m # 0
  <2>. DEFINE k == m - 1
  <2>1. k \in Nat /\ m = k + 1 /\ k \in 0..n /\ k < m /\ m \in 1..n
    BY <1>3, <1>6
  <2>. HIDE DEF k
  <2>2. \A i \in 1..(k + 1) : i \in 1..n
    BY <2>1
  <2>3. /\ F(k) \in Nat /\ F(k + 1) = F(k) + f[k + 1]
        /\ G(k) \in Nat /\ G(k + 1) = G(k) + g[k + 1]
    BY <2>1, <2>2, SumOfNext
  <2>4. F(k) <= c * G(k)
    <3>1. k \notin Bad
      <4>. HIDE DEF Bad
      <4>1. k \in Bad => m <= k
        BY <1>2
      <4>2. ~(m <= k)
        BY <2>1
      <4>. QED  BY <4>1, <4>2
    <3>. HIDE DEF F, G
    <3>. QED  BY <2>1, <3>1
  <2>5. f[k + 1] \in Nat /\ g[k + 1] \in Nat /\ f[k + 1] <= c * g[k + 1]
    BY <2>1
  <2>. HIDE DEF F, G
  <2>6. \A a, b, x, y \in Nat : a <= c * b /\ x <= c * y => a + x <= c * (b + y)
    OBVIOUS
  <2>. QED  BY <1>3, <2>1, <2>3, <2>4, <2>5, <2>6
<1>. QED  BY <1>5, <1>6
-----------------------------------------------------------------------------
(* Joined lists                                                              *)

\* What FlattenSeq() builds from the left.
Joins(seqs, n, f) == f = [i \in 1..n |-> IF i = 1 THEN seqs[i] ELSE f[i - 1] \o seqs[i]]

LEMMA SomethingJoins ==
  ASSUME NEW seqs, NEW length \in Nat
  PROVE  \E f : Joins(seqs, length, f)
<1>. DEFINE Bad == {n \in Nat : ~ \E f : Joins(seqs, n, f)}
<1>1. SUFFICES ASSUME Bad # {} PROVE FALSE
  OBVIOUS
<1>2. PICK n \in Bad : \A m \in Bad : n <= m
  <2>1. Bad \subseteq Nat
    OBVIOUS
  <2>. HIDE DEF Bad
  <2>. QED  BY <1>1, <2>1, SomeLeast
<1>3. CASE n = 0
  <2>1. Joins(seqs, 0, [i \in 1..0 |-> 0])
    BY DEF Joins
  <2>. QED  BY <1>3, <2>1
<1>4. CASE n # 0
  <2>1. n - 1 \in Nat /\ ~(n <= n - 1)
    BY <1>4
  <2>2. PICK f : Joins(seqs, n - 1, f)
    <3>1. n - 1 \notin Bad
      <4>. HIDE DEF Bad
      <4>. QED  BY <1>2, <2>1
    <3>. QED  BY <2>1, <3>1
  <2>. DEFINE g == [i \in 1..n |-> IF i = 1 THEN seqs[i] ELSE f[i - 1] \o seqs[i]]
  <2>3. ASSUME NEW i \in 1..(n - 1) PROVE g[i] = f[i]
    <3>1. i \in 1..n
      BY <2>1
    <3>2. f[i] = IF i = 1 THEN seqs[i] ELSE f[i - 1] \o seqs[i]
      BY <2>2 DEF Joins
    <3>. QED  BY <3>1, <3>2
  <2>4. ASSUME NEW i \in 1..n, i # 1 PROVE i - 1 \in 1..(n - 1)
    BY <2>1, <2>4
  <2>5. Joins(seqs, n, g)
    <3>1. \A i \in 1..n : i # 1 => g[i - 1] = f[i - 1]
      <4>. HIDE DEF g
      <4>. QED  BY <2>3, <2>4
    <3>2. g = [i \in 1..n |-> IF i = 1 THEN seqs[i] ELSE g[i - 1] \o seqs[i]]
      BY <3>1
    <3>. HIDE DEF g
    <3>. QED  BY <3>2 DEF Joins
  <2>. QED  BY <2>5
<1>. QED  BY <1>3, <1>4

LEMMA FlattenUnfolds ==
  ASSUME NEW seqs, Len(seqs) \in Nat
  PROVE  \E f : /\ Joins(seqs, Len(seqs), f)
                /\ FlattenSeq(seqs) = IF Len(seqs) = 0 THEN seqs ELSE f[Len(seqs)]
<1>. DEFINE f == CHOOSE f : Joins(seqs, Len(seqs), f)
<1>1. Joins(seqs, Len(seqs), f)
  BY SomethingJoins
<1>2. FlattenSeq(seqs) = IF Len(seqs) = 0 THEN seqs ELSE f[Len(seqs)]
  BY DEF FlattenSeq, Joins
<1>. QED  BY <1>1, <1>2

LEMMA JoinsType ==
  ASSUME NEW S, NEW seqs \in Seq(Seq(S)), NEW f, Joins(seqs, Len(seqs), f)
  PROVE  \A i \in 1..Len(seqs) : f[i] \in Seq(S) /\ seqs[i] \in Seq(S)
<1>. DEFINE n == Len(seqs)
            Bad == {i \in 1..n : f[i] \notin Seq(S)}
<1>1. n \in Nat /\ \A i \in 1..n : seqs[i] \in Seq(S)
  BY LenProperties, ElementOfSeq
<1>2. \A i \in 1..n : f[i] = IF i = 1 THEN seqs[i] ELSE f[i - 1] \o seqs[i]
  BY DEF Joins
<1>3. \A i \in 1..n : i # 1 => i - 1 \in 1..n /\ i - 1 < i
  BY <1>1
<1>. HIDE DEF n
<1>4. Bad = {}
  <2>. SUFFICES ASSUME Bad # {} PROVE FALSE
    OBVIOUS
  <2>1. PICK i \in Bad : \A j \in Bad : i <= j
    <3>1. Bad \subseteq Nat
      OBVIOUS
    <3>. HIDE DEF Bad
    <3>. QED  BY <3>1, SomeLeast
  <2>2. i \in 1..n /\ f[i] \notin Seq(S)
    OBVIOUS
  <2>3. i # 1
    BY <1>1, <1>2, <2>2
  <2>4. i - 1 \in 1..n /\ i - 1 \notin Bad
    <3>1. i - 1 \in 1..n /\ ~(i <= i - 1)
      BY <1>3, <2>2, <2>3
    <3>. HIDE DEF Bad
    <3>. QED  BY <2>1, <3>1
  <2>5. f[i - 1] \in Seq(S) /\ seqs[i] \in Seq(S) /\ f[i] = f[i - 1] \o seqs[i]
    BY <1>1, <1>2, <2>2, <2>3, <2>4
  <2>6. f[i] \in Seq(S)
    BY <2>5, ConcatProperties
  <2>. QED  BY <2>2, <2>6
<1>5. \A i \in 1..n : f[i] \in Seq(S)
  BY <1>4
<1>. QED  BY <1>1, <1>5 DEF n

LEMMA JoinsSteps ==
  ASSUME NEW seqs, Len(seqs) \in Nat, NEW f, Joins(seqs, Len(seqs), f)
  PROVE  /\ \A i \in 1..Len(seqs) : i = 1 => f[i] = seqs[i]
         /\ \A i \in 1..Len(seqs) : i # 1 => i - 1 \in 1..Len(seqs) /\ f[i] = f[i - 1] \o seqs[i]
<1>1. \A i \in 1..Len(seqs) : f[i] = IF i = 1 THEN seqs[i] ELSE f[i - 1] \o seqs[i]
  BY DEF Joins
<1>2. \A i \in 1..Len(seqs) : i # 1 => i - 1 \in 1..Len(seqs)
  OBVIOUS
<1>. QED  BY <1>1, <1>2

\* Lists of members of S are joined to one.
LEMMA FlattenType ==
  ASSUME NEW S, NEW seqs \in Seq(Seq(S))
  PROVE  FlattenSeq(seqs) \in Seq(S)
<1>1. Len(seqs) \in Nat
  BY LenProperties
<1>2. PICK f : /\ Joins(seqs, Len(seqs), f)
               /\ FlattenSeq(seqs) = IF Len(seqs) = 0 THEN seqs ELSE f[Len(seqs)]
  BY <1>1, FlattenUnfolds
<1>3. CASE Len(seqs) = 0
  <2>1. seqs = <<>>
    BY <1>3, EmptySeq
  <2>. QED  BY <1>2, <1>3, <2>1, EmptySeq
<1>4. CASE Len(seqs) # 0
  <2>1. Len(seqs) \in 1..Len(seqs)
    BY <1>1, <1>4
  <2>2. \A i \in 1..Len(seqs) : f[i] \in Seq(S)
    BY <1>2, JoinsType
  <2>. QED  BY <1>2, <1>4, <2>1, <2>2
<1>. QED  BY <1>3, <1>4

\* Only empty lists are joined to an empty one.
LEMMA FlattenEmpty ==
  ASSUME NEW S, NEW seqs \in Seq(Seq(S)), FlattenSeq(seqs) = <<>>
  PROVE  \A i \in 1..Len(seqs) : seqs[i] = <<>>
<1>. DEFINE n == Len(seqs)
<1>1. n \in Nat
  BY LenProperties
<1>2. PICK f : /\ Joins(seqs, Len(seqs), f)
               /\ FlattenSeq(seqs) = IF Len(seqs) = 0 THEN seqs ELSE f[Len(seqs)]
  BY <1>1, FlattenUnfolds
<1>3. /\ \A i \in 1..n : f[i] \in Seq(S) /\ seqs[i] \in Seq(S)
      /\ \A i \in 1..n : i = 1 => f[i] = seqs[i]
      /\ \A i \in 1..n : i # 1 => i - 1 \in 1..n /\ f[i] = f[i - 1] \o seqs[i]
  <2>. HIDE DEF n
  <2>1. Joins(seqs, Len(seqs), f)
    BY <1>2
  <2>2. \A i \in 1..Len(seqs) : f[i] \in Seq(S) /\ seqs[i] \in Seq(S)
    BY <2>1, JoinsType
  <2>3. \A i \in 1..Len(seqs) : i = 1 => f[i] = seqs[i]
    BY <1>1, <2>1, JoinsSteps DEF n
  <2>4. \A i \in 1..Len(seqs) : i # 1 => i - 1 \in 1..Len(seqs) /\ f[i] = f[i - 1] \o seqs[i]
    BY <1>1, <2>1, JoinsSteps DEF n
  <2>. QED  BY <2>2, <2>3, <2>4 DEF n
<1>4. n # 0 => f[n] = <<>>
  BY <1>2
<1>. HIDE DEF n
<1>5. ASSUME NEW i \in 1..n, i # 1, f[i] = <<>> PROVE f[i - 1] = <<>> /\ seqs[i] = <<>>
  <2>1. f[i - 1] \in Seq(S) /\ seqs[i] \in Seq(S) /\ f[i - 1] \o seqs[i] = <<>>
    BY <1>3, <1>5
  <2>. DEFINE s == f[i - 1]  t == seqs[i]
  <2>. HIDE DEF s, t
  <2>2. s \in Seq(S) /\ t \in Seq(S) /\ s \o t = <<>>
    BY <2>1 DEF s, t
  <2>3. Len(s) + Len(t) = 0 /\ Len(s) \in Nat /\ Len(t) \in Nat
    <3>1. Len(s \o t) = Len(s) + Len(t)
      BY <2>2, ConcatProperties
    <3>. QED  BY <2>2, <3>1, EmptySeq, LenProperties
  <2>4. Len(s) = 0 /\ Len(t) = 0
    BY <2>3
  <2>5. s = <<>> /\ t = <<>>
    BY <2>2, <2>4, EmptySeq
  <2>. QED  BY <2>5 DEF s, t
<1>6. \A i \in 1..n : f[i] = <<>>
  <2>. DEFINE Bad == {i \in 1..n : f[i] # <<>>}
  <2>. SUFFICES ASSUME Bad # {} PROVE FALSE
    OBVIOUS
  <2>1. PICK m \in Bad : \A j \in Bad : j <= m
    <3>1. Bad \in SUBSET (1..n)
      OBVIOUS
    <3>. HIDE DEF Bad
    <3>. QED  BY <1>1, <3>1, SomeLast
  <2>2. m \in 1..n /\ f[m] # <<>>
    OBVIOUS
  <2>3. m # n
    BY <1>4, <2>2
  <2>4. m + 1 \in 1..n /\ m + 1 # 1 /\ m + 1 - 1 = m /\ ~(m + 1 <= m)
    BY <1>1, <2>2, <2>3
  <2>5. m + 1 \notin Bad
    <3>. HIDE DEF Bad
    <3>. QED  BY <2>1, <2>4
  <2>6. f[m + 1] = <<>>
    BY <2>4, <2>5
  <2>7. f[m + 1 - 1] = <<>>
    BY <1>5, <2>4, <2>6
  <2>. QED  BY <2>2, <2>4, <2>7
<1>7. ASSUME NEW i \in 1..n PROVE seqs[i] = <<>>
  BY <1>3, <1>5, <1>6
<1>. QED  BY <1>7 DEF n

\* What is built of a list does not depend on what follows it.
LEMMA JoinsPrefix ==
  ASSUME NEW seqs, NEW n \in Nat, NEW f, Joins(seqs, n, f),
         NEW others, NEW m \in Nat, n <= m, NEW g, Joins(others, m, g),
         \A i \in 1..n : others[i] = seqs[i]
  PROVE  \A i \in 1..n : g[i] = f[i]
<1>. DEFINE Bad == {i \in 1..n : g[i] # f[i]}
<1>1. SUFFICES ASSUME Bad # {} PROVE FALSE
  OBVIOUS
<1>2. PICK i \in Bad : \A j \in Bad : i <= j
  <2>1. Bad \subseteq Nat
    OBVIOUS
  <2>. HIDE DEF Bad
  <2>. QED  BY <1>1, <2>1, SomeLeast
<1>3. /\ i \in 1..n /\ i \in 1..m /\ g[i] # f[i] /\ i \in Nat
  OBVIOUS
<1>4. /\ f[i] = IF i = 1 THEN seqs[i] ELSE f[i - 1] \o seqs[i]
      /\ g[i] = IF i = 1 THEN others[i] ELSE g[i - 1] \o others[i]
  BY <1>3 DEF Joins
<1>5. i # 1 => i - 1 \in 1..n /\ ~(i <= i - 1)
  BY <1>3
<1>6. i # 1 => g[i - 1] = f[i - 1]
  BY <1>2, <1>5
<1>. QED  BY <1>3, <1>4, <1>6

\* A list is joined one item at a time.
LEMMA FlattenAppend ==
  ASSUME NEW S, NEW seqs \in Seq(Seq(S)), NEW last \in Seq(S)
  PROVE  FlattenSeq(Append(seqs, last)) = FlattenSeq(seqs) \o last
<1>. DEFINE more == Append(seqs, last)  n == Len(seqs)
<1>1. /\ n \in Nat /\ Len(more) = n + 1 /\ more[n + 1] = last
      /\ \A i \in 1..n : more[i] = seqs[i]
  BY AppendProperties, LenProperties
<1>. HIDE DEF more
<1>2. PICK f : /\ Joins(seqs, n, f)
               /\ FlattenSeq(seqs) = IF n = 0 THEN seqs ELSE f[n]
  BY <1>1, FlattenUnfolds
<1>3. PICK g : /\ Joins(more, n + 1, g)
               /\ FlattenSeq(more) = IF n + 1 = 0 THEN more ELSE g[n + 1]
  BY <1>1, FlattenUnfolds
<1>4. FlattenSeq(more) = IF n + 1 = 1 THEN last ELSE g[n] \o last
  <2>1. n + 1 \in 1..(n + 1) /\ n + 1 # 0 /\ n + 1 - 1 = n
    BY <1>1
  <2>2. g[n + 1] = IF n + 1 = 1 THEN more[n + 1] ELSE g[n + 1 - 1] \o more[n + 1]
    <3>. DEFINE m == n + 1
    <3>1. m \in 1..m /\ Joins(more, m, g)
      BY <1>3, <2>1
    <3>. HIDE DEF m
    <3>2. g[m] = IF m = 1 THEN more[m] ELSE g[m - 1] \o more[m]
      BY <3>1 DEF Joins
    <3>. QED  BY <3>2 DEF m
  <2>. QED  BY <1>1, <1>3, <2>1, <2>2
<1>5. CASE n = 0
  <2>1. seqs = <<>>
    BY <1>5, EmptySeq
  <2>2. FlattenSeq(seqs) = <<>>
    BY <1>2, <1>5, <2>1
  <2>3. FlattenSeq(more) = last
    BY <1>4, <1>5
  <2>. QED  BY <2>2, <2>3, ConcatEmptySeq DEF more
<1>6. CASE n # 0
  <2>1. n \in 1..n /\ n + 1 \in Nat /\ n <= n + 1
    BY <1>1, <1>6
  <2>2. \A i \in 1..n : g[i] = f[i]
    <3>. DEFINE m == n + 1
    <3>1. m \in Nat /\ n <= m /\ Joins(more, m, g)
      BY <1>3, <2>1
    <3>. HIDE DEF m, n
    <3>. QED  BY <1>1, <1>2, <3>1, JoinsPrefix
  <2>3. g[n] = f[n]
    BY <2>1, <2>2
  <2>. QED  BY <1>1, <1>2, <1>4, <1>6, <2>3 DEF more
<1>. QED  BY <1>5, <1>6

LEMMA FlattenNothing == FlattenSeq(<<>>) = <<>>
<1>1. Len(<<>>) = 0
  BY EmptySeq
<1>. QED  BY <1>1, FlattenUnfolds

\* What holds of the empty sequence and is kept when an element is appended holds of all.
LEMMA ByAppending ==
  ASSUME NEW S, NEW Good, <<>> \in Good,
         \A s \in Seq(S) : \A e \in S : s \in Good => Append(s, e) \in Good
  PROVE  \A s \in Seq(S) : s \in Good
<1>. DEFINE Bad == {n \in Nat : \E s \in Seq(S) : Len(s) = n /\ s \notin Good}
<1>1. SUFFICES Bad = {}
  BY LenProperties
<1>2. SUFFICES ASSUME Bad # {} PROVE FALSE
  OBVIOUS
<1>3. PICK n \in Bad : \A m \in Bad : n <= m
  <2>1. Bad \subseteq Nat
    OBVIOUS
  <2>. HIDE DEF Bad
  <2>. QED  BY <1>2, <2>1, SomeLeast
<1>4. PICK s \in Seq(S) : Len(s) = n /\ s \notin Good
  BY <1>3
<1>5. PICK front \in Seq(S), e \in S : s = Append(front, e)
  BY <1>4, SequenceEmptyOrAppend
<1>6. front \notin Good
  BY <1>4, <1>5
<1>7. Len(front) \in Nat /\ Len(s) = Len(front) + 1
  BY <1>5, AppendProperties, LenProperties
<1>8. Len(front) \in Bad
  BY <1>6, <1>7
<1>9. n \in Nat /\ n = Len(front) + 1
  BY <1>4, <1>7
<1>. HIDE DEF Bad
<1>10. n <= Len(front)
  BY <1>3, <1>8
<1>. QED  BY <1>7, <1>9, <1>10

-----------------------------------------------------------------------------
(* A list for each element                                                   *)

\* g gives each member of S a list of members of T.
ListsFor(g, S, T) == \A x \in S : g[x] \in Seq(T)

Each(g, s) == FlattenSeq([i \in 1..Len(s) |-> g[s[i]]])

LEMMA ListsOfEach ==
  ASSUME NEW S, NEW T, NEW g, ListsFor(g, S, T), NEW s, s \in Seq(S)
  PROVE  /\ [i \in 1..Len(s) |-> g[s[i]]] \in Seq(Seq(T))
         /\ Each(g, s) \in Seq(T)
<1>1. Len(s) \in Nat /\ \A i \in 1..Len(s) : s[i] \in S
  BY LenProperties, ElementOfSeq
<1>2. \A i \in 1..Len(s) : g[s[i]] \in Seq(T)
  BY <1>1 DEF ListsFor
<1>3. [i \in 1..Len(s) |-> g[s[i]]] \in Seq(Seq(T))
  BY <1>1, <1>2, IsASeq
<1>. QED  BY <1>3, FlattenType DEF Each

LEMMA EachOfNone == \A g : Each(g, <<>>) = <<>>
<1>. SUFFICES ASSUME NEW g PROVE Each(g, <<>>) = <<>>
  OBVIOUS
<1>1. Len(<<>>) = 0
  BY EmptySeq
<1>2. [i \in 1..Len(<<>>) |-> g[<<>>[i]]] = <<>>
  BY <1>1
<1>. QED  BY <1>2, FlattenNothing DEF Each

LEMMA EachOfAppend ==
  ASSUME NEW S, NEW T, NEW g, ListsFor(g, S, T), NEW s, s \in Seq(S), NEW e \in S
  PROVE  Each(g, Append(s, e)) = Each(g, s) \o g[e]
<1>. DEFINE lists == [i \in 1..Len(s) |-> g[s[i]]]
            more == [i \in 1..Len(Append(s, e)) |-> g[Append(s, e)[i]]]
<1>1. /\ Len(s) \in Nat /\ Len(Append(s, e)) = Len(s) + 1 /\ Append(s, e) \in Seq(S)
      /\ \A i \in 1..Len(s) : Append(s, e)[i] = s[i]
      /\ Append(s, e)[Len(s) + 1] = e
  BY AppendProperties, LenProperties
<1>2. lists \in Seq(Seq(T)) /\ more \in Seq(Seq(T)) /\ g[e] \in Seq(T)
  BY <1>1, ListsOfEach DEF ListsFor
<1>3. /\ Len(lists) = Len(s) /\ Len(more) = Len(s) + 1
      /\ \A i \in 1..Len(s) : more[i] = lists[i]
      /\ more[Len(s) + 1] = g[e]
  <2>1. \A i \in 1..Len(s) : i \in 1..(Len(s) + 1)
    BY <1>1
  <2>2. Len(s) + 1 \in 1..(Len(s) + 1)
    BY <1>1
  <2>3. DOMAIN lists = 1..Len(lists) /\ DOMAIN more = 1..Len(more)
        /\ Len(lists) \in Nat /\ Len(more) \in Nat
    BY <1>2, LenProperties
  <2>4. Len(lists) = Len(s)
    BY <1>1, <2>3
  <2>5. Len(more) = Len(s) + 1
    BY <1>1, <2>3
  <2>. QED  BY <1>1, <2>1, <2>2, <2>4, <2>5
<1>. HIDE DEF lists, more
<1>4. more = Append(lists, g[e])
  <2>1. /\ Append(lists, g[e]) \in Seq(Seq(T)) /\ Len(Append(lists, g[e])) = Len(s) + 1
        /\ \A i \in 1..Len(s) : Append(lists, g[e])[i] = lists[i]
        /\ Append(lists, g[e])[Len(s) + 1] = g[e]
    BY <1>2, <1>3, AppendProperties
  <2>2. \A i \in 1..(Len(s) + 1) : i \in 1..Len(s) \/ i = Len(s) + 1
    BY <1>1
  <2>3. \A i \in 1..Len(more) : more[i] = Append(lists, g[e])[i]
    BY <1>3, <2>1, <2>2
  <2>. QED  BY <1>2, <1>3, <2>1, <2>3, SeqEqual
<1>5. FlattenSeq(more) = FlattenSeq(lists) \o g[e]
  BY <1>2, <1>4, FlattenAppend
<1>. QED  BY <1>5 DEF Each, lists, more

LEMMA EachOfOne ==
  ASSUME NEW S, NEW T, NEW g, ListsFor(g, S, T), NEW x \in S
  PROVE  Each(g, <<x>>) = g[x]
<1>1. <<>> \in Seq(S) /\ Append(<<>>, x) = <<x>>
  BY EmptySeq
<1>2. Each(g, <<x>>) = <<>> \o g[x]
  <2>1. Each(g, Append(<<>>, x)) = Each(g, <<>>) \o g[x]
    <3>. HIDE DEF ListsFor, Each
    <3>. QED  BY <1>1, EachOfAppend
  <2>. QED  BY <1>1, <2>1, EachOfNone
<1>3. g[x] \in Seq(T)
  BY DEF ListsFor
<1>. HIDE DEF ListsFor
<1>. QED  BY <1>2, <1>3, EmptySeq

\* For two sequences after each other: the lists of the one, then those of the other.
LEMMA EachOfBoth ==
  ASSUME NEW S, NEW T, NEW g, ListsFor(g, S, T), NEW s, s \in Seq(S), NEW t, t \in Seq(S)
  PROVE  Each(g, s \o t) = Each(g, s) \o Each(g, t)
<1>. DEFINE Good == {u \in Seq(S) : Each(g, s \o u) = Each(g, s) \o Each(g, u)}
<1>1. Each(g, s) \in Seq(T)
  BY ListsOfEach
<1>2. <<>> \in Good
  <2>1. <<>> \in Seq(S) /\ s \o <<>> = s
    BY EmptySeq, ConcatEmptySeq
  <2>2. Each(g, s) \o Each(g, <<>>) = Each(g, s)
    BY <1>1, EachOfNone, ConcatEmptySeq
  <2>. QED  BY <2>1, <2>2
<1>3. ASSUME NEW u \in Seq(S), NEW e \in S, u \in Good PROVE Append(u, e) \in Good
  <2>1. Append(u, e) \in Seq(S) /\ s \o Append(u, e) = Append(s \o u, e) /\ s \o u \in Seq(S)
    <3>1. /\ Append(u, e) \in Seq(S) /\ Append(u, e) = u \o <<e>> /\ <<e>> \in Seq(S)
          /\ s \o u \in Seq(S)
      BY AppendProperties, AppendIsConcat, ConcatProperties
    <3>2. Append(s \o u, e) = (s \o u) \o <<e>>
      BY <3>1, AppendIsConcat
    <3>3. (s \o u) \o <<e>> = s \o (u \o <<e>>)
      BY <3>1, ConcatAssociative
    <3>. QED  BY <3>1, <3>2, <3>3
  <2>2. Each(g, Append(s \o u, e)) = Each(g, s \o u) \o g[e]
    BY <2>1, EachOfAppend
  <2>3. Each(g, s \o u) = Each(g, s) \o Each(g, u)
    BY <1>3
  <2>4. Each(g, Append(u, e)) = Each(g, u) \o g[e]
    BY EachOfAppend
  <2>5. Each(g, u) \in Seq(T) /\ g[e] \in Seq(T)
    BY ListsOfEach DEF ListsFor
  <2>6. (Each(g, s) \o Each(g, u)) \o g[e] = Each(g, s) \o (Each(g, u) \o g[e])
    <3>. DEFINE a == Each(g, s)  b == Each(g, u)  c == g[e]
    <3>1. a \in Seq(T) /\ b \in Seq(T) /\ c \in Seq(T)
      BY <1>1, <2>5
    <3>. HIDE DEF a, b, c
    <3>2. (a \o b) \o c = a \o (b \o c)
      BY ONLY <3>1, ConcatAssociative
    <3>. QED  BY <3>2 DEF a, b, c
  <2>7. Each(g, s \o Append(u, e)) = Each(g, s) \o Each(g, Append(u, e))
    BY <2>1, <2>2, <2>3, <2>4, <2>6
  <2>. QED  BY <2>1, <2>7
<1>. HIDE DEF Good
<1>4. t \in Good
  BY <1>2, <1>3, ByAppending
<1>. QED  BY <1>4 DEF Good

\* Lists of lists: what is made of each element of each list.
LEMMA EachOfEach ==
  ASSUME NEW S, NEW T, NEW U, NEW h, ListsFor(h, S, T), NEW g, ListsFor(g, T, U),
         NEW k, ListsFor(k, S, U), NEW s, s \in Seq(S),
         \A i \in 1..Len(s) : k[s[i]] = Each(g, h[s[i]])
  PROVE  Each(g, Each(h, s)) = Each(k, s)
<1>. DEFINE Made(u) == (\A i \in 1..Len(u) : k[u[i]] = Each(g, h[u[i]]))
            Good == {u \in Seq(S) : Made(u) => Each(g, Each(h, u)) = Each(k, u)}
<1>1. <<>> \in Good
  BY EmptySeq, EachOfNone
<1>2. ASSUME NEW u \in Seq(S), NEW e \in S, u \in Good PROVE Append(u, e) \in Good
  <2>1. Append(u, e) \in Seq(S)
    BY AppendProperties
  <2>. SUFFICES ASSUME Made(Append(u, e))
                PROVE  Each(g, Each(h, Append(u, e))) = Each(k, Append(u, e))
    BY <2>1
  <2>2. Made(u) /\ k[e] = Each(g, h[e])
    <3>1. /\ Len(u) \in Nat /\ Len(Append(u, e)) = Len(u) + 1
          /\ \A i \in 1..Len(u) : Append(u, e)[i] = u[i]
          /\ Append(u, e)[Len(u) + 1] = e
      BY AppendProperties, LenProperties
    <3>2. /\ \A i \in 1..Len(u) : i \in 1..(Len(u) + 1)
          /\ Len(u) + 1 \in 1..(Len(u) + 1)
      BY <3>1
    <3>. QED  BY <3>1, <3>2
  <2>3. Each(g, Each(h, u)) = Each(k, u)
    BY <1>2, <2>2
  <2>4. Each(h, Append(u, e)) = Each(h, u) \o h[e]
    BY EachOfAppend
  <2>5. Each(h, u) \in Seq(T) /\ h[e] \in Seq(T)
    BY ListsOfEach DEF ListsFor
  <2>6. Each(g, Each(h, u) \o h[e]) = Each(g, Each(h, u)) \o Each(g, h[e])
    <3>. DEFINE a == Each(h, u)  b == h[e]
    <3>1. a \in Seq(T) /\ b \in Seq(T) /\ ListsFor(g, T, U)
      BY <2>5
    <3>. HIDE DEF a, b
    <3>2. Each(g, a \o b) = Each(g, a) \o Each(g, b)
      BY ONLY <3>1, EachOfBoth
    <3>. QED  BY <3>2 DEF a, b
  <2>7. Each(k, Append(u, e)) = Each(k, u) \o k[e]
    BY EachOfAppend
  <2>. HIDE DEF Made
  <2>. QED  BY <2>2, <2>3, <2>4, <2>6, <2>7
<1>. HIDE DEF Good
<1>3. s \in Good
  BY <1>1, <1>2, ByAppending
<1>. QED  BY <1>3 DEF Good
-----------------------------------------------------------------------------
(* Neighbours                                                                *)

\* No two neighbours are a pair of B.
Avoids(s, B) == \A j \in 1..(Len(s) - 1) : <<s[j], s[j + 1]>> \notin B

\* Nothing in S makes a pair of B with x, or what follows begins with something that does not.
Fits(x, next, B, S) ==
  (\A y \in S : <<x, y>> \notin B) \/ (next # <<>> /\ <<x, next[1]>> \notin B)

LEMMA BothAvoid ==
  ASSUME NEW S, NEW s \in Seq(S), NEW t \in Seq(S), NEW B, Avoids(s, B), Avoids(t, B),
         s # <<>> => Fits(s[Len(s)], t, B, S) \/ t = <<>>
  PROVE  Avoids(s \o t, B)
<1>. DEFINE m == Len(s)  n == Len(t)
<1>1. /\ m \in Nat /\ n \in Nat
      /\ \A i \in 1..m : s[i] \in S
      /\ \A i \in 1..n : t[i] \in S
      /\ Len(s \o t) = m + n
      /\ \A i \in 1..(m + n) : (s \o t)[i] = IF i <= m THEN s[i] ELSE t[i - m]
  BY ConcatProperties, LenProperties, ElementOfSeq
<1>. SUFFICES ASSUME NEW j \in 1..(Len(s \o t) - 1)
              PROVE  <<(s \o t)[j], (s \o t)[j + 1]>> \notin B
  BY DEF Avoids
<1>. HIDE DEF m, n
<1>2. /\ j \in 1..(m + n - 1) /\ j \in 1..(m + n) /\ j + 1 \in 1..(m + n)
  BY <1>1
<1>3. CASE j < m
  <2>1. j <= m /\ j + 1 <= m /\ j \in 1..(m - 1)
    BY <1>1, <1>2, <1>3
  <2>2. (s \o t)[j] = s[j] /\ (s \o t)[j + 1] = s[j + 1]
    BY <1>1, <1>2, <2>1
  <2>3. <<s[j], s[j + 1]>> \notin B
    BY <2>1 DEF Avoids, m
  <2>. QED  BY <2>2, <2>3
<1>4. CASE j = m
  <2>1. m <= m /\ ~(m + 1 <= m) /\ m + 1 - m = 1 /\ n # 0 /\ m # 0 /\ 1 \in 1..n
    BY <1>1, <1>2, <1>4
  <2>2. (s \o t)[j] = s[m] /\ (s \o t)[j + 1] = t[1] /\ t[1] \in S
    BY <1>1, <1>2, <1>4, <2>1
  <2>3. s # <<>> /\ t # <<>>
    BY <2>1, EmptySeq DEF m, n
  <2>4. Fits(s[m], t, B, S)
    BY <2>3 DEF m
  <2>. QED  BY <2>2, <2>4 DEF Fits
<1>5. CASE j > m
  <2>. DEFINE k == j - m
  <2>1. ~(j <= m) /\ ~(j + 1 <= m) /\ j + 1 - m = k + 1 /\ k \in 1..(n - 1)
    BY <1>1, <1>2, <1>5
  <2>2. (s \o t)[j] = t[k] /\ (s \o t)[j + 1] = t[k + 1]
    <3>1. (s \o t)[j] = t[j - m] /\ (s \o t)[j + 1] = t[j + 1 - m]
      BY <1>1, <1>2, <2>1
    <3>. QED  BY <2>1, <3>1
  <2>. HIDE DEF k
  <2>3. <<t[k], t[k + 1]>> \notin B
    BY <2>1 DEF Avoids, n
  <2>. QED  BY <2>2, <2>3
<1>6. j < m \/ j = m \/ j > m
  BY <1>1, <1>2
<1>. QED  BY <1>3, <1>4, <1>5, <1>6

LEMMA LastOfBoth ==
  ASSUME NEW S, NEW s \in Seq(S), NEW t \in Seq(S)
  PROVE  /\ t = <<>> => s \o t = s
         /\ t # <<>> => s \o t # <<>> /\ (s \o t)[Len(s \o t)] = t[Len(t)]
<1>1. t = <<>> => s \o t = s
  BY ConcatEmptySeq
<1>2. ASSUME t # <<>> PROVE s \o t # <<>> /\ (s \o t)[Len(s \o t)] = t[Len(t)]
  <2>. DEFINE m == Len(s)  n == Len(t)
  <2>1. /\ m \in Nat /\ n \in Nat \ {0} /\ s \o t \in Seq(S)
        /\ Len(s \o t) = m + n
        /\ \A i \in 1..(m + n) : (s \o t)[i] = IF i <= m THEN s[i] ELSE t[i - m]
    BY <1>2, ConcatProperties, LenProperties, EmptySeq
  <2>. HIDE DEF m, n
  <2>2. m + n \in 1..(m + n) /\ ~(m + n <= m) /\ m + n - m = n /\ m + n # 0
    BY <2>1
  <2>3. (s \o t)[m + n] = t[n]
    BY <2>1, <2>2
  <2>. QED  BY <2>1, <2>2, <2>3, EmptySeq DEF n
<1>. QED  BY <1>1, <1>2

\* Joined lists have no neighbours of B where none of them has, and none begins where the
\* last that is not empty ends with a part of such a pair.
NextFits(seqs, i, B, S) ==
  seqs[i] # <<>> /\ i # Len(seqs) => Fits(seqs[i][Len(seqs[i])], seqs[i + 1], B, S)

LEMMA FlattenAvoids ==
  ASSUME NEW S, NEW seqs \in Seq(Seq(S)), NEW B,
         \A i \in 1..Len(seqs) : Avoids(seqs[i], B) /\ NextFits(seqs, i, B, S)
  PROVE  Avoids(FlattenSeq(seqs), B)
<1>. DEFINE n == Len(seqs)
<1>1. n \in Nat
  BY LenProperties
<1>2. PICK f : /\ Joins(seqs, Len(seqs), f)
               /\ FlattenSeq(seqs) = IF Len(seqs) = 0 THEN seqs ELSE f[Len(seqs)]
  BY <1>1, FlattenUnfolds
<1>3. /\ \A i \in 1..n : f[i] \in Seq(S) /\ seqs[i] \in Seq(S)
      /\ \A i \in 1..n : i = 1 => f[i] = seqs[i]
      /\ \A i \in 1..n : i # 1 => i - 1 \in 1..n /\ f[i] = f[i - 1] \o seqs[i]
  <2>1. Joins(seqs, Len(seqs), f)
    BY <1>2
  <2>2. \A i \in 1..n : f[i] \in Seq(S) /\ seqs[i] \in Seq(S)
    BY <2>1, JoinsType
  <2>3. \A i \in 1..n : i = 1 => f[i] = seqs[i]
    BY <1>1, <2>1, JoinsSteps DEF n
  <2>4. \A i \in 1..n : i # 1 => i - 1 \in 1..n /\ f[i] = f[i - 1] \o seqs[i]
    BY <1>1, <2>1, JoinsSteps DEF n
  <2>. QED  BY <2>2, <2>3, <2>4
<1>. DEFINE Right(i) == /\ Avoids(f[i], B)
                        /\ f[i] # <<>> /\ i # n => Fits(f[i][Len(f[i])], seqs[i + 1], B, S)
            Bad == {i \in 1..n : ~Right(i)}
<1>4. \A i \in 1..n : Avoids(seqs[i], B) /\ NextFits(seqs, i, B, S)
  OBVIOUS
<1>. HIDE DEF n
<1>5. Bad = {}
  <2>. SUFFICES ASSUME Bad # {} PROVE FALSE
    OBVIOUS
  <2>1. PICK i \in Bad : \A j \in Bad : i <= j
    <3>1. Bad \subseteq Nat
      OBVIOUS
    <3>. HIDE DEF Bad
    <3>. QED  BY <3>1, SomeLeast
  <2>2. i \in 1..n /\ ~Right(i) /\ i \in Nat
    <3>. HIDE DEF Right
    <3>. QED  OBVIOUS
  <2>3. CASE i = 1
    <3>1. f[i] = seqs[i]
      BY <1>3, <2>2, <2>3
    <3>. QED  BY <1>4, <2>2, <3>1 DEF NextFits, n
  <2>4. CASE i # 1
    <3>1. i - 1 \in 1..n /\ f[i] = f[i - 1] \o seqs[i] /\ ~(i <= i - 1)
      <4>1. i - 1 \in 1..n /\ f[i] = f[i - 1] \o seqs[i]
        <5>. HIDE DEF Bad, Right
        <5>. QED  BY <1>3, <2>2, <2>4
      <4>2. ~(i <= i - 1)
        BY <2>2
      <4>. QED  BY <4>1, <4>2
    <3>2. Right(i - 1)
      <4>. HIDE DEF Right
      <4>. QED  BY <2>1, <3>1
    <3>. DEFINE s == f[i - 1]  t == seqs[i]
    <3>3. /\ s \in Seq(S) /\ t \in Seq(S) /\ Avoids(s, B) /\ Avoids(t, B)
          /\ s # <<>> => Fits(s[Len(s)], t, B, S)
          /\ NextFits(seqs, i, B, S)
      <4>1. i - 1 # n /\ i - 1 + 1 = i
        BY <1>1, <2>2
      <4>. QED  BY <1>3, <1>4, <2>2, <3>1, <3>2, <4>1
    <3>4. ASSUME f[i] # <<>>, i # n PROVE Fits(f[i][Len(f[i])], seqs[i + 1], B, S)
      <4>. HIDE DEF s
      <4>1. CASE t = <<>>
        <5>1. f[i] = s /\ s # <<>>
          BY <3>1, <3>3, <3>4, <4>1, LastOfBoth DEF s
        <5>2. \A y \in S : <<s[Len(s)], y>> \notin B
          BY <3>3, <4>1, <5>1 DEF Fits
        <5>. QED  BY <5>1, <5>2 DEF Fits
      <4>2. CASE t # <<>>
        <5>1. f[i][Len(f[i])] = t[Len(t)]
          <6>. HIDE DEF t
          <6>1. (s \o t)[Len(s \o t)] = t[Len(t)]
            BY <3>3, <4>2, LastOfBoth
          <6>. QED  BY <3>1, <6>1 DEF s, t
        <5>2. Fits(t[Len(t)], seqs[i + 1], B, S)
          BY <3>3, <3>4, <4>2 DEF NextFits, n
        <5>. QED  BY <5>1, <5>2
      <4>. QED  BY <4>1, <4>2
    <3>. HIDE DEF s, t
    <3>5. Avoids(s \o t, B)
      BY <3>3, BothAvoid
    <3>6. Right(i)
      BY <3>1, <3>4, <3>5 DEF s, t
    <3>. QED  BY <2>2, <3>6
  <2>. QED  BY <2>3, <2>4
<1>6. CASE n = 0
  <2>1. FlattenSeq(seqs) = <<>>
    BY <1>2, <1>6, EmptySeq DEF n
  <2>2. Len(<<>>) = 0
    BY EmptySeq
  <2>. QED  BY <2>1, <2>2 DEF Avoids
<1>7. CASE n # 0
  <2>1. n \in 1..n
    BY <1>1, <1>7
  <2>2. Avoids(f[n], B)
    BY <1>5, <2>1
  <2>. QED  BY <1>2, <1>7, <2>2 DEF n
<1>. QED  BY <1>6, <1>7
-----------------------------------------------------------------------------
(* What a joined list begins with                                            *)

LEMMA HeadOfBoth ==
  ASSUME NEW S, NEW s \in Seq(S), NEW t \in Seq(S)
  PROVE  /\ s \o t = <<>> <=> s = <<>> /\ t = <<>>
         /\ Head(s \o t) = IF s # <<>> THEN Head(s) ELSE Head(t)
<1>1. /\ s \o t \in Seq(S) /\ Len(s \o t) = Len(s) + Len(t)
      /\ \A i \in 1..Len(s) : (s \o t)[i] = s[i]
  BY ConcatProperties
<1>2. Len(s) \in Nat /\ Len(t) \in Nat
  BY LenProperties
<1>3. CASE s = <<>>
  <2>1. s \o t = t
    BY <1>3, ConcatEmptySeq
  <2>. QED  BY <1>3, <2>1
<1>4. CASE s # <<>>
  <2>1. Len(s) # 0
    BY <1>4, EmptySeq
  <2>2. 1 \in 1..Len(s) /\ Len(s) + Len(t) # 0
    BY <1>2, <2>1
  <2>3. s \o t # <<>>
    BY <1>1, <2>2, EmptySeq
  <2>4. \A r \in Seq(S) : r # <<>> => Head(r) = r[1]
    BY HeadTailProperties
  <2>5. Head(s \o t) = (s \o t)[1] /\ Head(s) = s[1] /\ (s \o t)[1] = s[1]
    BY <1>1, <1>4, <2>2, <2>3, <2>4
  <2>. QED  BY <1>4, <2>3, <2>5
<1>. QED  BY <1>3, <1>4

\* The first of a list of lists is the first of one of them.
BeginsWithOne(seqs) ==
  /\ FlattenSeq(seqs) = <<>> <=> \A i \in 1..Len(seqs) : seqs[i] = <<>>
  /\ FlattenSeq(seqs) # <<>> =>
       \E i \in 1..Len(seqs) : seqs[i] # <<>> /\ Head(FlattenSeq(seqs)) = Head(seqs[i])

LEMMA FlattenHead ==
  ASSUME NEW S, NEW seqs \in Seq(Seq(S))
  PROVE  BeginsWithOne(seqs)
<1>. DEFINE Good == {u \in Seq(Seq(S)) : BeginsWithOne(u)}
<1>1. <<>> \in Good
  <2>1. <<>> \in Seq(Seq(S)) /\ Len(<<>>) = 0
    BY EmptySeq
  <2>2. 1..0 = {}
    OBVIOUS
  <2>. QED  BY <2>1, <2>2, FlattenNothing DEF BeginsWithOne
<1>2. ASSUME NEW u \in Seq(Seq(S)), NEW e \in Seq(S), u \in Good PROVE Append(u, e) \in Good
  <2>. DEFINE more == Append(u, e)  n == Len(u)  flat == FlattenSeq(u)
  <2>1. /\ more \in Seq(Seq(S)) /\ n \in Nat /\ Len(more) = n + 1 /\ more[n + 1] = e
        /\ \A i \in 1..n : more[i] = u[i]
    BY AppendProperties, LenProperties
  <2>2. FlattenSeq(more) = flat \o e /\ flat \in Seq(S)
    BY FlattenAppend, FlattenType
  <2>3. /\ flat = <<>> <=> \A i \in 1..n : u[i] = <<>>
        /\ flat # <<>> => \E i \in 1..n : u[i] # <<>> /\ Head(flat) = Head(u[i])
    BY <1>2 DEF BeginsWithOne
  <2>. HIDE DEF more, flat, n
  <2>4. /\ FlattenSeq(more) = <<>> <=> flat = <<>> /\ e = <<>>
        /\ Head(FlattenSeq(more)) = IF flat # <<>> THEN Head(flat) ELSE Head(e)
    <3>1. flat \in Seq(S) /\ e \in Seq(S)
      BY <2>2
    <3>2. /\ flat \o e = <<>> <=> flat = <<>> /\ e = <<>>
          /\ Head(flat \o e) = IF flat # <<>> THEN Head(flat) ELSE Head(e)
      BY ONLY <3>1, HeadOfBoth
    <3>. DEFINE joined == flat \o e
    <3>3. FlattenSeq(more) = joined
      BY <2>2
    <3>. QED  BY ONLY <3>2, <3>3
  <2>5. 1..(n + 1) = (1..n) \cup {n + 1} /\ n + 1 \notin 1..n
    BY <2>1
  <2>6. FlattenSeq(more) = <<>> <=> \A i \in 1..(n + 1) : more[i] = <<>>
    BY <2>1, <2>3, <2>4, <2>5
  <2>7. FlattenSeq(more) # <<>> =>
          \E i \in 1..(n + 1) : more[i] # <<>> /\ Head(FlattenSeq(more)) = Head(more[i])
    <3>1. CASE flat # <<>>
      <4>1. PICK i \in 1..n : u[i] # <<>> /\ Head(flat) = Head(u[i])
        BY <2>3, <3>1
      <4>2. more[i] # <<>> /\ Head(FlattenSeq(more)) = Head(more[i]) /\ i \in 1..(n + 1)
        BY <2>1, <2>4, <2>5, <3>1, <4>1
      <4>. QED  BY <4>2
    <3>2. CASE flat = <<>> /\ e # <<>>
      <4>1. more[n + 1] # <<>> /\ Head(FlattenSeq(more)) = Head(more[n + 1])
        BY <2>1, <2>4, <3>2
      <4>. QED  BY <2>5, <4>1
    <3>. QED  BY <2>4, <3>1, <3>2
  <2>8. BeginsWithOne(more)
    BY <2>1, <2>6, <2>7 DEF BeginsWithOne
  <2>. QED  BY <2>1, <2>8 DEF more
<1>. HIDE DEF Good
<1>3. seqs \in Good
  BY <1>1, <1>2, ByAppending
<1>. QED  BY <1>3 DEF Good
=============================================================================
