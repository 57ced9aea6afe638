---------------------------- MODULE SequenceFacts ----------------------------
(***************************************************************************)
(* Facts about natural numbers, finite sets and sequences that the proofs  *)
(* about several modules rest on: induction up to a number and over the    *)
(* subsets of a finite set, with a set in place of the predicate; that     *)
(* what is defined step by step, or element by element, is defined, with   *)
(* a function in place of the operator; and what joining sequences does    *)
(* to their places, to being injective and to being increasing.            *)
(***************************************************************************)
EXTENDS Integers, Sequences, FiniteSets, Functions, SequenceTheorems,
        FiniteSetTheorems, WellFoundedInduction, TLAPS

\* Every set of naturals that has a member has a least one.
LEMMA LeastNatural ==
  ASSUME NEW T, T \subseteq Nat, T # {}
  PROVE  \E n \in T : \A m \in T : n <= m
<1>1. \E n \in T : \A m \in T : <<m, n>> \notin OpToRel(<, Nat)
  BY WFMin, NatLessThanWellFounded
<1>2. \A m, n \in Nat : <<m, n>> \notin OpToRel(<, Nat) <=> n <= m
  BY DEF OpToRel
<1> QED
  BY <1>1, <1>2

\* Every set of naturals up to a bound that has a member has a greatest one.
LEMMA GreatestNatural ==
  ASSUME NEW N \in Nat, NEW T, T \subseteq 0 .. N, T # {}
  PROVE  \E n \in T : \A m \in T : n >= m
<1> DEFINE Below == {N - n : n \in T}
<1>1. Below \subseteq Nat /\ Below # {}
  <2>1. \A n \in T : N - n \in Nat
    OBVIOUS
  <2> QED
    BY <2>1
<1>2. PICK b \in Below : \A m \in Below : b <= m
  <2> HIDE DEF Below
  <2> QED
    BY <1>1, LeastNatural
<1>3. PICK n \in T : b = N - n
  OBVIOUS
<1>4. ASSUME NEW m \in T PROVE n >= m
  <2>1. N - n <= N - m
    BY <1>2, <1>3
  <2> QED
    BY <2>1
<1> QED
  BY <1>4

\* Induction up to N, with a set in place of a predicate.
LEMMA Induction ==
  ASSUME NEW N \in Nat, NEW Good, 0 \in Good,
         \A n \in 0 .. N - 1 : n \in Good => n + 1 \in Good
  PROVE  \A n \in 0 .. N : n \in Good
<1> SUFFICES ASSUME NEW bad \in 0 .. N, bad \notin Good PROVE FALSE
  OBVIOUS
<1> DEFINE Bad == {n \in 0 .. N : n \notin Good}
<1>1. Bad \subseteq Nat /\ bad \in Bad
  OBVIOUS
<1>2. \E n \in Bad : \A m \in Bad : n <= m
  <2> HIDE DEF Bad
  <2> QED
    BY <1>1, LeastNatural
<1>3. PICK n \in Bad : \A m \in Bad : n <= m
  BY <1>2
<1>4. n \in 1 .. N
  OBVIOUS
<1>5. n - 1 \in Good
  BY <1>3, <1>4
<1>6. n - 1 \in 0 .. N - 1 /\ (n - 1) + 1 = n
  BY <1>4
<1> QED
  BY <1>5, <1>6

\* A step takes the next element and the value so far to the next value.
Steps(S, V) == [S -> [V -> V]]

Iterates(f, N, V, base, step) ==
  /\ f \in [0 .. N -> V]
  /\ f[0] = base
  /\ \A n \in 1 .. N : f[n] = step[n][f[n - 1]]

\* What is computed step by step, from each value to the next, is computed.
LEMMA Recursion ==
  ASSUME NEW N \in Nat, NEW V, NEW base \in V, NEW step \in Steps(1 .. N, V)
  PROVE  \E f : Iterates(f, N, V, base, step)
<1> DEFINE Rec(f, n) ==
             /\ f \in [0 .. n -> V]
             /\ f[0] = base
             /\ \A i \in 1 .. n : f[i] = step[i][f[i - 1]]
           Good == {n \in 0 .. N : \E f : Rec(f, n)}
<1>0. step \in [1 .. N -> [V -> V]]
  BY DEF Steps
<1>1. 0 \in Good
  <2>1. Rec([i \in 0 .. 0 |-> base], 0)
    OBVIOUS
  <2> HIDE DEF Rec
  <2> QED
    BY <2>1
<1>2. ASSUME NEW n \in 0 .. N - 1, n \in Good PROVE n + 1 \in Good
  <2>1. PICK f : Rec(f, n)
    BY <1>2
  <2> DEFINE g == [i \in 0 .. n + 1 |-> IF i <= n THEN f[i] ELSE step[n + 1][f[n]]]
  <2>2. n + 1 \in 1 .. N /\ n \in 0 .. n
    OBVIOUS
  <2>3. g \in [0 .. n + 1 -> V] /\ g[0] = base
    BY <1>0, <2>1, <2>2
  <2>4. ASSUME NEW i \in 1 .. n + 1 PROVE g[i] = step[i][g[i - 1]]
    <3>1. CASE i \in 1 .. n
      <4>1. i - 1 \in 0 .. n + 1 /\ i - 1 <= n /\ i \in 0 .. n + 1 /\ i <= n
        BY <3>1
      <4> QED
        BY <2>1, <3>1, <4>1
    <3>2. CASE i = n + 1
      <4>1. i - 1 = n /\ n \in 0 .. n + 1 /\ n <= n /\ ~(i <= n)
        BY <3>2
      <4> QED
        BY <3>2, <4>1
    <3> QED
      BY <3>1, <3>2
  <2>5. Rec(g, n + 1)
    BY <2>3, <2>4
  <2> HIDE DEF Rec, g
  <2> QED
    BY <2>2, <2>5
<1>3. N \in Good
  <2> HIDE DEF Good
  <2>1. \A n \in 0 .. N - 1 : n \in Good => n + 1 \in Good
    BY <1>2
  <2>2. \A n \in 0 .. N : n \in Good
    BY <1>1, <2>1, Induction
  <2> QED
    BY <2>2
<1> QED
  BY <1>3 DEF Iterates

\* And in one way only.
LEMMA OneRecursion ==
  ASSUME NEW N \in Nat, NEW V, NEW base \in V, NEW step \in Steps(1 .. N, V),
         NEW f, Iterates(f, N, V, base, step),
         NEW g, g[0] = base, \A n \in 1 .. N : g[n - 1] \in V => g[n] = step[n][g[n - 1]]
  PROVE  \A n \in 0 .. N : g[n] = f[n] /\ f[n] \in V
<1> DEFINE Good == {n \in 0 .. N : g[n] = f[n] /\ f[n] \in V}
<1>1. /\ f[0] = base /\ \A n \in 0 .. N : f[n] \in V
      /\ \A n \in 1 .. N : f[n] = step[n][f[n - 1]]
  BY DEF Iterates
<1>2. 0 \in Good
  BY <1>1
<1>3. ASSUME NEW n \in 0 .. N - 1, n \in Good PROVE n + 1 \in Good
  <2>1. n + 1 \in 1 .. N /\ (n + 1) - 1 = n /\ n + 1 \in 0 .. N
    OBVIOUS
  <2>2. g[n + 1] = step[n + 1][g[n]] /\ f[n + 1] = step[n + 1][f[n]]
    BY <1>1, <1>3, <2>1
  <2> QED
    BY <1>1, <1>3, <2>1, <2>2
<1> HIDE DEF Good
<1>4. \A n \in 0 .. N : n \in Good
  BY <1>2, <1>3, Induction
<1> QED
  BY <1>4 DEF Good

\* Induction over the subsets of a finite set.
LEMMA FiniteInduction ==
  ASSUME NEW S, IsFiniteSet(S), NEW Good,
         \A T \in SUBSET S : (\A x \in T : T \ {x} \in Good) => T \in Good
  PROVE  \A T \in SUBSET S : T \in Good
<1> DEFINE Below == {n \in Nat : \A T \in SUBSET S : Cardinality(T) = n => T \in Good}
<1>1. \A T \in SUBSET S :
        /\ IsFiniteSet(T) /\ Cardinality(T) \in Nat /\ Cardinality(T) <= Cardinality(S)
        /\ \A x \in T : T \ {x} \in SUBSET S /\ Cardinality(T \ {x}) = Cardinality(T) - 1
  BY FS_Subset, FS_CardinalityType, FS_RemoveElement
<1>2. Cardinality(S) \in Nat
  BY FS_CardinalityType
<1>3. 0 \in Below
  <2>1. ASSUME NEW T \in SUBSET S, Cardinality(T) = 0 PROVE T \in Good
    <3>1. ASSUME NEW x \in T PROVE FALSE
      <4>1. T \ {x} \in SUBSET S /\ Cardinality(T \ {x}) = 0 - 1
        BY <1>1, <2>1
      <4>2. Cardinality(T \ {x}) \in Nat
        BY <1>1, <4>1
      <4> QED
        BY <4>1, <4>2
    <3> QED
      BY <3>1
  <2> QED
    BY <2>1
<1>4. ASSUME NEW n \in 0 .. Cardinality(S) - 1, n \in Below PROVE n + 1 \in Below
  <2>1. ASSUME NEW T \in SUBSET S, Cardinality(T) = n + 1 PROVE T \in Good
    <3>1. ASSUME NEW x \in T PROVE T \ {x} \in Good
      <4>1. T \ {x} \in SUBSET S /\ Cardinality(T \ {x}) = n
        BY <1>1, <2>1
      <4> QED
        BY <1>4, <4>1
    <3> QED
      BY <3>1
  <2> QED
    BY <2>1
<1>5. \A n \in 0 .. Cardinality(S) : n \in Below
  <2> HIDE DEF Below
  <2> QED
    BY <1>2, <1>3, <1>4, Induction
<1>6. ASSUME NEW T \in SUBSET S PROVE T \in Good
  <2>1. Cardinality(T) \in 0 .. Cardinality(S)
    BY <1>1, <1>2
  <2> QED
    BY <1>5, <2>1
<1> QED
  BY <1>6

\* A choice names an element of each set.
Pickers(S) == {pick \in [(SUBSET S) \ {{}} -> S] : \A T \in (SUBSET S) \ {{}} : pick[T] \in T}

Accumulates(f, S, V, base, step, pick) ==
  /\ f \in [SUBSET S -> V]
  /\ f[{}] = base
  /\ \A T \in SUBSET S : T # {} => f[T] = step[pick[T]][f[T \ {pick[T]}]]

\* What is computed of a finite set, element by element, is computed.
LEMMA SetRecursion ==
  ASSUME NEW S, IsFiniteSet(S), NEW V, NEW base \in V, NEW step \in Steps(S, V),
         NEW pick \in Pickers(S)
  PROVE  \E f : Accumulates(f, S, V, base, step, pick)
<1> DEFINE Small(n) == {T \in SUBSET S : Cardinality(T) <= n}
           Rec(f, n) ==
             /\ f \in [Small(n) -> V]
             /\ f[{}] = base
             /\ \A T \in Small(n) : T # {} => f[T] = step[pick[T]][f[T \ {pick[T]}]]
           Good == {n \in 0 .. Cardinality(S) : \E f : Rec(f, n)}
<1>1. \A T \in SUBSET S :
        /\ Cardinality(T) \in Nat /\ Cardinality(T) <= Cardinality(S)
        /\ Cardinality(T) = 0 <=> T = {}
        /\ \A x \in T : T \ {x} \in SUBSET S /\ Cardinality(T \ {x}) = Cardinality(T) - 1
  BY FS_Subset, FS_CardinalityType, FS_RemoveElement, FS_EmptySet
<1>2. /\ Cardinality(S) \in Nat
      /\ step \in [S -> [V -> V]]
      /\ \A T \in SUBSET S : T # {} => pick[T] \in T
  BY FS_CardinalityType DEF Steps, Pickers
<1>3. 0 \in Good
  <2>1. Small(0) = {{}}
    BY <1>1
  <2>2. Rec([T \in {{}} |-> base], 0)
    BY <2>1
  <2> HIDE DEF Rec
  <2> QED
    BY <1>2, <2>2
<1>4. ASSUME NEW n \in 0 .. Cardinality(S) - 1, n \in Good PROVE n + 1 \in Good
  <2>1. PICK f : Rec(f, n)
    BY <1>4
  <2> DEFINE g == [T \in Small(n + 1) |->
                     IF T \in Small(n) THEN f[T] ELSE step[pick[T]][f[T \ {pick[T]}]]]
  <2>2. \A T \in Small(n) : T \in Small(n + 1)
    BY <1>1
  <2>3. ASSUME NEW T \in Small(n + 1), T # {}
        PROVE  /\ pick[T] \in T /\ pick[T] \in S
               /\ T \ {pick[T]} \in Small(n)
    <3>1. T \in SUBSET S /\ pick[T] \in T
      BY <1>2, <2>3
    <3>2. /\ T \ {pick[T]} \in SUBSET S
          /\ Cardinality(T \ {pick[T]}) = Cardinality(T) - 1
          /\ Cardinality(T) \in Nat /\ Cardinality(T) <= n + 1
      BY <1>1, <2>3, <3>1
    <3>3. Cardinality(T \ {pick[T]}) <= n
      BY <3>2
    <3> QED
      BY <3>1, <3>2, <3>3
  <2>4. {} \in Small(n)
    BY <1>1
  <2> HIDE DEF Small
  <2>5. g \in [Small(n + 1) -> V]
    <3>1. ASSUME NEW T \in Small(n + 1) PROVE g[T] \in V
      <4>1. CASE T \in Small(n)
        BY <2>1, <4>1
      <4>2. CASE T \notin Small(n)
        <5>1. T # {}
          BY <2>4, <4>2
        <5>2. f[T \ {pick[T]}] \in V /\ step[pick[T]] \in [V -> V]
          BY <1>2, <2>1, <2>3, <5>1
        <5> QED
          BY <4>2, <5>2
      <4> QED
        BY <4>1, <4>2
    <3> QED
      BY <3>1
  <2>6. g[{}] = base
    BY <2>1, <2>2, <2>4
  <2>7. ASSUME NEW T \in Small(n + 1), T # {}
        PROVE  g[T] = step[pick[T]][g[T \ {pick[T]}]]
    <3>1. g[T \ {pick[T]}] = f[T \ {pick[T]}]
      BY <2>2, <2>3, <2>7
    <3>2. g[T] = step[pick[T]][f[T \ {pick[T]}]]
      BY <2>1, <2>7
    <3> QED
      BY <3>1, <3>2
  <2>8. Rec(g, n + 1)
    BY <2>5, <2>6, <2>7
  <2>9. n + 1 \in 0 .. Cardinality(S)
    BY <1>2
  <2> HIDE DEF Rec
  <2> QED
    BY <2>8, <2>9
<1>5. Cardinality(S) \in Good
  <2> HIDE DEF Good
  <2>1. \A n \in 0 .. Cardinality(S) : n \in Good
    BY <1>2, <1>3, <1>4, Induction
  <2> QED
    BY <1>2, <2>1
<1>6. PICK f : Rec(f, Cardinality(S))
  BY <1>5
<1>7. Small(Cardinality(S)) = SUBSET S
  BY <1>1
<1> HIDE DEF Small
<1> QED
  BY <1>6, <1>7 DEF Accumulates

-----------------------------------------------------------------------------
(* Sequences, cut and joined.                                              *)

Increasing(s) == \A i, j \in DOMAIN s : i < j => s[i] < s[j]

\* The parts of a sequence cut after its k-th element join to the whole.
LEMMA CutJoins ==
  ASSUME NEW S, NEW s \in Seq(S), NEW k \in 0 .. Len(s)
  PROVE  /\ SubSeq(s, 1, k) \in Seq(S)
         /\ SubSeq(s, k + 1, Len(s)) \in Seq(S)
         /\ Len(SubSeq(s, 1, k)) = k
         /\ Len(SubSeq(s, k + 1, Len(s))) = Len(s) - k
         /\ s = SubSeq(s, 1, k) \o SubSeq(s, k + 1, Len(s))
<1>1. Len(s) \in Nat /\ \A i \in 1 .. Len(s) : s[i] \in S
  OBVIOUS
<1>2. SubSeq(s, 1, k) \in Seq(S) /\ Len(SubSeq(s, 1, k)) = k
  BY <1>1, SubSeqProperties
<1>3. /\ SubSeq(s, k + 1, Len(s)) \in Seq(S)
      /\ Len(SubSeq(s, k + 1, Len(s))) = Len(s) - k
  BY <1>1, SubSeqProperties
<1>4. s = SubSeq(s, 1, k) \o SubSeq(s, k + 1, Len(s))
  <2>1. 1 \in 1 .. Len(s) + 1 /\ k \in 1 - 1 .. Len(s) /\ Len(s) \in k .. Len(s)
    BY <1>1
  <2>2. SubSeq(s, 1, k) \o SubSeq(s, k + 1, Len(s)) = SubSeq(s, 1, Len(s))
    BY <2>1, ConcatAdjacentSubSeq
  <2> QED
    BY <2>2, SubSeqFull
<1> QED
  BY <1>2, <1>3, <1>4

\* A sequence with a length has an element.
LEMMA NotEmpty == ASSUME NEW s, Len(s) # 0 PROVE s # <<>>
<1>1. Len(<<>>) = 0
  BY EmptySeq
<1> QED
  BY <1>1

\* A joined sequence, place by place.
LEMMA JoinedPlaces ==
  ASSUME NEW S, NEW s \in Seq(S), NEW t \in Seq(S)
  PROVE  /\ s \o t \in Seq(S)
         /\ DOMAIN s = 1 .. Len(s) /\ DOMAIN t = 1 .. Len(t)
         /\ Len(s) \in Nat /\ Len(t) \in Nat
         /\ DOMAIN (s \o t) = 1 .. (Len(s) + Len(t))
         /\ \A i \in DOMAIN s : i \in DOMAIN (s \o t) /\ (s \o t)[i] = s[i]
         /\ \A i \in DOMAIN t : /\ Len(s) + i \in DOMAIN (s \o t)
                                /\ (s \o t)[Len(s) + i] = t[i]
         /\ \A i \in DOMAIN (s \o t) :
              i \in DOMAIN s \/ \E j \in DOMAIN t : i = Len(s) + j
<1>1. /\ Len(s) \in Nat /\ Len(t) \in Nat
      /\ DOMAIN s = 1 .. Len(s) /\ DOMAIN t = 1 .. Len(t)
      /\ s \o t \in Seq(S)
      /\ Len(s \o t) = Len(s) + Len(t)
      /\ DOMAIN (s \o t) = 1 .. Len(s \o t)
  BY LenProperties, ConcatProperties
<1>2. \A i \in 1 .. Len(s) + Len(t) :
        (s \o t)[i] = IF i <= Len(s) THEN s[i] ELSE t[i - Len(s)]
  BY ConcatProperties
<1>3. \A i \in DOMAIN s : i \in DOMAIN (s \o t) /\ (s \o t)[i] = s[i]
  BY <1>1, <1>2
<1>4. \A i \in DOMAIN t : /\ Len(s) + i \in DOMAIN (s \o t)
                          /\ (s \o t)[Len(s) + i] = t[i]
  BY <1>1, <1>2
<1>5. ASSUME NEW i \in DOMAIN (s \o t), i \notin DOMAIN s
      PROVE  \E j \in DOMAIN t : i = Len(s) + j
  <2>1. i - Len(s) \in DOMAIN t /\ i = Len(s) + (i - Len(s))
    BY <1>1, <1>5
  <2> QED
    BY <2>1
<1> QED
  BY <1>1, <1>3, <1>4, <1>5

\* No element is twice in a joined sequence: in neither part, nor in both.
LEMMA JoinedInjective ==
  ASSUME NEW S, NEW s \in Seq(S), NEW t \in Seq(S)
  PROVE  IsInjective(s \o t) <=> /\ IsInjective(s)
                                 /\ IsInjective(t)
                                 /\ Range(s) \cap Range(t) = {}
<1>1. ASSUME IsInjective(s \o t)
      PROVE  IsInjective(s) /\ IsInjective(t) /\ Range(s) \cap Range(t) = {}
  <2>1. IsInjective(s)
    BY <1>1, JoinedPlaces DEF IsInjective
  <2>2. ASSUME NEW i \in DOMAIN t, NEW j \in DOMAIN t, t[i] = t[j] PROVE i = j
    <3>1. Len(s) + i = Len(s) + j
      BY <1>1, <2>2, JoinedPlaces DEF IsInjective
    <3> QED
      BY <3>1, JoinedPlaces
  <2>3. ASSUME NEW i \in DOMAIN s, NEW j \in DOMAIN t, s[i] = t[j] PROVE FALSE
    <3>1. i = Len(s) + j
      BY <1>1, <2>3, JoinedPlaces DEF IsInjective
    <3> QED
      BY <3>1, JoinedPlaces
  <2> QED
    BY <2>1, <2>2, <2>3 DEF IsInjective, Range
<1>2. ASSUME IsInjective(s), IsInjective(t), Range(s) \cap Range(t) = {},
             NEW i \in DOMAIN (s \o t), NEW j \in DOMAIN (s \o t),
             (s \o t)[i] = (s \o t)[j]
      PROVE  i = j
  <2>1. \A k \in DOMAIN s, l \in DOMAIN t : s[k] # t[l]
    BY <1>2 DEF Range
  <2>2. CASE i \in DOMAIN s /\ j \in DOMAIN s
    BY <1>2, <2>2, JoinedPlaces DEF IsInjective
  <2>3. CASE i \in DOMAIN s /\ j \notin DOMAIN s
    BY <1>2, <2>1, <2>3, JoinedPlaces
  <2>4. CASE i \notin DOMAIN s /\ j \in DOMAIN s
    BY <1>2, <2>1, <2>4, JoinedPlaces
  <2>5. CASE i \notin DOMAIN s /\ j \notin DOMAIN s
    <3>1. PICK k \in DOMAIN t, l \in DOMAIN t : i = Len(s) + k /\ j = Len(s) + l
      BY <2>5, JoinedPlaces
    <3>2. t[k] = t[l]
      BY <1>2, <3>1, JoinedPlaces
    <3> QED
      BY <1>2, <3>1, <3>2 DEF IsInjective
  <2> QED
    BY <2>2, <2>3, <2>4, <2>5
<1> QED
  BY <1>1, <1>2 DEF IsInjective

\* A joined sequence is increasing: each part is, and the first lies below.
LEMMA JoinedIncreasing ==
  ASSUME NEW s \in Seq(Nat), NEW t \in Seq(Nat)
  PROVE  Increasing(s \o t) <=> /\ Increasing(s)
                                /\ Increasing(t)
                                /\ \A x \in Range(s), y \in Range(t) : x < y
<1>1. ASSUME Increasing(s \o t)
      PROVE  /\ Increasing(s) /\ Increasing(t)
             /\ \A x \in Range(s), y \in Range(t) : x < y
  <2>1. Increasing(s)
    BY <1>1, JoinedPlaces DEF Increasing
  <2>2. ASSUME NEW i \in DOMAIN t, NEW j \in DOMAIN t, i < j PROVE t[i] < t[j]
    <3>1. /\ Len(s) + i \in DOMAIN (s \o t) /\ (s \o t)[Len(s) + i] = t[i]
          /\ Len(s) + j \in DOMAIN (s \o t) /\ (s \o t)[Len(s) + j] = t[j]
          /\ Len(s) + i < Len(s) + j
      BY <2>2, JoinedPlaces
    <3> QED
      BY <1>1, <3>1 DEF Increasing
  <2>3. ASSUME NEW i \in DOMAIN s, NEW j \in DOMAIN t PROVE s[i] < t[j]
    <3>1. /\ i \in DOMAIN (s \o t) /\ (s \o t)[i] = s[i]
          /\ Len(s) + j \in DOMAIN (s \o t) /\ (s \o t)[Len(s) + j] = t[j]
          /\ i < Len(s) + j
      BY JoinedPlaces
    <3> QED
      BY <1>1, <3>1 DEF Increasing
  <2> QED
    BY <2>1, <2>2, <2>3 DEF Increasing, Range
<1>2. ASSUME Increasing(s), Increasing(t),
             \A x \in Range(s), y \in Range(t) : x < y,
             NEW i \in DOMAIN (s \o t), NEW j \in DOMAIN (s \o t), i < j
      PROVE  (s \o t)[i] < (s \o t)[j]
  <2>1. \A k \in DOMAIN s, l \in DOMAIN t : s[k] < t[l]
    BY <1>2 DEF Range
  <2>2. CASE i \in DOMAIN s /\ j \in DOMAIN s
    BY <1>2, <2>2, JoinedPlaces DEF Increasing
  <2>3. CASE i \in DOMAIN s /\ j \notin DOMAIN s
    BY <1>2, <2>1, <2>3, JoinedPlaces
  <2>4. CASE i \notin DOMAIN s /\ j \in DOMAIN s
    BY <1>2, <2>4, JoinedPlaces
  <2>5. CASE i \notin DOMAIN s /\ j \notin DOMAIN s
    <3>1. PICK k \in DOMAIN t, l \in DOMAIN t : i = Len(s) + k /\ j = Len(s) + l
      BY <2>5, JoinedPlaces
    <3>2. k < l
      BY <1>2, <3>1, JoinedPlaces
    <3> QED
      BY <1>2, <3>1, <3>2, JoinedPlaces DEF Increasing
  <2> QED
    BY <2>2, <2>3, <2>4, <2>5
<1> QED
  BY <1>1, <1>2 DEF Increasing
=============================================================================
