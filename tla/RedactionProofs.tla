-------------------------- MODULE RedactionProofs --------------------------
(***************************************************************************)
(* Redaction, for every set of policy files, every batch and every number  *)
(* of calls: the compiled policy is the one the rules describe, a batch    *)
(* comes out redacted by one policy, and events and counters agree.        *)
(*                                                                         *)
(* Two computations are compared at every place: the loops of the code,    *)
(* that go rule by rule and key by key, and the reference, that speaks of  *)
(* the last rule that names a key and adds up hits without an order.  The  *)
(* loops are unfolded by the lemmas on recursive functions of              *)
(* SequenceFacts; sums of hits do not depend on the order (TotalTakes).    *)
(* A call in progress is described by how many of the three loops each key *)
(* of each of its carriers has been through (DoneAt): KeyAfter says what   *)
(* has become of the key by then and CallOK that this is what the call     *)
(* has.  A step takes one key through one loop (OneLoopOn), so it          *)
(* preserves CallOK; after three loops KeyAfter is Fate (KeyFate).         *)
(***************************************************************************)
EXTENDS Redaction, SequenceFacts, TLAPS

-----------------------------------------------------------------------------
(* Sums over finite sets.                                                  *)

Total(f, S) == SumFunctionOnSet(f, S)

\* sum adds up f over every subset of S.
Sums(sum, f, S) ==
  /\ sum \in [SUBSET S -> Nat]
  /\ sum[{}] = 0
  /\ \A T \in SUBSET S : T # {} =>
       sum[T] = f[CHOOSE x \in T : TRUE] + sum[T \ {CHOOSE x \in T : TRUE}]

\* A sum over a set, one way of adding it up: by one element after the other.
LEMMA SumUnfolds ==
  ASSUME NEW S, IsFiniteSet(S), NEW f, \A x \in S : f[x] \in Nat
  PROVE  \E sum : Sums(sum, f, S) /\ Total(f, S) = sum[S]
<1> DEFINE pick == [T \in (SUBSET S) \ {{}} |-> CHOOSE x \in T : TRUE]
           step == [x \in S |-> [n \in Nat |-> f[x] + n]]
           Rec(sum) == sum = [T \in SUBSET S |-> IF T = {} THEN 0
                                ELSE f[CHOOSE x \in T : TRUE] + sum[T \ {CHOOSE x \in T : TRUE}]]
<1>1. \A T \in SUBSET S : T # {} =>
        (CHOOSE x \in T : TRUE) \in T /\ pick[T] = CHOOSE x \in T : TRUE
  OBVIOUS
<1>2. step \in [S -> [Nat -> Nat]] /\ \A x \in S, n \in Nat : step[x][n] = f[x] + n
  OBVIOUS
<1>3. PICK sum \in [SUBSET S -> Nat] :
        /\ sum[{}] = 0
        /\ \A T \in SUBSET S : T # {} => sum[T] = step[pick[T]][sum[T \ {pick[T]}]]
  <2> DEFINE zero == 0
             Value == Nat
  <2>1. pick \in Pickers(S)
    BY <1>1 DEF Pickers
  <2>2. zero \in Value /\ step \in Steps(S, Value)
    BY <1>2 DEF Steps
  <2> HIDE DEF pick, step, zero, Value
  <2>3. \E sum : Accumulates(sum, S, Value, zero, step, pick)
    BY ONLY IsFiniteSet(S), <2>1, <2>2, SetRecursion
  <2> QED
    BY <2>3 DEF zero, Value, Accumulates
<1>4. ASSUME NEW T \in SUBSET S, T # {}
      PROVE  sum[T] = f[CHOOSE x \in T : TRUE] + sum[T \ {CHOOSE x \in T : TRUE}]
  <2>1. /\ pick[T] = CHOOSE x \in T : TRUE
        /\ pick[T] \in S /\ T \ {pick[T]} \in SUBSET S
    BY <1>1, <1>4
  <2>2. sum[T \ {pick[T]}] \in Nat
    BY <1>3, <2>1
  <2>3. sum[T] = f[pick[T]] + sum[T \ {pick[T]}]
    <3> HIDE DEF pick, step
    <3> QED
      BY <1>2, <1>3, <1>4, <2>1, <2>2
  <2> QED
    BY <2>1, <2>3
<1>5. Rec(sum)
  <2> SUFFICES ASSUME NEW T \in SUBSET S
               PROVE  sum[T] = IF T = {} THEN 0
                               ELSE f[CHOOSE x \in T : TRUE] + sum[T \ {CHOOSE x \in T : TRUE}]
    OBVIOUS
  <2> QED
    BY <1>3, <1>4
<1> DEFINE chosen == CHOOSE it : Rec(it)
<1>6. Rec(chosen)
  BY <1>5
<1>7. SumFunctionOnSet(f, S) = chosen[S]
  BY DEF SumFunctionOnSet, FoldFunctionOnSet, MapThenFoldSet
<1>8. /\ chosen = [T \in SUBSET S |-> chosen[T]]
      /\ \A T \in SUBSET S : chosen[T] = IF T = {} THEN 0
           ELSE f[CHOOSE x \in T : TRUE] + chosen[T \ {CHOOSE x \in T : TRUE}]
  <2> HIDE DEF chosen
  <2> QED
    BY <1>6
<1> HIDE DEF chosen, Rec, pick, step
<1>9. \A T \in SUBSET S : chosen[T] = sum[T]
  <2> DEFINE Good == {T \in SUBSET S : chosen[T] = sum[T]}
  <2>1. ASSUME NEW T \in SUBSET S, \A x \in T : T \ {x} \in Good PROVE T \in Good
    <3>1. CASE T = {}
      BY <1>3, <1>8, <3>1
    <3>2. CASE T # {}
      <4>1. PICK c \in T : c = CHOOSE x \in T : TRUE
        BY <3>2
      <4>2. chosen[T \ {c}] = sum[T \ {c}]
        BY <2>1
      <4>3. chosen[T] = f[c] + chosen[T \ {c}] /\ sum[T] = f[c] + sum[T \ {c}]
        BY <1>4, <1>8, <3>2, <4>1
      <4> QED
        BY <4>2, <4>3
    <3> QED
      BY <3>1, <3>2
  <2> HIDE DEF Good
  <2>2. \A T \in SUBSET S : T \in Good
    BY <2>1, FiniteInduction
  <2> QED
    BY <2>2 DEF Good
<1>10. Sums(sum, f, S)
  BY <1>3, <1>4 DEF Sums
<1>11. Total(f, S) = sum[S]
  BY <1>7, <1>9 DEF Total
<1> QED
  BY <1>10, <1>11

\* The sums over the subsets of one set are parts of one computation.
LEMMA TotalUnfolds ==
  ASSUME NEW S, IsFiniteSet(S), NEW f, \A x \in S : f[x] \in Nat
  PROVE  /\ Total(f, {}) = 0
         /\ \A T \in SUBSET S : Total(f, T) \in Nat
         /\ \A T \in SUBSET S : T # {} =>
              \E c \in T : Total(f, T) = f[c] + Total(f, T \ {c})
<1>1. ASSUME NEW T \in SUBSET S
      PROVE  \E sum : Sums(sum, f, T) /\ Total(f, T) = sum[T]
  <2>1. IsFiniteSet(T) /\ \A x \in T : f[x] \in Nat
    BY FS_Subset
  <2> QED
    BY ONLY <2>1, SumUnfolds
<1>2. PICK all : Sums(all, f, S)
  BY <1>1
<1>3. ASSUME NEW T \in SUBSET S PROVE Total(f, T) = all[T]
  <2>1. PICK sum : Sums(sum, f, T) /\ Total(f, T) = sum[T]
    BY <1>1
  <2> DEFINE Good == {U \in SUBSET T : sum[U] = all[U]}
  <2>2. ASSUME NEW U \in SUBSET T, \A x \in U : U \ {x} \in Good PROVE U \in Good
    <3>1. U \in SUBSET S
      OBVIOUS
    <3>2. CASE U = {}
      BY <1>2, <2>1, <3>2 DEF Sums
    <3>3. CASE U # {}
      <4>1. PICK c \in U : c = CHOOSE x \in U : TRUE
        BY <3>3
      <4>2. sum[U \ {c}] = all[U \ {c}]
        BY <2>2
      <4> HIDE DEF Good
      <4>3. sum[U] = f[c] + sum[U \ {c}] /\ all[U] = f[c] + all[U \ {c}]
        BY <1>2, <2>1, <3>1, <3>3, <4>1 DEF Sums
      <4>4. sum[U] = all[U]
        BY <4>2, <4>3
      <4> QED
        BY <4>4 DEF Good
    <3> QED
      BY <3>2, <3>3
  <2>3. IsFiniteSet(T)
    BY FS_Subset
  <2> HIDE DEF Good
  <2>4. \A U \in SUBSET T : U \in Good
    BY <2>2, <2>3, FiniteInduction
  <2> QED
    BY <2>1, <2>4 DEF Good
<1>4. ASSUME NEW T \in SUBSET S, T # {}
      PROVE  \E c \in T : Total(f, T) = f[c] + Total(f, T \ {c})
  <2>1. PICK c \in T : c = CHOOSE x \in T : TRUE
    BY <1>4
  <2>2. T \ {c} \in SUBSET S
    OBVIOUS
  <2>3. all[T] = f[c] + all[T \ {c}]
    BY <1>2, <1>4, <2>1 DEF Sums
  <2> QED
    BY <1>3, <2>2, <2>3
<1>5. {} \in SUBSET S /\ all[{}] = 0 /\ \A T \in SUBSET S : all[T] \in Nat
  BY <1>2 DEF Sums
<1> QED
  BY <1>3, <1>4, <1>5

\* A sum does not depend on the order in which it is added up.
LEMMA TotalTakes ==
  ASSUME NEW S, IsFiniteSet(S), NEW f, \A x \in S : f[x] \in Nat
  PROVE  \A x \in S : Total(f, S) = f[x] + Total(f, S \ {x})
<1> DEFINE Good == {T \in SUBSET S : \A x \in T : Total(f, T) = f[x] + Total(f, T \ {x})}
<1>1. ASSUME NEW T \in SUBSET S, \A x \in T : T \ {x} \in Good PROVE T \in Good
  <2> SUFFICES ASSUME NEW x \in T PROVE Total(f, T) = f[x] + Total(f, T \ {x})
    OBVIOUS
  <2>1. PICK c \in T : Total(f, T) = f[c] + Total(f, T \ {c})
    BY TotalUnfolds
  <2>2. CASE x = c
    BY <2>1, <2>2
  <2>3. CASE x # c
    <3>1. Total(f, T \ {c}) = f[x] + Total(f, (T \ {c}) \ {x})
      <4>1. T \ {c} \in Good /\ x \in T \ {c}
        BY <1>1, <2>3
      <4> QED
        BY <4>1
    <3>2. Total(f, T \ {x}) = f[c] + Total(f, (T \ {x}) \ {c})
      <4>1. T \ {x} \in Good /\ c \in T \ {x}
        BY <1>1, <2>3
      <4> QED
        BY <4>1
    <3>3. (T \ {c}) \ {x} = (T \ {x}) \ {c} /\ (T \ {c}) \ {x} \in SUBSET S
      OBVIOUS
    <3>4. Total(f, (T \ {c}) \ {x}) \in Nat /\ f[x] \in Nat /\ f[c] \in Nat
      BY <3>3, TotalUnfolds
    <3>5. PICK n \in Nat, i \in Nat, j \in Nat :
            n = Total(f, (T \ {c}) \ {x}) /\ i = f[x] /\ j = f[c]
      BY <3>4
    <3>6. Total(f, T) = j + (i + n) /\ Total(f, T \ {x}) = j + n
      BY <2>1, <3>1, <3>2, <3>3, <3>5
    <3> QED
      BY <3>5, <3>6
  <2> QED
    BY <2>2, <2>3
<1> HIDE DEF Good
<1>2. \A T \in SUBSET S : T \in Good
  BY <1>1, FiniteInduction
<1> QED
  BY <1>2 DEF Good

\* A sum depends only on what is added up.
LEMMA TotalSame ==
  ASSUME NEW S, IsFiniteSet(S), NEW f, NEW g, \A x \in S : f[x] \in Nat /\ f[x] = g[x]
  PROVE  Total(f, S) = Total(g, S)
<1> DEFINE Good == {T \in SUBSET S : Total(f, T) = Total(g, T)}
<1>0. /\ \A x \in S : f[x] \in Nat
      /\ \A x \in S : g[x] \in Nat
  OBVIOUS
<1>1. ASSUME NEW T \in SUBSET S, \A x \in T : T \ {x} \in Good PROVE T \in Good
  <2>1. CASE T = {}
    BY <1>0, <2>1, TotalUnfolds
  <2>2. CASE T # {}
    <3>1. PICK c \in T : Total(f, T) = f[c] + Total(f, T \ {c})
      BY <1>0, <2>2, TotalUnfolds
    <3>2. IsFiniteSet(T) /\ \A x \in T : g[x] \in Nat
      BY <1>0, FS_Subset
    <3>3. Total(g, T) = g[c] + Total(g, T \ {c})
      BY ONLY <3>2, c \in T, TotalTakes
    <3>4. Total(f, T \ {c}) = Total(g, T \ {c})
      BY <1>1
    <3> QED
      BY <1>0, <3>1, <3>3, <3>4
  <2> QED
    BY <2>1, <2>2
<1> HIDE DEF Good
<1>2. \A T \in SUBSET S : T \in Good
  BY <1>1, FiniteInduction
<1> QED
  BY <1>2 DEF Good

-----------------------------------------------------------------------------
(* Bags of hits.                                                           *)

\* The copies of an id in a bag are a number.
LEMMA CopiesNatural == ASSUME NEW b, IsABag(b), NEW id PROVE Copies(id, b) \in Nat
BY DEF Copies, IsABag

\* Adding bags adds the copies of every id.
LEMMA HitsAdd ==
  ASSUME NEW a, IsABag(a), NEW b, IsABag(b)
  PROVE  /\ IsABag(a (+) b)
         /\ DOMAIN (a (+) b) = DOMAIN a \cup DOMAIN b
         /\ \A id : Copies(id, a (+) b) = Copies(id, a) + Copies(id, b)
<1>1. DOMAIN (a (+) b) = DOMAIN a \cup DOMAIN b
  BY DEF (+)
<1>2. ASSUME NEW id \in DOMAIN a \cup DOMAIN b
      PROVE  (a (+) b)[id] = Copies(id, a) + Copies(id, b) /\ (a (+) b)[id] \in {n \in Nat : n > 0}
  <2>1. (a (+) b)[id] = Copies(id, a) + Copies(id, b)
    BY DEF (+), Copies
  <2>2. /\ Copies(id, a) \in Nat /\ Copies(id, b) \in Nat
        /\ Copies(id, a) > 0 \/ Copies(id, b) > 0
    BY DEF IsABag, Copies
  <2> QED
    BY <2>1, <2>2
<1>3. IsABag(a (+) b)
  <2>1. a (+) b = [id \in DOMAIN a \cup DOMAIN b |-> (a (+) b)[id]]
    BY DEF (+)
  <2> QED
    BY <1>1, <1>2, <2>1 DEF IsABag
<1>4. ASSUME NEW id PROVE Copies(id, a (+) b) = Copies(id, a) + Copies(id, b)
  <2>1. CASE id \in DOMAIN a \cup DOMAIN b
    BY <1>1, <1>2, <2>1 DEF Copies
  <2>2. CASE id \notin DOMAIN a \cup DOMAIN b
    BY <1>1, <2>2 DEF Copies
  <2> QED
    BY <2>1, <2>2
<1> QED
  BY <1>1, <1>3, <1>4

\* A bag is determined by its copies.
LEMMA SameCopies ==
  ASSUME NEW a, IsABag(a), NEW b, IsABag(b), \A id : Copies(id, a) = Copies(id, b)
  PROVE  a = b
<1>1. DOMAIN a = DOMAIN b
  BY DEF IsABag, Copies
<1>2. \A id \in DOMAIN a : a[id] = b[id]
  BY <1>1 DEF Copies
<1> QED
  BY <1>1, <1>2 DEF IsABag

\* The empty bag is a bag and holds no copy of any id.
LEMMA NoHits == IsABag(EmptyBag) /\ \A id : Copies(id, EmptyBag) = 0
BY DEF EmptyBag, SetToBag, IsABag, Copies

\* The hits of one rule are its own copies and nobody else's.
LEMMA HitsAreBags ==
  ASSUME NEW id, NEW n \in Nat
  PROVE  /\ IsABag(Hits(id, n))
         /\ Copies(id, Hits(id, n)) = n
         /\ \A other : other # id => Copies(other, Hits(id, n)) = 0
<1>1. CASE n > 0
  <2>1. Hits(id, n) = [x \in {id} |-> n]
    BY <1>1 DEF Hits
  <2> QED
    BY <1>1, <2>1 DEF IsABag, Copies
<1>2. CASE n = 0
  BY <1>2, NoHits DEF Hits
<1> QED
  BY <1>1, <1>2

\* All hits of a family of bags: of every id what its members have together.
LEMMA AllHitsCounted ==
  ASSUME NEW bags, IsFiniteSet(DOMAIN bags), \A x \in DOMAIN bags : IsABag(bags[x])
  PROVE  /\ IsABag(AllHits(bags))
         /\ \A id : Copies(id, AllHits(bags))
                      = Total([x \in DOMAIN bags |-> Copies(id, bags[x])], DOMAIN bags)
<1> DEFINE S == DOMAIN bags
           I == UNION {DOMAIN bags[x] : x \in S}
           V == UNION {[D -> {n \in Nat : n > 0}] : D \in SUBSET I}
           base == EmptyBag
           pick == [T \in (SUBSET S) \ {{}} |-> CHOOSE x \in T : TRUE]
           step == [x \in S |-> [b \in V |-> bags[x] (+) b]]
           Rec(it) == it = [T \in SUBSET S |-> IF T = {} THEN EmptyBag
                                ELSE bags[CHOOSE x \in T : TRUE] (+) it[T \ {CHOOSE x \in T : TRUE}]]
<1>1. \A b \in V : IsABag(b) /\ DOMAIN b \subseteq I
  BY DEF IsABag
<1>2. ASSUME NEW b, IsABag(b), DOMAIN b \subseteq I PROVE b \in V
  BY <1>2 DEF IsABag
<1>3. base \in V
  <2>1. DOMAIN EmptyBag = {}
    BY DEF EmptyBag, SetToBag
  <2> HIDE DEF V
  <2> QED
    BY <1>2, <2>1, NoHits
<1>4. ASSUME NEW x \in S, NEW b \in V PROVE bags[x] (+) b \in V
  <2>1. IsABag(bags[x]) /\ DOMAIN bags[x] \subseteq I /\ IsABag(b) /\ DOMAIN b \subseteq I
    BY <1>1
  <2> HIDE DEF V, I
  <2>2. IsABag(bags[x] (+) b) /\ DOMAIN (bags[x] (+) b) \subseteq I
    BY <2>1, HitsAdd
  <2> QED
    BY <1>2, <2>2
<1> HIDE DEF V, base
<1>5. /\ step \in Steps(S, V)
      /\ \A x \in S, b \in V : step[x][b] = bags[x] (+) b
  BY <1>4 DEF Steps
<1>6. pick \in Pickers(S) /\ \A T \in SUBSET S : T # {} => pick[T] = CHOOSE x \in T : TRUE
  BY DEF Pickers
<1> HIDE DEF step
<1>7. PICK it : Accumulates(it, S, V, base, step, pick)
  <2> HIDE DEF pick, S
  <2>1. IsFiniteSet(S)
    BY DEF S
  <2> QED
    BY ONLY <1>3, <1>5, <1>6, <2>1, SetRecursion
<1>8. ASSUME NEW T \in SUBSET S, T # {}
      PROVE  it[T] = bags[CHOOSE x \in T : TRUE] (+) it[T \ {CHOOSE x \in T : TRUE}]
  <2>1. PICK c \in T : c = CHOOSE x \in T : TRUE
    BY <1>8
  <2>2. pick[T] = c /\ T \ {c} \in SUBSET S /\ c \in S
    BY <1>6, <1>8, <2>1
  <2> HIDE DEF pick
  <2>3. it[T \ {c}] \in V /\ it[T] = step[c][it[T \ {c}]]
    BY <1>7, <1>8, <2>2 DEF Accumulates
  <2> QED
    BY <1>5, <2>1, <2>2, <2>3
<1>9. Rec(it)
  <2>1. /\ it = [T \in SUBSET S |-> it[T]]
        /\ it[{}] = EmptyBag
    BY <1>7 DEF Accumulates, base
  <2>2. \A T \in SUBSET S : it[T] = IF T = {} THEN EmptyBag
           ELSE bags[CHOOSE x \in T : TRUE] (+) it[T \ {CHOOSE x \in T : TRUE}]
    BY <1>8, <2>1
  <2> QED
    BY <2>1, <2>2
<1> DEFINE all == CHOOSE f : Rec(f)
<1>10. Rec(all)
  BY <1>9
<1>11. AllHits(bags) = all[S]
  BY DEF AllHits, FoldFunction, FoldFunctionOnSet, MapThenFoldSet
<1> HIDE DEF all
<1>12. /\ all[{}] = EmptyBag
       /\ \A T \in SUBSET S : T # {} =>
            all[T] = bags[CHOOSE x \in T : TRUE] (+) all[T \ {CHOOSE x \in T : TRUE}]
  BY <1>10
<1> DEFINE count(id) == [x \in S |-> Copies(id, bags[x])]
           Good == {T \in SUBSET S : /\ IsABag(all[T])
                                     /\ \A id : Copies(id, all[T]) = Total(count(id), T)}
<1>13. ASSUME NEW T \in SUBSET S, \A x \in T : T \ {x} \in Good PROVE T \in Good
  <2>0. IsFiniteSet(T) /\ \A id : \A x \in T : count(id)[x] \in Nat
    BY CopiesNatural, FS_Subset
  <2>1. CASE T = {}
    <3>1. ASSUME NEW id PROVE Total(count(id), {}) = 0
      BY <2>0, <2>1, TotalUnfolds
    <3> QED
      BY <1>12, <2>1, <3>1, NoHits
  <2>2. CASE T # {}
    <3>1. PICK c \in T : c = CHOOSE x \in T : TRUE
      BY <2>2
    <3>2. all[T] = bags[c] (+) all[T \ {c}]
      BY <1>12, <2>2, <3>1
    <3>3. /\ IsABag(bags[c]) /\ IsABag(all[T \ {c}])
          /\ \A id : Copies(id, all[T \ {c}]) = Total(count(id), T \ {c})
      BY <1>13
    <3>4. IsABag(all[T]) /\ \A id : Copies(id, all[T]) = Copies(id, bags[c]) + Copies(id, all[T \ {c}])
      <4> DEFINE a == bags[c]
                 b == all[T \ {c}]
      <4>1. IsABag(a) /\ IsABag(b) /\ all[T] = a (+) b
        BY <3>2, <3>3
      <4> HIDE DEF a, b
      <4>2. IsABag(a (+) b) /\ \A id : Copies(id, a (+) b) = Copies(id, a) + Copies(id, b)
        BY ONLY <4>1, HitsAdd
      <4>3. IsABag(all[T]) /\ \A id : Copies(id, all[T]) = Copies(id, a) + Copies(id, b)
        BY ONLY <4>1, <4>2
      <4> QED
        BY ONLY <4>3 DEF a, b
    <3>5. ASSUME NEW id PROVE Copies(id, all[T]) = Total(count(id), T)
      <4>1. count(id)[c] = Copies(id, bags[c])
        OBVIOUS
      <4> DEFINE f == count(id)
      <4>2. \A x \in T : f[x] \in Nat
        BY <2>0
      <4> HIDE DEF f
      <4>3. Total(f, T) = f[c] + Total(f, T \ {c})
        BY ONLY <2>0, <4>2, c \in T, TotalTakes
      <4> QED
        BY <3>3, <3>4, <4>1, <4>3 DEF f
    <3> QED
      BY <3>4, <3>5
  <2> QED
    BY <2>1, <2>2
<1> HIDE DEF Good
<1>14. \A T \in SUBSET S : T \in Good
  BY <1>13, FiniteInduction
<1> QED
  BY <1>11, <1>14 DEF Good

-----------------------------------------------------------------------------
(* What the loops over atoms, masks, fields and rules compute.             *)

\* Flattening joins one part after the other.
LEMMA FlattenUnfolds ==
  ASSUME NEW S, NEW ss \in Seq(Seq(S))
  PROVE  \E upTo : /\ upTo \in [0 .. Len(ss) -> Seq(S)]
                   /\ upTo[0] = <<>>
                   /\ \A n \in 1 .. Len(ss) : upTo[n] = upTo[n - 1] \o ss[n]
                   /\ FlattenSeq(ss) = upTo[Len(ss)]
<1> DEFINE N == Len(ss)
           V == Seq(S)
           step == [n \in 1 .. N |-> [v \in V |-> v \o ss[n]]]
           Rec(g) == g = [i \in 1 .. N |-> IF i = 1 THEN ss[i] ELSE g[i - 1] \o ss[i]]
<1>1. N \in Nat /\ \A n \in 1 .. N : ss[n] \in V
  OBVIOUS
<1>2. <<>> \in V /\ step \in Steps(1 .. N, V)
  <2>1. \A n \in 1 .. N, v \in V : v \o ss[n] \in V
    BY <1>1, ConcatProperties
  <2> QED
    BY <2>1 DEF Steps
<1>3. PICK f : Iterates(f, N, V, <<>>, step)
  <2> HIDE DEF N, V, step
  <2> QED
    BY ONLY <1>1, <1>2, Recursion
<1>4. /\ f \in [0 .. N -> V] /\ f[0] = <<>>
      /\ \A n \in 1 .. N : f[n] = f[n - 1] \o ss[n]
  <2>1. ASSUME NEW n \in 1 .. N PROVE f[n] = f[n - 1] \o ss[n]
    <3>1. n - 1 \in 0 .. N
      BY <1>1
    <3>2. f[n] = step[n][f[n - 1]] /\ f[n - 1] \in V
      <4> HIDE DEF V, step
      <4> QED
        BY <1>3, <3>1 DEF Iterates
    <3> HIDE DEF V
    <3> QED
      BY <3>2
  <2> QED
    BY <1>3, <2>1 DEF Iterates
<1>5. CASE N = 0
  <2>1. ss = <<>> /\ FlattenSeq(ss) = ss
    BY <1>5 DEF FlattenSeq
  <2> QED
    BY <1>4, <1>5, <2>1
<1>6. CASE N # 0
  <2> DEFINE h == [i \in 1 .. N |-> f[i]]
  <2>1. ASSUME NEW i \in 1 .. N
        PROVE  h[i] = IF i = 1 THEN ss[i] ELSE h[i - 1] \o ss[i]
    <3>1. f[i] = f[i - 1] \o ss[i]
      BY <1>4
    <3>2. CASE i = 1
      <4>1. f[0] \o ss[1] = ss[1]
        BY <1>1, <1>4, <3>2, ConcatEmptySeq
      <4>2. h[i] = f[i] /\ ss[i] = ss[1] /\ f[i] = f[0] \o ss[1]
        <5>1. i - 1 = 0 /\ h[i] = f[i]
          BY <3>2
        <5> HIDE DEF h
        <5> QED
          BY <3>1, <3>2, <5>1
      <4> QED
        BY ONLY <3>2, <4>1, <4>2
    <3>3. CASE i # 1
      <4>1. i - 1 \in 1 .. N
        BY <3>3
      <4> QED
        BY <3>1, <3>3, <4>1
    <3> QED
      BY <3>2, <3>3
  <2>2. Rec(h)
    BY <2>1
  <2> DEFINE g == CHOOSE it : Rec(it)
  <2>3. Rec(g)
    BY <2>2
  <2>4. FlattenSeq(ss) = g[N]
    BY <1>6 DEF FlattenSeq
  <2> HIDE DEF g
  <2> DEFINE Good == {n \in 0 .. N : n # 0 => g[n] = f[n]}
  <2>5. 0 \in Good
    BY <1>1
  <2>6. ASSUME NEW n \in 0 .. N - 1, n \in Good PROVE n + 1 \in Good
    <3>1. n + 1 \in 1 .. N /\ (n + 1) - 1 = n
      BY <1>1
    <3>2. g[n + 1] = IF n + 1 = 1 THEN ss[n + 1] ELSE g[n] \o ss[n + 1]
      BY <2>3, <3>1
    <3>3. f[n + 1] = IF n + 1 = 1 THEN ss[n + 1] ELSE f[n] \o ss[n + 1]
      <4>1. h[n + 1] = IF n + 1 = 1 THEN ss[n + 1] ELSE h[n] \o ss[n + 1]
        BY <2>1, <3>1
      <4>2. n # 0 => n \in 1 .. N
        BY <3>1
      <4> QED
        BY <3>1, <4>1, <4>2
    <3>4. g[n + 1] = f[n + 1]
      BY <2>6, <3>2, <3>3
    <3> QED
      BY <3>1, <3>4
  <2>7. \A n \in 0 .. N : n \in Good
    <3> HIDE DEF Good, N
    <3> QED
      BY <1>1, <2>5, <2>6, Induction
  <2>8. g[N] = f[N]
    BY <1>1, <1>6, <2>7
  <2> QED
    BY <1>4, <2>4, <2>8
<1> QED
  BY <1>5, <1>6

\* A flattened sequence has the elements of its parts.
LEMMA FlattenTyped ==
  ASSUME NEW S, NEW ss \in Seq(Seq(S))
  PROVE  FlattenSeq(ss) \in Seq(S)
<1>1. PICK upTo : upTo \in [0 .. Len(ss) -> Seq(S)] /\ FlattenSeq(ss) = upTo[Len(ss)]
  BY FlattenUnfolds
<1>2. Len(ss) \in 0 .. Len(ss)
  OBVIOUS
<1> QED
  BY <1>1, <1>2

\* One mask turns a string into a string and counts under its own id.
LEMMA MaskTyped ==
  ASSUME NEW A, NEW v, v.str \in Seq(A), IsABag(v.hits), NEW m, m.replacement \in Seq(A)
  PROVE  /\ Mask(v, m).str \in Seq(A)
         /\ IsABag(Mask(v, m).hits)
         /\ DOMAIN Mask(v, m).hits \subseteq DOMAIN v.hits \cup {m.id}
<1> DEFINE parts == [i \in DOMAIN v.str |->
                       IF v.str[i][1] = m.pattern THEN m.replacement ELSE <<v.str[i]>>]
           matches == {i \in DOMAIN v.str : v.str[i][1] = m.pattern}
           more == Hits(m.id, Cardinality(matches))
<1>1. DOMAIN v.str = 1 .. Len(v.str) /\ Len(v.str) \in Nat /\ \A i \in DOMAIN v.str : v.str[i] \in A
  OBVIOUS
<1>2. parts \in Seq(Seq(A))
  <2>1. \A i \in DOMAIN v.str : parts[i] \in Seq(A)
    BY <1>1
  <2> QED
    BY <1>1, <2>1
<1>3. FlattenSeq(parts) \in Seq(A)
  <2> HIDE DEF parts
  <2> QED
    BY <1>2, FlattenTyped
<1>4. Cardinality(matches) \in Nat
  <2>1. IsFiniteSet(1 .. Len(v.str)) /\ matches \subseteq 1 .. Len(v.str)
    BY <1>1, FS_Interval
  <2> QED
    BY <2>1, FS_Subset, FS_CardinalityType
<1>5. IsABag(more) /\ DOMAIN more \subseteq {m.id}
  <2> DEFINE n == Cardinality(matches)
  <2> HIDE DEF n
  <2>1. n \in Nat
    BY <1>4 DEF n
  <2>2. IsABag(Hits(m.id, n))
    BY ONLY <2>1, HitsAreBags
  <2>3. DOMAIN Hits(m.id, n) \subseteq {m.id}
    BY DEF Hits, EmptyBag, SetToBag
  <2> QED
    BY <2>2, <2>3 DEF n
<1> DEFINE so == v.hits
<1>6. Mask(v, m).str = FlattenSeq(parts) /\ Mask(v, m).hits = so (+) more
  BY DEF Mask
<1> HIDE DEF parts, more, so
<1>7. IsABag(so (+) more) /\ DOMAIN (so (+) more) = DOMAIN so \cup DOMAIN more
  <2>1. IsABag(so) /\ IsABag(more)
    BY <1>5 DEF so
  <2> QED
    BY ONLY <2>1, HitsAdd
<1> QED
  BY <1>3, <1>5, <1>6, <1>7 DEF so

\* Bags of some ids, as a set.
BagsOf(I) == UNION {[D -> {n \in Nat : n > 0}] : D \in SUBSET I}

\* The bags over a set of ids form a set.
LEMMA BagsAreBags ==
  ASSUME NEW I
  PROVE  \A b : b \in BagsOf(I) <=> IsABag(b) /\ DOMAIN b \subseteq I
BY DEF BagsOf, IsABag

\* The masks of a field turn a string into a string and a bag of hits.
LEMMA ApplyMaskRulesTyped ==
  ASSUME NEW A, NEW value \in Seq(A), NEW M, NEW masks \in Seq(M),
         \A m \in M : m.replacement \in Seq(A)
  PROVE  /\ ApplyMaskRules(value, masks).str \in Seq(A)
         /\ IsABag(ApplyMaskRules(value, masks).hits)
<1> DEFINE N == Len(masks)
           I == {masks[n].id : n \in 1 .. N}
           V == [str : Seq(A), hits : BagsOf(I)]
           base == [str |-> value, hits |-> EmptyBag]
           step == [n \in 1 .. N |-> [v \in V |-> Mask(v, masks[n])]]
           Rec(f) == f = [n \in 0 .. N |->
                            IF n = 0 THEN [str |-> value, hits |-> EmptyBag]
                            ELSE Mask(f[n - 1], masks[n])]
<1>1. N \in Nat /\ \A n \in 1 .. N : masks[n] \in M /\ masks[n].replacement \in Seq(A)
  OBVIOUS
<1>2. base \in V
  <2>1. EmptyBag \in BagsOf(I)
    BY BagsAreBags, NoHits DEF EmptyBag, SetToBag
  <2> QED
    BY <2>1
<1>3. ASSUME NEW n \in 1 .. N, NEW v \in V PROVE Mask(v, masks[n]) \in V
  <2> DEFINE m == masks[n]
             w == Mask(v, m)
  <2>1. v.str \in Seq(A) /\ IsABag(v.hits) /\ DOMAIN v.hits \subseteq I
    BY BagsAreBags
  <2>2. m.replacement \in Seq(A) /\ m.id \in I
    BY <1>1
  <2> HIDE DEF m
  <2>3. w.str \in Seq(A) /\ IsABag(w.hits) /\ DOMAIN w.hits \subseteq DOMAIN v.hits \cup {m.id}
    <3> HIDE DEF I, V
    <3> QED
      BY ONLY <2>1, <2>2, MaskTyped
  <2>4. w = [str |-> w.str, hits |-> w.hits]
    BY DEF Mask
  <2> HIDE DEF w
  <2>5. w.hits \in BagsOf(I)
    <3> HIDE DEF I
    <3> QED
      BY <2>1, <2>2, <2>3, BagsAreBags
  <2>6. w \in V
    BY <2>3, <2>4, <2>5
  <2> QED
    BY <2>6 DEF w, m
<1> HIDE DEF V, base
<1>4. step \in Steps(1 .. N, V) /\ \A n \in 1 .. N, v \in V : step[n][v] = Mask(v, masks[n])
  BY <1>3 DEF Steps
<1> HIDE DEF step
<1>5. PICK f : Iterates(f, N, V, base, step)
  <2> HIDE DEF N
  <2> QED
    BY ONLY <1>1, <1>2, <1>4, Recursion
<1>6. Rec(f)
  <2>1. f = [n \in 0 .. N |-> f[n]]
    BY <1>5 DEF Iterates
  <2>2. ASSUME NEW n \in 0 .. N
        PROVE  f[n] = IF n = 0 THEN [str |-> value, hits |-> EmptyBag]
                      ELSE Mask(f[n - 1], masks[n])
    <3>1. CASE n = 0
      BY <1>5, <3>1 DEF Iterates, base
    <3>2. CASE n # 0
      <4>1. n \in 1 .. N /\ n - 1 \in 0 .. N
        BY <1>1, <3>2
      <4>2. f[n] = step[n][f[n - 1]] /\ f[n - 1] \in V
        BY <1>5, <4>1 DEF Iterates
      <4> QED
        BY <1>4, <3>2, <4>1, <4>2
    <3> QED
      BY <3>1, <3>2
  <2> QED
    BY <2>1, <2>2
<1> DEFINE upTo == CHOOSE g : Rec(g)
<1>7. Rec(upTo)
  BY <1>6
<1>8. ApplyMaskRules(value, masks) = upTo[N]
  BY DEF ApplyMaskRules
<1> HIDE DEF upTo
<1>9. upTo[N] \in V
  <2>1. upTo[0] = base
    BY <1>1, <1>7 DEF base
  <2>2. ASSUME NEW n \in 1 .. N, upTo[n - 1] \in V PROVE upTo[n] = step[n][upTo[n - 1]]
    <3>1. n \in 0 .. N /\ n # 0
      BY <1>1
    <3> QED
      BY <1>4, <1>7, <2>2, <3>1
  <2> HIDE DEF N, Rec
  <2>3. \A n \in 0 .. N : upTo[n] = f[n] /\ f[n] \in V
    BY ONLY <1>1, <1>2, <1>4, <1>5, <2>1, <2>2, OneRecursion
  <2> QED
    BY <1>1, <2>3
<1> QED
  BY <1>8, <1>9, BagsAreBags DEF V

\* No mask, no change.
LEMMA NoMask ==
  ASSUME NEW value
  PROVE  ApplyMaskRules(value, <<>>) = [str |-> value, hits |-> EmptyBag]
<1> DEFINE Rec(f) == f = [n \in 0 .. Len(<<>>) |->
                            IF n = 0 THEN [str |-> value, hits |-> EmptyBag]
                            ELSE Mask(f[n - 1], <<>>[n])]
<1>1. 0 .. Len(<<>>) = {0} /\ Len(<<>>) = 0
  OBVIOUS
<1>2. Rec([n \in {0} |-> [str |-> value, hits |-> EmptyBag]])
  BY <1>1
<1> DEFINE upTo == CHOOSE g : Rec(g)
<1>3. Rec(upTo)
  BY <1>2
<1>4. ApplyMaskRules(value, <<>>) = upTo[Len(<<>>)]
  BY DEF ApplyMaskRules
<1> HIDE DEF upTo
<1> QED
  BY <1>1, <1>3, <1>4

Field == STRING \X STRING
KnownFields == {f \in Field : Known(f)}

\* The masks of some fields.
MasksOf(M) == UNION {[D -> Seq(M)] : D \in SUBSET KnownFields}

Repeated(x, n) == [i \in 1 .. n |-> x]
Occurrences(s, n, x) == {j \in 1 .. n : s[j] = x}

\* Every field has a sequence of masks, an empty one if no rule lists it.
LEMMA MasksTyped ==
  ASSUME NEW M, NEW masks \in MasksOf(M)
  PROVE  DOMAIN masks \subseteq KnownFields /\ \A f : MasksAt(masks, f) \in Seq(M)
BY DEF MasksOf, MasksAt

\* A mask goes to the end of the masks of its field, and nowhere else.
LEMMA AppendAtAppends ==
  ASSUME NEW M, NEW masks \in MasksOf(M), NEW field \in Field, NEW mask \in M
  PROVE  /\ AppendAt(masks, field, mask) \in MasksOf(M)
         /\ \A f : Known(f) =>
              MasksAt(AppendAt(masks, field, mask), f)
                = IF f = field THEN Append(MasksAt(masks, f), mask) ELSE MasksAt(masks, f)
<1> DEFINE r == AppendAt(masks, field, mask)
<1>1. DOMAIN masks \subseteq KnownFields /\ \A f : MasksAt(masks, f) \in Seq(M)
  BY MasksTyped
<1>2. CASE ~Known(field)
  BY <1>2 DEF AppendAt
<1>3. CASE Known(field)
  <2> DEFINE D == DOMAIN masks \cup {field}
  <2>1. /\ r = [f \in D |-> IF f = field THEN Append(MasksAt(masks, f), mask) ELSE masks[f]]
        /\ D \in SUBSET KnownFields
    BY <1>1, <1>3 DEF AppendAt, KnownFields
  <2>2. ASSUME NEW f \in D PROVE r[f] \in Seq(M)
    <3>1. CASE f = field
      <4>1. MasksAt(masks, f) \in Seq(M)
        BY <1>1
      <4>2. Append(MasksAt(masks, f), mask) \in Seq(M)
        BY ONLY <4>1, mask \in M, AppendProperties
      <4> QED
        BY <2>1, <3>1, <4>2
    <3>2. CASE f # field
      <4>1. r[f] = MasksAt(masks, f)
        BY <2>1, <3>2 DEF MasksAt
      <4> QED
        BY <1>1, <4>1
    <3> QED
      BY <3>1, <3>2
  <2>3. r \in [D -> Seq(M)]
    <3> HIDE DEF D
    <3>1. r = [f \in D |-> r[f]]
      BY <2>1
    <3> HIDE DEF r
    <3> QED
      BY <2>2, <3>1
  <2>4. r \in MasksOf(M)
    <3> HIDE DEF D, r
    <3> QED
      BY <2>1, <2>3 DEF MasksOf
  <2>5. ASSUME NEW f
        PROVE  MasksAt(r, f) = IF f = field THEN Append(MasksAt(masks, f), mask) ELSE MasksAt(masks, f)
    <3>1. DOMAIN r = D
      BY <2>1
    <3>2. f \in D => r[f] = IF f = field THEN Append(MasksAt(masks, f), mask) ELSE masks[f]
      BY <2>1
    <3> HIDE DEF r
    <3> QED
      BY <3>1, <3>2 DEF MasksAt
  <2> QED
    BY <2>4, <2>5
<1> QED
  BY <1>2, <1>3

\* One place further, an element occurs once more or as often.
LEMMA OneMoreOccurrence ==
  ASSUME NEW s, NEW n \in Nat, NEW x
  PROVE  /\ Cardinality(Occurrences(s, 0, x)) = 0
         /\ Cardinality(Occurrences(s, n, x)) \in Nat
         /\ Cardinality(Occurrences(s, n + 1, x))
              = IF s[n + 1] = x THEN Cardinality(Occurrences(s, n, x)) + 1
                ELSE Cardinality(Occurrences(s, n, x))
<1>1. IsFiniteSet(Occurrences(s, n, x))
  <2>1. IsFiniteSet(1 .. n) /\ Occurrences(s, n, x) \subseteq 1 .. n
    BY FS_Interval DEF Occurrences
  <2> QED
    BY <2>1, FS_Subset
<1>2. Occurrences(s, 0, x) = {}
  BY DEF Occurrences
<1>3. /\ n + 1 \notin Occurrences(s, n, x)
      /\ Occurrences(s, n + 1, x)
           = IF s[n + 1] = x THEN Occurrences(s, n, x) \cup {n + 1} ELSE Occurrences(s, n, x)
  <2>1. 1 .. n + 1 = (1 .. n) \cup {n + 1} /\ n + 1 \notin 1 .. n
    OBVIOUS
  <2> DEFINE last == n + 1
  <2> HIDE DEF last
  <2>2. 1 .. last = (1 .. n) \cup {last} /\ last \notin 1 .. n
    BY <2>1 DEF last
  <2>3. /\ last \notin Occurrences(s, n, x)
        /\ Occurrences(s, last, x)
             = IF s[last] = x THEN Occurrences(s, n, x) \cup {last} ELSE Occurrences(s, n, x)
    BY <2>2 DEF Occurrences
  <2> QED
    BY <2>3 DEF last
<1>4. Cardinality(Occurrences(s, n, x) \cup {n + 1}) = Cardinality(Occurrences(s, n, x)) + 1
  <2> DEFINE so == Occurrences(s, n, x)
             last == n + 1
  <2> HIDE DEF so, last
  <2>1. IsFiniteSet(so) /\ last \notin so
    BY <1>1, <1>3 DEF so, last
  <2>2. Cardinality(so \cup {last}) = Cardinality(so) + 1
    BY ONLY <2>1, FS_AddElement
  <2> QED
    BY <2>2 DEF so, last
<1>5. Cardinality(Occurrences(s, n, x)) \in Nat
  BY ONLY <1>1, FS_CardinalityType
<1>6. Cardinality({}) = 0
  BY FS_EmptySet
<1> HIDE DEF Occurrences
<1>7. Cardinality(Occurrences(s, 0, x)) = 0
  BY ONLY <1>2, <1>6
<1> QED
  BY <1>3, <1>4, <1>5, <1>7

\* What is repeated once more is appended.
LEMMA RepeatedOnceMore ==
  ASSUME NEW M, NEW s \in Seq(M), NEW x \in M, NEW n \in Nat
  PROVE  /\ s \o Repeated(x, 0) = s
         /\ s \o Repeated(x, n + 1) = Append(s \o Repeated(x, n), x)
<1>1. Repeated(x, 0) = <<>>
  BY DEF Repeated
<1>2. s \o <<>> = s
  BY ConcatEmptySeq
<1>3. ASSUME NEW m \in Nat PROVE Repeated(x, m) \in Seq(M) /\ Len(Repeated(x, m)) = m
  BY DEF Repeated
<1>4. Repeated(x, n + 1) = Append(Repeated(x, n), x)
  BY DEF Repeated
<1>5. s \o Append(Repeated(x, n), x) = Append(s \o Repeated(x, n), x)
  <2>1. Repeated(x, n) \in Seq(M)
    BY <1>3
  <2> DEFINE t == Repeated(x, n)
  <2> HIDE DEF t
  <2>2. t \in Seq(M)
    BY <2>1 DEF t
  <2>3. s \o Append(t, x) = Append(s \o t, x)
    BY ONLY <2>2, s \in Seq(M), x \in M
  <2> QED
    BY <2>3 DEF t
<1> QED
  BY <1>1, <1>2, <1>3, <1>4, <1>5

\* A rule adds its mask to a field as often as it lists the field.
LEMMA AddMaskAppends ==
  ASSUME NEW M, NEW masks \in MasksOf(M), NEW fields \in Seq(Field), NEW mask \in M
  PROVE  /\ AddMask(masks, fields, mask) \in MasksOf(M)
         /\ \A f : Known(f) =>
              MasksAt(AddMask(masks, fields, mask), f)
                = MasksAt(masks, f) \o
                    Repeated(mask, Cardinality(Occurrences(fields, Len(fields), f)))
<1> DEFINE N == Len(fields)
           V == MasksOf(M)
           step == [n \in 1 .. N |-> [v \in V |-> AppendAt(v, fields[n], mask)]]
           Rec(g) == g = [n \in 0 .. N |->
                            IF n = 0 THEN masks ELSE AppendAt(g[n - 1], fields[n], mask)]
<1>1. N \in Nat /\ \A n \in 1 .. N : fields[n] \in Field
  OBVIOUS
<1>2. \A n \in 1 .. N, v \in V : AppendAt(v, fields[n], mask) \in V
  BY <1>1, AppendAtAppends
<1>3. step \in Steps(1 .. N, V) /\ \A n \in 1 .. N, v \in V : step[n][v] = AppendAt(v, fields[n], mask)
  <2> HIDE DEF V
  <2> QED
    BY <1>2 DEF Steps
<1> HIDE DEF step, V
<1>0. masks \in V
  BY DEF V
<1>4. PICK g : Iterates(g, N, V, masks, step)
  <2> HIDE DEF N
  <2> QED
    BY ONLY <1>0, <1>1, <1>3, Recursion
<1>5. ASSUME NEW n \in 1 .. N PROVE g[n] = AppendAt(g[n - 1], fields[n], mask) /\ g[n - 1] \in V
  <2>1. n - 1 \in 0 .. N
    BY <1>1
  <2>2. g[n] = step[n][g[n - 1]] /\ g[n - 1] \in V
    BY <1>4, <2>1 DEF Iterates
  <2> QED
    BY <1>3, <2>2
<1>6. Rec(g)
  <2>1. g = [n \in 0 .. N |-> g[n]] /\ g[0] = masks
    BY <1>4 DEF Iterates
  <2>2. ASSUME NEW n \in 0 .. N
        PROVE  g[n] = IF n = 0 THEN masks ELSE AppendAt(g[n - 1], fields[n], mask)
    <3>1. n # 0 => n \in 1 .. N
      BY <1>1
    <3> QED
      BY <1>5, <2>1, <3>1
  <2> QED
    BY <2>1, <2>2
<1> DEFINE upTo == CHOOSE h : Rec(h)
<1>7. Rec(upTo)
  BY <1>6
<1>8. AddMask(masks, fields, mask) = upTo[N]
  BY DEF AddMask
<1> HIDE DEF upTo
<1>9. upTo[0] = masks /\ \A n \in 1 .. N : upTo[n] = AppendAt(upTo[n - 1], fields[n], mask)
  <2>1. \A n \in 1 .. N : n \in 0 .. N /\ n # 0
    BY <1>1
  <2> QED
    BY <1>1, <1>7, <2>1
<1> DEFINE times(n, f) == Cardinality(Occurrences(fields, n, f))
           Good == {n \in 0 .. N :
                      /\ upTo[n] \in V
                      /\ \A f : Known(f) =>
                           MasksAt(upTo[n], f) = MasksAt(masks, f) \o Repeated(mask, times(n, f))}
<1> HIDE DEF N
<1>10. 0 \in Good
  <2>1. ASSUME NEW f PROVE MasksAt(masks, f) \o Repeated(mask, times(0, f)) = MasksAt(masks, f)
    <3>1. MasksAt(masks, f) \in Seq(M) /\ times(0, f) = 0
      BY MasksTyped, OneMoreOccurrence
    <3> DEFINE s == MasksAt(masks, f)
    <3> HIDE DEF s
    <3>2. s \in Seq(M)
      BY <3>1 DEF s
    <3>3. s \o Repeated(mask, 0) = s
      BY <3>2, RepeatedOnceMore
    <3> QED
      BY <3>1, <3>3 DEF s
  <2> HIDE DEF times
  <2> QED
    BY <1>0, <1>1, <1>9, <2>1
<1>11. ASSUME NEW n \in 0 .. N - 1, n \in Good PROVE n + 1 \in Good
  <2>1. n + 1 \in 1 .. N /\ (n + 1) - 1 = n /\ n + 1 \in 0 .. N /\ n \in Nat
    BY <1>1
  <2>2. upTo[n + 1] = AppendAt(upTo[n], fields[n + 1], mask) /\ fields[n + 1] \in Field
    BY <1>1, <1>9, <2>1
  <2> DEFINE so == upTo[n]
             field == fields[n + 1]
  <2>3. so \in MasksOf(M) /\ field \in Field
    BY <1>11, <2>2 DEF V
  <2> HIDE DEF so, field
  <2>4. /\ AppendAt(so, field, mask) \in MasksOf(M)
        /\ \A f : Known(f) => MasksAt(AppendAt(so, field, mask), f)
                    = IF f = field THEN Append(MasksAt(so, f), mask) ELSE MasksAt(so, f)
    BY <2>3, AppendAtAppends
  <2>5. ASSUME NEW f, Known(f)
        PROVE  MasksAt(upTo[n + 1], f) = MasksAt(masks, f) \o Repeated(mask, times(n + 1, f))
    <3> DEFINE s == MasksAt(masks, f)
               t == times(n, f)
    <3>1. /\ s \in Seq(M) /\ t \in Nat
          /\ times(n + 1, f) = IF f = field THEN t + 1 ELSE t
      <4>1. s \in Seq(M)
        BY MasksTyped
      <4>2. /\ Cardinality(Occurrences(fields, n, f)) \in Nat
            /\ Cardinality(Occurrences(fields, n + 1, f))
                 = IF fields[n + 1] = f THEN Cardinality(Occurrences(fields, n, f)) + 1
                   ELSE Cardinality(Occurrences(fields, n, f))
        BY ONLY <2>1, OneMoreOccurrence
      <4> QED
        BY <4>1, <4>2 DEF field
    <3>2. MasksAt(so, f) = s \o Repeated(mask, t)
      BY <1>11, <2>5 DEF so
    <3>3. MasksAt(upTo[n + 1], f) = IF f = field THEN Append(MasksAt(so, f), mask) ELSE MasksAt(so, f)
      BY <2>2, <2>4, <2>5 DEF so, field
    <3> HIDE DEF s, t, times
    <3>4. s \o Repeated(mask, t + 1) = Append(s \o Repeated(mask, t), mask)
      <4>1. s \in Seq(M) /\ t \in Nat
        BY <3>1
      <4> QED
        BY ONLY <4>1, mask \in M, RepeatedOnceMore
    <3> QED
      BY <3>1, <3>2, <3>3, <3>4 DEF s
  <2>6. upTo[n + 1] \in V
    BY <2>2, <2>4 DEF V, so, field
  <2> HIDE DEF times
  <2> QED
    BY <2>1, <2>5, <2>6
<1>12. \A n \in 0 .. N : n \in Good
  <2> HIDE DEF Good
  <2> QED
    BY <1>1, <1>10, <1>11, Induction
<1>13. N \in Good
  BY <1>1, <1>12
<1> QED
  BY <1>8, <1>13 DEF V, N

\* Who owns which key.
OwnersOf(V) == UNION {[D -> V] : D \in SUBSET STRING}

IdsOf(file) == {RuleIdentifier(file.rules, i) : i \in DOMAIN file.rules}
MaskRecords(file) == {MaskOf(file.rules, i) : i \in DOMAIN file.rules}
TokenOwners(file) == [id : IdsOf(file), secret : STRING]

\* The compiled forms of a file.
CompiledOf(file) ==
  [drop : OwnersOf(IdsOf(file)), tokens : OwnersOf(TokenOwners(file)),
   masks : MasksOf(MaskRecords(file))]

NothingCompiled == [drop |-> <<>>, tokens |-> <<>>, masks |-> <<>>]

\* The keys a rule names become its own.
LEMMA ClaimTakes ==
  ASSUME NEW V, NEW owners \in OwnersOf(V), NEW keys \in Seq(STRING), NEW owner \in V
  PROVE  /\ Claim(owners, keys, owner) \in OwnersOf(V)
         /\ DOMAIN Claim(owners, keys, owner) = DOMAIN owners \cup (ToSet(keys) \ {""})
         /\ \A k \in DOMAIN Claim(owners, keys, owner) :
              Claim(owners, keys, owner)[k] = IF k \in ToSet(keys) THEN owner ELSE owners[k]
<1> DEFINE r == Claim(owners, keys, owner)
           D == DOMAIN owners \cup (ToSet(keys) \ {""})
<1>1. PICK E \in SUBSET STRING : owners \in [E -> V]
  BY DEF OwnersOf
<1>2. ToSet(keys) \subseteq STRING
  BY DEF ToSet
<1>3. D \in SUBSET STRING
  BY <1>1, <1>2
<1>4. r = [k \in D |-> IF k \in ToSet(keys) THEN owner ELSE owners[k]]
  BY DEF Claim
<1>5. \A k \in D : (IF k \in ToSet(keys) THEN owner ELSE owners[k]) \in V
  BY <1>1
<1> HIDE DEF r
<1>6. r \in [D -> V]
  <2> HIDE DEF D
  <2> QED
    BY <1>4, <1>5
<1>7. r \in OwnersOf(V)
  <2> HIDE DEF D
  <2> QED
    BY <1>3, <1>6 DEF OwnersOf
<1>8. DOMAIN r = D /\ \A k \in D : r[k] = IF k \in ToSet(keys) THEN owner ELSE owners[k]
  BY <1>4
<1> QED
  BY <1>7, <1>8 DEF r

\* What a rule adds, one field of the policy at a time.
LEMMA AddRuleAdds ==
  ASSUME NEW file, IsPolicyFile(file), NEW p \in CompiledOf(file), NEW i \in DOMAIN file.rules,
         Acceptable(file.rules[i], file.secrets)
  PROVE  LET rule == file.rules[i]
             id == RuleIdentifier(file.rules, i)
             q == AddRule(p, file, i)
         IN  /\ q \in CompiledOf(file)
             /\ q.drop = IF rule.type = "drop_key" THEN Claim(p.drop, rule.keys, id) ELSE p.drop
             /\ q.tokens = IF rule.type = "tokenize_hmac"
                           THEN Claim(p.tokens, rule.keys,
                                      [id |-> id, secret |-> file.secrets[rule.keyID]])
                           ELSE p.tokens
             /\ q.masks = IF rule.type = "mask_regex"
                          THEN AddMask(p.masks, rule.fields, MaskOf(file.rules, i))
                          ELSE p.masks
<1> DEFINE rule == file.rules[i]
           id == RuleIdentifier(file.rules, i)
           token == [id |-> id, secret |-> file.secrets[rule.keyID]]
           q == AddRule(p, file, i)
<1>1. /\ rule \in Rule
      /\ rule.keys \in Seq(STRING) /\ rule.fields \in Seq(Field)
  <2>1. rule \in Rule
    BY DEF IsPolicyFile
  <2> HIDE DEF rule
  <2> QED
    BY <2>1 DEF Rule, Field
<1>2. p = [drop |-> p.drop, tokens |-> p.tokens, masks |-> p.masks]
      /\ p.drop \in OwnersOf(IdsOf(file)) /\ p.tokens \in OwnersOf(TokenOwners(file))
      /\ p.masks \in MasksOf(MaskRecords(file))
  BY DEF CompiledOf
<1>3. id \in IdsOf(file) /\ MaskOf(file.rules, i) \in MaskRecords(file)
  BY DEF IdsOf, MaskRecords
<1>4. CASE rule.type = "drop_key"
  <2> DEFINE drop == Claim(p.drop, rule.keys, id)
  <2>1. drop \in OwnersOf(IdsOf(file))
    BY <1>1, <1>2, <1>3, ClaimTakes
  <2>2. q = [p EXCEPT !.drop = drop]
    BY <1>4 DEF AddRule
  <2> HIDE DEF drop, q, rule
  <2>3. q = [drop |-> drop, tokens |-> p.tokens, masks |-> p.masks]
    BY <1>2, <2>2
  <2>4. q \in CompiledOf(file)
    BY <1>2, <2>1, <2>3 DEF CompiledOf
  <2> QED
    BY <1>4, <2>3, <2>4 DEF q, drop, rule
<1>5. CASE rule.type = "tokenize_hmac"
  <2>1. rule.keyID \in DOMAIN file.secrets
    BY <1>5 DEF Acceptable
  <2>2. file.secrets[rule.keyID] \in STRING
    BY <2>1 DEF IsPolicyFile
  <2>3. token \in TokenOwners(file)
    BY <1>3, <2>2 DEF TokenOwners
  <2> DEFINE tokens == Claim(p.tokens, rule.keys, token)
  <2>4. tokens \in OwnersOf(TokenOwners(file))
    <3> HIDE DEF token
    <3> QED
      BY <1>1, <1>2, <2>3, ClaimTakes
  <2>5. q = [p EXCEPT !.tokens = tokens]
    BY <1>5 DEF AddRule
  <2> HIDE DEF tokens, q, rule
  <2>6. q = [drop |-> p.drop, tokens |-> tokens, masks |-> p.masks]
    BY <1>2, <2>5
  <2>7. q \in CompiledOf(file)
    BY <1>2, <2>4, <2>6 DEF CompiledOf
  <2> QED
    BY <1>5, <2>6, <2>7 DEF q, tokens, rule
<1>6. CASE rule.type = "mask_regex"
  <2> DEFINE masks == AddMask(p.masks, rule.fields, MaskOf(file.rules, i))
  <2>1. masks \in MasksOf(MaskRecords(file))
    BY <1>1, <1>2, <1>3, AddMaskAppends
  <2>2. q = [p EXCEPT !.masks = masks]
    BY <1>6 DEF AddRule
  <2> HIDE DEF masks, q, rule
  <2>3. q = [drop |-> p.drop, tokens |-> p.tokens, masks |-> masks]
    BY <1>2, <2>2
  <2>4. q \in CompiledOf(file)
    BY <1>2, <2>1, <2>3 DEF CompiledOf
  <2> QED
    BY <1>6, <2>3, <2>4 DEF q, masks, rule
<1> QED
  BY <1>4, <1>5, <1>6 DEF Acceptable

\* upTo compiles file rule by rule.
Compiles(upTo, file) ==
  /\ upTo \in [0 .. Len(file.rules) -> CompiledOf(file)]
  /\ upTo[0] = NothingCompiled
  /\ \A n \in 1 .. Len(file.rules) : upTo[n] = AddRule(upTo[n - 1], file, n)

\* Compiling adds rule after rule, from the first to the last.
LEMMA CompileUnfolds ==
  ASSUME NEW file, IsPolicyFile(file), Compile(file) # Rejected
  PROVE  /\ \A i \in DOMAIN file.rules : Acceptable(file.rules[i], file.secrets)
         /\ DOMAIN file.rules = 1 .. Len(file.rules) /\ Len(file.rules) \in Nat
         /\ \E upTo : Compiles(upTo, file) /\ Compile(file) = upTo[Len(file.rules)]
<1> DEFINE N == Len(file.rules)
           V == CompiledOf(file)
           step == [n \in 1 .. N |-> [v \in V |-> AddRule(v, file, n)]]
           Rec(f) == f = [n \in 0 .. N |->
                            IF n = 0 THEN [drop |-> <<>>, tokens |-> <<>>, masks |-> <<>>]
                            ELSE AddRule(f[n - 1], file, n)]
           upTo == CHOOSE f : Rec(f)
<1>1. \A i \in DOMAIN file.rules : Acceptable(file.rules[i], file.secrets)
  BY DEF Compile
<1>2. DOMAIN file.rules = 1 .. N /\ N \in Nat
  BY DEF IsPolicyFile
<1>3. NothingCompiled \in V
  <2> DEFINE e == <<>>
  <2>1. e \in [{} -> IdsOf(file)] /\ e \in [{} -> TokenOwners(file)] /\ e \in [{} -> Seq(MaskRecords(file))]
    OBVIOUS
  <2>2. {} \in SUBSET STRING /\ {} \in SUBSET KnownFields
    OBVIOUS
  <2> HIDE DEF e
  <2>3. e \in OwnersOf(IdsOf(file)) /\ e \in OwnersOf(TokenOwners(file)) /\ e \in MasksOf(MaskRecords(file))
    BY <2>1, <2>2 DEF OwnersOf, MasksOf
  <2>4. [drop |-> e, tokens |-> e, masks |-> e] \in V
    BY <2>3 DEF CompiledOf
  <2> QED
    BY <2>4 DEF e, NothingCompiled
<1>4. \A n \in 1 .. N, v \in V : AddRule(v, file, n) \in V
  BY <1>1, <1>2, AddRuleAdds
<1> HIDE DEF V, step
<1>5. step \in Steps(1 .. N, V) /\ \A n \in 1 .. N, v \in V : step[n][v] = AddRule(v, file, n)
  BY <1>4 DEF Steps, step
<1>6. PICK f : Iterates(f, N, V, NothingCompiled, step)
  <2> HIDE DEF N
  <2> QED
    BY ONLY <1>2, <1>3, <1>5, Recursion
<1>7. ASSUME NEW n \in 1 .. N PROVE f[n] = AddRule(f[n - 1], file, n)
  <2>1. n - 1 \in 0 .. N
    BY <1>2
  <2>2. f[n] = step[n][f[n - 1]] /\ f[n - 1] \in V
    BY <1>6, <2>1 DEF Iterates
  <2> QED
    BY <1>5, <2>2
<1>8. Rec(f)
  <2>1. f = [n \in 0 .. N |-> f[n]] /\ f[0] = NothingCompiled
    BY <1>6 DEF Iterates
  <2>2. ASSUME NEW n \in 0 .. N
        PROVE  f[n] = IF n = 0 THEN [drop |-> <<>>, tokens |-> <<>>, masks |-> <<>>]
                      ELSE AddRule(f[n - 1], file, n)
    <3>1. n # 0 => n \in 1 .. N
      BY <1>2
    <3> QED
      BY <1>7, <2>1, <3>1 DEF NothingCompiled
  <2> QED
    BY <2>1, <2>2
<1>9. Rec(upTo)
  BY <1>8
<1>10. Compile(file) = upTo[N]
  BY DEF Compile
<1> HIDE DEF upTo
<1>11. /\ upTo[0] = NothingCompiled
       /\ upTo = [n \in 0 .. N |-> upTo[n]]
       /\ \A n \in 1 .. N : upTo[n] = AddRule(upTo[n - 1], file, n)
  <2>1. \A n \in 1 .. N : n \in 0 .. N /\ n # 0
    BY <1>2
  <2> QED
    BY <1>2, <1>9, <2>1 DEF NothingCompiled
<1>12. \A n \in 0 .. N : upTo[n] \in V
  <2>1. ASSUME NEW n \in 1 .. N, upTo[n - 1] \in V PROVE upTo[n] = step[n][upTo[n - 1]]
    BY <1>5, <1>11, <2>1
  <2>2. upTo[0] = NothingCompiled
    BY <1>11
  <2> HIDE DEF N, Rec
  <2>3. \A n \in 0 .. N : upTo[n] = f[n] /\ f[n] \in V
    BY ONLY <1>2, <1>3, <1>5, <1>6, <2>1, <2>2, OneRecursion
  <2> QED
    BY <2>3
<1>13. upTo \in [0 .. N -> V]
  BY <1>11, <1>12
<1>14. Compiles(upTo, file)
  BY <1>11, <1>13 DEF Compiles, V
<1> QED
  BY <1>1, <1>2, <1>10, <1>14

\* The rules among the first n that name a key.
Named(file, type, key, n) == {i \in Naming(file, type, key) : i <= n}

\* The rules so far that name a key: one more rule adds itself or nothing.
LEMMA NamedSoFar ==
  ASSUME NEW file, DOMAIN file.rules = 1 .. Len(file.rules), Len(file.rules) \in Nat,
         NEW type, NEW key
  PROVE  /\ Named(file, type, key, 0) = {}
         /\ Named(file, type, key, Len(file.rules)) = Naming(file, type, key)
         /\ \A n \in 1 .. Len(file.rules) :
              IF file.rules[n].type = type /\ key \in ToSet(file.rules[n].keys) \ {""}
              THEN Named(file, type, key, n) # {} /\ Max(Named(file, type, key, n)) = n
              ELSE Named(file, type, key, n) = Named(file, type, key, n - 1)
<1> DEFINE N == Len(file.rules)
           names(i) == file.rules[i].type = type /\ key \in ToSet(file.rules[i].keys) \ {""}
<1>1. \A n : Named(file, type, key, n) = {i \in 1 .. N : names(i) /\ i <= n}
  BY DEF Named, Naming
<1> HIDE DEF names
<1>2. Named(file, type, key, 0) = {}
  BY <1>1
<1>3. Named(file, type, key, N) = Naming(file, type, key)
  <2>1. Naming(file, type, key) = {i \in 1 .. N : names(i)}
    BY DEF Naming, names
  <2> QED
    BY <1>1, <2>1
<1>4. ASSUME NEW n \in 1 .. N, names(n)
      PROVE  Named(file, type, key, n) # {} /\ Max(Named(file, type, key, n)) = n
  <2> DEFINE S == {i \in 1 .. N : names(i) /\ i <= n}
  <2>1. n \in S /\ \A i \in S : i \in Int /\ n >= i
    BY <1>4
  <2> HIDE DEF S
  <2>2. Max(S) = n
    <3>1. PICK m : m = Max(S)
      OBVIOUS
    <3>2. m \in S /\ \A i \in S : m >= i
      BY <2>1, <3>1 DEF Max
    <3> QED
      BY <2>1, <3>1, <3>2
  <2> QED
    BY <1>1, <2>1, <2>2 DEF S
<1>5. ASSUME NEW n \in 1 .. N, ~names(n)
      PROVE  Named(file, type, key, n) = Named(file, type, key, n - 1)
  <2>1. \A i \in 1 .. N : names(i) => (i <= n <=> i <= n - 1)
    <3>1. \A i \in 1 .. N : i # n => (i <= n <=> i <= n - 1)
      OBVIOUS
    <3> QED
      BY <1>5, <3>1
  <2>2. {i \in 1 .. N : names(i) /\ i <= n} = {i \in 1 .. N : names(i) /\ i <= n - 1}
    BY <2>1
  <2> QED
    BY <1>1, <2>2
<1> QED
  BY <1>2, <1>3, <1>4, <1>5 DEF names

\* The last rule that names a key is a rule that names it.
LEMMA LastIsNamed ==
  ASSUME NEW file, DOMAIN file.rules = 1 .. Len(file.rules), Len(file.rules) \in Nat,
         NEW type, NEW key, Naming(file, type, key) # {}
  PROVE  Max(Naming(file, type, key)) \in Naming(file, type, key)
<1> DEFINE S == Naming(file, type, key)
<1>1. S \subseteq 0 .. Len(file.rules) /\ S # {} /\ Len(file.rules) \in Nat
  <2>1. S \subseteq 1 .. Len(file.rules)
    BY DEF Naming
  <2> QED
    BY <2>1
<1> HIDE DEF S
<1>2. \E m \in S : \A i \in S : m >= i
  BY <1>1, GreatestNatural
<1> QED
  BY <1>2 DEF Max, S

\* Owners are functions from some strings.
LEMMA OwnersTyped ==
  ASSUME NEW V, NEW owners \in OwnersOf(V)
  PROVE  owners \in [DOMAIN owners -> V] /\ DOMAIN owners \subseteq STRING
BY DEF OwnersOf

\* Rules of one type claim keys in turn.
ClaimInTurn(upTo, file, type, V, owner) ==
  /\ DOMAIN file.rules = 1 .. Len(file.rules) /\ Len(file.rules) \in Nat
  /\ \A n \in 1 .. Len(file.rules) : file.rules[n].type = type => owner[n] \in V
  /\ \A n \in 0 .. Len(file.rules) : upTo[n] \in OwnersOf(V)
  /\ upTo[0] = <<>>
  /\ \A n \in 1 .. Len(file.rules) :
       upTo[n] = IF file.rules[n].type = type
                 THEN Claim(upTo[n - 1], file.rules[n].keys, owner[n]) ELSE upTo[n - 1]

\* Who claims a key last has it.
LEMMA LastClaimWins ==
  ASSUME NEW file, IsPolicyFile(file), NEW type, NEW V, NEW owner, NEW upTo,
         ClaimInTurn(upTo, file, type, V, owner)
  PROVE  \A k : /\ k \in DOMAIN upTo[Len(file.rules)] <=> Naming(file, type, k) # {}
                /\ k \in DOMAIN upTo[Len(file.rules)] =>
                     upTo[Len(file.rules)][k] = owner[Max(Naming(file, type, k))]
<1> SUFFICES ASSUME NEW k
             PROVE  /\ k \in DOMAIN upTo[Len(file.rules)] <=> Naming(file, type, k) # {}
                    /\ k \in DOMAIN upTo[Len(file.rules)] =>
                         upTo[Len(file.rules)][k] = owner[Max(Naming(file, type, k))]
  OBVIOUS
<1> DEFINE N == Len(file.rules)
           So(n) == Named(file, type, k, n)
           Good == {n \in 0 .. N :
                      /\ k \in DOMAIN upTo[n] <=> So(n) # {}
                      /\ k \in DOMAIN upTo[n] => upTo[n][k] = owner[Max(So(n))]}
<1>0. /\ DOMAIN file.rules = 1 .. N /\ N \in Nat
      /\ \A n \in 1 .. N : file.rules[n].type = type => owner[n] \in V
      /\ \A n \in 0 .. N : upTo[n] \in OwnersOf(V)
      /\ upTo[0] = <<>>
      /\ \A n \in 1 .. N :
           upTo[n] = IF file.rules[n].type = type
                     THEN Claim(upTo[n - 1], file.rules[n].keys, owner[n]) ELSE upTo[n - 1]
  BY DEF ClaimInTurn
<1>1. /\ So(0) = {} /\ So(N) = Naming(file, type, k)
      /\ \A n \in 1 .. N :
           IF file.rules[n].type = type /\ k \in ToSet(file.rules[n].keys) \ {""}
           THEN So(n) # {} /\ Max(So(n)) = n ELSE So(n) = So(n - 1)
  <2>1. DOMAIN file.rules = 1 .. Len(file.rules) /\ Len(file.rules) \in Nat
    BY <1>0
  <2> QED
    BY ONLY <2>1, NamedSoFar
<1>2. k = "" => \A n : So(n) = {}
  BY DEF Named, Naming
<1> HIDE DEF So
<1>3. 0 \in Good
  <2>1. DOMAIN upTo[0] = {} /\ 0 \in 0 .. N
    BY <1>0
  <2> HIDE DEF N
  <2> QED
    BY ONLY <1>1, <2>1
<1>4. ASSUME NEW n \in 0 .. N - 1, n \in Good PROVE n + 1 \in Good
  <2> DEFINE i == n + 1
             p == upTo[n]
             q == upTo[i]
             keys == file.rules[i].keys
  <2>1. i \in 1 .. N /\ i - 1 = n /\ i \in 0 .. N /\ n \in 0 .. N
    BY <1>0
  <2>2. q = IF file.rules[i].type = type THEN Claim(p, keys, owner[i]) ELSE p
    BY <1>0, <2>1
  <2>3. IF file.rules[i].type = type /\ k \in ToSet(keys) \ {""}
        THEN So(i) # {} /\ Max(So(i)) = i ELSE So(i) = So(n)
    <3> HIDE DEF i
    <3>1. IF file.rules[i].type = type /\ k \in ToSet(file.rules[i].keys) \ {""}
          THEN So(i) # {} /\ Max(So(i)) = i ELSE So(i) = So(i - 1)
      BY ONLY <1>1, <2>1
    <3> QED
      BY <2>1, <3>1
  <2>4. /\ p \in OwnersOf(V)
        /\ k \in DOMAIN p <=> So(n) # {}
        /\ k \in DOMAIN p => p[k] = owner[Max(So(n))]
    BY <1>0, <1>4, <2>1
  <2>5. (k \in DOMAIN q <=> So(i) # {}) /\ (k \in DOMAIN q => q[k] = owner[Max(So(i))])
    <3>1. CASE file.rules[i].type = type
      <4>1. keys \in Seq(STRING) /\ owner[i] \in V
        <5>1. file.rules[i] \in Rule
          BY <1>0, <2>1 DEF IsPolicyFile
        <5> HIDE DEF i
        <5> QED
          BY <1>0, <2>1, <3>1, <5>1 DEF Rule
      <4> DEFINE own == owner[i]
      <4> HIDE DEF p, keys, i, own
      <4>0. p \in OwnersOf(V) /\ keys \in Seq(STRING) /\ own \in V
        BY <2>4, <4>1 DEF own
      <4>2. /\ DOMAIN Claim(p, keys, own) = DOMAIN p \cup (ToSet(keys) \ {""})
            /\ \A x \in DOMAIN Claim(p, keys, own) :
                 Claim(p, keys, own)[x] = IF x \in ToSet(keys) THEN own ELSE p[x]
        <5>1. DOMAIN Claim(p, keys, own) = DOMAIN p \cup (ToSet(keys) \ {""})
          BY ONLY <4>0, ClaimTakes
        <5>2. ASSUME NEW x \in DOMAIN Claim(p, keys, own)
              PROVE  Claim(p, keys, own)[x] = IF x \in ToSet(keys) THEN own ELSE p[x]
          BY ONLY x \in DOMAIN Claim(p, keys, own) DEF Claim
        <5> QED
          BY <5>1, <5>2
      <4> HIDE DEF q
      <4>3. q = Claim(p, keys, own)
        BY <2>2, <3>1 DEF own
      <4>4. CASE k \in ToSet(keys) \ {""}
        <5>1. k \in DOMAIN q /\ q[k] = own
          BY <4>2, <4>3, <4>4
        <5>2. So(i) # {} /\ Max(So(i)) = i
          BY <2>3, <3>1, <4>4
        <5> QED
          BY <5>1, <5>2 DEF own
      <4>5. CASE k \notin ToSet(keys) \ {""}
        <5>1. So(i) = So(n)
          BY <2>3, <4>5
        <5>2. k \in DOMAIN q <=> k \in DOMAIN p
          BY <4>2, <4>3, <4>5
        <5>3. CASE k = ""
          BY <1>2, <2>4, <5>1, <5>2, <5>3
        <5>4. CASE k # ""
          <6>1. k \notin ToSet(keys)
            BY <4>5, <5>4
          <6>2. k \in DOMAIN q => q[k] = p[k]
            BY <4>2, <4>3, <6>1
          <6> QED
            BY <2>4, <5>1, <5>2, <6>2
        <5> QED
          BY <5>3, <5>4
      <4> QED
        BY <4>4, <4>5
    <3>2. CASE file.rules[i].type # type
      BY <2>2, <2>3, <2>4, <3>2
    <3> QED
      BY <3>1, <3>2
  <2> QED
    BY <2>1, <2>5
<1>5. \A n \in 0 .. N : n \in Good
  <2> HIDE DEF Good, N
  <2> QED
    BY <1>0, <1>3, <1>4, Induction
<1>6. N \in Good
  BY <1>0, <1>5
<1> QED
  BY <1>1, <1>6

\* A dropped key belongs to the last rule that drops it.
LEMMA DropsCompiled ==
  ASSUME NEW file, IsPolicyFile(file), Compile(file) # Rejected
  PROVE  \A k : /\ k \in DOMAIN Compile(file).drop <=> Naming(file, "drop_key", k) # {}
                /\ k \in DOMAIN Compile(file).drop =>
                     Compile(file).drop[k]
                       = RuleIdentifier(file.rules, Max(Naming(file, "drop_key", k)))
<1> DEFINE N == Len(file.rules)
           V == IdsOf(file)
           owner == [n \in 1 .. N |-> RuleIdentifier(file.rules, n)]
<1>1. /\ \A i \in DOMAIN file.rules : Acceptable(file.rules[i], file.secrets)
      /\ DOMAIN file.rules = 1 .. N /\ N \in Nat
  BY CompileUnfolds
<1>2. PICK upTo : Compiles(upTo, file) /\ Compile(file) = upTo[N]
  BY CompileUnfolds
<1> DEFINE drops == [n \in 0 .. N |-> upTo[n].drop]
<1>3. N \in 0 .. N /\ drops[N] = Compile(file).drop
  BY <1>1, <1>2
<1>4. \A n \in 1 .. N : owner[n] \in V
  BY <1>1 DEF IdsOf
<1>5. \A n \in 0 .. N : drops[n] \in OwnersOf(V)
  BY <1>2 DEF Compiles, CompiledOf
<1>6. drops[0] = <<>>
  BY <1>1, <1>2 DEF Compiles, NothingCompiled
<1>7. ASSUME NEW n \in 1 .. N
      PROVE  drops[n] = IF file.rules[n].type = "drop_key"
                        THEN Claim(drops[n - 1], file.rules[n].keys, owner[n]) ELSE drops[n - 1]
  <2>1. n \in DOMAIN file.rules /\ n - 1 \in 0 .. N /\ n \in 0 .. N
    BY <1>1
  <2>2. upTo[n - 1] \in CompiledOf(file) /\ upTo[n] = AddRule(upTo[n - 1], file, n)
    BY <1>2, <2>1 DEF Compiles
  <2>3. upTo[n].drop = IF file.rules[n].type = "drop_key"
                       THEN Claim(upTo[n - 1].drop, file.rules[n].keys, RuleIdentifier(file.rules, n))
                       ELSE upTo[n - 1].drop
    <3> DEFINE p == upTo[n - 1]
               q == upTo[n]
    <3> HIDE DEF p, q
    <3>1. p \in CompiledOf(file) /\ q = AddRule(p, file, n)
      BY <2>2 DEF p, q
    <3>2. n \in DOMAIN file.rules /\ Acceptable(file.rules[n], file.secrets)
      BY <1>1, <2>1
    <3>3. q.drop = IF file.rules[n].type = "drop_key"
                       THEN Claim(p.drop, file.rules[n].keys, RuleIdentifier(file.rules, n))
                       ELSE p.drop
      BY ONLY <3>1, <3>2, IsPolicyFile(file), AddRuleAdds
    <3> QED
      BY <3>3 DEF p, q
  <2> QED
    BY <2>1, <2>3
<1> HIDE DEF V, owner, drops
<1>8. ASSUME NEW k
      PROVE  /\ k \in DOMAIN drops[N] <=> Naming(file, "drop_key", k) # {}
             /\ k \in DOMAIN drops[N] =>
                  drops[N][k] = owner[Max(Naming(file, "drop_key", k))]
  <2> DEFINE type == "drop_key"
  <2> HIDE DEF N, type
  <2>1. /\ \A n \in 1 .. N : file.rules[n].type = type => owner[n] \in V
        /\ \A n \in 1 .. N :
             drops[n] = IF file.rules[n].type = type
                      THEN Claim(drops[n - 1], file.rules[n].keys, owner[n]) ELSE drops[n - 1]
    BY <1>4, <1>7 DEF type
  <2>2. ClaimInTurn(drops, file, type, V, owner)
    BY ONLY <1>1, <1>5, <1>6, <2>1 DEF ClaimInTurn, N
  <2>3. /\ k \in DOMAIN drops[N] <=> Naming(file, type, k) # {}
        /\ k \in DOMAIN drops[N] => drops[N][k] = owner[Max(Naming(file, type, k))]
    BY ONLY <2>2, IsPolicyFile(file), LastClaimWins DEF N
  <2> QED
    BY <2>3 DEF type
<1>9. ASSUME NEW k, Naming(file, "drop_key", k) # {} PROVE Max(Naming(file, "drop_key", k)) \in 1 .. N
  <2>1. Max(Naming(file, "drop_key", k)) \in Naming(file, "drop_key", k)
    BY ONLY <1>1, <1>9, LastIsNamed
  <2> QED
    BY <1>1, <2>1 DEF Naming
<1> QED
  BY <1>3, <1>8, <1>9 DEF owner

\* A tokenized key belongs, with its secret, to the last rule that tokenizes it.
LEMMA TokensCompiled ==
  ASSUME NEW file, IsPolicyFile(file), Compile(file) # Rejected
  PROVE  \A k :
           LET last == Max(Naming(file, "tokenize_hmac", k))
           IN  /\ k \in DOMAIN Compile(file).tokens <=> Naming(file, "tokenize_hmac", k) # {}
               /\ k \in DOMAIN Compile(file).tokens =>
                    Compile(file).tokens[k] = [id |-> RuleIdentifier(file.rules, last),
                                               secret |-> file.secrets[file.rules[last].keyID]]
<1> DEFINE N == Len(file.rules)
           V == TokenOwners(file)
           owner == [n \in 1 .. N |-> [id |-> RuleIdentifier(file.rules, n),
                                       secret |-> file.secrets[file.rules[n].keyID]]]
<1>1. /\ \A i \in DOMAIN file.rules : Acceptable(file.rules[i], file.secrets)
      /\ DOMAIN file.rules = 1 .. N /\ N \in Nat
  BY CompileUnfolds
<1>2. PICK upTo : Compiles(upTo, file) /\ Compile(file) = upTo[N]
  BY CompileUnfolds
<1> DEFINE tokens == [n \in 0 .. N |-> upTo[n].tokens]
<1>3. N \in 0 .. N /\ tokens[N] = Compile(file).tokens
  BY <1>1, <1>2
<1>4. ASSUME NEW n \in 1 .. N, file.rules[n].type = "tokenize_hmac" PROVE owner[n] \in V
  <2>1. file.rules[n].keyID \in DOMAIN file.secrets
    BY <1>1, <1>4 DEF Acceptable
  <2>2. file.secrets[file.rules[n].keyID] \in STRING
    BY <2>1 DEF IsPolicyFile
  <2> QED
    BY <1>1, <2>2 DEF TokenOwners, IdsOf
<1>5. \A n \in 0 .. N : tokens[n] \in OwnersOf(V)
  BY <1>2 DEF Compiles, CompiledOf
<1>6. tokens[0] = <<>>
  BY <1>1, <1>2 DEF Compiles, NothingCompiled
<1>7. ASSUME NEW n \in 1 .. N
      PROVE  tokens[n] = IF file.rules[n].type = "tokenize_hmac"
                         THEN Claim(tokens[n - 1], file.rules[n].keys, owner[n]) ELSE tokens[n - 1]
  <2>1. n \in DOMAIN file.rules /\ n - 1 \in 0 .. N /\ n \in 0 .. N
    BY <1>1
  <2>2. upTo[n - 1] \in CompiledOf(file) /\ upTo[n] = AddRule(upTo[n - 1], file, n)
    BY <1>2, <2>1 DEF Compiles
  <2>3. upTo[n].tokens = IF file.rules[n].type = "tokenize_hmac"
                         THEN Claim(upTo[n - 1].tokens, file.rules[n].keys,
                                    [id |-> RuleIdentifier(file.rules, n),
                                     secret |-> file.secrets[file.rules[n].keyID]])
                         ELSE upTo[n - 1].tokens
    <3> DEFINE p == upTo[n - 1]
               q == upTo[n]
    <3> HIDE DEF p, q
    <3>1. p \in CompiledOf(file) /\ q = AddRule(p, file, n)
      BY <2>2 DEF p, q
    <3>2. n \in DOMAIN file.rules /\ Acceptable(file.rules[n], file.secrets)
      BY <1>1, <2>1
    <3>3. q.tokens = IF file.rules[n].type = "tokenize_hmac"
                         THEN Claim(p.tokens, file.rules[n].keys,
                                    [id |-> RuleIdentifier(file.rules, n),
                                     secret |-> file.secrets[file.rules[n].keyID]])
                         ELSE p.tokens
      BY ONLY <3>1, <3>2, IsPolicyFile(file), AddRuleAdds
    <3> QED
      BY <3>3 DEF p, q
  <2> QED
    BY <2>1, <2>3
<1> HIDE DEF V, owner, tokens
<1>8. ASSUME NEW k
      PROVE  /\ k \in DOMAIN tokens[N] <=> Naming(file, "tokenize_hmac", k) # {}
             /\ k \in DOMAIN tokens[N] =>
                  tokens[N][k] = owner[Max(Naming(file, "tokenize_hmac", k))]
  <2> DEFINE type == "tokenize_hmac"
  <2> HIDE DEF N, type
  <2>1. /\ \A n \in 1 .. N : file.rules[n].type = type => owner[n] \in V
        /\ \A n \in 1 .. N :
             tokens[n] = IF file.rules[n].type = type
                      THEN Claim(tokens[n - 1], file.rules[n].keys, owner[n]) ELSE tokens[n - 1]
    BY <1>4, <1>7 DEF type
  <2>2. ClaimInTurn(tokens, file, type, V, owner)
    BY ONLY <1>1, <1>5, <1>6, <2>1 DEF ClaimInTurn, N
  <2>3. /\ k \in DOMAIN tokens[N] <=> Naming(file, type, k) # {}
        /\ k \in DOMAIN tokens[N] => tokens[N][k] = owner[Max(Naming(file, type, k))]
    BY ONLY <2>2, IsPolicyFile(file), LastClaimWins DEF N
  <2> QED
    BY <2>3 DEF type
<1>9. ASSUME NEW k, Naming(file, "tokenize_hmac", k) # {}
      PROVE  Max(Naming(file, "tokenize_hmac", k)) \in 1 .. N
  <2>1. Max(Naming(file, "tokenize_hmac", k)) \in Naming(file, "tokenize_hmac", k)
    BY ONLY <1>1, <1>9, LastIsNamed
  <2> QED
    BY <1>1, <2>1 DEF Naming
<1> QED
  BY <1>3, <1>8, <1>9 DEF owner

\* The masks of a field stand in the order of the rules.
LEMMA MasksCompiled ==
  ASSUME NEW file, IsPolicyFile(file), Compile(file) # Rejected,
         NEW f, f[1] \in {"attributes", "resource", "log.body"}
  PROVE  MasksAt(Compile(file).masks, f) = MaskOrder(file, f)
<1> DEFINE N == Len(file.rules)
           M == MaskRecords(file)
           times(i) == IF file.rules[i].type = "mask_regex" /\ f[2] # ""
                       THEN Cardinality({j \in DOMAIN file.rules[i].fields :
                                           file.rules[i].fields[j] = f})
                       ELSE 0
           parts == [i \in DOMAIN file.rules |-> [n \in 1 .. times(i) |-> MaskOf(file.rules, i)]]
<1>1. /\ \A i \in DOMAIN file.rules : Acceptable(file.rules[i], file.secrets)
      /\ DOMAIN file.rules = 1 .. N /\ N \in Nat
  BY CompileUnfolds
<1>2. PICK upTo : Compiles(upTo, file) /\ Compile(file) = upTo[N]
  BY CompileUnfolds
<1>3. MaskOrder(file, f) = FlattenSeq(parts)
  BY DEF MaskOrder
<1>4. ASSUME NEW i \in 1 .. N
      PROVE  /\ file.rules[i].fields \in Seq(Field)
             /\ DOMAIN file.rules[i].fields = 1 .. Len(file.rules[i].fields)
             /\ times(i) = IF file.rules[i].type = "mask_regex" /\ f[2] # ""
                           THEN Cardinality(Occurrences(file.rules[i].fields,
                                                        Len(file.rules[i].fields), f))
                           ELSE 0
             /\ times(i) \in Nat
             /\ MaskOf(file.rules, i) \in M
  <2>1. file.rules[i] \in Rule
    BY <1>1 DEF IsPolicyFile
  <2> DEFINE fields == file.rules[i].fields
  <2>2. fields \in Seq(Field)
    BY <2>1 DEF Rule, Field
  <2> HIDE DEF fields
  <2>3. DOMAIN fields = 1 .. Len(fields) /\ Len(fields) \in Nat
    BY <2>2
  <2>4. {j \in DOMAIN fields : fields[j] = f} = Occurrences(fields, Len(fields), f)
    BY <2>3 DEF Occurrences
  <2>5. Cardinality(Occurrences(fields, Len(fields), f)) \in Nat
    BY <2>3, OneMoreOccurrence
  <2> QED
    BY <1>1, <2>2, <2>3, <2>4, <2>5 DEF fields, MaskRecords
<1> HIDE DEF times
<1>5. \A i \in 1 .. N : parts[i] = Repeated(MaskOf(file.rules, i), times(i))
  BY <1>1 DEF Repeated
<1>6. parts \in Seq(Seq(M))
  <2>1. ASSUME NEW i \in 1 .. N PROVE parts[i] \in Seq(M)
    <3>1. MaskOf(file.rules, i) \in M /\ times(i) \in Nat
      BY <1>4
    <3> HIDE DEF M
    <3> QED
      BY <1>1, <3>1
  <2>2. parts = [i \in 1 .. N |-> parts[i]]
    BY <1>1
  <2> HIDE DEF parts, M, N
  <2> QED
    BY <1>1, <2>1, <2>2
<1>7. Len(parts) = N
  BY <1>1
<1> HIDE DEF parts, M
<1>8. PICK flat : /\ flat \in [0 .. N -> Seq(M)]
                  /\ flat[0] = <<>>
                  /\ \A n \in 1 .. N : flat[n] = flat[n - 1] \o parts[n]
                  /\ FlattenSeq(parts) = flat[N]
  <2>1. \E flat : /\ flat \in [0 .. Len(parts) -> Seq(M)]
                  /\ flat[0] = <<>>
                  /\ \A n \in 1 .. Len(parts) : flat[n] = flat[n - 1] \o parts[n]
                  /\ FlattenSeq(parts) = flat[Len(parts)]
    BY ONLY <1>6, FlattenUnfolds
  <2> QED
    BY ONLY <1>7, <2>1
<1> DEFINE Good == {n \in 0 .. N : MasksAt(upTo[n].masks, f) = flat[n]}
<1>9. 0 \in Good
  <2>1. upTo[0].masks = <<>> /\ DOMAIN <<>> = {}
    BY <1>2 DEF Compiles, NothingCompiled
  <2> QED
    BY <1>1, <1>8, <2>1 DEF MasksAt
<1>10. ASSUME NEW n \in 0 .. N - 1, n \in Good PROVE n + 1 \in Good
  <2> DEFINE i == n + 1
             p == upTo[n]
             q == upTo[i]
             mask == MaskOf(file.rules, i)
             rule == file.rules[i]
  <2>1. i \in 1 .. N /\ i - 1 = n /\ i \in 0 .. N /\ n \in 0 .. N
    BY <1>1
  <2>2. q = AddRule(p, file, i) /\ p \in CompiledOf(file) /\ q \in CompiledOf(file)
    <3>1. upTo[i] = AddRule(upTo[i - 1], file, i) /\ upTo[n] \in CompiledOf(file)
          /\ upTo[i] \in CompiledOf(file)
      <4> HIDE DEF i
      <4> QED
        BY ONLY <1>2, <2>1 DEF Compiles
    <3> QED
      BY <2>1, <3>1
  <2>3. p.masks \in MasksOf(M) /\ q.masks \in MasksOf(M)
    BY <2>2 DEF CompiledOf, M
  <2>4. q.masks = IF rule.type = "mask_regex" THEN AddMask(p.masks, rule.fields, mask) ELSE p.masks
    <3>1. p \in CompiledOf(file) /\ q = AddRule(p, file, i)
      BY <2>2
    <3>2. i \in DOMAIN file.rules /\ Acceptable(file.rules[i], file.secrets)
      BY <1>1, <2>1
    <3> HIDE DEF p, q, i
    <3>3. q.masks = IF file.rules[i].type = "mask_regex"
                    THEN AddMask(p.masks, file.rules[i].fields, MaskOf(file.rules, i)) ELSE p.masks
      BY ONLY <3>1, <3>2, IsPolicyFile(file), AddRuleAdds
    <3> QED
      BY <3>3
  <2>5. flat[i] = flat[n] \o Repeated(mask, times(i)) /\ flat[n] \in Seq(M) /\ mask \in M
    BY <1>4, <1>5, <1>8, <2>1
  <2>6. MasksAt(p.masks, f) = flat[n]
    BY <1>10
  <2>7. times(i) = 0 => flat[i] = flat[n]
    <3> DEFINE s == flat[n]
    <3> HIDE DEF s
    <3>1. s \in Seq(M) /\ mask \in M
      BY <2>5 DEF s
    <3>2. s \o Repeated(mask, 0) = s
      <4> HIDE DEF mask
      <4> QED
        BY <3>1, RepeatedOnceMore
    <3> QED
      BY <2>5, <3>2 DEF s
  <2> HIDE DEF i, p, q, mask, rule
  <2>8. MasksAt(q.masks, f) = flat[i]
    <3>1. CASE rule.type # "mask_regex"
      <4>1. q.masks = p.masks /\ times(i) = 0
        BY <1>4, <2>1, <2>4, <3>1 DEF rule
      <4> QED
        BY <2>6, <2>7, <4>1
    <3>2. CASE f[2] = ""
      <4>1. times(i) = 0
        BY <1>4, <2>1, <3>2
      <4>2. ~Known(f)
        BY <3>2 DEF Known
      <4>3. f \notin DOMAIN p.masks /\ f \notin DOMAIN q.masks
        BY <2>3, <4>2, MasksTyped DEF KnownFields
      <4> QED
        BY <2>6, <2>7, <4>1, <4>3 DEF MasksAt
    <3>3. CASE rule.type = "mask_regex" /\ f[2] # ""
      <4>1. Known(f)
        BY <3>3 DEF Known
      <4> DEFINE fields == rule.fields
      <4>2. /\ fields \in Seq(Field)
            /\ times(i) = Cardinality(Occurrences(fields, Len(fields), f))
        BY <1>4, <2>1, <3>3 DEF rule
      <4> HIDE DEF fields
      <4>3. MasksAt(AddMask(p.masks, fields, mask), f)
              = MasksAt(p.masks, f) \o Repeated(mask, Cardinality(Occurrences(fields, Len(fields), f)))
        <5> DEFINE so == p.masks
        <5> HIDE DEF so
        <5>1. so \in MasksOf(M) /\ mask \in M /\ fields \in Seq(Field)
          BY <2>3, <2>5, <4>2 DEF so
        <5>2. MasksAt(AddMask(so, fields, mask), f)
                = MasksAt(so, f) \o Repeated(mask, Cardinality(Occurrences(fields, Len(fields), f)))
          BY ONLY <4>1, <5>1, AddMaskAppends
        <5> QED
          BY <5>2 DEF so
      <4> QED
        BY <2>4, <2>5, <2>6, <3>3, <4>2, <4>3 DEF fields
    <3> QED
      BY <3>1, <3>2, <3>3
  <2> QED
    BY <2>1, <2>8 DEF i, q
<1>11. N \in Good
  <2> HIDE DEF Good, N
  <2>1. \A n \in 0 .. N : n \in Good
    BY <1>1, <1>9, <1>10, Induction
  <2> QED
    BY <1>1, <2>1
<1> QED
  BY <1>2, <1>3, <1>8, <1>11

\* What Compile returns when it does not reject.
LEMMA CompileTyped ==
  ASSUME NEW file, IsPolicyFile(file), Compile(file) # Rejected
  PROVE  Compile(file) \in CompiledOf(file)
<1>1. PICK upTo : Compiles(upTo, file) /\ Compile(file) = upTo[Len(file.rules)]
  BY CompileUnfolds
<1>2. Len(file.rules) \in 0 .. Len(file.rules)
  BY CompileUnfolds
<1> QED
  BY <1>1, <1>2 DEF Compiles

-----------------------------------------------------------------------------
(* The active policy.                                                      *)

Sources == [rules : {p.rules : p \in Policies}, secrets : {p.secrets : p \in Policies}]

PolicyOK ==
  /\ source \in Sources
  /\ policy = Compile(source)
  /\ policy # Rejected

\* What is installed is put together from policy files.
LEMMA SourceTyped == ASSUME NEW file \in Sources PROVE IsPolicyFile(file)
<1>1. PICK p \in Policies, q \in Policies : file = [rules |-> p.rules, secrets |-> q.secrets]
  BY DEF Sources
<1>2. IsPolicyFile(p) /\ IsPolicyFile(q)
  BY RedactionAssumption
<1> QED
  BY <1>1, <1>2 DEF IsPolicyFile

\* A policy file is one of the sources.
LEMMA FileIsSource == ASSUME NEW file \in Policies PROVE file \in Sources
<1>1. file = [rules |-> file.rules, secrets |-> file.secrets]
  BY RedactionAssumption DEF IsPolicyFile
<1> QED
  BY <1>1 DEF Sources

\* The processor starts with a policy that compiles.
LEMMA PolicyInit == Init => PolicyOK
<1> SUFFICES ASSUME Init PROVE PolicyOK
  OBVIOUS
<1>1. PICK file \in Policies, inline \in Policies : source = FromConfig(file, inline)
  BY DEF Init
<1>2. source \in Sources
  BY <1>1 DEF FromConfig, Sources
<1> QED
  BY <1>2 DEF Init, PolicyOK

\* Only SetPolicy changes the active policy, and only to one that compiles.
LEMMA PolicyStep == PolicyOK /\ [Next]_vars => PolicyOK'
<1> SUFFICES ASSUME PolicyOK, [Next]_vars PROVE PolicyOK'
  OBVIOUS
<1>1. ASSUME NEW file \in Policies, SetPolicy(file) PROVE PolicyOK'
  BY <1>1, FileIsSource DEF SetPolicy, PolicyOK
<1>2. CASE UNCHANGED <<policy, source>>
  BY <1>2 DEF PolicyOK
<1>3. ASSUME NEW c \in Calls,
             \/ \E batch \in Batches : Begin(c, batch)
             \/ DropKey(c) \/ TokenizeKey(c) \/ MaskKey(c)
             \/ Advance(c) \/ Finish(c)
      PROVE  UNCHANGED <<policy, source>>
  BY <1>3 DEF Begin, DropKey, TokenizeKey, MaskKey, Step, Advance, Proceed, Finish
<1>4. UNCHANGED vars => UNCHANGED <<policy, source>>
  BY DEF vars
<1> QED
  BY <1>1, <1>2, <1>3, <1>4 DEF Next

\* The active policy is at all times the compiled form of the policy file that
\* was accepted last, and never the error of compilePolicy.
LEMMA PolicyIsCompiled == Spec => []PolicyOK
<1> QED
  BY PolicyInit, PolicyStep, PTL DEF Spec

\* The keys of the rules of a type are those that some such rule names.
LEMMA KeysNamed ==
  ASSUME NEW file, NEW type
  PROVE  \A k : k \in UNION {ToSet(rule.keys) \ {""} :
                               rule \in {r \in ToSet(file.rules) : r.type = type}}
                 <=> Naming(file, type, k) # {}
<1> DEFINE rules == file.rules
           keys(rule) == ToSet(rule.keys) \ {""}
<1>1. \A rule : rule \in ToSet(rules) <=> \E i \in DOMAIN rules : rule = rules[i]
  BY DEF ToSet
<1>2. \A k : Naming(file, type, k)
              = {i \in DOMAIN rules : rules[i].type = type /\ k \in keys(rules[i])}
  BY DEF Naming
<1> HIDE DEF rules, keys
<1>3. ASSUME NEW k
      PROVE  k \in UNION {keys(rule) : rule \in {r \in ToSet(rules) : r.type = type}}
               <=> \E i \in DOMAIN rules : rules[i].type = type /\ k \in keys(rules[i])
  <2>1. ASSUME NEW rule \in ToSet(rules), rule.type = type, k \in keys(rule)
        PROVE  \E i \in DOMAIN rules : rules[i].type = type /\ k \in keys(rules[i])
    BY <1>1, <2>1
  <2>2. ASSUME NEW i \in DOMAIN rules, rules[i].type = type, k \in keys(rules[i])
        PROVE  \E rule \in ToSet(rules) : rule.type = type /\ k \in keys(rule)
    BY <1>1, <2>2
  <2> QED
    BY <2>1, <2>2
<1>4. \A k : Naming(file, type, k) # {}
              <=> \E i \in DOMAIN rules : rules[i].type = type /\ k \in keys(rules[i])
  BY <1>2
<1> QED
  BY <1>3, <1>4 DEF rules, keys

\* The compiled policy has the keys and the fields its rules name.  A key belongs
\* to the last rule that names it and the masks of a field stand in the order of
\* the rules: compilePolicy loops over the rules once and keeps three maps, and
\* the statement is about all rules.
THEOREM LastRuleWinsAlways == Spec => []LastRuleWins
<1>1. PolicyOK => LastRuleWins
  <2> SUFFICES ASSUME PolicyOK PROVE LastRuleWins
    OBVIOUS
  <2> DEFINE KeysOf(type) ==
               UNION {ToSet(rule.keys) \ {""} :
                        rule \in {r \in ToSet(source.rules) : r.type = type}}
             fields == {f \in UNION {ToSet(rule.fields) : rule \in ToSet(source.rules)} : Known(f)}
  <2>1. IsPolicyFile(source) /\ policy = Compile(source) /\ Compile(source) # Rejected
    BY SourceTyped DEF PolicyOK
  <2>2. \A type, k : k \in KeysOf(type) <=> Naming(source, type, k) # {}
    BY KeysNamed
  <2> HIDE DEF KeysOf
  <2>3. /\ DOMAIN policy.drop = KeysOf("drop_key")
        /\ \A k \in DOMAIN policy.drop :
             policy.drop[k] = RuleIdentifier(source.rules, Max(Naming(source, "drop_key", k)))
    <3>1. \A k : k \in DOMAIN policy.drop <=> k \in KeysOf("drop_key")
      BY <2>1, <2>2, DropsCompiled
    <3> QED
      BY <2>1, <3>1, DropsCompiled
  <2>4. /\ DOMAIN policy.tokens = KeysOf("tokenize_hmac")
        /\ \A k \in DOMAIN policy.tokens :
             LET last == Max(Naming(source, "tokenize_hmac", k))
             IN  policy.tokens[k] = [id |-> RuleIdentifier(source.rules, last),
                                     secret |-> source.secrets[source.rules[last].keyID]]
    <3>1. \A k : k \in DOMAIN policy.tokens <=> k \in KeysOf("tokenize_hmac")
      BY <2>1, <2>2, TokensCompiled
    <3> QED
      BY <2>1, <3>1, TokensCompiled
  <2>5. ASSUME NEW f \in fields \cup DOMAIN policy.masks
        PROVE  MasksAt(policy.masks, f) = MaskOrder(source, f)
    <3>1. policy.masks \in MasksOf(MaskRecords(source))
      BY <2>1, CompileTyped DEF CompiledOf
    <3>2. f \in DOMAIN policy.masks => Known(f)
      BY <3>1, MasksTyped DEF KnownFields
    <3>3. f[1] \in {"attributes", "resource", "log.body"}
      BY <3>2 DEF Known
    <3> QED
      BY <2>1, <3>3, MasksCompiled
  <2> HIDE DEF fields
  <2> QED
    BY <2>3, <2>4, <2>5 DEF LastRuleWins, KeysOf, fields
<1> QED
  BY <1>1, PolicyIsCompiled, PTL

-----------------------------------------------------------------------------
(* What a batch is made of.                                                *)

Scopes == {"attributes", "resource", "log.body"}

IsCarrier(c) ==
  /\ c = [scope |-> c.scope, attrs |-> c.attrs]
  /\ c.scope \in Scopes
  /\ IsMap(c.attrs)

AreCarriers(seq) == \E S : seq \in Seq(S) /\ \A c \in S : IsCarrier(c)

\* Carriers stand in a sequence.
LEMMA CarriersAreOrdered ==
  ASSUME NEW seq, AreCarriers(seq)
  PROVE  /\ Len(seq) \in Nat /\ DOMAIN seq = 1 .. Len(seq)
         /\ seq = [i \in 1 .. Len(seq) |-> seq[i]]
         /\ \A i \in 1 .. Len(seq) : IsCarrier(seq[i])
<1>1. PICK S : seq \in Seq(S) /\ \A c \in S : IsCarrier(c)
  BY DEF AreCarriers
<1>2. /\ Len(seq) \in Nat /\ DOMAIN seq = 1 .. Len(seq)
      /\ seq = [i \in 1 .. Len(seq) |-> seq[i]]
      /\ \A i \in 1 .. Len(seq) : seq[i] \in S
  BY <1>1
<1> QED
  BY <1>1, <1>2

\* One carrier is a sequence of carriers.
LEMMA OneCarrier == ASSUME NEW c, IsCarrier(c) PROVE AreCarriers(<<c>>)
<1> DEFINE S == {c}
<1>1. <<c>> \in Seq(S) /\ \A x \in S : IsCarrier(x)
  OBVIOUS
<1> HIDE DEF S
<1> QED
  BY <1>1 DEF AreCarriers

\* Two sequences of carriers join to one.
LEMMA CarriersJoined ==
  ASSUME NEW s, AreCarriers(s), NEW t, AreCarriers(t)
  PROVE  AreCarriers(s \o t)
<1>1. PICK S : s \in Seq(S) /\ \A c \in S : IsCarrier(c)
  BY DEF AreCarriers
<1>2. PICK T : t \in Seq(T) /\ \A c \in T : IsCarrier(c)
  BY DEF AreCarriers
<1>3. s \in Seq(S \cup T)
  BY <1>1
<1>4. t \in Seq(S \cup T)
  BY <1>2
<1>5. s \o t \in Seq(S \cup T)
  BY ONLY <1>3, <1>4, ConcatProperties
<1> QED
  BY <1>1, <1>2, <1>5 DEF AreCarriers

\* So does a sequence of them.
LEMMA CarriersFlattened ==
  ASSUME NEW N \in Nat, NEW ss, ss = [i \in 1 .. N |-> ss[i]],
         \A i \in 1 .. N : AreCarriers(ss[i])
  PROVE  AreCarriers(FlattenSeq(ss))
<1> DEFINE S == UNION {{ss[i][j] : j \in 1 .. Len(ss[i])} : i \in 1 .. N}
<1>1. ASSUME NEW i \in 1 .. N PROVE ss[i] \in Seq(S)
  <2> DEFINE s == ss[i]
  <2>1. Len(s) \in Nat /\ s = [j \in 1 .. Len(s) |-> s[j]]
    BY CarriersAreOrdered
  <2>2. \A j \in 1 .. Len(s) : s[j] \in S
    OBVIOUS
  <2> HIDE DEF s, S
  <2>3. s \in Seq(S)
    BY <2>1, <2>2
  <2> QED
    BY <2>3 DEF s
<1>2. \A c \in S : IsCarrier(c)
  BY CarriersAreOrdered
<1> HIDE DEF S
<1>3. ss \in Seq(Seq(S))
  BY <1>1
<1>4. FlattenSeq(ss) \in Seq(S)
  BY ONLY <1>3, FlattenTyped
<1> QED
  BY <1>2, <1>4 DEF AreCarriers

\* The maps of a sequence, each a carrier.
LEMMA AttributesTyped ==
  ASSUME NEW maps, AllOf(maps, IsMap)
  PROVE  AreCarriers(Attributes(maps))
<1>1. Len(maps) \in Nat /\ DOMAIN maps = 1 .. Len(maps) /\ \A i \in 1 .. Len(maps) : IsMap(maps[i])
  <2>1. maps \in Seq(ToSet(maps)) /\ \A m \in ToSet(maps) : IsMap(m)
    BY DEF AllOf
  <2> QED
    BY <2>1
<1> DEFINE r == Attributes(maps)
           S == {Carrier("attributes", maps[i]) : i \in 1 .. Len(maps)}
<1>2. \A c \in S : IsCarrier(c)
  BY <1>1 DEF IsCarrier, Carrier, Scopes
<1>3. r \in Seq(S)
  BY <1>1 DEF Attributes
<1> HIDE DEF S
<1> QED
  BY <1>2, <1>3 DEF AreCarriers

\* A log record, a span and a metric are met as carriers.
LEMMA ItemTyped ==
  ASSUME NEW signal \in {"logs", "traces", "metrics"}, NEW item, IsItem(signal, item)
  PROVE  AreCarriers(CarriersOfItem(signal, item))
<1>1. CASE signal = "logs"
  <2>1. IsMap(item.attrs) /\ item.body \in {NonString} \cup Seq(Atoms)
    BY <1>1 DEF IsItem
  <2> DEFINE body == [body |-> item.body]
             a == Carrier("attributes", item.attrs)
             b == Carrier("log.body", body)
  <2>2. IsMap(body)
    <3>1. DOMAIN body = {"body"} /\ body \in [{"body"} -> {NonString} \cup Seq(Atoms)]
      BY <2>1
    <3> QED
      BY <3>1, FS_Singleton DEF IsMap
  <2> HIDE DEF body
  <2>3. IsCarrier(a) /\ IsCarrier(b)
    BY <2>1, <2>2 DEF IsCarrier, Carrier, Scopes
  <2>4. CarriersOfItem(signal, item) = <<a, b>>
    BY <1>1 DEF CarriersOfItem, CarriersOfLog, body
  <2> HIDE DEF a, b
  <2> DEFINE S == {a, b}
  <2>5. <<a, b>> \in Seq(S) /\ \A x \in S : IsCarrier(x)
    BY <2>3
  <2> HIDE DEF S
  <2> QED
    BY <2>4, <2>5 DEF AreCarriers
<1>2. CASE signal = "traces"
  <2> DEFINE a == <<Carrier("attributes", item.attrs)>>
             b == Attributes(item.events)
             c == Attributes(item.links)
  <2>1. IsMap(item.attrs) /\ AllOf(item.events, IsMap) /\ AllOf(item.links, IsMap)
    BY <1>2 DEF IsItem
  <2>2. IsCarrier(Carrier("attributes", item.attrs))
    BY <2>1 DEF IsCarrier, Carrier, Scopes
  <2>3. AreCarriers(a) /\ AreCarriers(b) /\ AreCarriers(c)
    BY <2>1, <2>2, OneCarrier, AttributesTyped
  <2>4. CarriersOfItem(signal, item) = a \o b \o c
    BY <1>2 DEF CarriersOfItem, CarriersOfSpan
  <2> HIDE DEF a, b, c
  <2>5. AreCarriers(a \o b)
    BY <2>3, CarriersJoined
  <2>6. AreCarriers(a \o b \o c)
    BY <2>3, <2>5, CarriersJoined
  <2> QED
    BY <2>4, <2>6
<1>3. CASE signal = "metrics"
  <2>1. CASE item.type \in WithPoints
    <3>1. AllOf(item.points, IsMap)
      BY <1>3, <2>1 DEF IsItem
    <3>2. CarriersOfItem(signal, item) = Attributes(item.points)
      BY <1>3, <2>1 DEF CarriersOfItem, CarriersOfMetric
    <3> QED
      BY <3>1, <3>2, AttributesTyped
  <2>2. CASE item.type \notin WithPoints
    <3>1. CarriersOfItem(signal, item) = <<>>
      BY <1>3, <2>2 DEF CarriersOfItem, CarriersOfMetric
    <3>2. <<>> \in Seq({})
      OBVIOUS
    <3> QED
      BY <3>1, <3>2 DEF AreCarriers
  <2> QED
    BY <2>1, <2>2
<1> QED
  BY <1>1, <1>2, <1>3

\* Whatever batch the processor is given, it meets a sequence of carriers.
LEMMA BatchTyped ==
  ASSUME NEW batch \in Batches
  PROVE  AreCarriers(CarriersOfBatch(batch))
<1> DEFINE signal == batch.signal
           Scope(items) ==
             FlattenSeq([k \in DOMAIN items |-> CarriersOfItem(signal, items[k])])
           Resource(r) == <<Carrier("resource", r.attrs)>>
                            \o FlattenSeq([j \in DOMAIN r.scopes |-> Scope(r.scopes[j])])
           IsScope(items) == AllOf(items, LAMBDA item : IsItem(signal, item))
           IsResource(r) == IsMap(r.attrs) /\ AllOf(r.scopes, IsScope)
           resources == batch.resources
<1>1. signal \in {"logs", "traces", "metrics"} /\ AllOf(resources, IsResource)
  BY RedactionAssumption DEF IsBatch
<1>2. CarriersOfBatch(batch) = FlattenSeq([i \in DOMAIN resources |-> Resource(resources[i])])
  BY DEF CarriersOfBatch
<1> HIDE DEF signal, resources
<1>3. ASSUME NEW items, IsScope(items) PROVE AreCarriers(Scope(items))
  <2>1. items \in Seq(ToSet(items)) /\ \A item \in ToSet(items) : IsItem(signal, item)
    BY <1>3 DEF AllOf
  <2>2. /\ Len(items) \in Nat /\ DOMAIN items = 1 .. Len(items)
        /\ \A k \in 1 .. Len(items) : IsItem(signal, items[k])
    BY <2>1
  <2> DEFINE ss == [k \in DOMAIN items |-> CarriersOfItem(signal, items[k])]
  <2>3. ss = [k \in 1 .. Len(items) |-> ss[k]] /\ \A k \in 1 .. Len(items) : AreCarriers(ss[k])
    BY <1>1, <2>2, ItemTyped
  <2> HIDE DEF ss
  <2>4. AreCarriers(FlattenSeq(ss))
    BY ONLY <2>2, <2>3, CarriersFlattened
  <2> QED
    BY <2>4 DEF ss
<1>4. ASSUME NEW r, IsResource(r) PROVE AreCarriers(Resource(r))
  <2> DEFINE scopes == r.scopes
             ss == [j \in DOMAIN scopes |-> Scope(scopes[j])]
             own == <<Carrier("resource", r.attrs)>>
  <2>1. scopes \in Seq(ToSet(scopes)) /\ \A s \in ToSet(scopes) : IsScope(s)
    BY <1>4 DEF AllOf
  <2> HIDE DEF scopes, IsScope
  <2>2. /\ Len(scopes) \in Nat /\ DOMAIN scopes = 1 .. Len(scopes)
        /\ \A j \in 1 .. Len(scopes) : IsScope(scopes[j])
    BY <2>1
  <2> HIDE DEF Scope
  <2>3. ss = [j \in 1 .. Len(scopes) |-> ss[j]] /\ \A j \in 1 .. Len(scopes) : AreCarriers(ss[j])
    BY <1>3, <2>2
  <2> HIDE DEF ss
  <2>4. AreCarriers(FlattenSeq(ss))
    BY ONLY <2>2, <2>3, CarriersFlattened
  <2>5. AreCarriers(own)
    <3>1. IsCarrier(Carrier("resource", r.attrs))
      BY <1>4 DEF IsCarrier, Carrier, Scopes
    <3> QED
      BY <3>1, OneCarrier
  <2>6. Resource(r) = own \o FlattenSeq(ss)
    BY DEF scopes, ss
  <2> QED
    BY <2>4, <2>5, <2>6, CarriersJoined
<1>5. AreCarriers(FlattenSeq([i \in DOMAIN resources |-> Resource(resources[i])]))
  <2>1. resources \in Seq(ToSet(resources)) /\ \A r \in ToSet(resources) : IsResource(r)
    BY <1>1 DEF AllOf
  <2> HIDE DEF IsResource, Resource
  <2>2. /\ Len(resources) \in Nat /\ DOMAIN resources = 1 .. Len(resources)
        /\ \A i \in 1 .. Len(resources) : IsResource(resources[i])
    BY <2>1
  <2> DEFINE ss == [i \in DOMAIN resources |-> Resource(resources[i])]
  <2>3. ss = [i \in 1 .. Len(resources) |-> ss[i]] /\ \A i \in 1 .. Len(resources) : AreCarriers(ss[i])
    BY <1>4, <2>2
  <2> HIDE DEF ss
  <2>4. AreCarriers(FlattenSeq(ss))
    BY ONLY <2>2, <2>3, CarriersFlattened
  <2> QED
    BY <2>4 DEF ss
<1> QED
  BY <1>2, <1>5

-----------------------------------------------------------------------------
(* What has become of a key after n of the three loops over its carrier.   *)

Dropping(p, o, k) == o.scope # "log.body" /\ k \in DOMAIN p.drop

Tokenizing(p, o, k) ==
  o.scope # "log.body" /\ o.attrs[k] # NonString /\ k \in DOMAIN p.tokens

Tokenized(p, o, k, n) ==
  IF n >= 2 /\ Tokenizing(p, o, k)
  THEN [str |-> HmacToken(p.tokens[k].secret, o.attrs[k]), hits |-> Hits(p.tokens[k].id, 1)]
  ELSE [str |-> o.attrs[k], hits |-> EmptyBag]

Masked(p, o, k, n) ==
  IF n >= 3 /\ o.attrs[k] # NonString
  THEN ApplyMaskRules(Tokenized(p, o, k, n).str, MasksAt(p.masks, <<o.scope, k>>))
  ELSE [str |-> Tokenized(p, o, k, n).str, hits |-> EmptyBag]

KeyAfter(p, o, k, n) ==
  IF n >= 1 /\ Dropping(p, o, k)
  THEN [kept |-> FALSE, value |-> NonString, hits |-> Hits(p.drop[k], 1)]
  ELSE [kept |-> TRUE, value |-> Masked(p, o, k, n).str,
        hits |-> Tokenized(p, o, k, n).hits (+) Masked(p, o, k, n).hits]

IsCompiled(p) ==
  \E file : IsPolicyFile(file) /\ Compile(file) # Rejected /\ p = Compile(file)

\* A compiled policy replaces what it masks by atoms and hashes with secrets.
LEMMA CompiledTyped ==
  ASSUME NEW p, IsCompiled(p)
  PROVE  /\ \E M : /\ \A f : MasksAt(p.masks, f) \in Seq(M)
                   /\ \A m \in M : m.replacement \in Strings
         /\ \A k \in DOMAIN p.tokens : p.tokens[k].secret \in STRING
<1>1. PICK file : IsPolicyFile(file) /\ Compile(file) # Rejected /\ p = Compile(file)
  BY DEF IsCompiled
<1>2. p \in CompiledOf(file)
  BY <1>1, CompileTyped
<1> DEFINE M == MaskRecords(file)
<1>3. \A f : MasksAt(p.masks, f) \in Seq(M)
  BY <1>2, MasksTyped DEF CompiledOf
<1>4. \A m \in M : m.replacement \in Strings
  <2> SUFFICES ASSUME NEW i \in DOMAIN file.rules
               PROVE  MaskOf(file.rules, i).replacement \in Strings
    BY DEF MaskRecords
  <2>1. file.rules[i] \in Rule
    BY <1>1 DEF IsPolicyFile
  <2>2. file.rules[i].replacement \in Seq(Atoms)
    BY <2>1 DEF Rule
  <2> QED
    BY <2>2 DEF MaskOf, Strings
<1>5. \A k \in DOMAIN p.tokens : p.tokens[k].secret \in STRING
  <2>1. p.tokens \in OwnersOf(TokenOwners(file))
    BY <1>2 DEF CompiledOf
  <2>2. p.tokens \in [DOMAIN p.tokens -> TokenOwners(file)]
    BY <2>1, OwnersTyped
  <2>3. \A k \in DOMAIN p.tokens : p.tokens[k] \in TokenOwners(file)
    BY <2>2
  <2> QED
    BY <2>3 DEF TokenOwners
<1> HIDE DEF M
<1> QED
  BY <1>3, <1>4, <1>5

\* A string stays a string, anything else stays what it is, and hits are bags.
LEMMA KeyTyped ==
  ASSUME NEW p, IsCompiled(p), NEW o, IsCarrier(o), NEW k \in DOMAIN o.attrs, NEW n \in 0 .. 3
  PROVE  /\ o.attrs[k] \in {NonString} \cup Seq(Atoms)
         /\ o.attrs[k] # NonString => Tokenized(p, o, k, n).str \in Strings
         /\ IsABag(Tokenized(p, o, k, n).hits) /\ IsABag(Masked(p, o, k, n).hits)
         /\ KeyAfter(p, o, k, n).kept \in BOOLEAN
         /\ IsABag(KeyAfter(p, o, k, n).hits)
         /\ KeyAfter(p, o, k, n).kept =>
              IF o.attrs[k] = NonString THEN KeyAfter(p, o, k, n).value = NonString
              ELSE KeyAfter(p, o, k, n).value \in Strings
<1> DEFINE v == o.attrs[k]
           t == Tokenized(p, o, k, n)
           m == Masked(p, o, k, n)
           r == KeyAfter(p, o, k, n)
<1>1. v \in {NonString} \cup Seq(Atoms)
  BY DEF IsCarrier, IsMap
<1>2. \A s \in Seq(Atoms) : s \in Strings
  BY DEF Strings
<1>3. (v # NonString => t.str \in Strings) /\ (v = NonString => t.str = v) /\ IsABag(t.hits)
  <2>1. CASE n >= 2 /\ Tokenizing(p, o, k)
    <3>1. v \in Seq(Atoms) /\ p.tokens[k].secret \in STRING /\ v # NonString
      BY <1>1, <2>1, CompiledTyped DEF Tokenizing
    <3>2. <<"hex", p.tokens[k].secret, v>> \in Tokens
      BY <3>1 DEF Tokens
    <3>3. HmacToken(p.tokens[k].secret, v) \in Strings
      BY <3>2 DEF HmacToken, Strings
    <3>4. IsABag(Hits(p.tokens[k].id, 1))
      BY HitsAreBags
    <3> QED
      BY <2>1, <3>1, <3>3, <3>4 DEF Tokenized
  <2>2. CASE ~(n >= 2 /\ Tokenizing(p, o, k))
    BY <1>1, <1>2, <2>2, NoHits DEF Tokenized
  <2> QED
    BY <2>1, <2>2
<1>4. (v # NonString => m.str \in Strings) /\ (v = NonString => m.str = v) /\ IsABag(m.hits)
  <2>1. CASE n >= 3 /\ v # NonString
    <3>1. m = ApplyMaskRules(t.str, MasksAt(p.masks, <<o.scope, k>>))
      BY <2>1 DEF Masked
    <3>2. PICK M : /\ \A f : MasksAt(p.masks, f) \in Seq(M)
                   /\ \A x \in M : x.replacement \in Strings
      BY CompiledTyped
    <3> DEFINE A == Atoms \cup Tokens
               masks == MasksAt(p.masks, <<o.scope, k>>)
               value == t.str
    <3>3. value \in Seq(A) /\ masks \in Seq(M) /\ \A x \in M : x.replacement \in Seq(A)
      BY <1>3, <2>1, <3>2 DEF Strings
    <3> HIDE DEF A, masks, value, t, m
    <3>4. ApplyMaskRules(value, masks).str \in Seq(A) /\ IsABag(ApplyMaskRules(value, masks).hits)
      BY ONLY <3>3, ApplyMaskRulesTyped
    <3> QED
      BY <2>1, <3>1, <3>4 DEF A, masks, value, Strings
  <2>2. CASE ~(n >= 3 /\ v # NonString)
    BY <1>3, <2>2, NoHits DEF Masked
  <2> QED
    BY <2>1, <2>2
<1> HIDE DEF t, m
<1>5. CASE n >= 1 /\ Dropping(p, o, k)
  <2>1. r = [kept |-> FALSE, value |-> NonString, hits |-> Hits(p.drop[k], 1)]
    BY <1>5 DEF KeyAfter
  <2>2. IsABag(Hits(p.drop[k], 1))
    BY HitsAreBags
  <2> QED
    BY <1>1, <1>3, <1>4, <2>1, <2>2 DEF t, m
<1>6. CASE ~(n >= 1 /\ Dropping(p, o, k))
  <2>1. r = [kept |-> TRUE, value |-> m.str, hits |-> t.hits (+) m.hits]
    BY <1>6 DEF KeyAfter, t, m
  <2> DEFINE a == t.hits
             b == m.hits
  <2> HIDE DEF a, b
  <2>2. IsABag(a) /\ IsABag(b)
    BY <1>3, <1>4 DEF a, b
  <2>3. IsABag(a (+) b)
    BY ONLY <2>2, HitsAdd
  <2> HIDE DEF r
  <2> QED
    BY <1>1, <1>3, <1>4, <2>1, <2>3 DEF t, m, r, a, b
<1> QED
  BY <1>5, <1>6

\* Before the first loop a key is as it came.
LEMMA KeyUntouched ==
  ASSUME NEW p, NEW o, NEW k
  PROVE  /\ KeyAfter(p, o, k, 0).kept
         /\ KeyAfter(p, o, k, 0).value = o.attrs[k]
         /\ \A id : Copies(id, KeyAfter(p, o, k, 0).hits) = 0
<1>1. KeyAfter(p, o, k, 0) = [kept |-> TRUE, value |-> o.attrs[k], hits |-> EmptyBag (+) EmptyBag]
  BY DEF KeyAfter, Masked, Tokenized
<1>2. \A id : Copies(id, EmptyBag (+) EmptyBag) = 0
  BY NoHits, HitsAdd
<1> QED
  BY <1>1, <1>2

\* The first loop drops the keys of the drop rules.
LEMMA KeyDropped ==
  ASSUME NEW p, NEW o, NEW k
  PROVE  /\ Dropping(p, o, k) => /\ ~KeyAfter(p, o, k, 1).kept
                                 /\ KeyAfter(p, o, k, 1).hits = Hits(p.drop[k], 1)
         /\ ~Dropping(p, o, k) => KeyAfter(p, o, k, 1) = KeyAfter(p, o, k, 0)
BY DEF KeyAfter, Masked, Tokenized

\* The second tokenizes the string values of the keys that are left.
LEMMA KeyTokenized ==
  ASSUME NEW p, NEW o, NEW k
  PROVE  /\ Tokenizing(p, o, k) /\ ~Dropping(p, o, k) =>
              /\ KeyAfter(p, o, k, 1).kept /\ KeyAfter(p, o, k, 2).kept
              /\ KeyAfter(p, o, k, 2).value
                   = HmacToken(p.tokens[k].secret, KeyAfter(p, o, k, 1).value)
              /\ \A id : Copies(id, KeyAfter(p, o, k, 2).hits)
                   = Copies(id, KeyAfter(p, o, k, 1).hits) + Copies(id, Hits(p.tokens[k].id, 1))
         /\ ~Tokenizing(p, o, k) \/ Dropping(p, o, k) =>
              KeyAfter(p, o, k, 2) = KeyAfter(p, o, k, 1)
<1>1. ASSUME Tokenizing(p, o, k), ~Dropping(p, o, k)
      PROVE  /\ KeyAfter(p, o, k, 1).kept /\ KeyAfter(p, o, k, 2).kept
             /\ KeyAfter(p, o, k, 2).value
                  = HmacToken(p.tokens[k].secret, KeyAfter(p, o, k, 1).value)
             /\ \A id : Copies(id, KeyAfter(p, o, k, 2).hits)
                  = Copies(id, KeyAfter(p, o, k, 1).hits) + Copies(id, Hits(p.tokens[k].id, 1))
  <2> DEFINE h == Hits(p.tokens[k].id, 1)
             new == HmacToken(p.tokens[k].secret, o.attrs[k])
  <2>1. KeyAfter(p, o, k, 1) = [kept |-> TRUE, value |-> o.attrs[k], hits |-> EmptyBag (+) EmptyBag]
    BY <1>1 DEF KeyAfter, Masked, Tokenized
  <2>2. KeyAfter(p, o, k, 2) = [kept |-> TRUE, value |-> new, hits |-> h (+) EmptyBag]
    BY <1>1 DEF KeyAfter, Masked, Tokenized
  <2>3. IsABag(h)
    BY HitsAreBags
  <2> HIDE DEF h, new
  <2> DEFINE e == EmptyBag
  <2> HIDE DEF e
  <2>0. IsABag(e) /\ \A id : Copies(id, e) = 0
    BY NoHits DEF e
  <2>4. \A id : /\ Copies(id, e (+) e) = 0 + 0
                /\ Copies(id, h (+) e) = Copies(id, h) + 0
    <3>1. \A id : Copies(id, e (+) e) = Copies(id, e) + Copies(id, e)
      BY ONLY <2>0, HitsAdd
    <3>2. \A id : Copies(id, h (+) e) = Copies(id, h) + Copies(id, e)
      BY ONLY <2>0, <2>3, HitsAdd
    <3> QED
      BY <2>0, <3>1, <3>2
  <2>5. \A id : Copies(id, h) \in Nat
    BY <2>3, CopiesNatural
  <2>6. \A id : Copies(id, h (+) e) = Copies(id, e (+) e) + Copies(id, h)
    BY <2>4, <2>5
  <2> QED
    BY <2>1, <2>2, <2>6 DEF h, new, e
<1>2. CASE Dropping(p, o, k)
  BY <1>2 DEF KeyAfter
<1>3. CASE ~Tokenizing(p, o, k)
  <2>1. Tokenized(p, o, k, 2) = Tokenized(p, o, k, 1)
    BY <1>3 DEF Tokenized
  <2>2. Masked(p, o, k, 2) = Masked(p, o, k, 1)
    BY <2>1 DEF Masked
  <2>3. CASE ~Dropping(p, o, k)
    <3> DEFINE t == Tokenized(p, o, k, 1)
               m == Masked(p, o, k, 1)
    <3>1. KeyAfter(p, o, k, 1) = [kept |-> TRUE, value |-> m.str, hits |-> t.hits (+) m.hits]
      BY <2>3 DEF KeyAfter
    <3>2. Tokenized(p, o, k, 2) = t /\ Masked(p, o, k, 2) = m
      BY <2>1, <2>2
    <3> HIDE DEF t, m
    <3>3. KeyAfter(p, o, k, 2) = [kept |-> TRUE, value |-> m.str, hits |-> t.hits (+) m.hits]
      BY <2>3, <3>2 DEF KeyAfter
    <3> QED
      BY <1>3, <3>1, <3>3
  <2> QED
    BY <1>2, <2>3
<1> QED
  BY <1>1, <1>2, <1>3

\* The third masks the strings of the fields that have masks.
LEMMA KeyMasked ==
  ASSUME NEW p, IsCompiled(p), NEW o, IsCarrier(o), NEW k \in DOMAIN o.attrs
  PROVE  /\ o.attrs[k] # NonString /\ ~Dropping(p, o, k) =>
              LET masked == ApplyMaskRules(KeyAfter(p, o, k, 2).value,
                                           MasksAt(p.masks, <<o.scope, k>>))
              IN  /\ KeyAfter(p, o, k, 2).kept /\ KeyAfter(p, o, k, 3).kept
                  /\ KeyAfter(p, o, k, 3).value = masked.str
                  /\ IsABag(masked.hits)
                  /\ \A id : Copies(id, KeyAfter(p, o, k, 3).hits)
                       = Copies(id, KeyAfter(p, o, k, 2).hits) + Copies(id, masked.hits)
         /\ \/ o.attrs[k] = NonString
            \/ Dropping(p, o, k)
            \/ <<o.scope, k>> \notin DOMAIN p.masks
            => KeyAfter(p, o, k, 3) = KeyAfter(p, o, k, 2)
<1> DEFINE t == Tokenized(p, o, k, 2)
           masks == MasksAt(p.masks, <<o.scope, k>>)
           masked == ApplyMaskRules(t.str, masks)
<1>1. Tokenized(p, o, k, 3) = t
  BY DEF Tokenized
<1>2. Masked(p, o, k, 2) = [str |-> t.str, hits |-> EmptyBag]
  BY DEF Masked
<1>3. Masked(p, o, k, 3) = IF o.attrs[k] # NonString THEN masked
                           ELSE [str |-> t.str, hits |-> EmptyBag]
  BY <1>1 DEF Masked
<1>4. IsABag(t.hits) /\ IsABag(Masked(p, o, k, 3).hits)
  BY <1>1, KeyTyped
<1> HIDE DEF t, masks
<1>5. ASSUME o.attrs[k] # NonString, ~Dropping(p, o, k)
      PROVE  /\ KeyAfter(p, o, k, 2).kept /\ KeyAfter(p, o, k, 3).kept
             /\ KeyAfter(p, o, k, 2).value = t.str
             /\ KeyAfter(p, o, k, 3).value = masked.str
             /\ IsABag(masked.hits)
             /\ \A id : Copies(id, KeyAfter(p, o, k, 3).hits)
                  = Copies(id, KeyAfter(p, o, k, 2).hits) + Copies(id, masked.hits)
  <2> HIDE DEF masked
  <2>1. KeyAfter(p, o, k, 2) = [kept |-> TRUE, value |-> t.str, hits |-> t.hits (+) EmptyBag]
    <3>1. KeyAfter(p, o, k, 2) = [kept |-> TRUE, value |-> Masked(p, o, k, 2).str,
                                  hits |-> t.hits (+) Masked(p, o, k, 2).hits]
      BY <1>5 DEF KeyAfter, t
    <3> QED
      BY <1>2, <3>1
  <2>2. KeyAfter(p, o, k, 3) = [kept |-> TRUE, value |-> masked.str, hits |-> t.hits (+) masked.hits]
    BY <1>1, <1>3, <1>5 DEF KeyAfter
  <2> DEFINE a == t.hits
             b == masked.hits
  <2> HIDE DEF a, b
  <2>3. IsABag(a) /\ IsABag(b)
    BY <1>3, <1>4, <1>5 DEF a, b
  <2> DEFINE e == EmptyBag
  <2> HIDE DEF e
  <2>4. IsABag(e) /\ \A id : Copies(id, e) = 0
    BY NoHits DEF e
  <2>5. \A id : /\ Copies(id, a (+) e) = Copies(id, a) + 0
                /\ Copies(id, a (+) b) = Copies(id, a) + Copies(id, b)
    <3>1. \A id : Copies(id, a (+) e) = Copies(id, a) + Copies(id, e)
      BY ONLY <2>3, <2>4, HitsAdd
    <3>2. \A id : Copies(id, a (+) b) = Copies(id, a) + Copies(id, b)
      BY ONLY <2>3, HitsAdd
    <3> QED
      BY <2>4, <3>1, <3>2
  <2>6. \A id : Copies(id, a) \in Nat
    BY ONLY <2>3, CopiesNatural
  <2>7. \A id : Copies(id, a (+) b) = Copies(id, a (+) e) + Copies(id, b)
    BY <2>5, <2>6
  <2> QED
    BY <2>1, <2>2, <2>3, <2>7 DEF a, b, e
<1>6. ASSUME \/ o.attrs[k] = NonString
             \/ <<o.scope, k>> \notin DOMAIN p.masks
      PROVE  Masked(p, o, k, 3) = Masked(p, o, k, 2)
  <2>1. CASE o.attrs[k] = NonString
    BY <1>2, <1>3, <2>1
  <2>2. CASE <<o.scope, k>> \notin DOMAIN p.masks
    <3>1. masks = <<>>
      BY <2>2 DEF masks, MasksAt
    <3>2. masked = [str |-> t.str, hits |-> EmptyBag]
      BY <3>1, NoMask
    <3> QED
      BY <1>2, <1>3, <3>2
  <2> QED
    BY <1>6, <2>1, <2>2
<1>7. \/ o.attrs[k] = NonString
      \/ Dropping(p, o, k)
      \/ <<o.scope, k>> \notin DOMAIN p.masks
      => KeyAfter(p, o, k, 3) = KeyAfter(p, o, k, 2)
  <2>1. CASE Dropping(p, o, k)
    BY <2>1 DEF KeyAfter
  <2>2. CASE o.attrs[k] = NonString \/ <<o.scope, k>> \notin DOMAIN p.masks
    <3>1. Masked(p, o, k, 3) = Masked(p, o, k, 2) /\ Tokenized(p, o, k, 3) = Tokenized(p, o, k, 2)
      BY <1>1, <1>6, <2>2 DEF t
    <3>2. CASE ~Dropping(p, o, k)
      <4>1. ASSUME NEW n \in {2, 3}
            PROVE  KeyAfter(p, o, k, n) = [kept |-> TRUE, value |-> Masked(p, o, k, n).str,
                     hits |-> Tokenized(p, o, k, n).hits (+) Masked(p, o, k, n).hits]
        BY <3>2 DEF KeyAfter
      <4> QED
        BY <3>1, <4>1
    <3> QED
      BY <2>1, <3>2
  <2> QED
    BY <2>1, <2>2
<1> QED
  BY <1>5, <1>7 DEF masks

\* After the three loops a key is what the rules of the file make of it.
LEMMA KeyFate ==
  ASSUME NEW file, IsPolicyFile(file), Compile(file) # Rejected,
         NEW o, IsCarrier(o), NEW k \in DOMAIN o.attrs
  PROVE  LET r == KeyAfter(Compile(file), o, k, 3)
             fate == Fate(file, o.scope, k, o.attrs[k])
         IN  /\ r.kept = fate.kept
             /\ r.kept => r.value = fate.value
             /\ IsABag(fate.hits)
             /\ \A id : Copies(id, r.hits) = Copies(id, fate.hits)
<1> DEFINE p == Compile(file)
           v == o.attrs[k]
           r == KeyAfter(p, o, k, 3)
           drops == IF o.scope = "log.body" THEN {} ELSE Naming(file, "drop_key", k)
           tokens == IF o.scope = "log.body" \/ v = NonString THEN {}
                     ELSE Naming(file, "tokenize_hmac", k)
           last == Max(tokens)
           start == IF tokens = {} THEN v
                    ELSE HmacToken(file.secrets[file.rules[last].keyID], v)
           masked == ApplyMaskRules(start, MaskOrder(file, <<o.scope, k>>))
           tokenHit == IF tokens = {} THEN EmptyBag ELSE Hits(RuleIdentifier(file.rules, last), 1)
           fate == CASE drops # {} ->
                          [kept |-> FALSE, hits |-> Hits(RuleIdentifier(file.rules, Max(drops)), 1)]
                     [] drops = {} /\ v = NonString -> [kept |-> TRUE, value |-> v, hits |-> EmptyBag]
                     [] OTHER -> [kept |-> TRUE, value |-> masked.str, hits |-> tokenHit (+) masked.hits]
           F == Fate(file, o.scope, k, o.attrs[k])
<1>1. F = fate
  BY DEF Fate
<1> HIDE DEF F
<1> SUFFICES /\ r.kept = F.kept
             /\ r.kept => r.value = F.value
             /\ IsABag(F.hits)
             /\ \A id : Copies(id, r.hits) = Copies(id, F.hits)
  BY DEF F
<1>2. IsCompiled(p)
  BY DEF IsCompiled
<1>3. (Dropping(p, o, k) <=> drops # {})
      /\ (Dropping(p, o, k) => p.drop[k] = RuleIdentifier(file.rules, Max(drops)))
  BY DropsCompiled DEF Dropping
<1>4. (Tokenizing(p, o, k) <=> tokens # {})
      /\ (Tokenizing(p, o, k) => p.tokens[k] = [id |-> RuleIdentifier(file.rules, last),
                                 secret |-> file.secrets[file.rules[last].keyID]])
  BY TokensCompiled DEF Tokenizing
<1>5. Tokenized(p, o, k, 3) = [str |-> start, hits |-> tokenHit]
  BY <1>4 DEF Tokenized
<1>6. v # NonString => Masked(p, o, k, 3) = masked
  <2>1. MasksAt(p.masks, <<o.scope, k>>) = MaskOrder(file, <<o.scope, k>>)
    <3> DEFINE f == <<o.scope, k>>
    <3>1. f[1] \in {"attributes", "resource", "log.body"}
      BY DEF IsCarrier, Scopes
    <3> HIDE DEF f
    <3>2. MasksAt(p.masks, f) = MaskOrder(file, f)
      BY <3>1, MasksCompiled
    <3> QED
      BY <3>2 DEF f
  <2> HIDE DEF start
  <2> QED
    BY <1>5, <2>1 DEF Masked
<1>7. IsABag(tokenHit) /\ (v # NonString => IsABag(masked.hits))
  <2>1. IsABag(Tokenized(p, o, k, 3).hits) /\ IsABag(Masked(p, o, k, 3).hits)
    BY <1>2, KeyTyped
  <2> HIDE DEF start, tokenHit, masked
  <2> QED
    BY <1>5, <1>6, <2>1
<1> HIDE DEF start, tokenHit, masked, drops
<1>8. CASE drops # {}
  <2>1. r = [kept |-> FALSE, value |-> NonString, hits |-> Hits(p.drop[k], 1)]
    BY <1>3, <1>8 DEF KeyAfter
  <2>2. fate = [kept |-> FALSE, hits |-> Hits(p.drop[k], 1)]
    BY <1>3, <1>8
  <2>3. IsABag(Hits(p.drop[k], 1))
    BY HitsAreBags
  <2> HIDE DEF r, fate
  <2> QED
    BY <1>1, <2>1, <2>2, <2>3
<1>9. CASE drops = {} /\ v = NonString
  <2>1. Masked(p, o, k, 3) = [str |-> v, hits |-> EmptyBag] /\ Tokenized(p, o, k, 3) = [str |-> v, hits |-> EmptyBag]
    BY <1>9 DEF Masked, Tokenized, Tokenizing
  <2>2. r = [kept |-> TRUE, value |-> v, hits |-> EmptyBag (+) EmptyBag]
    <3>1. r = [kept |-> TRUE, value |-> Masked(p, o, k, 3).str,
               hits |-> Tokenized(p, o, k, 3).hits (+) Masked(p, o, k, 3).hits]
      BY <1>3, <1>9 DEF KeyAfter
    <3> QED
      BY <2>1, <3>1
  <2>3. fate = [kept |-> TRUE, value |-> v, hits |-> EmptyBag]
    BY <1>9
  <2>4. \A id : Copies(id, EmptyBag (+) EmptyBag) = Copies(id, EmptyBag)
    <3> DEFINE e == EmptyBag
    <3> HIDE DEF e
    <3>1. IsABag(e) /\ \A id : Copies(id, e) = 0
      BY NoHits DEF e
    <3>2. \A id : Copies(id, e (+) e) = Copies(id, e) + Copies(id, e)
      BY ONLY <3>1, HitsAdd
    <3> QED
      BY <3>1, <3>2 DEF e
  <2> HIDE DEF r, fate
  <2> QED
    BY <1>1, <2>2, <2>3, <2>4, NoHits
<1>10. CASE drops = {} /\ v # NonString
  <2>1. r = [kept |-> TRUE, value |-> masked.str, hits |-> tokenHit (+) masked.hits]
    <3>1. r = [kept |-> TRUE, value |-> Masked(p, o, k, 3).str,
               hits |-> Tokenized(p, o, k, 3).hits (+) Masked(p, o, k, 3).hits]
      BY <1>3, <1>10 DEF KeyAfter
    <3> QED
      BY <1>5, <1>6, <1>10, <3>1
  <2>2. fate = [kept |-> TRUE, value |-> masked.str, hits |-> tokenHit (+) masked.hits]
    BY <1>10
  <2> DEFINE a == tokenHit
             b == masked.hits
  <2> HIDE DEF a, b
  <2>3. IsABag(a) /\ IsABag(b)
    BY <1>7, <1>10 DEF a, b
  <2>4. IsABag(a (+) b)
    BY ONLY <2>3, HitsAdd
  <2> HIDE DEF r, fate
  <2> QED
    BY <1>1, <2>1, <2>2, <2>4 DEF a, b
<1> QED
  BY <1>8, <1>9, <1>10

\* A carrier whose key k has been through done[k] loops, and its hits so far.
CarrierAfter(p, o, done) ==
  Carrier(o.scope, [k \in {x \in DOMAIN o.attrs : KeyAfter(p, o, x, done[x]).kept} |->
                     KeyAfter(p, o, k, done[k]).value])

CountAfter(p, o, done, id) ==
  Total([k \in DOMAIN o.attrs |-> Copies(id, KeyAfter(p, o, k, done[k]).hits)], DOMAIN o.attrs)

\* A finished carrier is the redacted one.
LEMMA CarrierFate ==
  ASSUME NEW file, IsPolicyFile(file), Compile(file) # Rejected, NEW o, IsCarrier(o),
         NEW done, \A k \in DOMAIN o.attrs : done[k] = 3
  PROVE  /\ CarrierAfter(Compile(file), o, done) = Redacted(file, o).carrier
         /\ IsABag(Redacted(file, o).hits)
         /\ \A id : CountAfter(Compile(file), o, done, id) = Copies(id, Redacted(file, o).hits)
<1> DEFINE p == Compile(file)
           D == DOMAIN o.attrs
           fate == [k \in D |-> Fate(file, o.scope, k, o.attrs[k])]
           kept == {k \in D : fate[k].kept}
           bags == [k \in D |-> fate[k].hits]
<1>1. Redacted(file, o) = [carrier |-> Carrier(o.scope, [k \in kept |-> fate[k].value]),
                           hits |-> AllHits(bags)]
  BY DEF Redacted
<1>2. ASSUME NEW k \in D
      PROVE  /\ KeyAfter(p, o, k, done[k]).kept = fate[k].kept
             /\ fate[k].kept => KeyAfter(p, o, k, done[k]).value = fate[k].value
             /\ IsABag(bags[k])
             /\ \A id : Copies(id, KeyAfter(p, o, k, done[k]).hits) = Copies(id, bags[k])
  <2>1. done[k] = 3
    OBVIOUS
  <2>2. fate[k] = Fate(file, o.scope, k, o.attrs[k]) /\ bags[k] = fate[k].hits
    OBVIOUS
  <2> HIDE DEF fate, bags
  <2> QED
    BY <2>1, <2>2, KeyFate
<1> DEFINE left == {k \in D : KeyAfter(p, o, k, done[k]).kept}
<1>3. left = kept
  BY <1>2
<1>4. CarrierAfter(p, o, done) = Carrier(o.scope, [k \in kept |-> fate[k].value])
  <2>1. CarrierAfter(p, o, done) = Carrier(o.scope, [k \in left |-> KeyAfter(p, o, k, done[k]).value])
    BY DEF CarrierAfter
  <2>2. \A k \in kept : k \in D /\ fate[k].kept
    OBVIOUS
  <2> HIDE DEF left, kept, fate
  <2>3. \A k \in kept : KeyAfter(p, o, k, done[k]).value = fate[k].value
    BY <1>2, <2>2
  <2>4. [k \in left |-> KeyAfter(p, o, k, done[k]).value] = [k \in kept |-> fate[k].value]
    BY <1>3, <2>3
  <2> QED
    BY <2>1, <2>4
<1>5. IsFiniteSet(D) /\ DOMAIN bags = D
  BY DEF IsCarrier, IsMap
<1> HIDE DEF fate, bags
<1>6. IsABag(AllHits(bags)) /\ \A id : Copies(id, AllHits(bags)) = Total([x \in D |-> Copies(id, bags[x])], D)
  BY <1>2, <1>5, AllHitsCounted
<1>7. ASSUME NEW id PROVE CountAfter(p, o, done, id) = Total([x \in D |-> Copies(id, bags[x])], D)
  <2>1. [k \in D |-> Copies(id, KeyAfter(p, o, k, done[k]).hits)] = [x \in D |-> Copies(id, bags[x])]
    BY <1>2
  <2> QED
    BY <2>1 DEF CountAfter
<1>8. Redacted(file, o).carrier = Carrier(o.scope, [k \in kept |-> fate[k].value])
      /\ Redacted(file, o).hits = AllHits(bags)
  <2> HIDE DEF kept
  <2> QED
    BY <1>1
<1> QED
  BY <1>4, <1>6, <1>7, <1>8

\* A sum in which one term grows grows by as much.
LEMMA TotalGrows ==
  ASSUME NEW S, IsFiniteSet(S), NEW f, NEW g, NEW x \in S, NEW d \in Nat,
         \A y \in S : f[y] \in Nat,
         \A y \in S : g[y] = IF y = x THEN f[y] + d ELSE f[y]
  PROVE  Total(g, S) = Total(f, S) + d
<1> DEFINE T == S \ {x}
<1>1. \A y \in S : g[y] \in Nat
  OBVIOUS
<1>2. Total(f, S) = f[x] + Total(f, T)
  BY TotalTakes
<1>3. Total(g, S) = g[x] + Total(g, T)
  BY ONLY <1>1, IsFiniteSet(S), x \in S, TotalTakes
<1>4. Total(f, T) = Total(g, T) /\ Total(f, T) \in Nat
  <2>1. IsFiniteSet(T) /\ \A y \in T : f[y] \in Nat /\ f[y] = g[y]
    BY FS_Subset
  <2> HIDE DEF T
  <2>2. Total(f, T) = Total(g, T)
    BY ONLY <2>1, TotalSame
  <2>3. Total(f, T) \in Nat
    BY ONLY <2>1, TotalUnfolds
  <2> QED
    BY <2>2, <2>3
<1> HIDE DEF T
<1>5. PICK i \in Nat, n \in Nat : i = f[x] /\ n = Total(f, T)
  BY <1>4
<1>6. Total(f, S) = i + n /\ Total(g, S) = (i + d) + n
  BY <1>2, <1>3, <1>4, <1>5
<1> QED
  BY <1>5, <1>6

\* Where nothing is to be added the sum is 0.
LEMMA TotalZero ==
  ASSUME NEW S, IsFiniteSet(S), NEW f, \A x \in S : f[x] = 0
  PROVE  Total(f, S) = 0
<1> DEFINE Good == {T \in SUBSET S : Total(f, T) = 0}
<1>0. \A x \in S : f[x] \in Nat
  OBVIOUS
<1>1. ASSUME NEW T \in SUBSET S, \A x \in T : T \ {x} \in Good PROVE T \in Good
  <2>1. CASE T = {}
    BY <1>0, <2>1, TotalUnfolds
  <2>2. CASE T # {}
    <3>1. PICK c \in T : Total(f, T) = f[c] + Total(f, T \ {c})
      BY <1>0, <2>2, TotalUnfolds
    <3>2. Total(f, T \ {c}) = 0
      BY <1>1
    <3> QED
      BY <3>1, <3>2
  <2> QED
    BY <2>1, <2>2
<1> HIDE DEF Good
<1>2. \A T \in SUBSET S : T \in Good
  BY <1>1, FiniteInduction
<1> QED
  BY <1>2 DEF Good

-----------------------------------------------------------------------------
(* How far a call has come: done[i][k] loops with key k of carrier i.      *)

Progress(carriers, hits, p, o, done) ==
  /\ carriers = [i \in 1 .. Len(o) |-> CarrierAfter(p, o[i], done[i])]
  /\ IsABag(hits)
  /\ \A id : Copies(id, hits)
       = Total([i \in 1 .. Len(o) |-> CountAfter(p, o[i], done[i], id)], 1 .. Len(o))

\* Loops that had nothing to do with a key may be counted as done.
LEMMA NothingToDo ==
  ASSUME NEW carriers, NEW hits, NEW p, NEW o, NEW done, NEW new,
         Progress(carriers, hits, p, o, done),
         \A i \in 1 .. Len(o) : \A k \in DOMAIN o[i].attrs :
           KeyAfter(p, o[i], k, new[i][k]) = KeyAfter(p, o[i], k, done[i][k])
  PROVE  Progress(carriers, hits, p, o, new)
<1>1. ASSUME NEW i \in 1 .. Len(o)
      PROVE  CarrierAfter(p, o[i], new[i]) = CarrierAfter(p, o[i], done[i])
  <2> DEFINE c == o[i]
             old == {k \in DOMAIN c.attrs : KeyAfter(p, c, k, done[i][k]).kept}
             now == {k \in DOMAIN c.attrs : KeyAfter(p, c, k, new[i][k]).kept}
  <2>1. now = old
    OBVIOUS
  <2>2. \A k \in old : KeyAfter(p, c, k, new[i][k]).value = KeyAfter(p, c, k, done[i][k]).value
    OBVIOUS
  <2>3. /\ CarrierAfter(p, c, new[i]) = Carrier(c.scope, [k \in now |-> KeyAfter(p, c, k, new[i][k]).value])
        /\ CarrierAfter(p, c, done[i]) = Carrier(c.scope, [k \in old |-> KeyAfter(p, c, k, done[i][k]).value])
    BY DEF CarrierAfter
  <2> HIDE DEF c, old, now
  <2> QED
    BY <2>1, <2>2, <2>3 DEF c
<1>2. ASSUME NEW i \in 1 .. Len(o), NEW id
      PROVE  CountAfter(p, o[i], new[i], id) = CountAfter(p, o[i], done[i], id)
  <2> DEFINE c == o[i]
  <2>1. [k \in DOMAIN c.attrs |-> Copies(id, KeyAfter(p, c, k, new[i][k]).hits)]
          = [k \in DOMAIN c.attrs |-> Copies(id, KeyAfter(p, c, k, done[i][k]).hits)]
    OBVIOUS
  <2> QED
    BY <2>1 DEF CountAfter
<1>3. ASSUME NEW id
      PROVE  [i \in 1 .. Len(o) |-> CountAfter(p, o[i], new[i], id)]
               = [i \in 1 .. Len(o) |-> CountAfter(p, o[i], done[i], id)]
  BY <1>2
<1>4. [i \in 1 .. Len(o) |-> CarrierAfter(p, o[i], new[i])]
        = [i \in 1 .. Len(o) |-> CarrierAfter(p, o[i], done[i])]
  BY <1>1
<1> QED
  BY <1>3, <1>4 DEF Progress

\* What the hits of a carrier are counted from.
LEMMA CountTyped ==
  ASSUME NEW p, IsCompiled(p), NEW o, IsCarrier(o), NEW done,
         \A k \in DOMAIN o.attrs : done[k] \in 0 .. 3
  PROVE  /\ IsFiniteSet(DOMAIN o.attrs)
         /\ \A k \in DOMAIN o.attrs : \A id : Copies(id, KeyAfter(p, o, k, done[k]).hits) \in Nat
         /\ \A id : CountAfter(p, o, done, id) \in Nat
<1> DEFINE D == DOMAIN o.attrs
           count(id) == [k \in D |-> Copies(id, KeyAfter(p, o, k, done[k]).hits)]
<1>1. IsFiniteSet(D)
  BY DEF IsCarrier, IsMap
<1>2. \A k \in D : IsABag(KeyAfter(p, o, k, done[k]).hits)
  BY KeyTyped
<1>3. \A k \in D : \A id : Copies(id, KeyAfter(p, o, k, done[k]).hits) \in Nat
  BY <1>2, CopiesNatural
<1>4. ASSUME NEW id PROVE CountAfter(p, o, done, id) \in Nat
  <2> DEFINE f == count(id)
  <2>1. \A k \in D : f[k] \in Nat
    BY <1>3
  <2>2. CountAfter(p, o, done, id) = Total(f, D)
    BY DEF CountAfter
  <2> HIDE DEF f, D
  <2>3. D \in SUBSET D
    OBVIOUS
  <2>4. Total(f, D) \in Nat
    BY ONLY <1>1, <2>1, <2>3, TotalUnfolds
  <2> QED
    BY <2>2, <2>4
<1> QED
  BY <1>1, <1>3, <1>4

\* One loop more for one key of one carrier, and what it takes.
OneLoop(carriers, p, o, done, new, at, k, attrs, more) ==
  /\ \A i \in 1 .. Len(o) : \A x \in DOMAIN o[i].attrs :
       /\ done[i][x] \in 0 .. 3
       /\ new[i][x] \in 0 .. 3
       /\ <<i, x>> # <<at, k>> => new[i][x] = done[i][x]
  /\ \A id : Copies(id, KeyAfter(p, o[at], k, new[at][k]).hits)
                = Copies(id, KeyAfter(p, o[at], k, done[at][k]).hits) + Copies(id, more)
  /\ KeyAfter(p, o[at], k, done[at][k]).kept
  /\ attrs = IF KeyAfter(p, o[at], k, new[at][k]).kept
             THEN [carriers[at].attrs EXCEPT ![k] = KeyAfter(p, o[at], k, new[at][k]).value]
             ELSE [x \in DOMAIN carriers[at].attrs \ {k} |-> carriers[at].attrs[x]]

\* One loop for one key takes the call as far as the loop should.
LEMMA OneKeyOn ==
  ASSUME NEW carriers, NEW hits, NEW p, IsCompiled(p), NEW o, AreCarriers(o),
         NEW done, NEW new, NEW at \in 1 .. Len(o), NEW k \in DOMAIN o[at].attrs,
         NEW attrs, NEW more, IsABag(more),
         Progress(carriers, hits, p, o, done),
         OneLoop(carriers, p, o, done, new, at, k, attrs, more)
  PROVE  Progress([carriers EXCEPT ![at].attrs = attrs], hits (+) more, p, o, new)
<1> USE DEF OneLoop
<1> DEFINE N == Len(o)
           c == o[at]
           D == DOMAIN c.attrs
           was(x) == KeyAfter(p, c, x, done[at][x])
           is(x) == KeyAfter(p, c, x, new[at][x])
           old == {x \in D : was(x).kept}
           now == {x \in D : is(x).kept}
<1>1. N \in Nat /\ \A i \in 1 .. N : IsCarrier(o[i])
  BY CarriersAreOrdered
<1>2. \A x \in D : x # k => is(x) = was(x)
  OBVIOUS
<1>3. \A i \in 1 .. N : i # at => \A x \in DOMAIN o[i].attrs : new[i][x] = done[i][x]
  OBVIOUS
<1>4. CarrierAfter(p, c, done[at]) = [scope |-> c.scope, attrs |-> [x \in old |-> was(x).value]]
  BY DEF CarrierAfter, Carrier
<1>5. CarrierAfter(p, c, new[at]) = [scope |-> c.scope, attrs |-> [x \in now |-> is(x).value]]
  BY DEF CarrierAfter, Carrier
<1>6. carriers[at] = CarrierAfter(p, c, done[at]) /\ carriers = [i \in 1 .. N |-> CarrierAfter(p, o[i], done[i])]
  BY DEF Progress
<1>7. k \in old /\ now = IF is(k).kept THEN old ELSE old \ {k}
  BY <1>2
<1>8. attrs = [x \in now |-> is(x).value]
  <2> DEFINE a == carriers[at].attrs
  <2>1. a = [x \in old |-> was(x).value]
    BY <1>4, <1>6
  <2>2. attrs = IF is(k).kept THEN [a EXCEPT ![k] = is(k).value] ELSE [x \in DOMAIN a \ {k} |-> a[x]]
    OBVIOUS
  <2>3. old \subseteq D
    OBVIOUS
  <2> HIDE DEF a, old, now, was, is
  <2>4. CASE is(k).kept
    <3>1. attrs = [x \in old |-> IF x = k THEN is(k).value ELSE was(x).value]
      BY <1>7, <2>1, <2>2, <2>4
    <3>2. \A x \in old : (IF x = k THEN is(k).value ELSE was(x).value) = is(x).value
      BY <1>2, <2>3
    <3> QED
      BY <1>7, <2>4, <3>1, <3>2
  <2>5. CASE ~is(k).kept
    <3>1. attrs = [x \in old \ {k} |-> was(x).value]
      BY <1>7, <2>1, <2>2, <2>5
    <3>2. \A x \in old \ {k} : was(x).value = is(x).value
      BY <1>2, <2>3
    <3> QED
      BY <1>7, <2>5, <3>1, <3>2
  <2> QED
    BY <2>4, <2>5
<1>9. [carriers EXCEPT ![at].attrs = attrs] = [i \in 1 .. N |-> CarrierAfter(p, o[i], new[i])]
  <2>1. ASSUME NEW i \in 1 .. N, i # at PROVE CarrierAfter(p, o[i], new[i]) = CarrierAfter(p, o[i], done[i])
    <3> DEFINE s == {x \in DOMAIN o[i].attrs : KeyAfter(p, o[i], x, new[i][x]).kept}
               t == {x \in DOMAIN o[i].attrs : KeyAfter(p, o[i], x, done[i][x]).kept}
    <3>1. s = t /\ \A x \in t : KeyAfter(p, o[i], x, new[i][x]).value = KeyAfter(p, o[i], x, done[i][x]).value
      BY <1>3, <2>1
    <3>2. /\ CarrierAfter(p, o[i], new[i]) = Carrier(o[i].scope, [x \in s |-> KeyAfter(p, o[i], x, new[i][x]).value])
          /\ CarrierAfter(p, o[i], done[i]) = Carrier(o[i].scope, [x \in t |-> KeyAfter(p, o[i], x, done[i][x]).value])
      BY DEF CarrierAfter
    <3> HIDE DEF s, t
    <3> QED
      BY <3>1, <3>2
  <2> DEFINE r == [carriers EXCEPT ![at].attrs = attrs]
  <2>2. carriers[at] = [scope |-> c.scope, attrs |-> carriers[at].attrs]
    BY <1>4, <1>6
  <2>3. [carriers[at] EXCEPT !.attrs = attrs] = CarrierAfter(p, c, new[at])
    BY <1>5, <1>8, <2>2
  <2>4. r = [i \in 1 .. N |-> IF i = at THEN [carriers[at] EXCEPT !.attrs = attrs] ELSE carriers[i]]
    BY <1>6
  <2>5. ASSUME NEW i \in 1 .. N
        PROVE  (IF i = at THEN [carriers[at] EXCEPT !.attrs = attrs] ELSE carriers[i]) = CarrierAfter(p, o[i], new[i])
    <3>1. CASE i = at
      BY <2>3, <3>1
    <3>2. CASE i # at
      <4>1. carriers[i] = CarrierAfter(p, o[i], done[i])
        BY <1>6
      <4> QED
        BY <2>1, <3>2, <4>1
    <3> QED
      BY <3>1, <3>2
  <2> HIDE DEF r
  <2> QED
    BY <2>4, <2>5 DEF r
<1>10. IsABag(hits (+) more) /\ \A id : Copies(id, hits (+) more) = Copies(id, hits) + Copies(id, more)
  <2>1. IsABag(hits)
    BY DEF Progress
  <2> QED
    BY ONLY <2>1, IsABag(more), HitsAdd
<1>11. ASSUME NEW id
       PROVE  Copies(id, hits (+) more)
                = Total([i \in 1 .. N |-> CountAfter(p, o[i], new[i], id)], 1 .. N)
  <2> DEFINE f == [i \in 1 .. N |-> CountAfter(p, o[i], done[i], id)]
             g == [i \in 1 .. N |-> CountAfter(p, o[i], new[i], id)]
             d == Copies(id, more)
             places == 1 .. N
  <2>1. d \in Nat
    BY CopiesNatural
  <2>2. \A i \in places : f[i] \in Nat
    <3>1. \A i \in places : \A x \in DOMAIN o[i].attrs : done[i][x] \in 0 .. 3
      OBVIOUS
    <3> QED
      BY <1>1, <3>1, CountTyped
  <2>3. CountAfter(p, c, new[at], id) = CountAfter(p, c, done[at], id) + d
    <3> DEFINE F == [x \in D |-> Copies(id, was(x).hits)]
               G == [x \in D |-> Copies(id, is(x).hits)]
    <3>1. CountAfter(p, c, new[at], id) = Total(G, D) /\ CountAfter(p, c, done[at], id) = Total(F, D)
      BY DEF CountAfter
    <3>2. IsFiniteSet(D) /\ \A x \in D : F[x] \in Nat
      BY <1>1, CountTyped
    <3>3. \A x \in D : G[x] = IF x = k THEN F[x] + d ELSE F[x]
      BY <1>2
    <3>4. k \in D
      OBVIOUS
    <3> HIDE DEF F, G, D, d
    <3>5. Total(G, D) = Total(F, D) + d
      BY ONLY <2>1, <3>2, <3>3, <3>4, TotalGrows
    <3> QED
      BY <3>1, <3>5
  <2>4. \A i \in places : i # at => g[i] = f[i]
    <3> SUFFICES ASSUME NEW i \in places, i # at
                 PROVE  CountAfter(p, o[i], new[i], id) = CountAfter(p, o[i], done[i], id)
      OBVIOUS
    <3>1. [x \in DOMAIN o[i].attrs |-> Copies(id, KeyAfter(p, o[i], x, new[i][x]).hits)]
            = [x \in DOMAIN o[i].attrs |-> Copies(id, KeyAfter(p, o[i], x, done[i][x]).hits)]
      BY <1>3
    <3> QED
      BY <3>1 DEF CountAfter
  <2>5. \A i \in places : g[i] = IF i = at THEN f[i] + d ELSE f[i]
    <3> HIDE DEF d
    <3> QED
      BY <2>3, <2>4
  <2>6. IsFiniteSet(places) /\ at \in places
    <3>1. 1 \in Int /\ N \in Int
      BY <1>1
    <3>2. IsFiniteSet(1 .. N)
      BY ONLY <3>1, FS_Interval
    <3> QED
      BY <3>2
  <2>7. Copies(id, hits) = Total(f, places)
    BY DEF Progress
  <2> HIDE DEF f, g, d, places
  <2>8. Total(g, places) = Total(f, places) + d
    BY ONLY <2>1, <2>2, <2>5, <2>6, TotalGrows
  <2> QED
    BY <1>10, <2>7, <2>8 DEF g, d, places
<1> QED
  BY <1>9, <1>10, <1>11 DEF Progress

-----------------------------------------------------------------------------
(* The calls.                                                              *)

Phases == {"drop", "tokenize", "mask"}

LoopsOver(phase) == CASE phase = "drop" -> 0 [] phase = "tokenize" -> 1 [] phase = "mask" -> 2

DoneAt(w, i, k) ==
  IF i < w.at THEN 3
  ELSE IF i > w.at THEN 0
  ELSE IF k \in w.todo THEN LoopsOver(w.phase) ELSE LoopsOver(w.phase) + 1

Done(w, o) == [i \in 1 .. Len(o) |-> [k \in DOMAIN o[i].attrs |-> DoneAt(w, i, k)]]

\* A call that has begun.
CallOK(w) ==
  LET o == CarriersOfBatch(w.batch)
  IN  /\ w = [pc |-> w.pc, policy |-> w.policy, source |-> w.source, batch |-> w.batch,
              carriers |-> w.carriers, at |-> w.at, phase |-> w.phase, todo |-> w.todo,
              hits |-> w.hits]
      /\ w.pc \in {"walking", "done"}
      /\ w.batch \in Batches
      /\ w.source \in Sources
      /\ w.policy = Compile(w.source)
      /\ w.policy # Rejected
      /\ w.phase \in Phases
      /\ w.at \in 1 .. Len(o) + 1
      /\ w.pc = "done" => w.at = Len(o) + 1
      /\ w.at <= Len(o) => w.todo \subseteq Targets(w.policy, w.carriers[w.at], w.phase)
      /\ Progress(w.carriers, w.hits, w.policy, o, Done(w, o))

CallsOK ==
  /\ call = [c \in Calls |-> call[c]]
  /\ \A c \in Calls : call[c] = Idle \/ CallOK(call[c])

\* What a call that has begun knows of its policy and its carriers.
LEMMA CallFacts ==
  ASSUME NEW w, CallOK(w)
  PROVE  LET o == CarriersOfBatch(w.batch)
         IN  /\ IsCompiled(w.policy)
             /\ AreCarriers(o)
             /\ Len(o) \in Nat
             /\ Len(w.carriers) = Len(o)
             /\ \A i \in 1 .. Len(o) : IsCarrier(o[i])
             /\ \A i \in 1 .. Len(o) : \A k \in DOMAIN o[i].attrs : DoneAt(w, i, k) \in 0 .. 3
<1> DEFINE o == CarriersOfBatch(w.batch)
<1>1. w.batch \in Batches /\ w.at \in 1 .. Len(o) + 1 /\ w.phase \in Phases
  BY DEF CallOK
<1>2. IsCompiled(w.policy)
  BY SourceTyped DEF CallOK, IsCompiled
<1>3. AreCarriers(o)
  BY <1>1, BatchTyped
<1>4. Len(o) \in Nat /\ \A i \in 1 .. Len(o) : IsCarrier(o[i])
  BY <1>3, CarriersAreOrdered
<1>5. Len(w.carriers) = Len(o)
  <2>1. w.carriers = [i \in 1 .. Len(o) |-> CarrierAfter(w.policy, o[i], Done(w, o)[i])]
    BY DEF CallOK, Progress
  <2> QED
    BY <1>4, <2>1
<1>6. LoopsOver(w.phase) \in 0 .. 2
  BY <1>1 DEF LoopsOver, Phases
<1>7. \A i \in 1 .. Len(o) : \A k \in DOMAIN o[i].attrs : DoneAt(w, i, k) \in 0 .. 3
  BY <1>6 DEF DoneAt
<1> QED
  BY <1>2, <1>3, <1>4, <1>5, <1>7

\* The carrier a call is at.
LEMMA HereFacts ==
  ASSUME NEW w, CallOK(w), w.at <= Len(w.carriers)
  PROVE  LET o == CarriersOfBatch(w.batch)[w.at]
             here == w.carriers[w.at]
             r(k) == KeyAfter(w.policy, o, k, DoneAt(w, w.at, k))
         IN  /\ w.at \in 1 .. Len(CarriersOfBatch(w.batch))
             /\ IsCarrier(o)
             /\ here.scope = o.scope
             /\ DOMAIN here.attrs = {k \in DOMAIN o.attrs : r(k).kept}
             /\ \A k \in DOMAIN here.attrs :
                  /\ here.attrs[k] = r(k).value
                  /\ here.attrs[k] = NonString <=> o.attrs[k] = NonString
             /\ w.todo \subseteq Targets(w.policy, here, w.phase)
<1> DEFINE all == CarriersOfBatch(w.batch)
           o == all[w.at]
           here == w.carriers[w.at]
           done == Done(w, all)[w.at]
           r(k) == KeyAfter(w.policy, o, k, DoneAt(w, w.at, k))
<1>1. w.at \in 1 .. Len(all)
  BY CallFacts DEF CallOK
<1>2. here = CarrierAfter(w.policy, o, done)
  <2>1. w.carriers = [i \in 1 .. Len(all) |-> CarrierAfter(w.policy, all[i], Done(w, all)[i])]
    BY DEF CallOK, Progress
  <2> QED
    BY <1>1, <2>1
<1>3. \A k \in DOMAIN o.attrs : done[k] = DoneAt(w, w.at, k)
  BY <1>1 DEF Done
<1> HIDE DEF done
<1>4. /\ here.scope = o.scope
      /\ DOMAIN here.attrs = {k \in DOMAIN o.attrs : r(k).kept}
      /\ \A k \in DOMAIN here.attrs : here.attrs[k] = r(k).value
  <2> DEFINE kept == {k \in DOMAIN o.attrs : KeyAfter(w.policy, o, k, done[k]).kept}
  <2>1. here = [scope |-> o.scope, attrs |-> [k \in kept |-> KeyAfter(w.policy, o, k, done[k]).value]]
    BY <1>2 DEF CarrierAfter, Carrier
  <2>2. kept = {k \in DOMAIN o.attrs : r(k).kept}
    BY <1>3
  <2>3. \A k \in kept : KeyAfter(w.policy, o, k, done[k]).value = r(k).value
    BY <1>3
  <2> HIDE DEF kept, here, r
  <2> QED
    BY <2>1, <2>2, <2>3
<1>5. IsCarrier(o) /\ IsCompiled(w.policy) /\ \A k \in DOMAIN o.attrs : DoneAt(w, w.at, k) \in 0 .. 3
  BY <1>1, CallFacts
<1>6. ASSUME NEW k \in DOMAIN here.attrs PROVE here.attrs[k] = NonString <=> o.attrs[k] = NonString
  <2> DEFINE n == DoneAt(w, w.at, k)
  <2>1. k \in DOMAIN o.attrs /\ r(k).kept /\ here.attrs[k] = r(k).value /\ n \in 0 .. 3
    BY <1>4, <1>5
  <2> HIDE DEF n, o
  <2>2. IF o.attrs[k] = NonString THEN KeyAfter(w.policy, o, k, n).value = NonString
        ELSE KeyAfter(w.policy, o, k, n).value \in Strings
    BY <1>5, <2>1, KeyTyped DEF n
  <2> QED
    BY <2>1, <2>2, RedactionAssumption DEF n
<1>7. w.todo \subseteq Targets(w.policy, here, w.phase)
  BY <1>1 DEF CallOK
<1> QED
  BY <1>1, <1>4, <1>5, <1>6, <1>7

\* A call after one key of the carrier it is at.
Stepped(w, k, attrs, hits) ==
  [pc |-> w.pc, policy |-> w.policy, source |-> w.source, batch |-> w.batch,
   carriers |-> [w.carriers EXCEPT ![w.at].attrs = attrs], at |-> w.at, phase |-> w.phase,
   todo |-> w.todo \ {k}, hits |-> w.hits (+) hits]

\* The loop a call is in turns key k of its carrier into attrs, for these hits.
OneLoopOn(w, k, attrs, hits) ==
  LET o == CarriersOfBatch(w.batch)[w.at]
      n == LoopsOver(w.phase)
      next == KeyAfter(w.policy, o, k, n + 1)
      here == w.carriers[w.at].attrs
  IN  /\ k \in DOMAIN here
      /\ IsABag(hits)
      /\ \A id : Copies(id, next.hits)
                   = Copies(id, KeyAfter(w.policy, o, k, n).hits) + Copies(id, hits)
      /\ attrs = IF next.kept THEN [here EXCEPT ![k] = next.value]
                 ELSE [x \in DOMAIN here \ {k} |-> here[x]]

\* A loop does to one key what it should and leaves the others for later.
LEMMA SteppedOK ==
  ASSUME NEW w, CallOK(w), w.at <= Len(w.carriers), NEW k \in w.todo,
         NEW attrs, NEW hits, OneLoopOn(w, k, attrs, hits)
  PROVE  CallOK(Stepped(w, k, attrs, hits))
<1> USE DEF OneLoopOn
<1> DEFINE all == CarriersOfBatch(w.batch)
           p == w.policy
           at == w.at
           o == all[at]
           n == LoopsOver(w.phase)
           here == w.carriers[at]
           v == Stepped(w, k, attrs, hits)
           done == Done(w, all)
           new == Done(v, all)
<1>1. /\ v.pc = w.pc /\ v.policy = p /\ v.source = w.source /\ v.batch = w.batch
      /\ v.carriers = [w.carriers EXCEPT ![at].attrs = attrs]
      /\ v.at = at /\ v.phase = w.phase /\ v.todo = w.todo \ {k} /\ v.hits = w.hits (+) hits
      /\ v = [pc |-> v.pc, policy |-> v.policy, source |-> v.source, batch |-> v.batch,
              carriers |-> v.carriers, at |-> v.at, phase |-> v.phase, todo |-> v.todo,
              hits |-> v.hits]
  BY DEF Stepped
<1> SUFFICES CallOK(v)
  OBVIOUS
<1> HIDE DEF v
<1>2. /\ at \in 1 .. Len(all) /\ Len(all) \in Nat /\ Len(w.carriers) = Len(all)
      /\ IsCompiled(p) /\ AreCarriers(all)
  BY CallFacts, HereFacts
<1>3. k \in DOMAIN o.attrs
  BY HereFacts
<1>4. \A i \in 1 .. Len(all) : \A x \in DOMAIN all[i].attrs :
        done[i][x] = DoneAt(w, i, x) /\ new[i][x] = DoneAt(v, i, x)
  BY DEF Done
<1>5. n \in 0 .. 2
  BY DEF CallOK, LoopsOver, Phases
<1>6. DoneAt(w, at, k) = n /\ DoneAt(v, at, k) = n + 1
  <2>1. ~(at < at) /\ ~(at > at)
    BY <1>2
  <2> HIDE DEF at
  <2> QED
    BY <1>1, <2>1 DEF DoneAt, at
<1>7. \A i \in 1 .. Len(all) : \A x \in DOMAIN all[i].attrs :
        /\ DoneAt(w, i, x) \in 0 .. 3
        /\ DoneAt(v, i, x) \in 0 .. 3
        /\ <<i, x>> # <<at, k>> => DoneAt(v, i, x) = DoneAt(w, i, x)
  <2> SUFFICES ASSUME NEW i \in 1 .. Len(all), NEW x \in DOMAIN all[i].attrs
               PROVE  /\ DoneAt(w, i, x) \in 0 .. 3
                      /\ DoneAt(v, i, x) \in 0 .. 3
                      /\ <<i, x>> # <<at, k>> => DoneAt(v, i, x) = DoneAt(w, i, x)
    OBVIOUS
  <2>1. DoneAt(w, i, x) \in 0 .. 3
    BY CallFacts
  <2>2. DoneAt(v, i, x) \in 0 .. 3
    <3> HIDE DEF at, n
    <3> QED
      BY <1>1, <1>5 DEF DoneAt, n
  <2>3. ASSUME <<i, x>> # <<at, k>> PROVE DoneAt(v, i, x) = DoneAt(w, i, x)
    <3>1. CASE i # at
      <4>1. i < at \/ i > at
        BY <1>2, <3>1
      <4> QED
        BY <1>1, <4>1 DEF DoneAt
    <3>2. CASE x # k
      <4>1. x \in v.todo <=> x \in w.todo
        BY <1>1, <3>2
      <4> QED
        BY <1>1, <4>1 DEF DoneAt
    <3> QED
      BY <2>3, <3>1, <3>2
  <2> QED
    BY <2>1, <2>2, <2>3
<1>8. Progress(v.carriers, v.hits, p, all, new)
  <2>1. Progress(w.carriers, w.hits, p, all, done)
    BY DEF CallOK
  <2>2. done[at][k] = n /\ new[at][k] = n + 1
    BY <1>2, <1>3, <1>4, <1>6
  <2>3. \A i \in 1 .. Len(all) : \A x \in DOMAIN all[i].attrs :
          /\ done[i][x] \in 0 .. 3
          /\ new[i][x] \in 0 .. 3
          /\ <<i, x>> # <<at, k>> => new[i][x] = done[i][x]
    BY <1>4, <1>7
  <2>4. KeyAfter(p, o, k, done[at][k]).kept
    <3>1. KeyAfter(p, o, k, DoneAt(w, at, k)).kept
      BY HereFacts
    <3> QED
      BY <1>6, <2>2, <3>1
  <2>5. /\ \A id : Copies(id, KeyAfter(p, o, k, new[at][k]).hits)
                     = Copies(id, KeyAfter(p, o, k, done[at][k]).hits) + Copies(id, hits)
        /\ attrs = IF KeyAfter(p, o, k, new[at][k]).kept
                   THEN [here.attrs EXCEPT ![k] = KeyAfter(p, o, k, new[at][k]).value]
                   ELSE [x \in DOMAIN here.attrs \ {k} |-> here.attrs[x]]
    <3> HIDE DEF new, done
    <3> QED
      BY <2>2
  <2> DEFINE carriers == w.carriers
             was == w.hits
  <2> HIDE DEF done, new, all, p, at, carriers, was
  <2>6. Progress([carriers EXCEPT ![at].attrs = attrs], was (+) hits, p, all, new)
    <3>1. OneLoop(carriers, p, all, done, new, at, k, attrs, hits)
      BY <2>3, <2>4, <2>5 DEF OneLoop, carriers
    <3>2. Progress(carriers, was, p, all, done)
      BY <2>1 DEF carriers, was
    <3> QED
      BY ONLY <1>2, <1>3, <3>1, <3>2, IsABag(hits), OneKeyOn
  <2> QED
    BY <1>1, <2>6 DEF carriers, was, at
<1>9. at <= Len(all) => v.todo \subseteq Targets(p, v.carriers[at], w.phase)
  <2>1. v.carriers[at] = [here EXCEPT !.attrs = attrs]
    <3>1. w.carriers = [i \in 1 .. Len(all) |-> w.carriers[i]]
      BY DEF CallOK, Progress
    <3> QED
      BY <1>1, <1>2, <3>1
  <2>2. here = [scope |-> here.scope, attrs |-> here.attrs]
    <3>1. w.carriers = [i \in 1 .. Len(all) |-> CarrierAfter(p, all[i], done[i])]
      BY DEF CallOK, Progress
    <3> QED
      <4>1. here = CarrierAfter(p, o, done[at])
        BY <1>2, <3>1
      <4> HIDE DEF here, done
      <4> QED
        BY <4>1 DEF CarrierAfter, Carrier
  <2>3. v.carriers[at].scope = here.scope /\ v.carriers[at].attrs = attrs
    <3> HIDE DEF here
    <3> QED
      BY <2>1, <2>2
  <2>4. ASSUME NEW x \in v.todo PROVE x \in Targets(p, v.carriers[at], w.phase)
    <3>1. x \in w.todo /\ x # k
      BY <1>1
    <3>2. x \in Targets(p, here, w.phase)
      BY <3>1, HereFacts
    <3>3. w.phase \in Phases
      BY DEF CallOK
    <3>4. x \in DOMAIN here.attrs
      BY <3>2, <3>3 DEF Targets, Phases
    <3>5. x \in DOMAIN attrs /\ attrs[x] = here.attrs[x]
      <4>1. \/ \E value : attrs = [here.attrs EXCEPT ![k] = value]
            \/ attrs = [y \in DOMAIN here.attrs \ {k} |-> here.attrs[y]]
        OBVIOUS
      <4> HIDE DEF here
      <4> QED
        BY <3>1, <3>4, <4>1
    <3> DEFINE c == v.carriers[at]
               h == here
    <3>6. c.scope = h.scope /\ x \in DOMAIN c.attrs /\ c.attrs[x] = h.attrs[x] /\ x \in DOMAIN h.attrs
      BY <2>3, <3>4, <3>5
    <3> HIDE DEF c, h, p
    <3>7. x \in Targets(p, h, w.phase)
      BY <3>2 DEF h
    <3>8. x \in Targets(p, c, w.phase)
      BY <3>3, <3>6, <3>7 DEF Targets, Phases
    <3> QED
      BY <3>8 DEF c
  <2> QED
    BY <2>4
<1>10. /\ w.pc \in {"walking", "done"} /\ w.batch \in Batches /\ w.source \in Sources
       /\ p = Compile(w.source) /\ p # Rejected /\ w.phase \in Phases
       /\ w.at \in 1 .. Len(all) + 1
       /\ w.pc = "done" => w.at = Len(all) + 1
  BY DEF CallOK
<1> HIDE DEF new, done, here
<1> QED
  BY <1>1, <1>8, <1>9, <1>10 DEF CallOK, new

\* A call that goes on to its next loop, or to its next carrier.
Proceeded(w) ==
  LET phase == CASE w.phase = "drop" -> "tokenize"
                 [] w.phase = "tokenize" -> "mask"
                 [] w.phase = "mask" -> "drop"
      at == IF phase = "drop" THEN w.at + 1 ELSE w.at
  IN  [pc |-> w.pc, policy |-> w.policy, source |-> w.source, batch |-> w.batch,
       carriers |-> w.carriers, at |-> at, phase |-> phase,
       todo |-> TodoAt(w.policy, w.carriers, at, phase), hits |-> w.hits]

\* A loop has nothing to do with the keys that are not its targets.
LEMMA NotTargeted ==
  ASSUME NEW p, IsCompiled(p), NEW o, IsCarrier(o), NEW k \in DOMAIN o.attrs,
         NEW phase \in Phases, NEW c, c.scope = o.scope,
         KeyAfter(p, o, k, LoopsOver(phase)).kept =>
           k \in DOMAIN c.attrs /\ (c.attrs[k] = NonString <=> o.attrs[k] = NonString),
         k \notin Targets(p, c, phase)
  PROVE  KeyAfter(p, o, k, LoopsOver(phase) + 1) = KeyAfter(p, o, k, LoopsOver(phase))
<1>1. CASE phase = "drop"
  <2>1. LoopsOver(phase) = 0
    BY <1>1 DEF LoopsOver
  <2>2. ~Dropping(p, o, k)
    <3>1. SUFFICES ASSUME Dropping(p, o, k) PROVE FALSE
      OBVIOUS
    <3>2. k \in DOMAIN c.attrs
      BY <2>1, KeyUntouched
    <3> QED
      BY <1>1, <3>1, <3>2 DEF Targets, Dropping
  <2> QED
    BY <2>1, <2>2, KeyDropped
<1>2. CASE phase = "tokenize"
  <2>1. LoopsOver(phase) = 1
    BY <1>2 DEF LoopsOver
  <2>2. ~Tokenizing(p, o, k) \/ Dropping(p, o, k)
    <3>1. SUFFICES ASSUME Tokenizing(p, o, k), ~Dropping(p, o, k) PROVE FALSE
      OBVIOUS
    <3>2. k \in DOMAIN c.attrs /\ c.attrs[k] # NonString
      BY <2>1, <3>1, KeyTokenized DEF Tokenizing
    <3> QED
      BY <1>2, <3>1, <3>2 DEF Targets, Tokenizing
  <2>3. KeyAfter(p, o, k, 2) = KeyAfter(p, o, k, 1)
    BY <2>2, KeyTokenized
  <2> QED
    BY <2>1, <2>3
<1>3. CASE phase = "mask"
  <2>1. LoopsOver(phase) = 2
    BY <1>3 DEF LoopsOver
  <2>2. \/ o.attrs[k] = NonString
        \/ Dropping(p, o, k)
        \/ <<o.scope, k>> \notin DOMAIN p.masks
    <3>1. SUFFICES ASSUME o.attrs[k] # NonString, ~Dropping(p, o, k),
                          <<o.scope, k>> \in DOMAIN p.masks
                   PROVE  FALSE
      OBVIOUS
    <3>2. k \in DOMAIN c.attrs /\ c.attrs[k] # NonString
      BY <2>1, <3>1, KeyMasked
    <3> QED
      BY <1>3, <3>1, <3>2 DEF Targets
  <2>3. KeyAfter(p, o, k, 3) = KeyAfter(p, o, k, 2)
    BY <2>2, KeyMasked
  <2> QED
    BY <2>1, <2>3
<1> QED
  BY <1>1, <1>2, <1>3 DEF Phases

\* Before a call goes on, its loop has nothing left to do on this carrier.
LEMMA ProceededOK ==
  ASSUME NEW w, CallOK(w), w.pc = "walking", w.at <= Len(w.carriers), w.todo = {}
  PROVE  CallOK(Proceeded(w))
<1> DEFINE all == CarriersOfBatch(w.batch)
           p == w.policy
           v == Proceeded(w)
           done == Done(w, all)
           new == Done(v, all)
<1>1. /\ v.pc = w.pc /\ v.policy = p /\ v.source = w.source /\ v.batch = w.batch
      /\ v.carriers = w.carriers /\ v.hits = w.hits
      /\ v.phase = CASE w.phase = "drop" -> "tokenize"
                     [] w.phase = "tokenize" -> "mask"
                     [] w.phase = "mask" -> "drop"
      /\ v.at = IF v.phase = "drop" THEN w.at + 1 ELSE w.at
      /\ v.todo = TodoAt(p, w.carriers, v.at, v.phase)
      /\ v = [pc |-> v.pc, policy |-> v.policy, source |-> v.source, batch |-> v.batch,
              carriers |-> v.carriers, at |-> v.at, phase |-> v.phase, todo |-> v.todo,
              hits |-> v.hits]
  <2> DEFINE next == CASE w.phase = "drop" -> "tokenize"
                       [] w.phase = "tokenize" -> "mask"
                       [] w.phase = "mask" -> "drop"
             place == IF next = "drop" THEN w.at + 1 ELSE w.at
             todo == TodoAt(w.policy, w.carriers, place, next)
  <2>1. v = [pc |-> w.pc, policy |-> w.policy, source |-> w.source, batch |-> w.batch,
             carriers |-> w.carriers, at |-> place, phase |-> next, todo |-> todo,
             hits |-> w.hits]
    BY DEF Proceeded
  <2> HIDE DEF v, place, todo
  <2>2. /\ v.pc = w.pc /\ v.policy = p /\ v.source = w.source /\ v.batch = w.batch
        /\ v.carriers = w.carriers /\ v.hits = w.hits
        /\ v.phase = next /\ v.at = place /\ v.todo = todo
        /\ v = [pc |-> v.pc, policy |-> v.policy, source |-> v.source, batch |-> v.batch,
                carriers |-> v.carriers, at |-> v.at, phase |-> v.phase, todo |-> v.todo,
                hits |-> v.hits]
    <3> HIDE DEF next
    <3> QED
      BY <2>1
  <2>3. place = (IF v.phase = "drop" THEN w.at + 1 ELSE w.at) /\ todo = TodoAt(p, w.carriers, v.at, v.phase)
    <3> HIDE DEF next
    <3> QED
      BY <2>2 DEF place, todo
  <2>4. v.phase = CASE w.phase = "drop" -> "tokenize"
                    [] w.phase = "tokenize" -> "mask"
                    [] w.phase = "mask" -> "drop"
    BY <2>2
  <2> HIDE DEF next
  <2> QED
    BY <2>2, <2>3, <2>4
<1> SUFFICES CallOK(v)
  OBVIOUS
<1> HIDE DEF v
<1>2. /\ Len(all) \in Nat /\ Len(w.carriers) = Len(all)
      /\ IsCompiled(p)
      /\ \A i \in 1 .. Len(all) : IsCarrier(all[i])
      /\ w.at \in 1 .. Len(all)
      /\ w.phase \in Phases
  BY CallFacts, HereFacts DEF CallOK
<1>3. /\ v.phase \in Phases
      /\ v.at \in 1 .. Len(all) + 1
      /\ v.at <= Len(all) => v.todo = Targets(p, w.carriers[v.at], v.phase)
  <2>1. v.phase \in Phases
    BY <1>1, <1>2 DEF Phases
  <2>2. v.at \in 1 .. Len(all) + 1
    BY <1>1, <1>2
  <2>3. v.at <= Len(all) => ~(v.at > Len(w.carriers))
    BY <1>2, <2>2
  <2> QED
    BY <1>1, <2>1, <2>2, <2>3 DEF TodoAt
<1>4. ASSUME NEW i \in 1 .. Len(all), NEW k \in DOMAIN all[i].attrs
      PROVE  KeyAfter(p, all[i], k, DoneAt(v, i, k)) = KeyAfter(p, all[i], k, DoneAt(w, i, k))
  <2>1. DoneAt(w, w.at, k) = LoopsOver(w.phase) + 1
    <3>1. ~(w.at < w.at) /\ ~(w.at > w.at)
      BY <1>2
    <3> QED
      BY <3>1 DEF DoneAt
  <2>2. DoneAt(v, v.at, k) = IF k \in v.todo THEN LoopsOver(v.phase) ELSE LoopsOver(v.phase) + 1
    <3>1. ~(v.at < v.at) /\ ~(v.at > v.at)
      BY <1>3
    <3> QED
      BY <3>1 DEF DoneAt
  <2>3. CASE w.phase # "mask"
    <3>1. v.at = w.at /\ LoopsOver(v.phase) = LoopsOver(w.phase) + 1
      BY <1>1, <1>2, <2>3 DEF LoopsOver, Phases
    <3>2. CASE i # w.at
      <4>1. i < w.at \/ i > w.at
        BY <1>2, <3>2
      <4> QED
        BY <3>1, <4>1 DEF DoneAt
    <3>3. CASE i = w.at
      <4> DEFINE o == all[i]
                 c == w.carriers[i]
                 n == LoopsOver(v.phase)
      <4>1. DoneAt(w, i, k) = n /\ DoneAt(v, i, k) = IF k \in v.todo THEN n ELSE n + 1
        BY <2>1, <2>2, <3>1, <3>3
      <4>2. CASE k \in v.todo
        BY <4>1, <4>2
      <4>3. CASE k \notin v.todo
        <5>1. k \notin Targets(p, c, v.phase)
          BY <1>2, <1>3, <3>1, <3>3, <4>3
        <5>2. /\ IsCarrier(o) /\ c.scope = o.scope
              /\ KeyAfter(p, o, k, n).kept =>
                   k \in DOMAIN c.attrs /\ (c.attrs[k] = NonString <=> o.attrs[k] = NonString)
          BY <1>2, <3>3, <4>1, HereFacts
        <5> HIDE DEF o, c, p
        <5>3. KeyAfter(p, o, k, n + 1) = KeyAfter(p, o, k, n)
          BY <1>2, <1>3, <5>1, <5>2, NotTargeted DEF o
        <5> QED
          BY <4>1, <4>3, <5>3 DEF o
      <4> QED
        BY <4>2, <4>3
    <3> QED
      BY <3>2, <3>3
  <2>4. CASE w.phase = "mask"
    <3>1. v.at = w.at + 1 /\ v.phase = "drop" /\ LoopsOver(w.phase) = 2 /\ LoopsOver(v.phase) = 0
      BY <1>1, <2>4 DEF LoopsOver
    <3>2. CASE i < w.at \/ i > w.at + 1
      <4>1. (i < w.at /\ i < v.at) \/ (i > w.at /\ i > v.at /\ ~(i < w.at) /\ ~(i < v.at))
        BY <1>2, <3>1, <3>2
      <4> QED
        BY <4>1 DEF DoneAt
    <3>3. CASE i = w.at
      <4>1. i < v.at
        BY <1>2, <3>1, <3>3
      <4> QED
        BY <2>1, <3>1, <3>3, <4>1 DEF DoneAt
    <3>4. CASE i = w.at + 1
      <4> DEFINE o == all[i]
                 c == w.carriers[i]
      <4>1. DoneAt(v, i, k) = IF k \in v.todo THEN 0 ELSE 1
        BY <2>2, <3>1, <3>4
      <4>2. \A x : DoneAt(w, i, x) = 0
        <5>1. i > w.at /\ ~(i < w.at)
          BY <1>2, <3>4
        <5> QED
          BY <5>1 DEF DoneAt
      <4>3. CASE k \in v.todo
        BY <4>1, <4>2, <4>3
      <4>4. CASE k \notin v.todo
        <5>1. k \notin Targets(p, c, v.phase)
          BY <1>2, <1>3, <3>1, <3>4, <4>4
        <5>2. c = CarrierAfter(p, o, done[i])
          <6>1. w.carriers = [j \in 1 .. Len(all) |-> CarrierAfter(p, all[j], done[j])]
            BY DEF CallOK, Progress
          <6> QED
            BY <6>1
        <5>3. \A x \in DOMAIN o.attrs : done[i][x] = 0
          BY <4>2 DEF Done
        <5> HIDE DEF done, p, c, o
        <5>4. c.scope = o.scope /\ DOMAIN c.attrs = DOMAIN o.attrs /\ c.attrs[k] = o.attrs[k]
          <6> DEFINE kept == {x \in DOMAIN o.attrs : KeyAfter(p, o, x, done[i][x]).kept}
          <6>1. kept = DOMAIN o.attrs
            BY <5>3, KeyUntouched
          <6>2. c = [scope |-> o.scope, attrs |-> [x \in kept |-> KeyAfter(p, o, x, done[i][x]).value]]
            BY <5>2 DEF CarrierAfter, Carrier
          <6>3. k \in DOMAIN o.attrs
            BY DEF o
          <6>4. KeyAfter(p, o, k, done[i][k]).value = o.attrs[k]
            BY <5>3, <6>3, KeyUntouched
          <6> HIDE DEF kept
          <6> QED
            BY <6>1, <6>2, <6>3, <6>4
        <5>5. KeyAfter(p, o, k, LoopsOver(v.phase) + 1) = KeyAfter(p, o, k, LoopsOver(v.phase))
          <6>1. IsCarrier(o) /\ k \in DOMAIN o.attrs
            BY <1>2 DEF o
          <6> QED
            BY <1>2, <1>3, <5>1, <5>4, <6>1, NotTargeted
        <5>6. KeyAfter(p, o, k, 1) = KeyAfter(p, o, k, 0)
          BY <3>1, <5>5
        <5> QED
          BY <4>1, <4>2, <4>4, <5>6 DEF o
      <4> QED
        BY <4>3, <4>4
    <3>5. i < w.at \/ i = w.at \/ i = w.at + 1 \/ i > w.at + 1
      <4>1. i \in Int /\ w.at \in Int
        BY <1>2
      <4> QED
        BY ONLY <4>1
    <3> QED
      BY <3>2, <3>3, <3>4, <3>5
  <2> QED
    BY <2>3, <2>4
<1>5. Progress(v.carriers, v.hits, p, all, new)
  <2>1. Progress(w.carriers, w.hits, p, all, done)
    BY DEF CallOK
  <2>2. \A i \in 1 .. Len(all) : \A k \in DOMAIN all[i].attrs :
          KeyAfter(p, all[i], k, new[i][k]) = KeyAfter(p, all[i], k, done[i][k])
    <3>1. \A i \in 1 .. Len(all) : \A k \in DOMAIN all[i].attrs :
            new[i][k] = DoneAt(v, i, k) /\ done[i][k] = DoneAt(w, i, k)
      BY DEF Done
    <3> HIDE DEF new, done
    <3> QED
      BY <1>4, <3>1
  <2> HIDE DEF new, done, all, p
  <2>3. Progress(w.carriers, w.hits, p, all, new)
    BY ONLY <2>1, <2>2, NothingToDo
  <2> QED
    BY <1>1, <2>3
<1>6. v.at <= Len(all) => v.todo \subseteq Targets(p, v.carriers[v.at], v.phase)
  BY <1>1, <1>3
<1>7. /\ w.batch \in Batches /\ w.source \in Sources
      /\ p = Compile(w.source) /\ p # Rejected
  BY DEF CallOK
<1> HIDE DEF new, done
<1> QED
  BY <1>1, <1>3, <1>5, <1>6, <1>7 DEF CallOK, new

\* A call that begins has everything before it.
LEMMA BegunOK ==
  ASSUME NEW batch \in Batches, NEW file \in Sources, NEW p, p = Compile(file), p # Rejected,
         NEW w,
         w = [pc |-> "walking", policy |-> p, source |-> file, batch |-> batch,
              carriers |-> CarriersOfBatch(batch), at |-> 1, phase |-> "drop",
              todo |-> TodoAt(p, CarriersOfBatch(batch), 1, "drop"), hits |-> EmptyBag]
  PROVE  CallOK(w)
<1> DEFINE all == CarriersOfBatch(batch)
           done == [i \in 1 .. Len(all) |-> [k \in DOMAIN all[i].attrs |-> 0]]
           new == Done(w, all)
<1>1. /\ w.pc = "walking" /\ w.policy = p /\ w.source = file /\ w.batch = batch
      /\ w.carriers = all /\ w.hits = EmptyBag /\ w.phase = "drop" /\ w.at = 1
      /\ w.todo = TodoAt(p, all, 1, "drop")
      /\ w = [pc |-> w.pc, policy |-> w.policy, source |-> w.source, batch |-> w.batch,
              carriers |-> w.carriers, at |-> w.at, phase |-> w.phase, todo |-> w.todo,
              hits |-> w.hits]
  OBVIOUS
<1>2. /\ AreCarriers(all) /\ Len(all) \in Nat /\ all = [i \in 1 .. Len(all) |-> all[i]]
      /\ \A i \in 1 .. Len(all) : IsCarrier(all[i])
  BY BatchTyped, CarriersAreOrdered
<1>3. IsCompiled(p)
  BY SourceTyped DEF IsCompiled
<1>4. 1 <= Len(all) => w.todo = Targets(p, all[1], "drop")
  <2>1. 1 <= Len(all) => ~(1 > Len(all))
    BY <1>2
  <2> HIDE DEF all
  <2> QED
    BY <1>1, <2>1 DEF TodoAt
<1>5. Progress(all, EmptyBag, p, all, done)
  <2>1. ASSUME NEW i \in 1 .. Len(all) PROVE CarrierAfter(p, all[i], done[i]) = all[i]
    <3> DEFINE o == all[i]
               a == o.attrs
               kept == {k \in DOMAIN a : KeyAfter(p, o, k, done[i][k]).kept}
    <3>1. \A k \in DOMAIN a : done[i][k] = 0
      OBVIOUS
    <3>2. o = [scope |-> o.scope, attrs |-> a] /\ a = [k \in DOMAIN a |-> a[k]]
      BY <1>2 DEF IsCarrier, IsMap
    <3> HIDE DEF done
    <3>3. kept = DOMAIN a /\ \A k \in DOMAIN a : KeyAfter(p, o, k, done[i][k]).value = a[k]
      BY <3>1, KeyUntouched
    <3>4. CarrierAfter(p, o, done[i]) = [scope |-> o.scope, attrs |-> [k \in kept |-> KeyAfter(p, o, k, done[i][k]).value]]
      BY DEF CarrierAfter, Carrier
    <3> HIDE DEF kept, a, o
    <3>5. [k \in kept |-> KeyAfter(p, o, k, done[i][k]).value] = a
      BY <3>2, <3>3
    <3> QED
      BY <3>2, <3>4, <3>5 DEF o
  <2>2. ASSUME NEW id
        PROVE  Copies(id, EmptyBag)
                 = Total([i \in 1 .. Len(all) |-> CountAfter(p, all[i], done[i], id)], 1 .. Len(all))
    <3>1. ASSUME NEW i \in 1 .. Len(all) PROVE CountAfter(p, all[i], done[i], id) = 0
      <4> DEFINE o == all[i]
                 D == DOMAIN o.attrs
                 f == [k \in D |-> Copies(id, KeyAfter(p, o, k, done[i][k]).hits)]
      <4>1. IsFiniteSet(D)
        BY <1>2 DEF IsCarrier, IsMap
      <4>2. \A k \in D : done[i][k] = 0
        OBVIOUS
      <4> HIDE DEF done
      <4>3. ASSUME NEW k \in D PROVE f[k] = 0
        <5>1. done[i][k] = 0
          BY <4>2
        <5>2. Copies(id, KeyAfter(p, o, k, 0).hits) = 0
          BY KeyUntouched
        <5> HIDE DEF o
        <5> QED
          BY <5>1, <5>2
      <4>4. CountAfter(p, o, done[i], id) = Total(f, D)
        BY DEF CountAfter
      <4> HIDE DEF f, D
      <4>5. Total(f, D) = 0
        BY ONLY <4>1, <4>3, TotalZero
      <4> QED
        BY <4>4, <4>5
    <3> DEFINE g == [i \in 1 .. Len(all) |-> CountAfter(p, all[i], done[i], id)]
               places == 1 .. Len(all)
    <3>2. \A i \in places : g[i] = 0
      BY <3>1
    <3>3. IsFiniteSet(places)
      <4>1. 1 \in Int /\ Len(all) \in Int
        BY <1>2
      <4> HIDE DEF all
      <4> QED
        BY ONLY <4>1, FS_Interval DEF places
    <3> HIDE DEF g, places
    <3>4. Total(g, places) = 0
      BY ONLY <3>2, <3>3, TotalZero
    <3> QED
      BY <3>4, NoHits DEF g, places
  <2>3. all = [i \in 1 .. Len(all) |-> CarrierAfter(p, all[i], done[i])]
    <3> HIDE DEF all, done
    <3> QED
      BY <1>2, <2>1
  <2> HIDE DEF all, done
  <2> QED
    BY <2>2, <2>3, NoHits DEF Progress
<1>6. ASSUME NEW i \in 1 .. Len(all), NEW k \in DOMAIN all[i].attrs
      PROVE  KeyAfter(p, all[i], k, new[i][k]) = KeyAfter(p, all[i], k, done[i][k])
  <2>1. new[i][k] = DoneAt(w, i, k) /\ done[i][k] = 0 /\ LoopsOver("drop") = 0
    BY DEF Done, LoopsOver
  <2>2. CASE i # 1
    <3>1. i > 1 /\ ~(i < 1)
      BY <1>2, <2>2
    <3>2. DoneAt(w, i, k) = 0
      BY <1>1, <3>1 DEF DoneAt
    <3> HIDE DEF new, done
    <3> QED
      BY <2>1, <3>2
  <2>3. CASE i = 1
    <3>1. DoneAt(w, i, k) = IF k \in w.todo THEN 0 ELSE 1
      <4>1. ~(1 < 1) /\ ~(1 > 1) /\ LoopsOver("drop") = 0
        BY <2>1
      <4> QED
        BY <1>1, <2>3, <4>1 DEF DoneAt
    <3>2. CASE k \in w.todo
      <4> HIDE DEF new, done
      <4> QED
        BY <2>1, <3>1, <3>2
    <3>3. CASE k \notin w.todo
      <4> DEFINE o == all[i]
      <4>1. k \notin Targets(p, o, "drop") /\ IsCarrier(o) /\ k \in DOMAIN o.attrs
        BY <1>2, <1>4, <2>3, <3>3
      <4>2. "drop" \in Phases
        BY DEF Phases
      <4> HIDE DEF o
      <4>3. KeyAfter(p, o, k, LoopsOver("drop") + 1) = KeyAfter(p, o, k, LoopsOver("drop"))
        BY <1>3, <4>1, <4>2, NotTargeted
      <4>4. KeyAfter(p, o, k, 1) = KeyAfter(p, o, k, 0)
        BY <2>1, <4>3
      <4> HIDE DEF new, done
      <4> QED
        BY <2>1, <3>1, <3>3, <4>4 DEF o
    <3> QED
      BY <3>2, <3>3
  <2> QED
    BY <2>2, <2>3
<1>7. Progress(all, EmptyBag, p, all, new)
  <2> HIDE DEF new, done, all
  <2> QED
    BY ONLY <1>5, <1>6, NothingToDo
<1>8. 1 \in 1 .. Len(all) + 1 /\ "drop" \in Phases
  BY <1>2 DEF Phases
<1> HIDE DEF new, done, all
<1> QED
  BY <1>1, <1>4, <1>7, <1>8 DEF CallOK, new, all
-----------------------------------------------------------------------------
(* The steps of the calls.                                                 *)

\* What a call still has to do to a key, the loop it is in included.
LEMMA TodoFacts ==
  ASSUME NEW w, CallOK(w), w.at <= Len(w.carriers), NEW k \in w.todo
  PROVE  LET o == CarriersOfBatch(w.batch)[w.at]
             here == w.carriers[w.at].attrs
             r == KeyAfter(w.policy, o, k, LoopsOver(w.phase))
         IN  /\ IsCompiled(w.policy) /\ IsCarrier(o) /\ k \in DOMAIN o.attrs
             /\ k \in DOMAIN here /\ r.kept /\ here[k] = r.value
             /\ here[k] = NonString <=> o.attrs[k] = NonString
             /\ w.phase = "drop" => Dropping(w.policy, o, k)
             /\ w.phase = "tokenize" => Tokenizing(w.policy, o, k)
             /\ w.phase = "mask" => o.attrs[k] # NonString
<1> DEFINE all == CarriersOfBatch(w.batch)
           o == all[w.at]
           c == w.carriers[w.at]
           p == w.policy
<1>1. k \in Targets(p, c, w.phase) /\ w.phase \in Phases /\ IsCompiled(p) /\ w.at \in Nat
  BY HereFacts, CallFacts DEF CallOK
<1>2. DoneAt(w, w.at, k) = LoopsOver(w.phase)
  <2>1. ~(w.at < w.at) /\ ~(w.at > w.at)
    BY <1>1
  <2> QED
    BY <2>1 DEF DoneAt
<1>3. k \in DOMAIN c.attrs
  BY <1>1 DEF Targets, Phases
<1>4. /\ IsCarrier(o) /\ c.scope = o.scope
      /\ k \in DOMAIN o.attrs /\ KeyAfter(p, o, k, DoneAt(w, w.at, k)).kept
      /\ c.attrs[k] = KeyAfter(p, o, k, DoneAt(w, w.at, k)).value
      /\ c.attrs[k] = NonString <=> o.attrs[k] = NonString
  BY <1>3, HereFacts
<1> HIDE DEF all, o, c, p
<1>5. w.phase = "drop" => Dropping(p, o, k)
  BY <1>1, <1>4 DEF Targets, Dropping
<1>6. w.phase = "tokenize" => Tokenizing(p, o, k)
  BY <1>1, <1>4 DEF Targets, Tokenizing
<1>7. w.phase = "mask" => o.attrs[k] # NonString
  BY <1>1, <1>4 DEF Targets
<1>8. KeyAfter(p, o, k, LoopsOver(w.phase)).kept /\ c.attrs[k] = KeyAfter(p, o, k, LoopsOver(w.phase)).value
  BY <1>2, <1>4
<1> QED
  BY <1>1, <1>3, <1>4, <1>5, <1>6, <1>7, <1>8 DEF all, o, c, p

\* The first loop takes a key and drops it.
LEMMA DropIsOneLoop ==
  ASSUME NEW w, CallOK(w), w.at <= Len(w.carriers), NEW k \in w.todo, w.phase = "drop"
  PROVE  LET here == w.carriers[w.at].attrs
         IN  OneLoopOn(w, k, [x \in DOMAIN here \ {k} |-> here[x]], Hits(w.policy.drop[k], 1))
<1> DEFINE o == CarriersOfBatch(w.batch)[w.at]
           here == w.carriers[w.at].attrs
           p == w.policy
           hits == Hits(p.drop[k], 1)
<1>1. LoopsOver(w.phase) = 0
  BY DEF LoopsOver
<1>2. k \in DOMAIN here /\ Dropping(p, o, k)
  BY TodoFacts
<1>3. ~KeyAfter(p, o, k, 1).kept /\ KeyAfter(p, o, k, 1).hits = hits
  BY <1>2, KeyDropped
<1>4. IsABag(hits)
  BY HitsAreBags
<1>5. ASSUME NEW id PROVE Copies(id, hits) = Copies(id, KeyAfter(p, o, k, 0).hits) + Copies(id, hits)
  <2>1. Copies(id, KeyAfter(p, o, k, 0).hits) = 0
    BY KeyUntouched
  <2>2. Copies(id, hits) \in Nat
    BY <1>4, CopiesNatural
  <2> HIDE DEF hits, o
  <2> QED
    BY <2>1, <2>2
<1> HIDE DEF hits
<1>6. 0 + 1 = 1
  OBVIOUS
<1> QED
  BY <1>1, <1>2, <1>3, <1>4, <1>5, <1>6 DEF OneLoopOn, hits

\* The second loop takes a key and hashes its value.
LEMMA TokenizeIsOneLoop ==
  ASSUME NEW w, CallOK(w), w.at <= Len(w.carriers), NEW k \in w.todo, w.phase = "tokenize"
  PROVE  LET here == w.carriers[w.at].attrs
             owner == w.policy.tokens[k]
         IN  OneLoopOn(w, k, [here EXCEPT ![k] = HmacToken(owner.secret, @)], Hits(owner.id, 1))
<1> DEFINE o == CarriersOfBatch(w.batch)[w.at]
           here == w.carriers[w.at].attrs
           p == w.policy
           hits == Hits(p.tokens[k].id, 1)
           token == HmacToken(p.tokens[k].secret, here[k])
<1>1. LoopsOver(w.phase) = 1
  BY DEF LoopsOver
<1>2. /\ k \in DOMAIN here /\ Tokenizing(p, o, k)
      /\ KeyAfter(p, o, k, 1).kept /\ here[k] = KeyAfter(p, o, k, 1).value
  BY <1>1, TodoFacts
<1>3. ~Dropping(p, o, k)
  BY <1>2, KeyDropped
<1>4. /\ KeyAfter(p, o, k, 2).kept
      /\ KeyAfter(p, o, k, 2).value = token
      /\ \A id : Copies(id, KeyAfter(p, o, k, 2).hits)
                   = Copies(id, KeyAfter(p, o, k, 1).hits) + Copies(id, hits)
  BY <1>2, <1>3, KeyTokenized
<1>5. IsABag(hits)
  BY HitsAreBags
<1>6. [here EXCEPT ![k] = HmacToken(p.tokens[k].secret, @)] = [here EXCEPT ![k] = token]
  OBVIOUS
<1> HIDE DEF hits, token
<1>7. 1 + 1 = 2
  OBVIOUS
<1> QED
  BY <1>1, <1>2, <1>4, <1>5, <1>6, <1>7 DEF OneLoopOn, hits

\* The third takes a key and applies the masks of its field.
LEMMA MaskIsOneLoop ==
  ASSUME NEW w, CallOK(w), w.at <= Len(w.carriers), NEW k \in w.todo, w.phase = "mask"
  PROVE  LET here == w.carriers[w.at]
             masked == ApplyMaskRules(here.attrs[k], MasksAt(w.policy.masks, <<here.scope, k>>))
         IN  OneLoopOn(w, k, [here.attrs EXCEPT ![k] = masked.str], masked.hits)
<1> DEFINE o == CarriersOfBatch(w.batch)[w.at]
           here == w.carriers[w.at]
           p == w.policy
           masked == ApplyMaskRules(here.attrs[k], MasksAt(p.masks, <<here.scope, k>>))
<1>1. LoopsOver(w.phase) = 2
  BY DEF LoopsOver
<1>2. /\ IsCompiled(p) /\ IsCarrier(o) /\ k \in DOMAIN o.attrs
      /\ k \in DOMAIN here.attrs /\ o.attrs[k] # NonString
      /\ KeyAfter(p, o, k, 2).kept /\ here.attrs[k] = KeyAfter(p, o, k, 2).value
  BY <1>1, TodoFacts
<1>3. ~Dropping(p, o, k)
  BY <1>2, KeyDropped, KeyTokenized
<1>4. masked = ApplyMaskRules(KeyAfter(p, o, k, 2).value, MasksAt(p.masks, <<o.scope, k>>))
  BY <1>2, HereFacts
<1>5. /\ KeyAfter(p, o, k, 3).kept
      /\ KeyAfter(p, o, k, 3).value = masked.str
      /\ IsABag(masked.hits)
      /\ \A id : Copies(id, KeyAfter(p, o, k, 3).hits)
                   = Copies(id, KeyAfter(p, o, k, 2).hits) + Copies(id, masked.hits)
  <2> HIDE DEF o, p
  <2> QED
    BY <1>2, <1>3, <1>4, KeyMasked
<1> HIDE DEF masked
<1>6. 2 + 1 = 3
  OBVIOUS
<1> QED
  BY <1>1, <1>2, <1>5, <1>6 DEF OneLoopOn, masked
\* Call c has become v, and the others are as they were.
Becomes(c, v) == CallOK(v) /\ call' = [call EXCEPT ![c] = v]

Begins(c, v) ==
  /\ call[c] = Idle
  /\ v.pc = "walking"
  /\ v.hits = EmptyBag
  /\ UNCHANGED <<recorded, audited>>

\* The hits of one key, to the tally and to the recorder.
HitsOne(c, v, hits) ==
  /\ call[c].pc = "walking"
  /\ v.pc = "walking"
  /\ IsABag(hits)
  /\ v.hits = call[c].hits (+) hits
  /\ recorded' = recorded (+) hits
  /\ audited' = audited

GoesOn(c, v) ==
  /\ call[c].pc = "walking"
  /\ v.pc = "walking"
  /\ v.hits = call[c].hits
  /\ UNCHANGED <<recorded, audited>>

Ends(c, v) ==
  /\ call[c].pc = "walking"
  /\ v.pc = "done"
  /\ v.hits = call[c].hits
  /\ audited' = audited (+) call[c].hits
  /\ recorded' = recorded

Moves(c, v) == Begins(c, v) \/ (\E hits : HitsOne(c, v, hits)) \/ GoesOn(c, v) \/ Ends(c, v)

\* A call that walks is one that has begun.
LEMMA WalkingIsOK ==
  ASSUME CallsOK, NEW c \in Calls, call[c].pc = "walking"
  PROVE  CallOK(call[c])
BY DEF CallsOK, Idle

\* Begin gives an idle call the policy that is active.
LEMMA BeginMoves ==
  ASSUME PolicyOK, CallsOK, NEW c \in Calls, NEW batch \in Batches, Begin(c, batch)
  PROVE  \E v : Becomes(c, v) /\ Moves(c, v)
<1> DEFINE v == [pc |-> "walking", policy |-> policy, source |-> source, batch |-> batch,
                 carriers |-> CarriersOfBatch(batch), at |-> 1, phase |-> "drop",
                 todo |-> TodoAt(policy, CarriersOfBatch(batch), 1, "drop"), hits |-> EmptyBag]
<1>1. v.pc = "walking" /\ v.hits = EmptyBag
  OBVIOUS
<1>2. call[c] = Idle /\ call' = [call EXCEPT ![c] = v] /\ UNCHANGED <<recorded, audited>>
  BY DEF Begin
<1>3. CallOK(v)
  <2>1. source \in Sources /\ policy = Compile(source) /\ policy # Rejected
    BY DEF PolicyOK
  <2>2. PICK w : w = v
    OBVIOUS
  <2>3. CallOK(w)
    BY <2>1, <2>2, BegunOK
  <2> HIDE DEF v
  <2> QED
    BY <2>2, <2>3
<1> HIDE DEF v
<1> QED
  BY <1>1, <1>2, <1>3 DEF Becomes, Moves, Begins

\* A step that does to one key what the loop does.
LEMMA KeyMoves ==
  ASSUME CallsOK, NEW c \in Calls, Working(c), NEW k \in call[c].todo, NEW attrs, NEW hits,
         Step(c, k, attrs, hits), OneLoopOn(call[c], k, attrs, hits)
  PROVE  \E v : Becomes(c, v) /\ Moves(c, v)
<1> DEFINE w == call[c]
           v == Stepped(w, k, attrs, hits)
<1>1. w.pc = "walking" /\ w.at <= Len(w.carriers) /\ CallOK(w)
  BY WalkingIsOK DEF Working
<1>2. CallOK(v)
  BY <1>1, SteppedOK
<1>3. v.pc = w.pc /\ v.hits = w.hits (+) hits
  BY DEF Stepped
<1>4. call' = [call EXCEPT ![c] = v]
  <2>1. w = [pc |-> w.pc, policy |-> w.policy, source |-> w.source, batch |-> w.batch,
             carriers |-> w.carriers, at |-> w.at, phase |-> w.phase, todo |-> w.todo,
             hits |-> w.hits]
    BY <1>1 DEF CallOK
  <2>2. call = [x \in Calls |-> call[x]]
    BY DEF CallsOK
  <2>3. call' = [call EXCEPT ![c] = [w EXCEPT !.carriers[w.at].attrs = attrs,
                                              !.todo = @ \ {k}, !.hits = @ (+) hits]]
    BY <2>2 DEF Step
  <2>4. [w EXCEPT !.carriers[w.at].attrs = attrs, !.todo = @ \ {k}, !.hits = @ (+) hits] = v
    <3> DEFINE carriers == [w.carriers EXCEPT ![w.at].attrs = attrs]
               w1 == [w EXCEPT !.carriers = carriers]
               w2 == [w1 EXCEPT !.todo = w.todo \ {k}]
    <3> HIDE DEF w, carriers
    <3>1. w1 = [pc |-> w.pc, policy |-> w.policy, source |-> w.source, batch |-> w.batch,
                  carriers |-> carriers, at |-> w.at, phase |-> w.phase, todo |-> w.todo,
                  hits |-> w.hits]
      BY <2>1
    <3> HIDE DEF w1
    <3>2. w2 = [pc |-> w.pc, policy |-> w.policy, source |-> w.source, batch |-> w.batch,
                  carriers |-> carriers, at |-> w.at, phase |-> w.phase, todo |-> w.todo \ {k},
                  hits |-> w.hits]
      BY <3>1
    <3>3. w1.todo = w.todo /\ w2.hits = w.hits
      BY <3>1, <3>2
    <3>4. [w2 EXCEPT !.hits = w.hits (+) hits] = v
      <4> DEFINE total == w.hits (+) hits
      <4>1. v = [pc |-> w.pc, policy |-> w.policy, source |-> w.source, batch |-> w.batch,
                 carriers |-> carriers, at |-> w.at, phase |-> w.phase, todo |-> w.todo \ {k},
                 hits |-> total]
        BY DEF Stepped, carriers
      <4> HIDE DEF w2, v, total
      <4>2. [w2 EXCEPT !.hits = total] = v
        BY <3>2, <4>1
      <4> QED
        BY <4>2 DEF total
    <3>5. [w EXCEPT !.carriers[w.at].attrs = attrs] = w1
      BY DEF w1, carriers
    <3> HIDE DEF v
    <3>6. [w EXCEPT !.carriers[w.at].attrs = attrs, !.todo = @ \ {k}, !.hits = @ (+) hits]
            = [[w1 EXCEPT !.todo = @ \ {k}] EXCEPT !.hits = @ (+) hits]
      BY <3>5
    <3>7. [w1 EXCEPT !.todo = @ \ {k}] = w2
      BY <3>3
    <3> HIDE DEF w2
    <3> QED
      BY <3>3, <3>4, <3>6, <3>7
  <2> HIDE DEF w, v
  <2> QED
    BY <2>3, <2>4
<1>5. IsABag(hits) /\ recorded' = recorded (+) hits /\ audited' = audited
  BY DEF OneLoopOn, Step
<1> HIDE DEF v
<1> QED
  BY <1>1, <1>2, <1>3, <1>4, <1>5 DEF Becomes, Moves, HitsOne

\* Advance takes a call to its next loop and counts nothing.
LEMMA AdvanceMoves ==
  ASSUME CallsOK, NEW c \in Calls, Advance(c)
  PROVE  \E v : Becomes(c, v) /\ Moves(c, v)
<1> DEFINE w == call[c]
           v == Proceeded(w)
<1>1. w.pc = "walking" /\ w.at <= Len(w.carriers) /\ CallOK(w) /\ w.todo = {}
  BY WalkingIsOK DEF Advance, Proceed, Working
<1>2. CallOK(v)
  BY <1>1, ProceededOK
<1>3. v.pc = w.pc /\ v.hits = w.hits
  BY DEF Proceeded
<1> DEFINE next == CASE w.phase = "drop" -> "tokenize"
                     [] w.phase = "tokenize" -> "mask"
                     [] w.phase = "mask" -> "drop"
           place == IF next = "drop" THEN w.at + 1 ELSE w.at
           todo == TodoAt(w.policy, w.carriers, place, next)
<1>4. call' = [call EXCEPT ![c] = v]
  <2>1. w = [pc |-> w.pc, policy |-> w.policy, source |-> w.source, batch |-> w.batch,
             carriers |-> w.carriers, at |-> w.at, phase |-> w.phase, todo |-> w.todo,
             hits |-> w.hits]
    BY <1>1 DEF CallOK
  <2>2. call = [x \in Calls |-> call[x]]
    BY DEF CallsOK
  <2>3. call' = [call EXCEPT ![c].policy = w.policy, ![c].phase = next, ![c].at = place,
                             ![c].todo = todo]
    BY DEF Advance, Proceed
  <2>4. v = [pc |-> w.pc, policy |-> w.policy, source |-> w.source, batch |-> w.batch,
             carriers |-> w.carriers, at |-> place, phase |-> next, todo |-> todo,
             hits |-> w.hits]
    BY DEF Proceeded
  <2> HIDE DEF next, place, todo
  <2>5. call' = [call EXCEPT ![c] = [w EXCEPT !.policy = w.policy, !.phase = next, !.at = place,
                                              !.todo = todo]]
    BY <2>2, <2>3
  <2>6. [w EXCEPT !.policy = w.policy, !.phase = next, !.at = place, !.todo = todo] = v
    <3> DEFINE w1 == [w EXCEPT !.phase = next]
               w2 == [w1 EXCEPT !.at = place]
    <3> HIDE DEF w, v
    <3>1. [w EXCEPT !.policy = w.policy] = w
      BY <2>1
    <3>2. w1 = [pc |-> w.pc, policy |-> w.policy, source |-> w.source, batch |-> w.batch,
                  carriers |-> w.carriers, at |-> w.at, phase |-> next, todo |-> w.todo,
                  hits |-> w.hits]
      BY <2>1
    <3> HIDE DEF w1
    <3>3. w2 = [pc |-> w.pc, policy |-> w.policy, source |-> w.source, batch |-> w.batch,
                  carriers |-> w.carriers, at |-> place, phase |-> next, todo |-> w.todo,
                  hits |-> w.hits]
      BY <3>2
    <3> HIDE DEF w2
    <3>4. [w2 EXCEPT !.todo = todo] = v
      BY <2>4, <3>3
    <3>5. [w EXCEPT !.policy = w.policy, !.phase = next, !.at = place, !.todo = todo]
            = [[[w EXCEPT !.phase = next] EXCEPT !.at = place] EXCEPT !.todo = todo]
      BY <3>1
    <3> QED
      BY <3>4, <3>5 DEF w1, w2
  <2> HIDE DEF w, v
  <2> QED
    BY <2>5, <2>6
<1>5. UNCHANGED <<recorded, audited>>
  BY DEF Advance, Proceed
<1> HIDE DEF v
<1> QED
  BY <1>1, <1>2, <1>3, <1>4, <1>5 DEF Becomes, Moves, GoesOn

\* Finish hands the hits of the call to the counters.
LEMMA FinishMoves ==
  ASSUME CallsOK, NEW c \in Calls, Finish(c)
  PROVE  \E v : Becomes(c, v) /\ Moves(c, v)
<1> DEFINE w == call[c]
           o == CarriersOfBatch(w.batch)
           v == [w EXCEPT !.pc = "done"]
<1>1. w.pc = "walking" /\ ~(w.at <= Len(w.carriers)) /\ CallOK(w)
  BY WalkingIsOK DEF Finish, Working
<1>2. w.at \in 1 .. Len(o) + 1 /\ Len(w.carriers) = Len(o) /\ Len(o) \in Nat
  BY <1>1, CallFacts DEF CallOK
<1>3. w.at = Len(o) + 1
  BY <1>1, <1>2
<1>4. /\ v = [pc |-> "done", policy |-> w.policy, source |-> w.source, batch |-> w.batch,
              carriers |-> w.carriers, at |-> w.at, phase |-> w.phase, todo |-> w.todo,
              hits |-> w.hits]
  <2>1. w = [pc |-> w.pc, policy |-> w.policy, source |-> w.source, batch |-> w.batch,
             carriers |-> w.carriers, at |-> w.at, phase |-> w.phase, todo |-> w.todo,
             hits |-> w.hits]
    BY <1>1 DEF CallOK
  <2> HIDE DEF w
  <2> QED
    BY <2>1
<1>5. call' = [call EXCEPT ![c] = v]
  BY DEF Finish, CallsOK
<1> HIDE DEF v, w
<1>6. /\ v.pc = "done" /\ v.policy = w.policy /\ v.source = w.source /\ v.batch = w.batch
      /\ v.carriers = w.carriers /\ v.at = w.at /\ v.phase = w.phase /\ v.todo = w.todo
      /\ v.hits = w.hits
  BY <1>4
<1>7. Done(v, o) = Done(w, o)
  BY <1>6 DEF Done, DoneAt
<1>8. CallOK(v)
  <2>1. v = [pc |-> v.pc, policy |-> v.policy, source |-> v.source, batch |-> v.batch,
             carriers |-> v.carriers, at |-> v.at, phase |-> v.phase, todo |-> v.todo,
             hits |-> v.hits]
    BY <1>4, <1>6
  <2> QED
    BY <1>1, <1>3, <1>6, <1>7, <2>1 DEF CallOK
<1> QED
  BY <1>1, <1>5, <1>6, <1>8 DEF w, Becomes, Moves, Ends, Finish

\* Every step leaves the calls alone or is one of one call.
LEMMA EveryStep ==
  ASSUME PolicyOK, CallsOK, [Next]_vars
  PROVE  \/ UNCHANGED <<call, recorded, audited>>
         \/ \E c \in Calls : \E v : Becomes(c, v) /\ Moves(c, v)
<1>1. CASE UNCHANGED vars
  BY <1>1 DEF vars
<1>2. ASSUME NEW file \in Policies, SetPolicy(file) PROVE UNCHANGED <<call, recorded, audited>>
  BY <1>2 DEF SetPolicy
<1>3. ASSUME NEW c \in Calls, NEW batch \in Batches, Begin(c, batch)
      PROVE  \E v : Becomes(c, v) /\ Moves(c, v)
  BY <1>3, BeginMoves
<1>4. ASSUME NEW c \in Calls, DropKey(c) \/ TokenizeKey(c) \/ MaskKey(c)
      PROVE  \E v : Becomes(c, v) /\ Moves(c, v)
  <2>1. Working(c)
    BY <1>4 DEF DropKey, TokenizeKey, MaskKey
  <2>2. CallOK(call[c]) /\ call[c].at <= Len(call[c].carriers)
    BY <2>1, WalkingIsOK DEF Working
  <2>3. CASE DropKey(c)
    <3>1. call[c].phase = "drop"
      BY <2>3 DEF DropKey
    <3>2. PICK k \in call[c].todo :
            Step(c, k, [x \in DOMAIN Here(c).attrs \ {k} |-> Here(c).attrs[x]],
                 Hits(call[c].policy.drop[k], 1))
      BY <2>3 DEF DropKey
    <3>3. OneLoopOn(call[c], k, [x \in DOMAIN Here(c).attrs \ {k} |-> Here(c).attrs[x]],
                    Hits(call[c].policy.drop[k], 1))
      BY <2>2, <3>1, DropIsOneLoop DEF Here
    <3> QED
      BY <2>1, <3>2, <3>3, KeyMoves
  <2>4. CASE TokenizeKey(c)
    <3>1. call[c].phase = "tokenize"
      BY <2>4 DEF TokenizeKey
    <3>2. PICK k \in call[c].todo :
            Step(c, k, [Here(c).attrs EXCEPT ![k] = HmacToken(call[c].policy.tokens[k].secret, @)],
                 Hits(call[c].policy.tokens[k].id, 1))
      BY <2>4 DEF TokenizeKey
    <3>3. OneLoopOn(call[c], k,
                    [Here(c).attrs EXCEPT ![k] = HmacToken(call[c].policy.tokens[k].secret, @)],
                    Hits(call[c].policy.tokens[k].id, 1))
      BY <2>2, <3>1, TokenizeIsOneLoop DEF Here
    <3> QED
      BY <2>1, <3>2, <3>3, KeyMoves
  <2>5. CASE MaskKey(c)
    <3> DEFINE masked(k) == ApplyMaskRules(Here(c).attrs[k],
                              MasksAt(call[c].policy.masks, <<Here(c).scope, k>>))
    <3>1. call[c].phase = "mask"
      BY <2>5 DEF MaskKey
    <3>2. PICK k \in call[c].todo :
            Step(c, k, [Here(c).attrs EXCEPT ![k] = masked(k).str], masked(k).hits)
      BY <2>5 DEF MaskKey
    <3>3. OneLoopOn(call[c], k, [Here(c).attrs EXCEPT ![k] = masked(k).str], masked(k).hits)
      BY <2>2, <3>1, MaskIsOneLoop DEF Here
    <3> HIDE DEF masked
    <3> QED
      BY <2>1, <3>2, <3>3, KeyMoves
  <2> QED
    BY <1>4, <2>3, <2>4, <2>5
<1>5. ASSUME NEW c \in Calls, Advance(c) PROVE \E v : Becomes(c, v) /\ Moves(c, v)
  BY <1>5, AdvanceMoves
<1>6. ASSUME NEW c \in Calls, Finish(c) PROVE \E v : Becomes(c, v) /\ Moves(c, v)
  BY <1>6, FinishMoves
<1> QED
  BY <1>1, <1>2, <1>3, <1>4, <1>5, <1>6 DEF Next

-----------------------------------------------------------------------------
(* The ledger: what the calls have counted and not yet handed over.        *)

Walking(calls) == {c \in Calls : calls[c].pc = "walking"}

Owed(calls, id) == Total([c \in Walking(calls) |-> Copies(id, calls[c].hits)], Walking(calls))

OwedBeside(calls, c, id) ==
  Total([x \in Walking(calls) \ {c} |-> Copies(id, calls[x].hits)], Walking(calls) \ {c})

LedgerOK ==
  /\ IsABag(recorded)
  /\ IsABag(audited)
  /\ \A id : Copies(id, recorded) = Copies(id, audited) + Owed(call, id)

RedactionOK == PolicyOK /\ CallsOK /\ LedgerOK

\* What is owed, with one call set apart.
LEMMA OwedApart ==
  ASSUME NEW calls, NEW c \in Calls, NEW id,
         \A x \in Walking(calls) : IsABag(calls[x].hits)
  PROVE  /\ Owed(calls, id) \in Nat
         /\ OwedBeside(calls, c, id) \in Nat
         /\ calls[c].pc = "walking" =>
              Owed(calls, id) = Copies(id, calls[c].hits) + OwedBeside(calls, c, id)
         /\ calls[c].pc # "walking" => Owed(calls, id) = OwedBeside(calls, c, id)
<1> DEFINE S == Walking(calls)
           T == S \ {c}
           f == [x \in S |-> Copies(id, calls[x].hits)]
           g == [x \in T |-> Copies(id, calls[x].hits)]
<1>1. IsFiniteSet(S) /\ IsFiniteSet(T)
  <2>1. S \subseteq Calls /\ T \subseteq Calls /\ IsFiniteSet(Calls)
    BY RedactionAssumption DEF Walking
  <2> HIDE DEF S, T
  <2> QED
    BY <2>1, FS_Subset
<1>2. /\ \A x \in S : f[x] \in Nat
      /\ \A x \in T : f[x] = g[x] /\ g[x] \in Nat
  BY CopiesNatural
<1>3. T \subseteq S /\ f[c] = IF c \in S THEN Copies(id, calls[c].hits) ELSE f[c]
  OBVIOUS
<1>4. Owed(calls, id) = Total(f, S) /\ OwedBeside(calls, c, id) = Total(g, T)
  BY DEF Owed, OwedBeside
<1>5. (c \in S <=> calls[c].pc = "walking") /\ (c \notin S => T = S)
  BY DEF Walking
<1> HIDE DEF f, g, S, T
<1>6. Total(f, S) \in Nat
  BY <1>1, <1>2, TotalUnfolds
<1>7. \A x \in T : g[x] \in Nat /\ g[x] = f[x]
  BY <1>2
<1>8. Total(g, T) = Total(f, T)
  BY ONLY <1>1, <1>7, TotalSame
<1>9. Total(f, T) \in Nat
  BY ONLY <1>1, <1>2, <1>3, TotalUnfolds
<1>10. c \in S => Total(f, S) = f[c] + Total(f, T)
  <2>1. \A x \in S : Total(f, S) = f[x] + Total(f, S \ {x})
    BY ONLY <1>1, <1>2, TotalTakes
  <2> QED
    BY <2>1 DEF T
<1> QED
  BY <1>3, <1>4, <1>5, <1>6, <1>8, <1>9, <1>10

\* What the others owe does not depend on one call.
LEMMA OwedByOthers ==
  ASSUME NEW calls, NEW now, NEW c \in Calls, NEW id,
         \A x \in Calls : x # c => now[x] = calls[x]
  PROVE  OwedBeside(now, c, id) = OwedBeside(calls, c, id)
<1>1. Walking(now) \ {c} = Walking(calls) \ {c}
  BY DEF Walking
<1>2. \A x \in Walking(calls) \ {c} : Copies(id, now[x].hits) = Copies(id, calls[x].hits)
  BY DEF Walking
<1> QED
  BY <1>1, <1>2 DEF OwedBeside

\* What the calls have counted so far are bags.
LEMMA HitsOfCalls ==
  ASSUME NEW calls, \A x \in Calls : calls[x] = Idle \/ CallOK(calls[x])
  PROVE  \A x \in Walking(calls) : IsABag(calls[x].hits)
<1>1. \A x \in Walking(calls) : x \in Calls /\ calls[x] # Idle
  BY DEF Walking, Idle
<1>2. ASSUME NEW w, CallOK(w) PROVE IsABag(w.hits)
  BY <1>2 DEF CallOK, Progress
<1> QED
  BY <1>1, <1>2

\* The invariant holds when the processor starts.
LEMMA RedactionInit == Init => RedactionOK
<1> SUFFICES ASSUME Init PROVE RedactionOK
  OBVIOUS
<1>1. PolicyOK
  BY PolicyInit
<1>2. CallsOK
  BY DEF Init, CallsOK
<1>3. ASSUME NEW id PROVE Owed(call, id) = 0
  <2>1. Walking(call) = {}
    BY DEF Init, Walking, Idle
  <2> DEFINE f == [c \in Walking(call) |-> Copies(id, call[c].hits)]
  <2>2. IsFiniteSet({}) /\ \A x \in {} : f[x] = 0
    BY FS_EmptySet
  <2> HIDE DEF f
  <2>3. Total(f, {}) = 0
    BY ONLY <2>2, TotalZero
  <2> QED
    BY <2>1, <2>3 DEF Owed, f
<1>4. LedgerOK
  BY <1>3, NoHits DEF Init, LedgerOK
<1> QED
  BY <1>1, <1>2, <1>4 DEF RedactionOK

\* Every step preserves it: the policy, the one call that moves, the ledger.
LEMMA RedactionStep == RedactionOK /\ [Next]_vars => RedactionOK'
<1> SUFFICES ASSUME RedactionOK, [Next]_vars PROVE RedactionOK'
  OBVIOUS
<1>1. PolicyOK /\ CallsOK /\ LedgerOK
  BY DEF RedactionOK
<1>2. PolicyOK'
  BY <1>1, PolicyStep
<1>3. CASE UNCHANGED <<call, recorded, audited>>
  <2>1. CallsOK'
    BY <1>1, <1>3 DEF CallsOK
  <2>2. LedgerOK'
    BY <1>1, <1>3 DEF LedgerOK
  <2> QED
    BY <1>2, <2>1, <2>2 DEF RedactionOK
<1>4. ASSUME NEW c \in Calls, NEW v, Becomes(c, v), Moves(c, v) PROVE RedactionOK'
  <2>1. /\ call = [x \in Calls |-> call[x]]
        /\ \A x \in Calls : call[x] = Idle \/ CallOK(call[x])
    BY <1>1 DEF CallsOK
  <2>2. PICK now : now = [call EXCEPT ![c] = v]
    OBVIOUS
  <2>3. call' = now /\ CallOK(v)
    BY <1>4, <2>2 DEF Becomes
  <2>4. /\ now = [x \in Calls |-> now[x]]
        /\ now[c] = v
        /\ \A x \in Calls : x # c => now[x] = call[x]
    BY <2>1, <2>2
  <2>5. \A x \in Calls : now[x] = Idle \/ CallOK(now[x])
    BY <2>1, <2>3, <2>4
  <2>6. CallsOK'
    BY <2>3, <2>4, <2>5 DEF CallsOK
  <2>7. \A x \in Walking(call) : IsABag(call[x].hits)
    BY <2>1, HitsOfCalls
  <2>8. \A x \in Walking(now) : IsABag(now[x].hits)
    BY <2>5, HitsOfCalls
  <2>9. IsABag(recorded) /\ IsABag(audited) /\ \A id : Copies(id, recorded) = Copies(id, audited) + Owed(call, id)
    BY <1>1 DEF LedgerOK
  <2> DEFINE books(events, counters) ==
               /\ IsABag(events) /\ IsABag(counters)
               /\ \A id : Copies(id, events) = Copies(id, counters) + Owed(now, id)
             w == call[c]
  <2>10. ASSUME NEW id
         PROVE  /\ Copies(id, recorded) \in Nat /\ Copies(id, audited) \in Nat
                /\ OwedBeside(call, c, id) \in Nat
                /\ w.pc = "walking" => /\ Owed(call, id) = Copies(id, w.hits) + OwedBeside(call, c, id)
                                       /\ IsABag(w.hits) /\ Copies(id, w.hits) \in Nat
                /\ w.pc # "walking" => Owed(call, id) = OwedBeside(call, c, id)
                /\ v.pc = "walking" => /\ Owed(now, id) = Copies(id, v.hits) + OwedBeside(call, c, id)
                                       /\ Copies(id, v.hits) \in Nat
                /\ v.pc # "walking" => Owed(now, id) = OwedBeside(call, c, id)
    <3>1. Copies(id, recorded) \in Nat /\ Copies(id, audited) \in Nat
      BY <2>9, CopiesNatural
    <3>2. /\ OwedBeside(call, c, id) \in Nat
          /\ w.pc = "walking" => Owed(call, id) = Copies(id, w.hits) + OwedBeside(call, c, id)
          /\ w.pc # "walking" => Owed(call, id) = OwedBeside(call, c, id)
      BY <2>7, OwedApart
    <3>3. /\ v.pc = "walking" => Owed(now, id) = Copies(id, v.hits) + OwedBeside(now, c, id)
          /\ v.pc # "walking" => Owed(now, id) = OwedBeside(now, c, id)
      BY <2>4, <2>8, OwedApart
    <3>4. OwedBeside(now, c, id) = OwedBeside(call, c, id)
      BY <2>4, OwedByOthers
    <3>5. w.pc = "walking" => IsABag(w.hits) /\ Copies(id, w.hits) \in Nat
      BY <2>7, CopiesNatural DEF Walking
    <3>6. v.pc = "walking" => Copies(id, v.hits) \in Nat
      BY <2>4, <2>8, CopiesNatural DEF Walking
    <3> QED
      BY <3>1, <3>2, <3>3, <3>4, <3>5, <3>6
  <2>11. books(recorded', audited')
    <3>1. CASE Begins(c, v)
      <4>1. recorded' = recorded /\ audited' = audited /\ v.pc = "walking" /\ v.hits = EmptyBag /\ w.pc # "walking"
        BY <3>1 DEF Begins, Idle
      <4>2. ASSUME NEW id PROVE Copies(id, recorded) = Copies(id, audited) + Owed(now, id)
        <5>1. Copies(id, v.hits) = 0
          BY <4>1, NoHits
        <5>2. Copies(id, recorded) = Copies(id, audited) + Owed(call, id)
          BY <2>9
        <5> HIDE DEF w
        <5> QED
          BY <2>10, <4>1, <5>1, <5>2
      <4> QED
        BY <2>9, <4>1, <4>2
    <3>2. ASSUME NEW hits, HitsOne(c, v, hits) PROVE books(recorded', audited')
      <4>1. /\ recorded' = recorded (+) hits /\ audited' = audited /\ IsABag(hits)
            /\ w.pc = "walking" /\ v.pc = "walking" /\ v.hits = w.hits (+) hits
        BY <3>2 DEF HitsOne
      <4>2. IsABag(recorded (+) hits) /\ \A id : Copies(id, recorded (+) hits) = Copies(id, recorded) + Copies(id, hits)
        BY <2>9, <4>1, HitsAdd
      <4>3. ASSUME NEW id PROVE Copies(id, recorded (+) hits) = Copies(id, audited) + Owed(now, id)
        <5>1. Copies(id, recorded (+) hits) = Copies(id, recorded) + Copies(id, hits) /\ Copies(id, hits) \in Nat
          BY <4>1, <4>2, CopiesNatural
        <5>2. Copies(id, v.hits) = Copies(id, w.hits) + Copies(id, hits)
          <6>1. IsABag(w.hits)
            BY <2>10, <4>1
          <6> HIDE DEF w
          <6>2. Copies(id, w.hits (+) hits) = Copies(id, w.hits) + Copies(id, hits)
            BY <4>1, <6>1, HitsAdd
          <6> QED
            BY <4>1, <6>2
        <5>3. Copies(id, recorded) = Copies(id, audited) + Owed(call, id)
          BY <2>9
        <5>4. /\ Copies(id, recorded) \in Nat /\ Copies(id, audited) \in Nat
              /\ OwedBeside(call, c, id) \in Nat /\ Copies(id, w.hits) \in Nat
              /\ Owed(call, id) = Copies(id, w.hits) + OwedBeside(call, c, id)
              /\ Owed(now, id) = Copies(id, v.hits) + OwedBeside(call, c, id)
          BY <2>10, <4>1
        <5> HIDE DEF w
        <5> QED
          BY <5>1, <5>2, <5>3, <5>4
      <4> QED
        BY <2>9, <4>1, <4>2, <4>3
    <3>3. CASE GoesOn(c, v)
      <4>1. recorded' = recorded /\ audited' = audited /\ v.pc = "walking" /\ v.hits = w.hits /\ w.pc = "walking"
        BY <3>3 DEF GoesOn
      <4>2. ASSUME NEW id PROVE Copies(id, recorded) = Copies(id, audited) + Owed(now, id)
        BY <2>9, <2>10, <4>1
      <4> QED
        BY <2>9, <4>1, <4>2
    <3>4. CASE Ends(c, v)
      <4>1. /\ recorded' = recorded /\ audited' = audited (+) w.hits
            /\ v.pc # "walking" /\ w.pc = "walking"
        BY <3>4 DEF Ends
      <4>2. IsABag(w.hits)
        BY <2>10, <4>1
      <4> HIDE DEF w
      <4>3. IsABag(audited (+) w.hits) /\ \A id : Copies(id, audited (+) w.hits) = Copies(id, audited) + Copies(id, w.hits)
        BY <2>9, <4>2, HitsAdd
      <4>4. ASSUME NEW id PROVE Copies(id, recorded) = Copies(id, audited (+) w.hits) + Owed(now, id)
        <5>1. Copies(id, audited (+) w.hits) = Copies(id, audited) + Copies(id, w.hits)
          BY <4>3
        <5>2. Copies(id, recorded) = Copies(id, audited) + Owed(call, id)
          BY <2>9
        <5> QED
          BY <2>10, <4>1, <5>1, <5>2
      <4> QED
        BY <2>9, <4>1, <4>3, <4>4
    <3> QED
      BY <1>4, <3>1, <3>2, <3>3, <3>4 DEF Moves
  <2>12. LedgerOK'
    BY <2>3, <2>11 DEF LedgerOK
  <2> QED
    BY <1>2, <2>6, <2>12 DEF RedactionOK
<1> QED
  BY <1>1, <1>3, <1>4, EveryStep

\* The inductive invariant: the active policy is compiled, every call has made
\* of every key what its loops so far make of it, and the hits handed to the
\* recorder are those of the counters and of the calls that still walk.
THEOREM RedactionInvariant == Spec => []RedactionOK
<1> QED
  BY RedactionInit, RedactionStep, PTL DEF Spec

-----------------------------------------------------------------------------
(* What the invariant is for.                                              *)

\* The types of the state, and what a call in progress still has to visit:
\* keys of the carrier it is at.
THEOREM TypeCorrectness == Spec => []TypeOK
<1>1. RedactionOK => TypeOK
  <2> SUFFICES ASSUME RedactionOK PROVE TypeOK
    OBVIOUS
  <2>1. policy # Rejected /\ source \in Sources
    BY DEF RedactionOK, PolicyOK
  <2>2. ASSUME NEW c \in Calls, call[c] # Idle
        PROVE  /\ call[c].pc \in {"walking", "done"}
               /\ call[c].at \in 1 .. Len(call[c].carriers) + 1
               /\ call[c].phase \in Phases
               /\ Working(c) => call[c].todo \subseteq DOMAIN Here(c).attrs
               /\ IsABag(call[c].hits)
    <3> DEFINE w == call[c]
    <3>1. CallOK(w)
      BY <2>2 DEF RedactionOK, CallsOK
    <3>2. Len(w.carriers) = Len(CarriersOfBatch(w.batch))
      BY <3>1, CallFacts
    <3>3. /\ w.pc \in {"walking", "done"} /\ w.phase \in Phases
          /\ w.at \in 1 .. Len(w.carriers) + 1
      BY <3>1, <3>2 DEF CallOK
    <3>4. IsABag(w.hits)
      BY <3>1 DEF CallOK, Progress
    <3>5. ASSUME Working(c), NEW k \in w.todo PROVE k \in DOMAIN Here(c).attrs
      BY <3>1, <3>5, TodoFacts DEF Working, Here
    <3> QED
      BY <3>3, <3>4, <3>5
  <2>3. IsABag(recorded) /\ IsABag(audited)
    BY DEF RedactionOK, LedgerOK
  <2> QED
    BY <2>1, <2>2, <2>3 DEF TypeOK, Sources, Phases
<1> QED
  BY <1>1, RedactionInvariant, PTL

\* Events and counters agree whatever the interleaving: at every moment they
\* differ, rule by rule, by the hits of the calls that have not reached
\* addAuditHits, so when none is in progress they are equal.
THEOREM EventsAndCountersAgree == Spec => []HitsMatchEvents
<1>1. RedactionOK => HitsMatchEvents
  <2> SUFFICES ASSUME RedactionOK, NEW id
               PROVE  Copies(id, recorded) = Copies(id, audited)
                        + SumFunction([c \in Walking(call) |-> Copies(id, call[c].hits)])
    BY DEF HitsMatchEvents, Walking
  <2> DEFINE f == [c \in Walking(call) |-> Copies(id, call[c].hits)]
  <2>1. Copies(id, recorded) = Copies(id, audited) + Total(f, Walking(call))
    BY DEF RedactionOK, LedgerOK, Owed
  <2>2. DOMAIN f = Walking(call)
    OBVIOUS
  <2> HIDE DEF f
  <2>3. SumFunction(f) = Total(f, Walking(call))
    BY <2>2 DEF SumFunction, Total
  <2> QED
    BY <2>1, <2>3 DEF f
<1> QED
  BY <1>1, RedactionInvariant, PTL

\* A call that is done has been through every loop of every carrier.
LEMMA DoneIsRedacted ==
  ASSUME NEW w, CallOK(w), w.pc = "done"
  PROVE  LET carriers == CarriersOfBatch(w.batch)
             expected == [i \in DOMAIN carriers |-> Redacted(w.source, carriers[i])]
         IN  /\ w.carriers = [i \in DOMAIN carriers |-> expected[i].carrier]
             /\ w.hits = AllHits([i \in DOMAIN carriers |-> expected[i].hits])
<1> DEFINE o == CarriersOfBatch(w.batch)
           p == w.policy
           file == w.source
           N == Len(o)
           done == Done(w, o)
           expected == [i \in DOMAIN o |-> Redacted(file, o[i])]
           bags == [i \in DOMAIN o |-> expected[i].hits]
<1>1. /\ N \in Nat /\ DOMAIN o = 1 .. N
      /\ \A i \in 1 .. N : IsCarrier(o[i])
  BY CallFacts, CarriersAreOrdered
<1>2. IsPolicyFile(file) /\ p = Compile(file) /\ Compile(file) # Rejected /\ w.at = N + 1
  BY SourceTyped DEF CallOK
<1>3. \A i \in 1 .. N : \A k \in DOMAIN o[i].attrs : done[i][k] = 3
  <2>1. \A i \in 1 .. N : i < w.at
    BY <1>1, <1>2
  <2> QED
    BY <2>1 DEF Done, DoneAt
<1>4. /\ w.carriers = [i \in 1 .. N |-> CarrierAfter(p, o[i], done[i])]
      /\ IsABag(w.hits)
      /\ \A id : Copies(id, w.hits)
           = Total([i \in 1 .. N |-> CountAfter(p, o[i], done[i], id)], 1 .. N)
  BY DEF CallOK, Progress
<1> HIDE DEF done
<1>5. ASSUME NEW i \in 1 .. N
      PROVE  /\ CarrierAfter(p, o[i], done[i]) = expected[i].carrier
             /\ IsABag(bags[i])
             /\ \A id : CountAfter(p, o[i], done[i], id) = Copies(id, bags[i])
  <2> DEFINE c == o[i]
             d == done[i]
  <2>1. IsCarrier(c) /\ \A k \in DOMAIN c.attrs : d[k] = 3
    BY <1>1, <1>3
  <2>2. expected[i] = Redacted(file, c) /\ bags[i] = expected[i].hits
    BY <1>1
  <2> HIDE DEF c, d, expected, bags, file, p
  <2>3. /\ CarrierAfter(Compile(file), c, d) = Redacted(file, c).carrier
        /\ IsABag(Redacted(file, c).hits)
        /\ \A id : CountAfter(Compile(file), c, d, id) = Copies(id, Redacted(file, c).hits)
    BY <1>2, <2>1, CarrierFate
  <2> QED
    BY <1>2, <2>2, <2>3 DEF c, d
<1>6. w.carriers = [i \in DOMAIN o |-> expected[i].carrier]
  <2> HIDE DEF expected, o
  <2> QED
    BY <1>1, <1>4, <1>5
<1>7. IsFiniteSet(1 .. N) /\ DOMAIN bags = 1 .. N
  <2>1. 1 \in Int /\ N \in Int
    BY <1>1
  <2>2. IsFiniteSet(1 .. N)
    BY ONLY <2>1, FS_Interval
  <2> QED
    BY <1>1, <2>2
<1> HIDE DEF bags
<1>8. /\ IsABag(AllHits(bags))
      /\ \A id : Copies(id, AllHits(bags)) = Total([i \in 1 .. N |-> Copies(id, bags[i])], 1 .. N)
  BY <1>5, <1>7, AllHitsCounted
<1>9. ASSUME NEW id PROVE Copies(id, w.hits) = Copies(id, AllHits(bags))
  <2>1. [i \in 1 .. N |-> CountAfter(p, o[i], done[i], id)] = [i \in 1 .. N |-> Copies(id, bags[i])]
    BY <1>5
  <2> QED
    BY <1>4, <1>8, <2>1
<1>10. w.hits = AllHits(bags)
  BY <1>4, <1>8, <1>9, SameCopies
<1> QED
  BY <1>6, <1>10 DEF bags

\* A batch comes out redacted by the one policy that was active when its call
\* began, with the hits of that policy, whatever policies are installed while
\* it is walked and in whatever order the keys of its maps are visited.
THEOREM OnePolicyPerBatch == Spec => []RedactedByOnePolicy
<1>1. RedactionOK => RedactedByOnePolicy
  <2> SUFFICES ASSUME RedactionOK, NEW c \in Calls, call[c].pc = "done"
               PROVE  LET carriers == CarriersOfBatch(call[c].batch)
                          expected == [i \in DOMAIN carriers |-> Redacted(call[c].source, carriers[i])]
                      IN  /\ call[c].carriers = [i \in DOMAIN carriers |-> expected[i].carrier]
                          /\ call[c].hits = AllHits([i \in DOMAIN carriers |-> expected[i].hits])
    BY DEF RedactedByOnePolicy
  <2>1. call[c] # Idle
    BY DEF Idle
  <2>2. CallOK(call[c])
    BY <2>1 DEF RedactionOK, CallsOK
  <2> QED
    BY <2>2, DoneIsRedacted
<1> QED
  BY <1>1, RedactionInvariant, PTL
=============================================================================
