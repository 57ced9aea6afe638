-------------------------- MODULE EventsViewProofs --------------------------
(***************************************************************************)
(* Proofs about EventsView.  The argument is about Whole, what a list      *)
(* loaded page by page owes its query: of the events the query selected at *)
(* the refresh it holds, or its cursor reaches, those the plane still has; *)
(* and while the plane has all of them, the list stands where they stand.  *)
(* An event that arrives, a cut of the mock plane's list and a restart     *)
(* keep what is whole (WholeKept), whoever holds it: the view, the answer  *)
(* to a refresh that is under way, or a page asked for the list as it is   *)
(* now.  A refresh is whole (RefreshPage), and a page joined to a list     *)
(* that is whole makes one (OlderPage), whichever replicas they come of.   *)
(* What the cursor reaches is counted whether it is refused or not; that   *)
(* one is refused only after a cut or a restart is InPlaceInRange.         *)
(*                                                                         *)
(* Filtering a sequence is a recursive function, so what it computes is    *)
(* proved by an induction that takes a set for the predicate (Induction of *)
(* SequenceFacts): Filtered(s, q) is the one sequence that q picks of s.   *)
(***************************************************************************)
EXTENDS EventsView, SequenceFacts, TLAPS

\* Filtering takes the places of a sequence one after the other.
LEMMA FilteredUpTo ==
  ASSUME NEW s, Len(s) \in Nat, NEW q
  PROVE  \E upTo :
           /\ upTo = [n \in 0 .. Len(s) |->
                        IF n = 0 THEN <<>>
                        ELSE IF s[n] \in q THEN Append(upTo[n - 1], s[n])
                             ELSE upTo[n - 1]]
           /\ Filtered(s, q) = upTo[Len(s)]
<1> DEFINE Body(f, n) == IF n = 0 THEN <<>>
                         ELSE IF s[n] \in q THEN Append(f[n - 1], s[n]) ELSE f[n - 1]
           Rec(f, n) == f = [i \in 0 .. n |-> Body(f, i)]
           Good == {n \in 0 .. Len(s) : \E f : Rec(f, n)}
<1>1. 0 \in Good
  <2>1. Rec([i \in 0 .. 0 |-> <<>>], 0)
    OBVIOUS
  <2>2. 0 \in 0 .. Len(s)
    OBVIOUS
  <2> HIDE DEF Rec
  <2> QED
    BY <2>1, <2>2
<1>2. ASSUME NEW n \in 0 .. Len(s) - 1, n \in Good PROVE n + 1 \in Good
  <2>1. PICK f : Rec(f, n)
    BY <1>2
  <2> DEFINE g == [i \in 0 .. n + 1 |-> IF i <= n THEN f[i] ELSE Body(f, n + 1)]
  <2>2. ASSUME NEW i \in 0 .. n + 1 PROVE g[i] = Body(g, i)
    <3>1. CASE i = 0
      BY <2>1, <3>1
    <3>2. CASE i \in 1 .. n
      <4>1. i - 1 \in 0 .. n + 1 /\ i - 1 <= n /\ i # 0 /\ i \in 0 .. n
        BY <3>2
      <4>2. g[i - 1] = f[i - 1] /\ g[i] = f[i]
        BY <4>1, <3>2
      <4>3. f[i] = Body(f, i)
        BY <2>1, <4>1
      <4> QED
        BY <4>1, <4>2, <4>3
    <3>3. CASE i = n + 1
      <4>1. g[n] = f[n] /\ g[n + 1] = Body(f, n + 1)
        OBVIOUS
      <4> QED
        BY <3>3, <4>1
    <3> QED
      BY <3>1, <3>2, <3>3
  <2>3. n + 1 \in 0 .. Len(s)
    BY <1>2
  <2> HIDE DEF Body
  <2>4. Rec(g, n + 1)
    BY <2>2
  <2> QED
    BY <2>3, <2>4
<1>3. Len(s) \in Good
  <2> HIDE DEF Good
  <2>1. \A n \in 0 .. Len(s) - 1 : n \in Good => n + 1 \in Good
    BY <1>2
  <2>2. \A n \in 0 .. Len(s) : n \in Good
    BY <1>1, <2>1, Induction
  <2> QED
    BY <2>2
<1>4. PICK f : Rec(f, Len(s))
  BY <1>3
<1>5. Rec(CHOOSE g : Rec(g, Len(s)), Len(s))
  BY <1>4
<1>6. Filtered(s, q) = (CHOOSE g : Rec(g, Len(s)))[Len(s)]
  BY DEF Filtered
<1> QED
  BY <1>5, <1>6

\* t is what q picks of s, at the places at.
Picks(s, q, t, at) ==
  /\ at \in [1 .. Len(t) -> 1 .. Len(s)]
  /\ \A i, j \in 1 .. Len(t) : i < j => at[i] < at[j]
  /\ \A i \in 1 .. Len(t) : t[i] = s[at[i]] /\ t[i] \in q
  /\ \A k \in 1 .. Len(s) : s[k] \in q => \E i \in 1 .. Len(t) : at[i] = k

\* Filtering keeps what is selected, and its order.
LEMMA FilteredPicks ==
  ASSUME NEW S, NEW s \in Seq(S), NEW q
  PROVE  /\ Filtered(s, q) \in Seq(S)
         /\ \E at : Picks(s, q, Filtered(s, q), at)
<1>0. Len(s) \in Nat
  OBVIOUS
<1>1. PICK upTo :
        /\ upTo = [n \in 0 .. Len(s) |->
                     IF n = 0 THEN <<>>
                     ELSE IF s[n] \in q THEN Append(upTo[n - 1], s[n])
                          ELSE upTo[n - 1]]
        /\ Filtered(s, q) = upTo[Len(s)]
  BY <1>0, FilteredUpTo
<1> DEFINE Picked(n, t, at) ==
                /\ at \in [1 .. Len(t) -> 1 .. n]
                /\ \A i, j \in 1 .. Len(t) : i < j => at[i] < at[j]
                /\ \A i \in 1 .. Len(t) : t[i] = s[at[i]] /\ t[i] \in q
                /\ \A k \in 1 .. n : s[k] \in q => \E i \in 1 .. Len(t) : at[i] = k
           Good == {n \in 0 .. Len(s) :
                      upTo[n] \in Seq(S) /\ \E at : Picked(n, upTo[n], at)}
<1>2. 0 \in Good
  <2>1. upTo[0] = <<>> /\ 0 \in 0 .. Len(s)
    BY <1>1
  <2>2. Picked(0, <<>>, [i \in 1 .. 0 |-> 0])
    OBVIOUS
  <2>3. <<>> \in Seq(S)
    OBVIOUS
  <2> HIDE DEF Picked
  <2> QED
    BY <2>1, <2>2, <2>3
<1>3. ASSUME NEW n \in 0 .. Len(s) - 1, n \in Good PROVE n + 1 \in Good
  <2> DEFINE t == upTo[n]
  <2>1. PICK at : Picked(n, t, at)
    BY <1>3
  <2>2. t \in Seq(S) /\ s[n + 1] \in S /\ n + 1 \in 0 .. Len(s)
    BY <1>3
  <2>3. upTo[n + 1] = IF s[n + 1] \in q THEN Append(t, s[n + 1]) ELSE t
    <3>1. n + 1 # 0 /\ (n + 1) - 1 = n
      OBVIOUS
    <3> QED
      BY <1>1, <2>2, <3>1
  <2>4. CASE s[n + 1] \notin q
    <3>1. Picked(n + 1, t, at)
      BY <2>1, <2>4
    <3> HIDE DEF Picked
    <3> QED
      BY <2>2, <2>3, <2>4, <3>1
  <2>5. CASE s[n + 1] \in q
    <3> DEFINE u == Append(t, s[n + 1])
               bt == [i \in 1 .. Len(u) |-> IF i <= Len(t) THEN at[i] ELSE n + 1]
    <3> HIDE DEF t
    <3>1. /\ u \in Seq(S) /\ Len(u) = Len(t) + 1 /\ Len(t) \in Nat
          /\ u[Len(t) + 1] = s[n + 1]
          /\ \A i \in 1 .. Len(t) : u[i] = t[i]
      BY <2>2
    <3> HIDE DEF u
    <3>2. /\ \A i \in 1 .. Len(t) : bt[i] = at[i] /\ at[i] \in 1 .. n
          /\ bt[Len(t) + 1] = n + 1
          /\ bt \in [1 .. Len(u) -> 1 .. n + 1]
      <4>1. /\ \A i \in 1 .. Len(t) : i \in 1 .. Len(u) /\ i <= Len(t)
            /\ Len(t) + 1 \in 1 .. Len(u) /\ ~(Len(t) + 1 <= Len(t))
            /\ \A i \in 1 .. Len(u) : i <= Len(t) => i \in 1 .. Len(t)
        BY <3>1
      <4>2. \A i \in 1 .. Len(t) : at[i] \in 1 .. n
        BY <2>1
      <4>3. n + 1 \in 1 .. n + 1 /\ \A i \in 1 .. n : i \in 1 .. n + 1
        OBVIOUS
      <4> QED
        BY <4>1, <4>2, <4>3
    <3> HIDE DEF bt
    <3>3. ASSUME NEW i \in 1 .. Len(u), NEW j \in 1 .. Len(u), i < j
          PROVE  bt[i] < bt[j]
      <4>1. i \in 1 .. Len(t)
        BY <3>1, <3>3
      <4>2. CASE j \in 1 .. Len(t)
        BY <2>1, <3>2, <3>3, <4>1, <4>2
      <4>3. CASE j = Len(t) + 1
        BY <3>2, <4>1, <4>3
      <4> QED
        BY <3>1, <4>2, <4>3
    <3>4. ASSUME NEW i \in 1 .. Len(u) PROVE u[i] = s[bt[i]] /\ u[i] \in q
      <4>1. CASE i \in 1 .. Len(t)
        BY <2>1, <3>1, <3>2, <4>1
      <4>2. CASE i = Len(t) + 1
        BY <2>5, <3>1, <3>2, <4>2
      <4> QED
        BY <3>1, <4>1, <4>2
    <3>5. ASSUME NEW k \in 1 .. n + 1, s[k] \in q
          PROVE  \E i \in 1 .. Len(u) : bt[i] = k
      <4>1. CASE k \in 1 .. n
        BY <2>1, <3>1, <3>2, <3>5, <4>1
      <4>2. CASE k = n + 1
        BY <3>1, <3>2, <4>2
      <4> QED
        BY <4>1, <4>2
    <3>6. Picked(n + 1, u, bt)
      BY <3>2, <3>3, <3>4, <3>5
    <3> HIDE DEF Picked
    <3> QED
      BY <2>2, <2>3, <2>5, <3>1, <3>6 DEF u
  <2> QED
    BY <2>4, <2>5
<1>4. Len(s) \in Good
  <2> HIDE DEF Good
  <2>1. Len(s) \in Nat /\ \A n \in 0 .. Len(s) - 1 : n \in Good => n + 1 \in Good
    BY <1>3
  <2>2. \A n \in 0 .. Len(s) : n \in Good
    BY <1>2, <2>1, Induction
  <2> QED
    BY <2>1, <2>2
<1> QED
  BY <1>1, <1>4 DEF Picks

\* There is only one way to pick.
LEMMA PicksUnique ==
  ASSUME NEW S, NEW s \in Seq(S), NEW q, NEW t \in Seq(S), NEW u \in Seq(S),
         NEW at, NEW bt, Picks(s, q, t, at), Picks(s, q, u, bt)
  PROVE  Len(t) <= Len(u) /\ \A i \in 1 .. Len(t) : t[i] = u[i]
<1> DEFINE Good == {n \in 0 .. Len(t) : n <= Len(u) /\ \A i \in 1 .. n : at[i] = bt[i]}
<1>1. 0 \in Good
  OBVIOUS
<1>2. ASSUME NEW n \in 0 .. Len(t) - 1, n \in Good PROVE n + 1 \in Good
  <2>1. /\ n <= Len(u) /\ \A i \in 1 .. n : at[i] = bt[i]
        /\ n + 1 \in 1 .. Len(t)
    BY <1>2
  <2>2. /\ \A i \in 1 .. Len(t) : at[i] \in 1 .. Len(s) /\ s[at[i]] \in q
        /\ \A i \in 1 .. Len(u) : bt[i] \in 1 .. Len(s) /\ s[bt[i]] \in q
    BY DEF Picks
  <2>3. PICK j \in 1 .. Len(u) : bt[j] = at[n + 1]
    BY <2>1, <2>2 DEF Picks
  <2>4. j > n
    <3>1. \A i \in 1 .. n : at[i] < at[n + 1]
      BY <2>1 DEF Picks
    <3>2. \A i \in 1 .. n : bt[i] # at[n + 1]
      BY <2>1, <2>2, <3>1
    <3> QED
      BY <2>3, <3>2
  <2>5. n + 1 \in 1 .. Len(u)
    BY <2>4
  <2>6. bt[n + 1] <= at[n + 1]
    <3>1. n + 1 < j => bt[n + 1] < bt[j]
      BY <2>5 DEF Picks
    <3> QED
      BY <2>2, <2>3, <2>4, <2>5, <3>1
  <2>7. PICK k \in 1 .. Len(t) : at[k] = bt[n + 1]
    BY <2>2, <2>5 DEF Picks
  <2>8. k > n
    <3>1. \A i \in 1 .. n : bt[i] < bt[n + 1]
      BY <2>1, <2>5 DEF Picks
    <3>2. \A i \in 1 .. n : at[i] # bt[n + 1]
      BY <2>1, <2>2, <2>5, <3>1
    <3> QED
      BY <2>7, <3>2
  <2>9. at[n + 1] <= bt[n + 1]
    <3>1. n + 1 < k => at[n + 1] < at[k]
      BY <2>1 DEF Picks
    <3> QED
      BY <2>1, <2>2, <2>7, <2>8, <3>1
  <2>10. at[n + 1] = bt[n + 1]
    BY <2>1, <2>2, <2>5, <2>6, <2>9
  <2>11. \A i \in 1 .. n + 1 : at[i] = bt[i]
    <3>1. \A i \in 1 .. n + 1 : i \in 1 .. n \/ i = n + 1
      OBVIOUS
    <3> QED
      BY <2>1, <2>10, <3>1
  <2> QED
    BY <2>5, <2>11
<1>3. Len(t) \in Good
  <2> HIDE DEF Good
  <2>1. Len(t) \in Nat /\ \A n \in 0 .. Len(t) - 1 : n \in Good => n + 1 \in Good
    BY <1>2
  <2>2. \A n \in 0 .. Len(t) : n \in Good
    BY <1>1, <2>1, Induction
  <2> QED
    BY <2>1, <2>2
<1>4. Len(t) <= Len(u) /\ \A i \in 1 .. Len(t) : at[i] = bt[i]
  BY <1>3
<1> QED
  BY <1>4 DEF Picks

LEMMA PickedIsFiltered ==
  ASSUME NEW S, NEW s \in Seq(S), NEW q, NEW t \in Seq(S), NEW at, Picks(s, q, t, at)
  PROVE  t = Filtered(s, q)
<1> DEFINE u == Filtered(s, q)
<1>1. u \in Seq(S) /\ \E bt : Picks(s, q, u, bt)
  BY FilteredPicks
<1> HIDE DEF u
<1>2. PICK bt : Picks(s, q, u, bt)
  BY <1>1
<1>3. Len(t) <= Len(u) /\ \A i \in 1 .. Len(t) : t[i] = u[i]
  BY <1>1, <1>2, PicksUnique
<1>4. Len(u) <= Len(t)
  BY <1>1, <1>2, PicksUnique
<1>5. Len(t) = Len(u)
  BY <1>1, <1>3, <1>4
<1> QED
  BY <1>1, <1>3, <1>5, SeqEqual DEF u

LEMMA FilteredRange ==
  ASSUME NEW S, NEW s \in Seq(S), NEW q
  PROVE  /\ Filtered(s, q) \in Seq(S)
         /\ ToSet(Filtered(s, q)) = ToSet(s) \cap q
<1> DEFINE t == Filtered(s, q)
<1>1. t \in Seq(S) /\ \E at : Picks(s, q, t, at)
  BY FilteredPicks
<1> HIDE DEF t
<1>2. PICK at : Picks(s, q, t, at)
  BY <1>1
<1>3. DOMAIN t = 1 .. Len(t) /\ DOMAIN s = 1 .. Len(s)
  BY <1>1
<1>4. ToSet(t) \subseteq ToSet(s) \cap q
  BY <1>2, <1>3 DEF Picks, ToSet
<1>5. ToSet(s) \cap q \subseteq ToSet(t)
  BY <1>2, <1>3 DEF Picks, ToSet
<1> QED
  BY <1>1, <1>4, <1>5 DEF t

\* What stands before what, in the filtered and in the whole sequence.
LEMMA FilteredOrder ==
  ASSUME NEW S, NEW s \in Seq(S), NEW q,
         NEW i \in 1 .. Len(Filtered(s, q)), NEW j \in 1 .. Len(Filtered(s, q)), i < j
  PROVE  \E k, l \in 1 .. Len(s) :
           k < l /\ s[k] = Filtered(s, q)[i] /\ s[l] = Filtered(s, q)[j]
<1>1. PICK at : Picks(s, q, Filtered(s, q), at)
  BY FilteredPicks
<1> QED
  BY <1>1 DEF Picks

LEMMA FilteredInjective ==
  ASSUME NEW S, NEW s \in Seq(S), NEW q, IsInjective(s)
  PROVE  IsInjective(Filtered(s, q))
<1> DEFINE t == Filtered(s, q)
<1>1. t \in Seq(S)
  BY FilteredPicks
<1>2. \A i, j \in 1 .. Len(t) : i < j => t[i] # t[j]
  <2> SUFFICES ASSUME NEW i \in 1 .. Len(t), NEW j \in 1 .. Len(t), i < j
               PROVE  t[i] # t[j]
    OBVIOUS
  <2>1. PICK k, l \in 1 .. Len(s) : k < l /\ s[k] = t[i] /\ s[l] = t[j]
    BY FilteredOrder
  <2> QED
    BY <2>1 DEF IsInjective
<1> HIDE DEF t
<1>3. IsInjective(t)
  <2> SUFFICES ASSUME NEW i \in 1 .. Len(t), NEW j \in 1 .. Len(t), t[i] = t[j]
               PROVE  i = j
    BY <1>1 DEF IsInjective
  <2>1. i \in Int /\ j \in Int /\ ~(i < j) /\ ~(j < i)
    BY <1>2
  <2> QED
    BY <2>1
<1> QED
  BY <1>3 DEF t

\* Filtering the join of two sequences joins what it makes of each.
LEMMA FilteredConcat ==
  ASSUME NEW S, NEW s \in Seq(S), NEW t \in Seq(S), NEW q
  PROVE  Filtered(s \o t, q) = Filtered(s, q) \o Filtered(t, q)
<1> DEFINE fs == Filtered(s, q)
           ft == Filtered(t, q)
<1>1. fs \in Seq(S) /\ ft \in Seq(S)
  BY FilteredPicks
<1>2. PICK a : Picks(s, q, fs, a)
  BY FilteredPicks
<1>3. PICK b : Picks(t, q, ft, b)
  BY FilteredPicks
<1> HIDE DEF fs, ft
<1> DEFINE m == Len(fs)
           n == Len(ft)
           u == fs \o ft
           w == s \o t
           at == [i \in 1 .. m + n |-> IF i <= m THEN a[i] ELSE Len(s) + b[i - m]]
<1>4. /\ m \in Nat /\ n \in Nat /\ Len(s) \in Nat /\ Len(t) \in Nat
      /\ u \in Seq(S) /\ Len(u) = m + n
      /\ w \in Seq(S) /\ Len(w) = Len(s) + Len(t)
      /\ \A i \in 1 .. m : u[i] = fs[i]
      /\ \A i \in 1 .. n : u[m + i] = ft[i]
      /\ \A i \in 1 .. Len(s) : w[i] = s[i]
      /\ \A i \in 1 .. Len(t) : w[Len(s) + i] = t[i]
  BY <1>1
<1>5. /\ \A i \in 1 .. m : at[i] = a[i] /\ a[i] \in 1 .. Len(s)
      /\ \A i \in 1 .. n : at[m + i] = Len(s) + b[i] /\ b[i] \in 1 .. Len(t)
  <2>1. /\ \A i \in 1 .. m : i \in 1 .. m + n /\ i <= m
        /\ \A i \in 1 .. n : m + i \in 1 .. m + n /\ ~(m + i <= m) /\ (m + i) - m = i
    BY <1>4
  <2>2. /\ \A i \in 1 .. m : a[i] \in 1 .. Len(s)
        /\ \A i \in 1 .. n : b[i] \in 1 .. Len(t)
    BY <1>2, <1>3 DEF Picks
  <2> QED
    BY <2>1, <2>2
<1>6. /\ \A i \in 1 .. m + n : i \in 1 .. m \/ \E k \in 1 .. n : i = m + k
      /\ \A i \in 1 .. Len(s) + Len(t) :
           i \in 1 .. Len(s) \/ \E k \in 1 .. Len(t) : i = Len(s) + k
      /\ \A i \in 1 .. m : i \in 1 .. m + n
      /\ \A i \in 1 .. n : m + i \in 1 .. m + n
  <2>1. \A i \in 1 .. m + n : i \in 1 .. m \/ (i - m \in 1 .. n /\ i = m + (i - m))
    BY <1>4
  <2>2. \A i \in 1 .. Len(s) + Len(t) :
          i \in 1 .. Len(s) \/ (i - Len(s) \in 1 .. Len(t) /\ i = Len(s) + (i - Len(s)))
    BY <1>4
  <2>3. /\ \A i \in 1 .. m : i \in 1 .. m + n
        /\ \A i \in 1 .. n : m + i \in 1 .. m + n
    BY <1>4
  <2> QED
    BY <2>1, <2>2, <2>3
<1>7. at \in [1 .. m + n -> 1 .. Len(s) + Len(t)]
  <2> SUFFICES ASSUME NEW i \in 1 .. m + n PROVE at[i] \in 1 .. Len(s) + Len(t)
    OBVIOUS
  <2> HIDE DEF at
  <2>1. CASE i \in 1 .. m
    <3>1. at[i] = a[i] /\ a[i] \in 1 .. Len(s)
      BY <1>5, <2>1
    <3> QED
      BY <1>4, <3>1
  <2>2. ASSUME NEW k \in 1 .. n, i = m + k PROVE at[i] \in 1 .. Len(s) + Len(t)
    <3>1. at[i] = Len(s) + b[k] /\ b[k] \in 1 .. Len(t)
      BY <1>5, <2>2
    <3> QED
      BY <1>4, <3>1
  <2> QED
    BY <1>6, <2>1, <2>2
<1> HIDE DEF at, u, w
<1>8. ASSUME NEW i \in 1 .. m + n, NEW j \in 1 .. m + n, i < j PROVE at[i] < at[j]
  <2>1. CASE i \in 1 .. m /\ j \in 1 .. m
    BY <1>2, <1>5, <1>8, <2>1 DEF Picks
  <2>2. ASSUME i \in 1 .. m, NEW k \in 1 .. n, j = m + k PROVE at[i] < at[j]
    <3>1. at[i] = a[i] /\ a[i] \in 1 .. Len(s)
      BY <1>5, <2>2
    <3>2. at[j] = Len(s) + b[k] /\ b[k] \in 1 .. Len(t)
      BY <1>5, <2>2
    <3> QED
      BY <1>4, <3>1, <3>2
  <2>3. ASSUME NEW k \in 1 .. n, NEW l \in 1 .. n, i = m + k, j = m + l
        PROVE  at[i] < at[j]
    <3>1. k < l
      BY <1>4, <1>8, <2>3
    <3>2. b[k] < b[l]
      BY <1>3, <3>1 DEF Picks
    <3>3. /\ at[i] = Len(s) + b[k] /\ b[k] \in 1 .. Len(t)
          /\ at[j] = Len(s) + b[l] /\ b[l] \in 1 .. Len(t)
      BY <1>5, <2>3
    <3>4. Len(s) \in Int /\ b[k] \in Int /\ b[l] \in Int
      BY <1>4, <3>3
    <3>5. Len(s) + b[k] < Len(s) + b[l]
      BY <3>2, <3>4
    <3> QED
      BY <3>3, <3>5
  <2>4. ASSUME NEW k \in 1 .. n, i = m + k, j \in 1 .. m PROVE FALSE
    BY <1>4, <1>8, <2>4
  <2> QED
    BY <1>6, <2>1, <2>2, <2>3, <2>4
<1>9. ASSUME NEW i \in 1 .. m + n PROVE u[i] = w[at[i]] /\ u[i] \in q
  <2>1. CASE i \in 1 .. m
    <3>1. at[i] = a[i] /\ a[i] \in 1 .. Len(s) /\ u[i] = fs[i]
      BY <1>4, <1>5, <2>1
    <3>2. fs[i] = s[a[i]] /\ fs[i] \in q
      BY <1>2, <2>1 DEF Picks
    <3> QED
      BY <1>4, <3>1, <3>2
  <2>2. ASSUME NEW k \in 1 .. n, i = m + k PROVE u[i] = w[at[i]] /\ u[i] \in q
    <3>1. at[i] = Len(s) + b[k] /\ b[k] \in 1 .. Len(t) /\ u[i] = ft[k]
      BY <1>4, <1>5, <2>2
    <3>2. ft[k] = t[b[k]] /\ ft[k] \in q
      BY <1>3 DEF Picks
    <3> QED
      BY <1>4, <3>1, <3>2
  <2> QED
    BY <1>6, <2>1, <2>2
<1>10. ASSUME NEW k \in 1 .. Len(s) + Len(t), w[k] \in q
       PROVE  \E i \in 1 .. m + n : at[i] = k
  <2>1. CASE k \in 1 .. Len(s)
    <3>1. \E i \in 1 .. m : a[i] = k
      BY <1>2, <1>4, <1>10, <2>1 DEF Picks
    <3> QED
      BY <1>5, <1>6, <3>1
  <2>2. ASSUME NEW l \in 1 .. Len(t), k = Len(s) + l
        PROVE  \E i \in 1 .. m + n : at[i] = k
    <3>1. \E i \in 1 .. n : b[i] = l
      BY <1>3, <1>4, <1>10, <2>2 DEF Picks
    <3> QED
      BY <1>5, <1>6, <2>2, <3>1
  <2> QED
    BY <1>6, <2>1, <2>2
<1>11. Picks(w, q, u, at)
  BY <1>4, <1>7, <1>8, <1>9, <1>10 DEF Picks
<1>12. u = Filtered(w, q)
  BY <1>4, <1>11, PickedIsFiltered
<1> QED
  BY <1>12 DEF u, w, fs, ft

LEMMA FilteredAll ==
  ASSUME NEW S, NEW s \in Seq(S), NEW q, ToSet(s) \subseteq q
  PROVE  Filtered(s, q) = s
<1> DEFINE at == [i \in 1 .. Len(s) |-> i]
<1>1. Len(s) \in Nat /\ DOMAIN s = 1 .. Len(s)
  BY LenProperties
<1>2. \A i \in 1 .. Len(s) : s[i] \in q
  BY <1>1 DEF ToSet
<1>3. Picks(s, q, s, at)
  BY <1>1, <1>2 DEF Picks
<1> HIDE DEF at
<1> QED
  BY ONLY <1>3, s \in Seq(S), PickedIsFiltered

LEMMA FilteredOne ==
  ASSUME NEW e, NEW q
  PROVE  Filtered(<<e>>, q) = IF e \in q THEN <<e>> ELSE <<>>
<1>1. <<e>> \in Seq({e}) /\ <<>> \in Seq({e}) /\ Len(<<e>>) = 1 /\ <<e>>[1] = e
  OBVIOUS
<1>2. CASE e \in q
  <2>1. Picks(<<e>>, q, <<e>>, [i \in 1 .. 1 |-> 1])
    BY <1>1, <1>2 DEF Picks
  <2> QED
    BY <1>1, <1>2, <2>1, PickedIsFiltered
<1>3. CASE e \notin q
  <2>1. Picks(<<e>>, q, <<>>, [i \in 1 .. 0 |-> 1])
    BY <1>1, <1>3 DEF Picks
  <2> QED
    BY <1>1, <1>3, <2>1, PickedIsFiltered
<1> QED
  BY <1>2, <1>3

LEMMA FilteredIncreasing ==
  ASSUME NEW s \in Seq(Nat), NEW q, Increasing(s)
  PROVE  Increasing(Filtered(s, q))
<1>1. Filtered(s, q) \in Seq(Nat)
  BY FilteredPicks
<1> SUFFICES ASSUME NEW i \in 1 .. Len(Filtered(s, q)),
                    NEW j \in 1 .. Len(Filtered(s, q)), i < j
             PROVE  Filtered(s, q)[i] < Filtered(s, q)[j]
  BY <1>1 DEF Increasing
<1>2. PICK k, l \in 1 .. Len(s) :
        k < l /\ s[k] = Filtered(s, q)[i] /\ s[l] = Filtered(s, q)[j]
  BY FilteredOrder
<1> QED
  BY <1>2 DEF Increasing

-----------------------------------------------------------------------------
(* The lists of the control planes.                                        *)

ListOK ==
  /\ plane \in {"mock", "serverless"}
  /\ posted \subseteq Events
  /\ list \in Seq(posted)
  /\ plane = "mock" => Len(list) <= EventLimit
  /\ IsInjective(list)
  /\ plane = "serverless" => Increasing(list)
  /\ lagging \subseteq posted
  /\ plane = "mock" => lagging = {}

LEMMA ListOfNumbers == ListOK => list \in Seq(Nat) /\ posted \subseteq Nat
BY ViewAssumption, SeqMonotonic DEF ViewAssumption, ListOK

\* Posting an event adds it to the list or cuts older ones off; those that stay
\* keep their order.
LEMMA MockPosted ==
  ASSUME ListOK, plane = "mock", NEW e \in Events \ posted
  PROVE  /\ Posted(e) \in Seq(posted \cup {e})
         /\ Len(Posted(e)) <= EventLimit
         /\ IsInjective(list \o <<e>>)
         /\ \E cut \in Seq(posted \cup {e}) : list \o <<e>> = cut \o Posted(e)
<1> DEFINE S == posted \cup {e}
           all == list \o <<e>>
           k == Len(all) - Least(Len(all), EventLimit)
<1>1. list \in Seq(S) /\ <<e>> \in Seq(S)
  BY SeqMonotonic DEF ListOK
<1>2. all \in Seq(S) /\ Append(list, e) = all
  BY <1>1
<1>3. Posted(e) = SubSeq(all, k + 1, Len(all))
  BY <1>2 DEF Posted
<1>4. k \in 0 .. Len(all) /\ Len(all) - k <= EventLimit
  BY <1>2, ViewAssumption DEF ViewAssumption, Least
<1>5. IsInjective(all)
  <2>1. Range(list) \subseteq posted /\ IsInjective(list)
    BY DEF ListOK, Range
  <2>2. Range(<<e>>) = {e} /\ IsInjective(<<e>>)
    BY DEF Range, IsInjective
  <2>3. Range(list) \cap Range(<<e>>) = {}
    BY <2>1, <2>2
  <2> QED
    BY ONLY <1>1, <2>1, <2>2, <2>3, JoinedInjective
<1> HIDE DEF all, k
<1>6. /\ SubSeq(all, 1, k) \in Seq(S)
      /\ SubSeq(all, k + 1, Len(all)) \in Seq(S)
      /\ Len(SubSeq(all, k + 1, Len(all))) = Len(all) - k
      /\ all = SubSeq(all, 1, k) \o SubSeq(all, k + 1, Len(all))
  BY <1>2, <1>4, CutJoins
<1>7. all = SubSeq(all, 1, k) \o Posted(e)
  BY <1>3, <1>6
<1>8. Posted(e) \in Seq(S) /\ Len(Posted(e)) <= EventLimit
  BY <1>3, <1>4, <1>6
<1>9. \E cut \in Seq(S) : all = cut \o Posted(e)
  BY <1>6, <1>7
<1> QED
  BY <1>5, <1>8, <1>9 DEF all

LEMMA ServerlessPosted ==
  ASSUME ListOK, plane = "serverless", NEW e \in Events \ posted
  PROVE  /\ Posted(e) \in Seq(posted \cup {e})
         /\ ToSet(Posted(e)) = ToSet(list) \cup {e}
         /\ Increasing(Posted(e))
<1> DEFINE below == Filtered(list, {x \in Events : x < e})
           above == Filtered(list, {x \in Events : x > e})
<1>1. Posted(e) = (below \o <<e>>) \o above
  BY DEF Posted, Sorted, ListOK
<1>2. list \in Seq(Nat) /\ list \in Seq(posted) /\ Increasing(list) /\ e \in Nat
  BY ListOfNumbers, ViewAssumption DEF ListOK, ViewAssumption
<1>3. /\ below \in Seq(Nat) /\ below \in Seq(posted) /\ Increasing(below)
      /\ Range(below) = ToSet(list) \cap {x \in Events : x < e}
  <2>1. below \in Seq(Nat)
    BY <1>2, FilteredRange
  <2>2. below \in Seq(posted) /\ ToSet(below) = ToSet(list) \cap {x \in Events : x < e}
    BY <1>2, FilteredRange
  <2>3. Increasing(below)
    BY <1>2, FilteredIncreasing
  <2> HIDE DEF below
  <2>4. Range(below) = ToSet(below)
    BY DEF Range, ToSet
  <2> QED
    BY <2>1, <2>2, <2>3, <2>4
<1>4. /\ above \in Seq(Nat) /\ above \in Seq(posted) /\ Increasing(above)
      /\ Range(above) = ToSet(list) \cap {x \in Events : x > e}
  <2>1. above \in Seq(Nat)
    BY <1>2, FilteredRange
  <2>2. above \in Seq(posted) /\ ToSet(above) = ToSet(list) \cap {x \in Events : x > e}
    BY <1>2, FilteredRange
  <2>3. Increasing(above)
    BY <1>2, FilteredIncreasing
  <2> HIDE DEF above
  <2>4. Range(above) = ToSet(above)
    BY DEF Range, ToSet
  <2> QED
    BY <2>1, <2>2, <2>3, <2>4
<1> HIDE DEF below, above
<1>5. <<e>> \in Seq(Nat) /\ Range(<<e>>) = {e} /\ Increasing(<<e>>)
  BY <1>2 DEF Range, Increasing
<1>6. /\ below \o <<e>> \in Seq(Nat)
      /\ Range(below \o <<e>>) = Range(below) \cup {e}
      /\ Increasing(below \o <<e>>)
  <2>1. \A x \in Range(below), y \in Range(<<e>>) : x < y
    BY <1>3, <1>5
  <2>2. \A s, t \in Seq(Nat) : Range(s \o t) = Range(s) \cup Range(t)
    BY RangeConcatenation
  <2>3. Increasing(below \o <<e>>)
    BY <1>3, <1>5, <2>1, JoinedIncreasing
  <2>4. below \o <<e>> \in Seq(Nat)
    BY <1>3, <1>5, ConcatProperties
  <2>5. Range(below \o <<e>>) = Range(below) \cup {e}
    BY <1>3, <1>5, <2>2
  <2> QED
    BY <2>3, <2>4, <2>5
<1>7. /\ Range(Posted(e)) = Range(below) \cup {e} \cup Range(above)
      /\ Increasing(Posted(e))
  <2>1. \A x \in Range(below \o <<e>>), y \in Range(above) : x < y
    <3>1. \A x \in Range(below \o <<e>>) : x \in Nat /\ (x < e \/ x = e)
      <4>1. \A x \in Range(below) : x \in Events /\ x < e
        BY <1>3
      <4> QED
        BY <1>2, <1>6, <4>1, ViewAssumption DEF ViewAssumption
    <3>2. \A y \in Range(above) : y \in Nat /\ e < y
      <4>1. \A y \in Range(above) : y \in Events /\ y > e
        BY <1>4
      <4> QED
        BY <1>2, <4>1, ViewAssumption DEF ViewAssumption
    <3> QED
      BY <1>2, <3>1, <3>2
  <2>2. \A s, t \in Seq(Nat) : Range(s \o t) = Range(s) \cup Range(t)
    BY RangeConcatenation
  <2>3. Range((below \o <<e>>) \o above) = Range(below \o <<e>>) \cup Range(above)
    BY <1>4, <1>6, <2>2
  <2>4. Increasing((below \o <<e>>) \o above)
    BY <1>4, <1>6, <2>1, JoinedIncreasing
  <2> QED
    BY <1>1, <1>6, <2>3, <2>4
<1>8. Posted(e) \in Seq(posted \cup {e})
  BY <1>1, <1>3, <1>4, SeqMonotonic
<1>9. ToSet(list) \subseteq posted /\ posted \subseteq Events
  BY <1>2 DEF ToSet, ListOK
<1>10. ToSet(Posted(e)) = ToSet(list) \cup {e}
  <2>1. \A x \in ToSet(list) : x \in Nat /\ x # e /\ x \in Events
    BY <1>9, ListOfNumbers
  <2>2. \A x \in ToSet(list) : x < e \/ x > e
    BY <1>2, <2>1
  <2>3. Range(Posted(e)) = ToSet(list) \cup {e}
    BY <1>3, <1>4, <1>7, <2>1, <2>2
  <2> QED
    BY <2>3 DEF ToSet, Range
<1> QED
  BY <1>7, <1>8, <1>10

LEMMA IncreasingInjective ==
  ASSUME NEW s \in Seq(Nat), Increasing(s)
  PROVE  IsInjective(s)
<1> SUFFICES ASSUME NEW i \in 1 .. Len(s), NEW j \in 1 .. Len(s), s[i] = s[j], i # j
             PROVE  FALSE
  BY DEF IsInjective
<1>1. s[i] \in Nat /\ s[j] \in Nat /\ (i < j \/ j < i)
  OBVIOUS
<1> QED
  BY <1>1 DEF Increasing

LEMMA ListStep == ListOK /\ [Next]_vars => ListOK'
<1> SUFFICES ASSUME ListOK, [Next]_vars PROVE ListOK'
  OBVIOUS
<1>1. ASSUME NEW e \in Events, PostAuditEvent(e) PROVE ListOK'
  <2>1. /\ e \notin posted /\ plane' = plane /\ list' = Posted(e)
        /\ posted' = posted \cup {e}
        /\ lagging' = IF plane = "mock" THEN {} ELSE lagging \cup {e}
    BY <1>1 DEF PostAuditEvent
  <2>2. CASE plane = "mock"
    <3>1. PICK cut \in Seq(posted \cup {e}) : list \o <<e>> = cut \o list'
      BY <2>1, <2>2, MockPosted
    <3>2. list' \in Seq(posted \cup {e}) /\ Len(list') <= EventLimit
          /\ IsInjective(list \o <<e>>)
      BY <2>1, <2>2, MockPosted
    <3>3. IsInjective(list')
      BY <3>1, <3>2, JoinedInjective
    <3> QED
      BY <2>1, <2>2, <3>2, <3>3 DEF ListOK
  <2>3. CASE plane = "serverless"
    <3>1. list' \in Seq(posted') /\ Increasing(list')
      BY <2>1, <2>3, ServerlessPosted
    <3>2. list' \in Seq(Nat)
      BY <2>1, <3>1, SeqMonotonic, ListOfNumbers, ViewAssumption
      DEF ViewAssumption
    <3>3. IsInjective(list')
      BY <3>1, <3>2, IncreasingInjective
    <3> QED
      BY <2>1, <2>3, <3>1, <3>3 DEF ListOK
  <2> QED
    BY <2>2, <2>3 DEF ListOK
<1>2. CASE Restart
  <2>1. /\ list' = <<>> /\ posted' = posted /\ plane' = plane /\ plane = "mock"
        /\ lagging' = lagging
    BY <1>2 DEF Restart
  <2>2. <<>> \in Seq(posted) /\ Len(<<>>) = 0 /\ IsInjective(<<>>)
    BY DEF IsInjective
  <2> QED
    BY <2>1, <2>2, ViewAssumption DEF ListOK, ViewAssumption
<1>3. ASSUME NEW e \in lagging, Replicate(e) PROVE ListOK'
  BY <1>3 DEF Replicate, ListOK
<1>4. CASE UNCHANGED serverVars
  BY <1>4 DEF serverVars, ListOK
<1> QED
  BY <1>1, <1>2, <1>3, <1>4
  DEF Next, RefreshEvents, InputFilter, ClearFilters, LoadMoreEvents,
      HandleGetAuditEvents, ShowRefresh, ShowMore, Fail, vars

-----------------------------------------------------------------------------
(* What a list loaded page by page owes its query.                         *)

\* What stands behind cursor c, also when the mock plane refuses it.
BehindCursor(p, l, q, c) ==
  IF p = "mock" THEN {Filtered(l, q)[i] : i \in 1 .. Least(c, Len(Filtered(l, q)))}
  ELSE {e \in ToSet(l) \cap q : e < c}

\* ev stands in the filtered list behind c events; with them it is b.
InPlace(l, q, ev, c, b) ==
  \E pre, post \in Seq(Events) :
    /\ Filtered(l, q) = (pre \o ev) \o post
    /\ Len(pre) = c
    /\ b = ToSet(pre \o ev)

\* Of the events b that q selected at the refresh, ev holds or c reaches those
\* the list l still has; when it has them all, ev holds none twice.
Whole(p, l, q, ev, c, b) ==
  /\ b \cap ToSet(l) \subseteq ToSet(ev) \cup BehindCursor(p, l, q, c)
  /\ b \subseteq ToSet(l) =>
       IF p = "mock" THEN InPlace(l, q, ev, c, b)
       ELSE IsInjective(ev) /\ (c # 0 => \A x \in ToSet(ev) : c <= x)

LEMMA ToSetJoined ==
  ASSUME NEW S, NEW s \in Seq(S), NEW t \in Seq(S)
  PROVE  ToSet(s \o t) = ToSet(s) \cup ToSet(t)
<1>1. \A u : ToSet(u) = Range(u)
  BY DEF ToSet, Range
<1>2. Range(s \o t) = Range(s) \cup Range(t)
  BY RangeConcatenation
<1> QED
  BY <1>1, <1>2

LEMMA MockKept ==
  ASSUME NEW l, NEW add, NEW cut, NEW ll,
         l \in Seq(Events), add \in Seq(Events), cut \in Seq(Events), ll \in Seq(Events),
         l \o add = cut \o ll, IsInjective(l \o add),
         NEW q, NEW ev, ev \in Seq(Events), NEW c \in Nat, NEW b, b \cap ToSet(add) = {},
         Whole("mock", l, q, ev, c, b)
  PROVE  Whole("mock", ll, q, ev, c, b)
<1> DEFINE f == Filtered(l, q)
           g == Filtered(ll, q)
           fa == Filtered(add, q)
           fc == Filtered(cut, q)
<1>1. /\ f \in Seq(Events) /\ ToSet(f) = ToSet(l) \cap q
      /\ g \in Seq(Events) /\ ToSet(g) = ToSet(ll) \cap q
      /\ fa \in Seq(Events) /\ fc \in Seq(Events)
  BY FilteredRange
<1>2. f \o fa = fc \o g /\ IsInjective(fc \o g)
  <2>1. Filtered(l \o add, q) = f \o fa /\ Filtered(cut \o ll, q) = fc \o g
    <3>1. Filtered(l \o add, q) = Filtered(l, q) \o Filtered(add, q)
      BY ONLY l \in Seq(Events), add \in Seq(Events), FilteredConcat
    <3>2. Filtered(cut \o ll, q) = Filtered(cut, q) \o Filtered(ll, q)
      BY ONLY cut \in Seq(Events), ll \in Seq(Events), FilteredConcat
    <3> QED
      BY <3>1, <3>2
  <2>2. l \o add \in Seq(Events)
    BY ConcatProperties
  <2>3. IsInjective(Filtered(l \o add, q))
    BY <2>2, FilteredInjective
  <2> QED
    BY <2>1, <2>3
<1>3. ToSet(ll) \subseteq ToSet(l) \cup ToSet(add)
  <2>1. ToSet(l \o add) = ToSet(l) \cup ToSet(add)
    BY ONLY l \in Seq(Events), add \in Seq(Events), ToSetJoined
  <2>2. ToSet(cut \o ll) = ToSet(cut) \cup ToSet(ll)
    BY ONLY cut \in Seq(Events), ll \in Seq(Events), ToSetJoined
  <2> QED
    BY <2>1, <2>2
<1> HIDE DEF f, g, fa, fc
<1>4. /\ Len(f) \in Nat /\ Len(g) \in Nat /\ Len(fc) \in Nat
      /\ DOMAIN f = 1 .. Len(f) /\ DOMAIN g = 1 .. Len(g)
  BY <1>1
<1>5. BehindCursor("mock", l, q, c) = {f[i] : i \in 1 .. Least(c, Len(f))}
  BY DEF BehindCursor, f
<1>6. BehindCursor("mock", ll, q, c) = {g[i] : i \in 1 .. Least(c, Len(g))}
  BY DEF BehindCursor, g
<1>7. ASSUME NEW i \in 1 .. Least(c, Len(f)), f[i] \in ToSet(ll)
      PROVE  f[i] \in BehindCursor("mock", ll, q, c)
  <2>1. i \in 1 .. Len(f) /\ i <= c
    BY <1>4 DEF Least
  <2>2. f[i] \in ToSet(g)
    <3>1. f[i] \in ToSet(f)
      BY <1>4, <2>1 DEF ToSet
    <3> QED
      BY <1>1, <1>7, <3>1
  <2>3. PICK j \in 1 .. Len(g) : g[j] = f[i]
    BY <1>4, <2>2 DEF ToSet
  <2>4. i \in DOMAIN (f \o fa) /\ (f \o fa)[i] = f[i]
    BY <1>1, <2>1, JoinedPlaces
  <2>5. Len(fc) + j \in DOMAIN (fc \o g) /\ (fc \o g)[Len(fc) + j] = g[j]
    <3>1. j \in DOMAIN g
      BY <1>4
    <3> QED
      <4>1. fc \in Seq(Events) /\ g \in Seq(Events)
        BY <1>1
      <4> QED
        BY ONLY <3>1, <4>1, JoinedPlaces
  <2>6. i = Len(fc) + j
    BY <1>2, <2>3, <2>4, <2>5 DEF IsInjective
  <2>7. j \in 1 .. Least(c, Len(g))
    BY <1>4, <2>1, <2>6 DEF Least
  <2> QED
    BY <1>6, <2>3, <2>7
<1>8. b \cap ToSet(ll) \subseteq ToSet(ev) \cup BehindCursor("mock", ll, q, c)
  <2> SUFFICES ASSUME NEW x \in b, x \in ToSet(ll)
               PROVE  x \in ToSet(ev) \cup BehindCursor("mock", ll, q, c)
    OBVIOUS
  <2>1. x \in ToSet(l)
    BY <1>3
  <2>2. x \in ToSet(ev) \/ x \in BehindCursor("mock", l, q, c)
    BY <2>1 DEF Whole
  <2>3. x \in ToSet(ev) \/ \E i \in 1 .. Least(c, Len(f)) : x = f[i]
    BY <1>5, <2>2
  <2> QED
    BY <1>7, <2>3
<1>9. ASSUME b \subseteq ToSet(ll) PROVE InPlace(ll, q, ev, c, b)
  <2>1. InPlace(l, q, ev, c, b)
    BY <1>3, <1>9 DEF Whole
  <2>2. PICK pre, post :
          /\ pre \in Seq(Events) /\ post \in Seq(Events)
          /\ f = (pre \o ev) \o post /\ Len(pre) = c /\ b = ToSet(pre \o ev)
    BY <2>1 DEF InPlace, f
  <2> DEFINE h == pre \o ev
  <2>3. h \in Seq(Events)
    BY <2>2, ConcatProperties
  <2>4. ASSUME NEW rest \in Seq(Events), g = h \o rest PROVE InPlace(ll, q, ev, c, b)
    BY <2>2, <2>4 DEF InPlace, g
  <2>5. CASE h = <<>>
    BY <1>1, <2>4, <2>5
  <2>6. CASE h # <<>>
    <3> HIDE DEF h
    <3>1. Len(h) \in Nat /\ 1 \in DOMAIN h /\ Len(h) # 0
      BY <2>3, <2>6, EmptySeq
    <3>2. h[1] \in ToSet(h) /\ h[1] \in b
      BY <2>2, <3>1 DEF ToSet, h
    <3>3. 1 \in DOMAIN f /\ f[1] = h[1] /\ 1 \in DOMAIN (f \o fa) /\ (f \o fa)[1] = h[1]
      BY <1>1, <2>2, <2>3, <3>1, JoinedPlaces DEF h
    <3>4. h[1] \in ToSet(g)
      BY <1>1, <1>9, <3>2, <3>3 DEF ToSet
    <3>5. fc = <<>>
      <4> SUFFICES ASSUME fc # <<>> PROVE FALSE
        OBVIOUS
      <4>1. 1 \in DOMAIN fc
        BY <1>1, EmptySeq
      <4>2. (fc \o g)[1] = fc[1]
        BY <1>1, <4>1, JoinedPlaces
      <4>3. h[1] \in Range(fc)
        BY <1>2, <3>3, <4>1, <4>2 DEF Range
      <4>4. h[1] \in Range(g)
        BY <3>4 DEF Range, ToSet
      <4> QED
        BY <1>1, <1>2, <4>3, <4>4, JoinedInjective
    <3>6. g = f \o fa
      BY <1>1, <1>2, <3>5, ConcatEmptySeq
    <3>a. h \in Seq(Events) /\ post \in Seq(Events) /\ fa \in Seq(Events)
      BY <1>1, <2>2, <2>3
    <3>7. (h \o post) \o fa = h \o (post \o fa) /\ post \o fa \in Seq(Events)
      BY ONLY <3>a, ConcatAssociative, ConcatProperties
    <3> QED
      BY <2>2, <2>4, <3>6, <3>7 DEF h
  <2> QED
    BY <2>5, <2>6
<1> QED
  BY <1>8, <1>9 DEF Whole

LEMMA ServerlessKept ==
  ASSUME NEW p, p # "mock", NEW l, NEW ll, NEW e, ToSet(ll) = ToSet(l) \cup {e},
         NEW q, NEW ev, NEW c, NEW b, e \notin b, Whole(p, l, q, ev, c, b)
  PROVE  Whole(p, ll, q, ev, c, b)
<1>1. BehindCursor(p, l, q, c) \subseteq BehindCursor(p, ll, q, c)
  BY DEF BehindCursor
<1> QED
  BY <1>1 DEF Whole

\* A page of the mock plane.
LEMMA MockPiece ==
  ASSUME NEW l, l \in Seq(Events), NEW q,
         NEW c \in 0 .. Len(Filtered(l, q)), NEW start \in 0 .. c
  PROVE  LET page == SubSeq(Filtered(l, q), start + 1, c)
         IN  /\ page \in Seq(Events)
             /\ Len(page) = c - start
             /\ \A i \in 1 .. c - start : page[i] = Filtered(l, q)[start + i]
             /\ ToSet(page) \subseteq ToSet(l)
<1> DEFINE f == Filtered(l, q)
           page == SubSeq(f, start + 1, c)
<1>1. f \in Seq(Events) /\ ToSet(f) = ToSet(l) \cap q
  BY FilteredRange
<1> HIDE DEF f
<1>2. Len(f) \in Nat /\ c \in 0 .. Len(f) /\ c \in Nat /\ start \in Nat /\ start <= c
  BY <1>1 DEF f
<1>3. /\ page \in Seq(Events)
      /\ Len(page) = c - start
      /\ \A i \in 1 .. c - start : page[i] = f[start + i]
  <2>1. /\ start + 1 \in Int /\ c \in Int
        /\ \A i \in (start + 1) .. c : f[i] \in Events
    BY <1>1, <1>2
  <2>2. /\ page \in Seq(Events)
        /\ Len(page) = IF start + 1 <= c THEN c - (start + 1) + 1 ELSE 0
        /\ \A i \in 1 .. c - (start + 1) + 1 : page[i] = f[(start + 1) + i - 1]
    BY <2>1, SubSeqProperties
  <2>3. /\ c - (start + 1) + 1 = c - start
        /\ \A i \in 1 .. c - start : (start + 1) + i - 1 = start + i
        /\ (start + 1 <= c \/ c - start = 0)
    BY <1>2
  <2> HIDE DEF page
  <2> QED
    BY <2>2, <2>3
<1> HIDE DEF page
<1>4. ToSet(page) \subseteq ToSet(l)
  <2>0. DOMAIN page = 1 .. c - start /\ ToSet(f) \subseteq ToSet(l)
    BY <1>1, <1>3
  <2> SUFFICES ASSUME NEW i \in 1 .. c - start PROVE page[i] \in ToSet(f)
    <3>1. ToSet(page) = {page[i] : i \in 1 .. c - start}
      BY <2>0 DEF ToSet
    <3> QED
      BY <2>0, <3>1
  <2>1. start + i \in DOMAIN f /\ page[i] = f[start + i]
    BY <1>1, <1>2, <1>3
  <2> QED
    BY <2>1 DEF ToSet
<1> QED
  BY <1>3, <1>4 DEF page, f

\* Cutting a page off what the mock plane's cursor reaches.
LEMMA MockCut ==
  ASSUME NEW l, l \in Seq(Events), NEW q, NEW ev, ev \in Seq(Events), NEW b,
         NEW c \in 0 .. Len(Filtered(l, q)), NEW start \in 0 .. c,
         Whole("mock", l, q, ev, c, b)
  PROVE  Whole("mock", l, q, SubSeq(Filtered(l, q), start + 1, c) \o ev, start, b)
<1> DEFINE f == Filtered(l, q)
           page == SubSeq(f, start + 1, c)
<1>1. f \in Seq(Events) /\ ToSet(f) = ToSet(l) \cap q
  BY FilteredRange
<1> HIDE DEF f
<1>2. Len(f) \in Nat /\ c \in 0 .. Len(f) /\ c \in Nat /\ start \in Nat /\ start <= c
  BY <1>1 DEF f
<1>3. /\ page \in Seq(Events)
      /\ Len(page) = c - start
      /\ \A i \in 1 .. c - start : page[i] = f[start + i]
  <2>1. /\ SubSeq(Filtered(l, q), start + 1, c) \in Seq(Events)
        /\ Len(SubSeq(Filtered(l, q), start + 1, c)) = c - start
        /\ \A i \in 1 .. c - start :
             SubSeq(Filtered(l, q), start + 1, c)[i] = Filtered(l, q)[start + i]
    BY ONLY l \in Seq(Events), c \in 0 .. Len(Filtered(l, q)), start \in 0 .. c, MockPiece
  <2> QED
    BY <2>1 DEF f
<1> HIDE DEF page
<1>5. ToSet(page \o ev) = ToSet(page) \cup ToSet(ev)
  BY <1>3, ToSetJoined
<1>6. /\ BehindCursor("mock", l, q, c) = {f[i] : i \in 1 .. c}
      /\ BehindCursor("mock", l, q, start) = {f[i] : i \in 1 .. start}
  <2>1. Least(c, Len(f)) = c /\ Least(start, Len(f)) = start
    BY <1>2 DEF Least
  <2> QED
    BY <2>1 DEF BehindCursor, f
<1>7. BehindCursor("mock", l, q, c) \subseteq ToSet(page) \cup BehindCursor("mock", l, q, start)
  <2> SUFFICES ASSUME NEW i \in 1 .. c, ~(i <= start) PROVE f[i] \in ToSet(page)
    BY <1>2, <1>6
  <2>1. i - start \in 1 .. c - start /\ start + (i - start) = i
    BY <1>2
  <2>2. page[i - start] = f[i] /\ i - start \in DOMAIN page
    BY <1>3, <2>1
  <2> QED
    BY <2>2 DEF ToSet
<1>8. ASSUME InPlace(l, q, ev, c, b) PROVE InPlace(l, q, page \o ev, start, b)
  <2>1. PICK pre, post :
          /\ pre \in Seq(Events) /\ post \in Seq(Events)
          /\ f = (pre \o ev) \o post /\ Len(pre) = c /\ b = ToSet(pre \o ev)
    BY <1>8 DEF InPlace, f
  <2> DEFINE head == SubSeq(pre, 1, start)
             tail == SubSeq(pre, start + 1, Len(pre))
  <2>2. /\ head \in Seq(Events) /\ tail \in Seq(Events)
        /\ Len(head) = start /\ Len(tail) = c - start /\ pre = head \o tail
    BY <1>2, <2>1, CutJoins
  <2> HIDE DEF head, tail
  <2>3. tail = page
    <3> SUFFICES ASSUME NEW i \in 1 .. c - start PROVE tail[i] = page[i]
      BY <1>3, <2>2, SeqEqual
    <3>1. i \in DOMAIN tail /\ i \in Nat
      BY <1>2, <2>2
    <3>2. start + i \in DOMAIN pre /\ pre[start + i] = tail[i]
      BY ONLY <2>2, <3>1, JoinedPlaces
    <3>3. /\ pre \o ev \in Seq(Events)
          /\ start + i \in DOMAIN (pre \o ev)
          /\ (pre \o ev)[start + i] = pre[start + i]
      BY ONLY <2>1, ev \in Seq(Events), <3>2, JoinedPlaces
    <3>4. ((pre \o ev) \o post)[start + i] = (pre \o ev)[start + i]
      BY ONLY <2>1, <3>3, JoinedPlaces
    <3> QED
      BY <1>3, <2>1, <3>2, <3>3, <3>4
  <2>4. pre \o ev = head \o (page \o ev)
    <3>1. /\ head \in Seq(Events) /\ page \in Seq(Events) /\ ev \in Seq(Events)
          /\ pre = head \o page
      BY <1>8, <2>2, <2>3
    <3>2. (head \o page) \o ev = head \o (page \o ev)
      BY ONLY <3>1, ConcatAssociative
    <3> QED
      BY <3>1, <3>2
  <2> QED
    BY <2>1, <2>2, <2>4 DEF InPlace, f
<1>9. Whole("mock", l, q, page \o ev, start, b)
  BY <1>5, <1>7, <1>8 DEF Whole
<1> QED
  BY <1>9 DEF page, f

\* What the mock plane answers to a refresh.
LEMMA MockFirst ==
  ASSUME NEW l, l \in Seq(Events), NEW q
  PROVE  Whole("mock", l, q, <<>>, Len(Filtered(l, q)), ToSet(l) \cap q)
<1> DEFINE f == Filtered(l, q)
<1>1. f \in Seq(Events) /\ ToSet(f) = ToSet(l) \cap q
  BY FilteredRange
<1> HIDE DEF f
<1>2. BehindCursor("mock", l, q, Len(f)) = ToSet(f)
  <2>1. Least(Len(f), Len(f)) = Len(f) /\ DOMAIN f = 1 .. Len(f)
    BY <1>1 DEF Least
  <2> QED
    BY <2>1 DEF BehindCursor, f, ToSet
<1>3. InPlace(l, q, <<>>, Len(f), ToSet(l) \cap q)
  <2>1. f \o <<>> = f /\ <<>> \in Seq(Events)
    BY <1>1
  <2> QED
    BY <1>1, <2>1 DEF InPlace, f
<1> QED
  BY <1>1, <1>2, <1>3 DEF Whole, f

\* What the serverless plane evaluates for one page: the newest events before
\* the cursor, and when it stops at the limit it names the oldest of them.
Evaluated(l, c) ==
  LET older == Filtered(Reverse(l), {e \in Events : c = 0 \/ e < c})
  IN  SubSeq(older, 1, Least(Len(older), PageSize))

Named(items) == IF Len(items) = PageSize THEN items[PageSize] ELSE 0

LEMMA Reversed ==
  ASSUME NEW l, l \in Seq(Events), Increasing(l)
  PROVE  /\ Reverse(l) \in Seq(Events)
         /\ ToSet(Reverse(l)) = ToSet(l)
         /\ \A i, j \in 1 .. Len(Reverse(l)) : i < j => Reverse(l)[j] < Reverse(l)[i]
<1> DEFINE n == Len(l)
<1>1. n \in Nat /\ DOMAIN l = 1 .. n /\ \A i \in 1 .. n : l[i] \in Events
  BY LenProperties
<1>2. Reverse(l) = [i \in 1 .. n |-> l[(n - i) + 1]]
  BY DEF Reverse
<1> HIDE DEF n
<1>3. \A i \in 1 .. n : (n - i) + 1 \in 1 .. n
  BY <1>1
<1>4. Reverse(l) \in Seq(Events) /\ Len(Reverse(l)) = n
      /\ \A i \in 1 .. n : Reverse(l)[i] = l[(n - i) + 1]
  BY <1>1, <1>2, <1>3
<1>5. DOMAIN Reverse(l) = 1 .. n
  BY <1>4
<1>6. ToSet(Reverse(l)) \subseteq ToSet(l)
  BY <1>1, <1>3, <1>4, <1>5 DEF ToSet
<1>7. ToSet(l) \subseteq ToSet(Reverse(l))
  <2> SUFFICES ASSUME NEW i \in 1 .. n PROVE l[i] \in ToSet(Reverse(l))
    BY <1>1 DEF ToSet
  <2>1. (n - i) + 1 \in 1 .. n /\ (n - ((n - i) + 1)) + 1 = i
    BY <1>1
  <2>2. Reverse(l)[(n - i) + 1] = l[i]
    BY <1>4, <2>1
  <2> QED
    BY <1>5, <2>1, <2>2 DEF ToSet
<1>8. ASSUME NEW i \in 1 .. n, NEW j \in 1 .. n, i < j
      PROVE  Reverse(l)[j] < Reverse(l)[i]
  <2>1. (n - j) + 1 < (n - i) + 1
    BY <1>1, <1>8
  <2> QED
    BY <1>1, <1>3, <1>4, <2>1 DEF Increasing
<1> QED
  BY <1>4, <1>6, <1>7, <1>8

LEMMA EvaluatedFacts ==
  ASSUME NEW l, l \in Seq(Events), Increasing(l), NEW c \in Nat
  PROVE  LET items == Evaluated(l, c)
             older == {e \in ToSet(l) : c = 0 \/ e < c}
         IN  /\ items \in Seq(Events)
             /\ IsInjective(items)
             /\ ToSet(items) \subseteq older
             /\ Named(items) = 0 => ToSet(items) = older
             /\ Named(items) # 0 =>
                  /\ Named(items) \in ToSet(items)
                  /\ \A x \in ToSet(items) : Named(items) <= x
                  /\ \A x \in older \ ToSet(items) : x < Named(items)
             /\ Named(items) \in Nat
<1> DEFINE D == {e \in Events : c = 0 \/ e < c}
           all == Filtered(Reverse(l), D)
           k == Least(Len(all), PageSize)
           items == SubSeq(all, 1, k)
<1> HIDE DEF D
<1>1. /\ all \in Seq(Events) /\ ToSet(all) = ToSet(l) \cap D
      /\ \A i, j \in 1 .. Len(all) : i < j => all[j] < all[i]
  <2>1. /\ Reverse(l) \in Seq(Events) /\ ToSet(Reverse(l)) = ToSet(l)
        /\ \A i, j \in 1 .. Len(Reverse(l)) : i < j => Reverse(l)[j] < Reverse(l)[i]
    BY Reversed
  <2>2. all \in Seq(Events) /\ ToSet(all) = ToSet(l) \cap D
    BY <2>1, FilteredRange
  <2>3. ASSUME NEW i \in 1 .. Len(all), NEW j \in 1 .. Len(all), i < j
        PROVE  all[j] < all[i]
    <3>0. Reverse(l) \in Seq(Events)
      BY <2>1
    <3>1. PICK at : Picks(Reverse(l), D, all, at)
      BY ONLY <3>0, FilteredPicks
    <3>2. PICK m, n \in 1 .. Len(Reverse(l)) :
            m < n /\ Reverse(l)[m] = all[i] /\ Reverse(l)[n] = all[j]
      BY ONLY <2>3, <3>1 DEF Picks
    <3> QED
      BY <2>1, <3>2
  <2> QED
    BY <2>2, <2>3
<1>2. ToSet(l) \subseteq Events
  BY DEF ToSet
<1>3. items = Evaluated(l, c)
  BY DEF Evaluated, D
<1> HIDE DEF all
<1>4. ToSet(all) = {e \in ToSet(l) : c = 0 \/ e < c}
  BY <1>1, <1>2 DEF D
<1> DEFINE n == Len(all)
<1>5. n \in Nat /\ DOMAIN all = 1 .. n
  BY <1>1
<1>6. \A i \in 1 .. n : all[i] \in Events /\ all[i] \in Nat /\ all[i] # 0
  <2>1. \A i \in 1 .. n : all[i] \in Events
    BY <1>1
  <2> QED
    BY <2>1, ViewAssumption DEF ViewAssumption
<1>7. \A i, j \in 1 .. n : i < j => all[j] < all[i]
  BY <1>1
<1>8. PageSize \in Nat /\ PageSize # 0
  BY ViewAssumption DEF ViewAssumption
<1>9. /\ k \in Nat /\ k <= n /\ k <= PageSize /\ (k # PageSize => k = n)
      /\ \A i \in 1 .. k : i \in 1 .. n
  BY ONLY <1>5, <1>8 DEF Least
<1> HIDE DEF k, n
<1>10. /\ items \in Seq(Events) /\ Len(items) = k /\ DOMAIN items = 1 .. k
       /\ \A i \in 1 .. k : items[i] = all[i]
  <2>1. 1 \in Int /\ k \in Int /\ \A i \in 1 .. k : all[i] \in Events
    BY <1>6, <1>9
  <2>2. /\ items \in Seq(Events)
        /\ Len(items) = IF 1 <= k THEN k - 1 + 1 ELSE 0
        /\ \A i \in 1 .. k - 1 + 1 : items[i] = all[1 + i - 1]
    BY ONLY <2>1, SubSeqProperties DEF items
  <2>3. /\ k - 1 + 1 = k /\ (1 <= k \/ k = 0)
        /\ \A i \in 1 .. k : 1 + i - 1 = i
    BY <1>9
  <2> HIDE DEF items
  <2> QED
    BY <2>2, <2>3
<1> HIDE DEF items
<1>11. ASSUME NEW i \in 1 .. n, NEW j \in 1 .. n, i < j PROVE all[i] # all[j]
  <2>1. all[j] < all[i] /\ all[i] \in Nat /\ all[j] \in Nat
    BY <1>6, <1>7, <1>11
  <2> QED
    BY <2>1
<1>12. IsInjective(items)
  <2> SUFFICES ASSUME NEW i \in 1 .. k, NEW j \in 1 .. k, items[i] = items[j]
               PROVE  i = j
    BY <1>10 DEF IsInjective
  <2>1. ~(i < j) /\ ~(j < i)
    BY <1>9, <1>10, <1>11
  <2> QED
    BY <1>9, <2>1
<1>13. ToSet(items) = {all[i] : i \in 1 .. k} /\ ToSet(all) = {all[i] : i \in 1 .. n}
  BY <1>5, <1>10 DEF ToSet
<1>14. ToSet(items) \subseteq ToSet(all)
  BY <1>9, <1>13
<1>15. CASE k # PageSize
  <2>1. Named(items) = 0 /\ ToSet(items) = ToSet(all)
    BY <1>9, <1>10, <1>13, <1>15 DEF Named
  <2> QED
    BY <1>3, <1>4, <1>10, <1>12, <2>1
<1>16. CASE k = PageSize
  <2>1. k \in 1 .. k /\ k \in 1 .. n
    BY <1>8, <1>9, <1>16
  <2>2. Named(items) = all[k] /\ all[k] \in Nat /\ all[k] # 0
    BY <1>6, <1>10, <1>16, <2>1 DEF Named
  <2>3. ASSUME NEW i \in 1 .. k PROVE all[k] <= all[i]
    <3>1. i \in 1 .. n /\ (i < k \/ i = k)
      BY <1>9
    <3>2. all[i] \in Nat
      BY <1>6, <3>1
    <3>3. i < k => all[k] < all[i]
      BY <1>7, <2>1, <3>1
    <3> QED
      BY <2>2, <3>1, <3>2, <3>3
  <2>4. ASSUME NEW i \in 1 .. n, all[i] \notin ToSet(items) PROVE all[i] < all[k]
    <3>1. i \notin 1 .. k
      BY <1>13, <2>4
    <3>2. k < i
      BY <1>9, <3>1
    <3> QED
      BY <1>7, <2>1, <3>2
  <2>5. Named(items) \in ToSet(items) /\ \A x \in ToSet(items) : Named(items) <= x
    BY <1>13, <2>1, <2>2, <2>3
  <2>6. \A x \in ToSet(all) \ ToSet(items) : x < Named(items)
    BY <1>13, <2>2, <2>4
  <2> QED
    BY <1>3, <1>4, <1>10, <1>12, <1>14, <2>2, <2>5, <2>6
<1> QED
  BY <1>15, <1>16

\* What the serverless plane answers to a refresh, and to a request for more,
\* when t is what the replica it reads has of the list l.
LEMMA ServerlessFirst ==
  ASSUME NEW p, p # "mock", NEW l, NEW t, t \in Seq(Events), Increasing(t),
         ToSet(t) \subseteq ToSet(l), NEW q, NEW b, b \subseteq ToSet(t) \cap q
  PROVE  Whole(p, l, q, Filtered(Evaluated(t, 0), q), Named(Evaluated(t, 0)), b)
<1> DEFINE items == Evaluated(t, 0)
           page == Filtered(items, q)
           older == {e \in ToSet(t) : 0 = 0 \/ e < 0}
<1>0. /\ items \in Seq(Events) /\ IsInjective(items) /\ ToSet(items) \subseteq older
      /\ Named(items) = 0 => ToSet(items) = older
      /\ Named(items) # 0 =>
           /\ \A x \in ToSet(items) : Named(items) <= x
           /\ \A x \in older \ ToSet(items) : x < Named(items)
  <2>1. 0 \in Nat
    OBVIOUS
  <2> QED
    BY <2>1, EvaluatedFacts
<1>1. /\ items \in Seq(Events) /\ IsInjective(items) /\ ToSet(items) \subseteq ToSet(t)
      /\ Named(items) = 0 => ToSet(items) = ToSet(t)
      /\ Named(items) # 0 =>
           /\ \A x \in ToSet(items) : Named(items) <= x
           /\ \A x \in ToSet(t) \ ToSet(items) : x < Named(items)
  <2>1. older = ToSet(t)
    OBVIOUS
  <2> QED
    BY <1>0, <2>1
<1> HIDE DEF items
<1>2. ToSet(page) = ToSet(items) \cap q
  BY <1>1, FilteredRange
<1>3. IsInjective(page)
  BY <1>1, FilteredInjective
<1> HIDE DEF page
<1>4. ASSUME NEW x \in b
      PROVE  x \in ToSet(page) \cup BehindCursor(p, l, q, Named(items))
  <2>1. CASE x \in ToSet(items)
    BY <1>2, <2>1
  <2>2. CASE x \notin ToSet(items)
    <3>1. x < Named(items)
      BY <1>1, <2>2
    <3> QED
      BY <3>1 DEF BehindCursor
  <2> QED
    BY <2>1, <2>2
<1>5. Named(items) # 0 => \A x \in ToSet(page) : Named(items) <= x
  BY <1>1, <1>2
<1> QED
  BY <1>3, <1>4, <1>5 DEF Whole, items, page

LEMMA ServerlessCut ==
  ASSUME NEW p, p # "mock", NEW l, NEW t, t \in Seq(Events), Increasing(t),
         ToSet(t) \subseteq ToSet(l), NEW q, NEW ev, ev \in Seq(Events),
         NEW b, b \cap ToSet(l) \subseteq ToSet(t), NEW c \in Nat, c # 0,
         Whole(p, l, q, ev, c, b)
  PROVE  Whole(p, l, q, Filtered(Evaluated(t, c), q) \o ev, Named(Evaluated(t, c)), b)
<1> DEFINE items == Evaluated(t, c)
           page == Filtered(items, q)
           older == {e \in ToSet(t) : c = 0 \/ e < c}
<1>1. /\ items \in Seq(Events) /\ IsInjective(items) /\ ToSet(items) \subseteq older
      /\ Named(items) = 0 => ToSet(items) = older
      /\ Named(items) # 0 =>
           /\ Named(items) \in ToSet(items)
           /\ \A x \in ToSet(items) : Named(items) <= x
           /\ \A x \in older \ ToSet(items) : x < Named(items)
      /\ Named(items) \in Nat
  BY EvaluatedFacts
<1>2. older = {e \in ToSet(t) : e < c}
  OBVIOUS
<1> HIDE DEF items, older
<1>3. page \in Seq(Events) /\ ToSet(page) = ToSet(items) \cap q
  BY <1>1, FilteredRange
<1>4. IsInjective(page)
  BY <1>1, FilteredInjective
<1> HIDE DEF page
<1>5. ToSet(page \o ev) = ToSet(page) \cup ToSet(ev)
  BY <1>3, ToSetJoined
<1>6. BehindCursor(p, l, q, c) \cap ToSet(t) \subseteq older \cap q
  BY <1>2 DEF BehindCursor
<1>7. ASSUME NEW x \in older \cap q
      PROVE  x \in ToSet(page) \cup BehindCursor(p, l, q, Named(items))
  <2>1. CASE x \in ToSet(items)
    BY <1>3, <2>1
  <2>2. CASE x \notin ToSet(items)
    <3>1. x < Named(items) /\ x \in ToSet(t)
      BY <1>1, <1>2, <1>7, <2>2
    <3> QED
      BY <1>7, <3>1 DEF BehindCursor
  <2> QED
    BY <2>1, <2>2
<1>8. ASSUME IsInjective(ev), \A x \in ToSet(ev) : c <= x
      PROVE  /\ IsInjective(page \o ev)
             /\ Named(items) # 0 => \A x \in ToSet(page \o ev) : Named(items) <= x
  <2>1. ToSet(page) \subseteq Nat /\ ToSet(ev) \subseteq Nat
    <3>1. ToSet(page) \subseteq Events /\ ToSet(ev) \subseteq Events
      BY <1>3 DEF ToSet
    <3> QED
      BY <3>1, ViewAssumption DEF ViewAssumption
  <2>2. \A x \in ToSet(page) : x < c
    BY <1>1, <1>2, <1>3
  <2>3. ToSet(page) \cap ToSet(ev) = {}
    BY <1>8, <2>1, <2>2
  <2>4. IsInjective(page \o ev)
    <3>1. Range(page) \cap Range(ev) = {}
      BY <2>3 DEF Range, ToSet
    <3> QED
      BY <1>3, <1>4, <1>8, <3>1, JoinedInjective
  <2>5. ASSUME Named(items) # 0, NEW x \in ToSet(page) \cup ToSet(ev)
        PROVE  Named(items) <= x
    <3>1. CASE x \in ToSet(page)
      BY <1>1, <1>3, <2>5, <3>1
    <3>2. CASE x \in ToSet(ev)
      <4>1. Named(items) < c /\ c <= x
        BY <1>1, <1>2, <1>8, <2>5, <3>2
      <4> QED
        BY <1>1, <2>1, <3>2, <4>1
    <3> QED
      BY <2>5, <3>1, <3>2
  <2> QED
    BY <1>5, <2>4, <2>5
<1>9. b \cap ToSet(l) \subseteq ToSet(page \o ev) \cup BehindCursor(p, l, q, Named(items))
  <2> SUFFICES ASSUME NEW x \in b, x \in ToSet(l)
               PROVE  x \in ToSet(page \o ev) \cup BehindCursor(p, l, q, Named(items))
    OBVIOUS
  <2>1. x \in ToSet(t) /\ (x \in ToSet(ev) \/ x \in BehindCursor(p, l, q, c))
    BY DEF Whole
  <2> QED
    BY <1>5, <1>6, <1>7, <2>1
<1> QED
  BY <1>8, <1>9 DEF Whole, items, page

-----------------------------------------------------------------------------
(* The steps of the control planes.                                        *)

LEMMA ListTyped ==
  ASSUME ListOK
  PROVE  /\ list \in Seq(Events) /\ posted \subseteq Events
         /\ ToSet(list) \subseteq posted
         /\ \A s \in Seq(posted) : s \in Seq(Events) /\ ToSet(s) \subseteq posted
         /\ \A s \in Seq(Events) : ToSet(s) \subseteq posted => s \in Seq(posted)
<1>1. list \in Seq(posted) /\ posted \subseteq Events
  BY DEF ListOK
<1>2. \A s \in Seq(posted) : s \in Seq(Events) /\ ToSet(s) \subseteq posted
  <2> SUFFICES ASSUME NEW s, s \in Seq(posted)
               PROVE  s \in Seq(Events) /\ ToSet(s) \subseteq posted
    OBVIOUS
  <2>1. s \in Seq(Events)
    BY <1>1, SeqMonotonic
  <2>2. ToSet(s) \subseteq posted
    BY DEF ToSet
  <2> QED
    BY <2>1, <2>2
<1>3. \A s \in Seq(Events) : ToSet(s) \subseteq posted => s \in Seq(posted)
  <2> SUFFICES ASSUME NEW s, s \in Seq(Events), ToSet(s) \subseteq posted
               PROVE  s \in Seq(posted)
    OBVIOUS
  <2>1. Len(s) \in Nat /\ s \in [1 .. Len(s) -> Events] /\ DOMAIN s = 1 .. Len(s)
    BY LenProperties
  <2>2. \A i \in 1 .. Len(s) : s[i] \in posted
    BY <2>1 DEF ToSet
  <2>3. s \in [1 .. Len(s) -> posted]
    BY <2>1, <2>2
  <2> QED
    BY <2>1, <2>3, IsASeq
<1> QED
  BY <1>1, <1>2, <1>3

\* What a read finds: the whole list of the mock plane; of the table, in its
\* order, at least the events that do not lag.
LEMMA ReplicaFacts ==
  ASSUME ListOK, NEW t \in Replicas
  PROVE  /\ t \in Seq(Events)
         /\ ToSet(t) \subseteq ToSet(list)
         /\ ToSet(list) \ lagging \subseteq ToSet(t)
         /\ plane = "mock" => t = list
         /\ plane # "mock" => Increasing(t)
<1>1. PICK missing \in SUBSET lagging : t = Filtered(list, posted \ missing)
  BY DEF Replicas
<1>2. list \in Seq(Events) /\ ToSet(list) \subseteq posted
  BY ListTyped
<1>3. t \in Seq(Events) /\ ToSet(t) = ToSet(list) \cap (posted \ missing)
  BY ONLY <1>1, <1>2, FilteredRange
<1>4. ASSUME plane = "mock" PROVE t = list
  <2>1. posted \ missing = posted
    BY <1>4 DEF ListOK
  <2>2. Filtered(list, posted) = list
    BY ONLY <1>2, FilteredAll
  <2> QED
    BY <1>1, <2>1, <2>2
<1>5. ASSUME plane # "mock" PROVE Increasing(t)
  <2>1. list \in Seq(Nat) /\ Increasing(list)
    BY <1>5, ListOfNumbers DEF ListOK
  <2> QED
    BY ONLY <1>1, <2>1, FilteredIncreasing
<1> QED
  BY <1>2, <1>3, <1>4, <1>5

LEMMA PageTyped ==
  ASSUME ListOK, NEW q, NEW c \in Nat, InRange(q, c), NEW t \in Replicas
  PROVE  Page(t, q, c).events \in Seq(posted) /\ Page(t, q, c).next \in Nat
<1>0. /\ list \in Seq(Events) /\ t \in Seq(Events) /\ ToSet(t) \subseteq ToSet(list)
      /\ plane = "mock" => t = list
      /\ plane # "mock" => Increasing(t)
  BY ListTyped, ReplicaFacts
<1>1. CASE plane = "mock"
  <2> DEFINE f == Filtered(list, q)
             end == IF c = 0 THEN Len(f) ELSE c
             start == end - Least(end, PageSize)
  <2>1. f \in Seq(Events)
    BY <1>0, FilteredRange
  <2>2. c <= Len(f)
    BY <1>1 DEF InRange
  <2>3. /\ Page(t, q, c).events = SubSeq(f, start + 1, end)
        /\ Page(t, q, c).next = start
    BY <1>0, <1>1 DEF Page, MockPage
  <2>4. end \in 0 .. Len(f) /\ start \in 0 .. end
    <3>1. Len(f) \in Nat /\ PageSize \in Nat
      BY <2>1, ViewAssumption DEF ViewAssumption
    <3> HIDE DEF f
    <3>2. end \in 0 .. Len(f)
      BY <2>2, <3>1
    <3> HIDE DEF end
    <3> QED
      BY <3>1, <3>2 DEF Least
  <2> HIDE DEF end, start
  <2>5. /\ SubSeq(f, start + 1, end) \in Seq(Events)
        /\ ToSet(SubSeq(f, start + 1, end)) \subseteq ToSet(list)
    BY <1>0, <2>4, MockPiece
  <2>6. SubSeq(f, start + 1, end) \in Seq(posted)
    BY <2>5, ListTyped
  <2>7. start \in Nat
    BY <2>4
  <2> QED
    BY <2>3, <2>6, <2>7
<1>2. CASE plane # "mock"
  <2>1. Increasing(t)
    BY <1>0, <1>2
  <2>2. /\ Evaluated(t, c) \in Seq(Events)
        /\ ToSet(Evaluated(t, c)) \subseteq ToSet(list)
        /\ Named(Evaluated(t, c)) \in Nat
    <3> DEFINE older == {e \in ToSet(t) : c = 0 \/ e < c}
    <3>1. /\ Evaluated(t, c) \in Seq(Events)
          /\ ToSet(Evaluated(t, c)) \subseteq older
          /\ Named(Evaluated(t, c)) \in Nat
      BY <1>0, <2>1, EvaluatedFacts
    <3> QED
      BY <1>0, <3>1
  <2>3. /\ Page(t, q, c).events = Filtered(Evaluated(t, c), q)
        /\ Page(t, q, c).next = Named(Evaluated(t, c))
    BY <1>2 DEF Page, ServerlessPage, Evaluated, Named
  <2>4. /\ Filtered(Evaluated(t, c), q) \in Seq(Events)
        /\ ToSet(Filtered(Evaluated(t, c), q)) \subseteq ToSet(list)
    BY <2>2, FilteredRange
  <2> QED
    BY <2>2, <2>3, <2>4, ListTyped
<1> QED
  BY <1>1, <1>2

LEMMA RefreshPage ==
  ASSUME ListOK, NEW q, NEW t \in Replicas
  PROVE  Whole(plane, list, q, Page(t, q, 0).events, Page(t, q, 0).next,
               (ToSet(list) \ lagging) \cap q)
<1>0. /\ list \in Seq(Events) /\ t \in Seq(Events) /\ ToSet(t) \subseteq ToSet(list)
      /\ ToSet(list) \ lagging \subseteq ToSet(t)
      /\ plane = "mock" => t = list /\ lagging = {}
      /\ plane # "mock" => Increasing(t)
  BY ListTyped, ReplicaFacts DEF ListOK
<1>1. CASE plane = "mock"
  <2> DEFINE f == Filtered(list, q)
             start == Len(f) - Least(Len(f), PageSize)
             page == SubSeq(f, start + 1, Len(f))
  <2>1. f \in Seq(Events) /\ Len(f) \in Nat
    BY <1>0, FilteredRange
  <2>2. Page(t, q, 0).events = page /\ Page(t, q, 0).next = start
    BY <1>0, <1>1 DEF Page, MockPage
  <2>3. Len(f) \in 0 .. Len(f) /\ start \in 0 .. Len(f)
    <3>1. Len(f) \in Nat /\ PageSize \in Nat
      BY <2>1, ViewAssumption DEF ViewAssumption
    <3> HIDE DEF f
    <3> QED
      BY <3>1 DEF Least
  <2>4. Whole("mock", list, q, <<>>, Len(f), ToSet(list) \cap q)
    BY <1>0, MockFirst
  <2> HIDE DEF start
  <2>5. <<>> \in Seq(Events)
    OBVIOUS
  <2>6. Whole("mock", list, q, page \o <<>>, start, ToSet(list) \cap q)
    BY <1>0, <2>3, <2>4, <2>5, MockCut
  <2>7. page \in Seq(Events)
    BY <1>0, <2>3, MockPiece
  <2> HIDE DEF page
  <2>8. page \o <<>> = page
    BY <2>7
  <2>9. (ToSet(list) \ lagging) \cap q = ToSet(list) \cap q
    BY <1>0, <1>1
  <2> QED
    BY <1>1, <2>2, <2>6, <2>8, <2>9
<1>2. CASE plane # "mock"
  <2> DEFINE b == (ToSet(list) \ lagging) \cap q
  <2>1. Increasing(t) /\ b \subseteq ToSet(t) \cap q
    BY <1>0, <1>2
  <2>2. /\ Page(t, q, 0).events = Filtered(Evaluated(t, 0), q)
        /\ Page(t, q, 0).next = Named(Evaluated(t, 0))
    BY <1>2 DEF Page, ServerlessPage, Evaluated, Named
  <2> HIDE DEF b
  <2>3. Whole(plane, list, q, Filtered(Evaluated(t, 0), q), Named(Evaluated(t, 0)), b)
    BY ONLY <1>0, <1>2, <2>1, ServerlessFirst
  <2> QED
    BY <2>2, <2>3 DEF b
<1> QED
  BY <1>1, <1>2

LEMMA OlderPage ==
  ASSUME ListOK, NEW q, NEW c \in Nat, c # 0, InRange(q, c), NEW t \in Replicas,
         NEW ev, ev \in Seq(Events), NEW b, b \subseteq posted \ lagging,
         Whole(plane, list, q, ev, c, b)
  PROVE  Whole(plane, list, q, Page(t, q, c).events \o ev, Page(t, q, c).next, b)
<1>0. /\ list \in Seq(Events) /\ t \in Seq(Events) /\ ToSet(t) \subseteq ToSet(list)
      /\ ToSet(list) \ lagging \subseteq ToSet(t)
      /\ plane = "mock" => t = list
      /\ plane # "mock" => Increasing(t)
  BY ListTyped, ReplicaFacts
<1>1. CASE plane = "mock"
  <2> DEFINE f == Filtered(list, q)
             start == c - Least(c, PageSize)
             page == SubSeq(f, start + 1, c)
  <2>1. f \in Seq(Events) /\ Len(f) \in Nat
    BY <1>0, FilteredRange
  <2>2. Page(t, q, c).events = page /\ Page(t, q, c).next = start
    BY <1>0, <1>1 DEF Page, MockPage
  <2>3. c \in 0 .. Len(f) /\ start \in 0 .. c
    <3>1. c <= Len(f) /\ Len(f) \in Nat /\ PageSize \in Nat
      BY <1>1, <2>1, ViewAssumption DEF ViewAssumption, InRange
    <3> HIDE DEF f
    <3> QED
      BY <3>1 DEF Least
  <2> HIDE DEF start
  <2>4. Whole("mock", list, q, ev, c, b)
    BY <1>1
  <2>5. Whole("mock", list, q, page \o ev, start, b)
    BY <1>0, <2>3, <2>4, MockCut
  <2> QED
    BY <1>1, <2>2, <2>5
<1>2. CASE plane # "mock"
  <2>1. Increasing(t) /\ b \cap ToSet(list) \subseteq ToSet(t)
    BY <1>0, <1>2
  <2>2. /\ Page(t, q, c).events = Filtered(Evaluated(t, c), q)
        /\ Page(t, q, c).next = Named(Evaluated(t, c))
    BY <1>2 DEF Page, ServerlessPage, Evaluated, Named
  <2>3. Whole(plane, list, q, Filtered(Evaluated(t, c), q) \o ev, Named(Evaluated(t, c)), b)
    BY ONLY <1>0, <1>2, <2>1, c \in Nat, c # 0, ev \in Seq(Events),
            Whole(plane, list, q, ev, c, b), ServerlessCut
  <2> QED
    BY <2>2, <2>3
<1> QED
  BY <1>1, <1>2

\* Whatever happens to the list, what was whole stays whole.
LEMMA WholeKept ==
  ASSUME ListOK, [Next]_vars, NEW q, NEW ev, ev \in Seq(Events), NEW c \in Nat,
         NEW b, b \subseteq posted, Whole(plane, list, q, ev, c, b)
  PROVE  Whole(plane', list', q, ev, c, b)
<1>1. ASSUME NEW e \in Events, PostAuditEvent(e)
      PROVE  Whole(plane', list', q, ev, c, b)
  <2>1. e \notin posted /\ plane' = plane /\ list' = Posted(e) /\ posted' = posted \cup {e}
    BY <1>1 DEF PostAuditEvent
  <2>2. CASE plane = "mock"
    <3>1. PICK cut \in Seq(posted \cup {e}) : list \o <<e>> = cut \o list'
      BY <2>1, <2>2, MockPosted
    <3>2. list' \in Seq(posted \cup {e}) /\ IsInjective(list \o <<e>>)
      BY <2>1, <2>2, MockPosted
    <3>3. posted \cup {e} \subseteq Events
      BY ListTyped
    <3>4. cut \in Seq(Events) /\ list' \in Seq(Events)
      BY <3>1, <3>2, <3>3, SeqMonotonic
    <3>5. list \in Seq(Events) /\ <<e>> \in Seq(Events) /\ ToSet(<<e>>) = {e}
      BY ListTyped DEF ToSet
    <3>6. b \cap ToSet(<<e>>) = {}
      BY <2>1, <3>5
    <3>7. Whole("mock", list, q, ev, c, b)
      BY <2>2
    <3>8. Whole("mock", list', q, ev, c, b)
      BY ONLY <3>1, <3>2, <3>4, <3>5, <3>6, <3>7, ev \in Seq(Events), c \in Nat, MockKept
    <3> QED
      BY <2>1, <2>2, <3>8
  <2>3. CASE plane = "serverless"
    <3>1. ToSet(list') = ToSet(list) \cup {e}
      BY <2>1, <2>3, ServerlessPosted
    <3>2. e \notin b
      BY <2>1
    <3> QED
      BY <2>1, <2>3, <3>1, <3>2, ServerlessKept
  <2> QED
    BY <2>2, <2>3 DEF ListOK
<1>2. CASE Restart
  <2>1. list' = <<>> /\ plane' = plane /\ plane = "mock"
    BY <1>2 DEF Restart
  <2>2. /\ list \in Seq(Events) /\ <<>> \in Seq(Events) /\ IsInjective(list)
        /\ list \o <<>> = list /\ b \cap ToSet(<<>>) = {}
    BY ListTyped DEF ListOK, ToSet
  <2>3. Whole("mock", list, q, ev, c, b)
    BY <2>1
  <2>4. Whole("mock", <<>>, q, ev, c, b)
    BY ONLY <2>2, <2>3, ev \in Seq(Events), c \in Nat, MockKept
  <2> QED
    BY <2>1, <2>4
<1>3. CASE UNCHANGED <<plane, list>>
  BY <1>3
<1> QED
  BY <1>1, <1>2, <1>3
  DEF Next, Replicate, serverVars, RefreshEvents, InputFilter, ClearFilters, LoadMoreEvents,
      HandleGetAuditEvents, ShowRefresh, ShowMore, Fail, vars

-----------------------------------------------------------------------------
(* Types, and that a request is under way while the view loads.            *)

Pending ==
  /\ requests \subseteq Request
  /\ \A r \in requests : r.events \in Seq(posted) /\ r.base \subseteq posted \ lagging

Shown ==
  /\ query \in Queries /\ loadedFor \in Queries
  /\ loaded \in Seq(posted) /\ cursor \in Nat /\ base \subseteq posted \ lagging
  /\ loading \in BOOLEAN /\ mixed \in BOOLEAN

Typed == ListOK /\ Pending /\ Shown

LEMMA MorePosted ==
  ASSUME Typed, [Next]_vars
  PROVE  /\ posted \subseteq posted' /\ posted' \subseteq Events
         /\ posted \ lagging \subseteq posted' \ lagging'
         /\ \A s \in Seq(posted) : s \in Seq(posted')
<1>1. /\ posted \subseteq posted' /\ posted' \subseteq Events
      /\ posted \ lagging \subseteq posted' \ lagging'
  <2>1. ListOK'
    BY ListStep DEF Typed
  <2>2. posted \subseteq posted' /\ posted \ lagging \subseteq posted' \ lagging'
    BY DEF Next, Replicate, PostAuditEvent, Restart, RefreshEvents, InputFilter, ClearFilters,
           LoadMoreEvents, HandleGetAuditEvents, ShowRefresh, ShowMore, Fail,
           vars, serverVars
  <2> QED
    BY <2>1, <2>2 DEF ListOK
<1> QED
  BY <1>1, SeqMonotonic

\* A request that is sent.
LEMMA Sent ==
  ASSUME NEW k, k \in {"refresh", "more"}, NEW q \in Queries, NEW c \in Nat,
         Send(k, q, c)
  PROVE  \E s \in Request :
           /\ requests' = requests \cup {s} /\ loading' = TRUE
           /\ s.events = <<>> /\ s.base = {}
<1> DEFINE free == 1 .. MaxInFlight \ {r.id : r \in requests}
           s == [id |-> Min(free), kind |-> k, query |-> q, cursor |-> c,
                 answered |-> FALSE, events |-> <<>>, next |-> 0, base |-> {},
                 fresh |-> TRUE]
<1>1. free # {} /\ requests' = requests \cup {s} /\ loading' = TRUE
  BY DEF Send
<1>2. Min(free) \in 1 .. MaxInFlight
  <2>1. free \subseteq Nat
    OBVIOUS
  <2>2. \E n \in free : \A m \in free : n <= m
    <3> HIDE DEF free
    <3> QED
      BY <1>1, <2>1, LeastNatural
  <2>3. Min(free) \in free
    <3> HIDE DEF free
    <3> QED
      BY <2>2 DEF Min
  <2> QED
    BY <2>3
<1> HIDE DEF free
<1>3. <<>> \in Seq(Events) /\ 0 \in Nat /\ {} \in SUBSET Events
  OBVIOUS
<1>4. s \in Request
  BY <1>2, <1>3 DEF Request
<1> QED
  BY <1>1, <1>4

\* A request that is answered from what a read has found.
Answer(r, t) ==
  LET page == Page(t, r.query, r.cursor)
  IN  [r EXCEPT !.answered = TRUE, !.events = page.events, !.next = page.next,
                !.base = IF r.kind = "refresh" THEN (ToSet(list) \ lagging) \cap r.query
                         ELSE {}]

LEMMA Answered ==
  ASSUME Typed, NEW r \in requests, HandleGetAuditEvents(r)
  PROVE  \E t \in Replicas :
         /\ requests' = (requests \ {r}) \cup {Answer(r, t)}
         /\ Answer(r, t) \in Request
         /\ Answer(r, t).kind = r.kind /\ Answer(r, t).query = r.query
         /\ Answer(r, t).cursor = r.cursor /\ Answer(r, t).fresh = r.fresh
         /\ Answer(r, t).events = Page(t, r.query, r.cursor).events
         /\ Answer(r, t).next = Page(t, r.query, r.cursor).next
         /\ Answer(r, t).base =
              IF r.kind = "refresh" THEN (ToSet(list) \ lagging) \cap r.query ELSE {}
         /\ Answer(r, t).events \in Seq(posted)
         /\ Answer(r, t).base \subseteq posted \ lagging
<1>1. r \in Request
  BY DEF Typed, Pending
<1>0. PICK t \in Replicas : requests' = (requests \ {r}) \cup {Answer(r, t)}
  <2>1. PICK page \in Pages(r.query, r.cursor) :
          requests' = (requests \ {r}) \cup
            {[r EXCEPT !.answered = TRUE, !.events = page.events, !.next = page.next,
                       !.base = IF r.kind = "refresh"
                                THEN (ToSet(list) \ lagging) \cap r.query ELSE {}]}
    BY DEF HandleGetAuditEvents
  <2>2. PICK t \in Replicas : page = Page(t, r.query, r.cursor)
    BY DEF Pages
  <2> QED
    BY <2>1, <2>2 DEF Answer
<1> DEFINE ev == Page(t, r.query, r.cursor).events
           nx == Page(t, r.query, r.cursor).next
           bs == IF r.kind = "refresh" THEN (ToSet(list) \ lagging) \cap r.query ELSE {}
           a == [r EXCEPT !.answered = TRUE, !.events = ev, !.next = nx, !.base = bs]
<1>2. Answer(r, t) = a
  BY DEF Answer
<1>3. ev \in Seq(posted) /\ nx \in Nat
  <2>1. ListOK /\ r.cursor \in Nat /\ InRange(r.query, r.cursor)
    BY <1>1 DEF Typed, HandleGetAuditEvents, Request
  <2> QED
    BY <2>1, PageTyped
<1>4. bs \subseteq posted \ lagging /\ bs \subseteq Events /\ ev \in Seq(Events)
  BY <1>3, ListTyped DEF Typed
<1> HIDE DEF ev, nx, bs
<1>5. /\ a \in Request /\ a.kind = r.kind /\ a.query = r.query /\ a.cursor = r.cursor
      /\ a.fresh = r.fresh /\ a.events = ev /\ a.next = nx /\ a.base = bs
  BY <1>1, <1>3, <1>4 DEF Request
<1> HIDE DEF a
<1> QED
  BY <1>0, <1>2, <1>3, <1>4, <1>5 DEF ev, nx, bs

\* What is under way after a request is done.
LEMMA StillUnderWay ==
  ASSUME requests \subseteq Request, NEW r, Done(r), NEW y \in requests'
  PROVE  \E x \in requests :
           /\ y \in Request /\ y.kind = x.kind /\ y.query = x.query
           /\ y.cursor = x.cursor /\ y.answered = x.answered /\ y.events = x.events
           /\ y.next = x.next /\ y.base = x.base /\ y.fresh = (x.kind = "refresh")
<1>1. PICK x \in requests : y = [x EXCEPT !.fresh = x.kind = "refresh"]
  BY DEF Done
<1>2. x \in Request /\ (x.kind = "refresh") \in BOOLEAN
  OBVIOUS
<1> QED
  BY <1>1, <1>2 DEF Request

LEMMA TypedInit == Init => Typed
<1> SUFFICES ASSUME Init PROVE Typed
  OBVIOUS
<1>1. <<>> \in Seq(posted) /\ Len(<<>>) = 0 /\ IsInjective(<<>>) /\ Increasing(<<>>)
  BY DEF IsInjective, Increasing
<1>2. 0 <= EventLimit /\ 0 \in Nat
  BY ViewAssumption DEF ViewAssumption
<1>3. /\ list = <<>> /\ posted = {} /\ lagging = {} /\ plane \in {"mock", "serverless"}
      /\ query \in Queries /\ loaded = <<>> /\ cursor = 0 /\ loading = FALSE
      /\ requests = {} /\ loadedFor = query /\ base = {} /\ mixed = FALSE
  BY DEF Init
<1>4. ListOK
  BY <1>1, <1>2, <1>3 DEF ListOK
<1>5. Pending
  BY <1>3 DEF Pending
<1>6. Shown
  BY <1>1, <1>2, <1>3 DEF Shown
<1> QED
  BY <1>4, <1>5, <1>6 DEF Typed

LEMMA TypedStep == Typed /\ [Next]_vars => Typed'
<1> SUFFICES ASSUME Typed, [Next]_vars PROVE Typed'
  OBVIOUS
<1>1. ListOK'
  BY ListStep DEF Typed
<1>2. /\ posted \subseteq posted' /\ posted' \subseteq Events
      /\ posted \ lagging \subseteq posted' \ lagging'
      /\ \A s \in Seq(posted) : s \in Seq(posted')
  BY MorePosted
<1>3. \A r \in requests : /\ r \in Request /\ r.events \in Seq(posted')
                          /\ r.base \subseteq posted' \ lagging'
  BY <1>2 DEF Typed, Pending
<1>4. /\ query \in Queries /\ loadedFor \in Queries
      /\ loaded \in Seq(posted') /\ cursor \in Nat /\ base \subseteq posted' \ lagging'
      /\ loading \in BOOLEAN /\ mixed \in BOOLEAN
  BY <1>2 DEF Typed, Shown
<1>5. ASSUME NEW k, k \in {"refresh", "more"}, NEW q \in Queries, NEW c \in Nat,
             Send(k, q, c), UNCHANGED listVars, query' \in Queries
      PROVE  Pending' /\ Shown'
  <2>1. PICK s \in Request :
          /\ requests' = requests \cup {s} /\ loading' = TRUE
          /\ s.events = <<>> /\ s.base = {}
    BY <1>5, Sent
  <2>2. <<>> \in Seq(posted')
    OBVIOUS
  <2> QED
    BY <1>3, <1>4, <1>5, <2>1, <2>2 DEF Pending, Shown, listVars
<1>6. CASE UNCHANGED <<listVars, loading, requests>> /\ query' \in Queries
  <2>0. /\ loaded' = loaded /\ cursor' = cursor /\ loadedFor' = loadedFor
        /\ base' = base /\ mixed' = mixed /\ loading' = loading
        /\ requests' = requests /\ query' \in Queries
    BY <1>6 DEF listVars
  <2>1. Pending'
    BY <1>3, <2>0 DEF Pending
  <2>2. Shown'
    BY <1>4, <2>0 DEF Shown
  <2> QED
    BY <1>1, <2>1, <2>2 DEF Typed
<1>7. ASSUME NEW r \in requests, HandleGetAuditEvents(r) PROVE Pending' /\ Shown'
  <2>1. PICK t \in Replicas :
          /\ requests' = (requests \ {r}) \cup {Answer(r, t)} /\ Answer(r, t) \in Request
          /\ Answer(r, t).events \in Seq(posted)
          /\ Answer(r, t).base \subseteq posted \ lagging
    BY <1>7, Answered
  <2>2. UNCHANGED <<query, listVars, loading>>
    BY <1>7 DEF HandleGetAuditEvents
  <2> QED
    BY <1>2, <1>3, <1>4, <2>1, <2>2 DEF Pending, Shown, listVars
<1>8. ASSUME NEW r \in requests, Done(r) PROVE Pending'
  <2> SUFFICES ASSUME NEW y \in requests'
               PROVE  /\ y \in Request /\ y.events \in Seq(posted')
                      /\ y.base \subseteq posted' \ lagging'
    BY DEF Pending
  <2>1. requests \subseteq Request
    BY <1>3
  <2>2. PICK x \in requests : y \in Request /\ y.events = x.events /\ y.base = x.base
    BY <1>8, <2>1, StillUnderWay
  <2> QED
    BY <1>3, <2>2
<1>9. ASSUME NEW r \in requests, ShowRefresh(r) PROVE Pending' /\ Shown'
  <2>1. Pending'
    BY <1>8, <1>9 DEF ShowRefresh
  <2>2. r.next \in Nat /\ r.query \in Queries
    BY <1>3 DEF Request
  <2>3. /\ loaded' = r.events /\ cursor' = r.next /\ loading' = FALSE
        /\ loadedFor' = r.query /\ base' = r.base /\ mixed' = FALSE /\ query' = query
    BY <1>9 DEF ShowRefresh
  <2>4. Shown'
    BY <1>3, <1>4, <2>2, <2>3 DEF Shown
  <2> QED
    BY <2>1, <2>4
<1>10. ASSUME NEW r \in requests, ShowMore(r) PROVE Pending' /\ Shown'
  <2>1. Pending'
    BY <1>8, <1>10 DEF ShowMore
  <2>2. r.next \in Nat
    BY <1>3 DEF Request
  <2>3. /\ loaded' = r.events \o loaded /\ cursor' = r.next /\ loading' = FALSE
        /\ loadedFor' = loadedFor /\ base' = base /\ query' = query
        /\ mixed' = (mixed \/ ~r.fresh \/ r.query # loadedFor)
    BY <1>10 DEF ShowMore
  <2>4. r.events \o loaded \in Seq(posted')
    BY <1>3, <1>4, ConcatProperties
  <2>5. mixed' \in BOOLEAN
    BY ONLY <2>3
  <2>6. Shown'
    BY <1>4, <2>2, <2>3, <2>4, <2>5 DEF Shown
  <2> QED
    BY <2>1, <2>6
<1>11. ASSUME NEW r \in requests, Fail(r) PROVE Pending' /\ Shown'
  BY <1>3, <1>4, <1>11 DEF Fail, Pending, Shown, listVars
<1>12. CASE RefreshEvents
  <2>1. "refresh" \in {"refresh", "more"} /\ 0 \in Nat
    OBVIOUS
  <2> QED
    BY <1>1, <1>4, <1>5, <1>12, <2>1 DEF RefreshEvents, Typed
<1>13. ASSUME NEW q \in Queries, InputFilter(q) PROVE Typed'
  <2>1. "refresh" \in {"refresh", "more"} /\ 0 \in Nat
    OBVIOUS
  <2> QED
    BY <1>1, <1>5, <1>13, <2>1 DEF InputFilter, Typed
<1>14. CASE LoadMoreEvents
  BY <1>1, <1>4, <1>5, <1>14 DEF LoadMoreEvents, Typed
<1>15. CASE ClearFilters
  <2>1. Events \in Queries
    BY ViewAssumption DEF ViewAssumption
  <2> QED
    BY <1>1, <1>6, <1>15, <2>1 DEF ClearFilters, Typed
<1>16. ASSUME NEW e \in Events, PostAuditEvent(e) PROVE Typed'
  BY <1>1, <1>4, <1>6, <1>16 DEF PostAuditEvent, Typed
<1>17. CASE Restart
  BY <1>1, <1>4, <1>6, <1>17 DEF Restart, Typed
<1>18. CASE UNCHANGED vars
  BY <1>1, <1>4, <1>6, <1>18 DEF vars, Typed
<1>19. ASSUME NEW e \in lagging, Replicate(e) PROVE Typed'
  BY <1>1, <1>4, <1>6, <1>19 DEF Replicate, Typed
<1> QED
  BY <1>1, <1>7, <1>9, <1>10, <1>11, <1>12, <1>13, <1>14, <1>15, <1>16, <1>17, <1>18,
     <1>19
  DEF Next, Typed

\* Every variable keeps its type, and the mock plane's list its limit, for every
\* set of events and queries, page size and number of requests under way.
THEOREM EventsViewTyped == Spec => []TypeOK
<1>1. Init => Typed
  BY TypedInit
<1>2. Typed /\ [Next]_vars => Typed'
  BY TypedStep
<1>3. Typed => TypeOK
  BY DEF Typed, ListOK, Pending, Shown, TypeOK
<1> QED
  BY <1>1, <1>2, <1>3, PTL DEF Spec

\* "Load more" is never left disabled without a request whose end enables it:
\* whatever ends a request ends the loading, and only a request starts it.
THEOREM LoadingEndsAlways == Spec => []LoadingEnds
<1>1. Init => LoadingEnds
  BY DEF Init, LoadingEnds
<1>2. LoadingEnds /\ [Next]_vars => LoadingEnds'
  <2> SUFFICES ASSUME LoadingEnds, [Next]_vars PROVE LoadingEnds'
    OBVIOUS
  <2>1. ASSUME NEW kind, NEW q, NEW c, Send(kind, q, c) PROVE LoadingEnds'
    BY <2>1 DEF Send, LoadingEnds
  <2>2. ASSUME NEW r \in requests, HandleGetAuditEvents(r) PROVE LoadingEnds'
    BY <2>2 DEF HandleGetAuditEvents, LoadingEnds
  <2>3. ASSUME NEW r \in requests, ShowRefresh(r) \/ ShowMore(r) \/ Fail(r)
        PROVE  LoadingEnds'
    BY <2>3 DEF ShowRefresh, ShowMore, Fail, LoadingEnds
  <2>4. CASE UNCHANGED <<loading, requests>>
    BY <2>4 DEF LoadingEnds
  <2> QED
    BY <2>1, <2>2, <2>3, <2>4
    DEF Next, Replicate, PostAuditEvent, Restart, RefreshEvents, InputFilter, ClearFilters,
        LoadMoreEvents, vars
<1> QED
  BY <1>1, <1>2, PTL DEF Spec

-----------------------------------------------------------------------------
(* What is loaded, what is being answered, and what the cursor reaches.    *)

\* The view's list is whole as long as no page was added that was not asked for
\* it; so is the answer to a refresh, and what a page asked for this list will
\* make of it.
Views ==
  /\ ~mixed => Whole(plane, list, loadedFor, loaded, cursor, base)
  /\ \A r \in requests : r.kind = "refresh" =>
       /\ r.cursor = 0
       /\ r.answered => Whole(plane, list, r.query, r.events, r.next, r.base)
  /\ \A r \in requests : r.kind = "more" =>
       /\ r.cursor # 0
       /\ r.fresh => r.cursor = cursor
       /\ r.fresh /\ r.answered /\ ~mixed /\ r.query = loadedFor =>
            Whole(plane, list, loadedFor, r.events \o loaded, r.next, base)

IInv == Typed /\ Views

LEMMA ViewsInit == Init => Views
<1> SUFFICES ASSUME Init PROVE Views
  OBVIOUS
<1>1. list = <<>> /\ loaded = <<>> /\ cursor = 0 /\ base = {} /\ requests = {}
  BY DEF Init
<1>2. <<>> \in Seq(Events) /\ Len(<<>>) = 0 /\ <<>> \o <<>> = <<>> /\ ToSet(<<>>) = {}
  BY DEF ToSet
<1>3. Filtered(<<>>, loadedFor) = <<>>
  <2>1. /\ Filtered(<<>>, loadedFor) \in Seq({})
        /\ ToSet(Filtered(<<>>, loadedFor)) = ToSet(<<>>) \cap loadedFor
    <3>1. <<>> \in Seq({})
      OBVIOUS
    <3> QED
      BY <3>1, FilteredRange
  <2> QED
    BY <2>1
<1>4. InPlace(<<>>, loadedFor, <<>>, 0, {})
  BY <1>2, <1>3 DEF InPlace
<1>5. IsInjective(<<>>)
  BY DEF IsInjective
<1>6. Whole(plane, <<>>, loadedFor, <<>>, 0, {})
  BY <1>2, <1>4, <1>5 DEF Whole
<1> QED
  BY <1>1, <1>6 DEF Views

LEMMA ViewsStep == IInv /\ [Next]_vars => Views'
<1> SUFFICES ASSUME IInv, [Next]_vars PROVE Views'
  OBVIOUS
<1>1. Typed /\ Views /\ ListOK
  BY DEF IInv, Typed
<1>2. \A s \in Seq(posted) : s \in Seq(Events)
  BY <1>1, ListTyped
<1>3. \A r \in requests : /\ r \in Request /\ r.events \in Seq(posted)
                          /\ r.base \subseteq posted \ lagging /\ r.base \subseteq posted
  BY <1>1 DEF Typed, Pending
<1>4. /\ loaded \in Seq(posted) /\ cursor \in Nat
      /\ base \subseteq posted \ lagging /\ base \subseteq posted
  BY <1>1 DEF Typed, Shown
\* What was whole is whole in the list the step leaves.
<1>5. ~mixed => Whole(plane', list', loadedFor, loaded, cursor, base)
  <2> SUFFICES ASSUME ~mixed PROVE Whole(plane', list', loadedFor, loaded, cursor, base)
    OBVIOUS
  <2>1. Whole(plane, list, loadedFor, loaded, cursor, base)
    BY <1>1 DEF Views
  <2> QED
    BY <1>1, <1>2, <1>4, <2>1, WholeKept
<1>6. \A r \in requests : r.kind = "refresh" =>
        /\ r.cursor = 0
        /\ r.answered => Whole(plane', list', r.query, r.events, r.next, r.base)
  <2> SUFFICES ASSUME NEW r \in requests, r.kind = "refresh"
               PROVE  /\ r.cursor = 0
                      /\ r.answered =>
                           Whole(plane', list', r.query, r.events, r.next, r.base)
    OBVIOUS
  <2>1. /\ r.cursor = 0
        /\ r.answered => Whole(plane, list, r.query, r.events, r.next, r.base)
    BY <1>1 DEF Views
  <2>2. r.next \in Nat /\ r.events \in Seq(Events) /\ r.base \subseteq posted
    BY <1>2, <1>3 DEF Request
  <2> QED
    BY <1>1, <2>1, <2>2, WholeKept
<1>7. \A r \in requests : r.kind = "more" =>
        /\ r.cursor # 0
        /\ r.fresh => r.cursor = cursor
        /\ r.fresh /\ r.answered /\ ~mixed /\ r.query = loadedFor =>
             Whole(plane', list', loadedFor, r.events \o loaded, r.next, base)
  <2> SUFFICES ASSUME NEW r \in requests, r.kind = "more"
               PROVE  /\ r.cursor # 0
                      /\ r.fresh => r.cursor = cursor
                      /\ r.fresh /\ r.answered /\ ~mixed /\ r.query = loadedFor =>
                           Whole(plane', list', loadedFor, r.events \o loaded, r.next, base)
    OBVIOUS
  <2>1. /\ r.cursor # 0
        /\ r.fresh => r.cursor = cursor
        /\ r.fresh /\ r.answered /\ ~mixed /\ r.query = loadedFor =>
             Whole(plane, list, loadedFor, r.events \o loaded, r.next, base)
    BY <1>1 DEF Views
  <2>2. r.next \in Nat
    BY <1>3 DEF Request
  <2>3. r.events \o loaded \in Seq(Events)
    BY <1>2, <1>3, <1>4, ConcatProperties
  <2> QED
    BY <1>1, <1>4, <2>1, <2>2, <2>3, WholeKept
\* The steps that leave the view's list and its requests as they are.
<1>8. CASE UNCHANGED <<listVars, requests>>
  BY <1>5, <1>6, <1>7, <1>8 DEF Views, listVars
\* A request is sent, for the list as it is.
<1>9. ASSUME NEW k, k \in {"refresh", "more"}, NEW q \in Queries, NEW c \in Nat,
             Send(k, q, c), UNCHANGED listVars,
             k = "refresh" => c = 0, k = "more" => c = cursor /\ c # 0
      PROVE  Views'
  <2> DEFINE s == [id |-> Min(1 .. MaxInFlight \ {r.id : r \in requests}), kind |-> k,
                   query |-> q, cursor |-> c, answered |-> FALSE, events |-> <<>>,
                   next |-> 0, base |-> {}, fresh |-> TRUE]
  <2>0. requests' = requests \cup {s}
    BY <1>9 DEF Send
  <2>1. s.kind = k /\ s.cursor = c /\ s.answered = FALSE
    OBVIOUS
  <2> HIDE DEF s
  <2> QED
    BY <1>5, <1>6, <1>7, <1>9, <2>0, <2>1 DEF Views, listVars
\* A request is answered.
<1>10. ASSUME NEW r \in requests, HandleGetAuditEvents(r) PROVE Views'
  <2>0. PICK t \in Replicas :
          /\ requests' = (requests \ {r}) \cup {Answer(r, t)}
          /\ Answer(r, t).kind = r.kind /\ Answer(r, t).query = r.query
          /\ Answer(r, t).cursor = r.cursor /\ Answer(r, t).fresh = r.fresh
          /\ Answer(r, t).events = Page(t, r.query, r.cursor).events
          /\ Answer(r, t).next = Page(t, r.query, r.cursor).next
          /\ Answer(r, t).base =
               IF r.kind = "refresh" THEN (ToSet(list) \ lagging) \cap r.query ELSE {}
    BY <1>1, <1>10, Answered
  <2> DEFINE a == Answer(r, t)
             page == Page(t, r.query, r.cursor)
  <2>1. /\ requests' = (requests \ {r}) \cup {a}
        /\ a.kind = r.kind /\ a.query = r.query /\ a.cursor = r.cursor /\ a.fresh = r.fresh
        /\ a.events = page.events /\ a.next = page.next
        /\ a.base = IF r.kind = "refresh" THEN (ToSet(list) \ lagging) \cap r.query ELSE {}
    BY <2>0
  <2>2. UNCHANGED <<listVars, serverVars>> /\ InRange(r.query, r.cursor)
    BY <1>10 DEF HandleGetAuditEvents
  <2> HIDE DEF a
  <2>3. CASE r.kind = "refresh"
    <3>1. Whole(plane, list, a.query, a.events, a.next, a.base) /\ a.cursor = 0
      BY <1>1, <1>6, <2>1, <2>3, RefreshPage
    <3>2. a.kind = "refresh"
      BY <2>1, <2>3
    <3>3. plane' = plane /\ list' = list
      BY <2>2 DEF serverVars
    <3> HIDE DEF page
    <3> QED
      BY <1>5, <1>6, <1>7, <2>1, <2>2, <3>1, <3>2, <3>3 DEF Views, listVars
  <2>4. CASE r.kind = "more"
    <3>1. /\ r.cursor # 0 /\ r.cursor \in Nat /\ (r.fresh => r.cursor = cursor)
      BY <1>3, <1>7, <2>4 DEF Request
    <3>2. ASSUME r.fresh, ~mixed, r.query = loadedFor
          PROVE  Whole(plane, list, loadedFor, page.events \o loaded, page.next, base)
      <4>1. Whole(plane, list, loadedFor, loaded, r.cursor, base)
        BY <1>1, <3>1, <3>2 DEF Views
      <4>2. loaded \in Seq(Events) /\ InRange(loadedFor, r.cursor)
        BY <1>2, <1>4, <2>2, <3>2
      <4> QED
        BY <1>1, <1>4, <3>1, <3>2, <4>1, <4>2, OlderPage
    <3>3. a.kind = "more"
      BY <2>1, <2>4
    <3>4. plane' = plane /\ list' = list
      BY <2>2 DEF serverVars
    <3> HIDE DEF page
    <3> QED
      BY <1>5, <1>6, <1>7, <2>1, <2>2, <3>1, <3>2, <3>3, <3>4 DEF Views, listVars
  <2>5. r.kind \in {"refresh", "more"}
    BY <1>3 DEF Request
  <2> QED
    BY <2>3, <2>4, <2>5
\* An answer is shown: what is asked for more belongs to no list any longer.
<1>11. ASSUME NEW r \in requests, Done(r),
              ~mixed' => Whole(plane', list', loadedFor', loaded', cursor', base')
       PROVE  Views'
  <2>1. ASSUME NEW y \in requests'
        PROVE  \E x \in requests :
                 /\ y.kind = x.kind /\ y.query = x.query /\ y.cursor = x.cursor
                 /\ y.answered = x.answered /\ y.events = x.events /\ y.next = x.next
                 /\ y.base = x.base /\ y.fresh = (x.kind = "refresh")
    <3>1. requests \subseteq Request
      BY <1>3
    <3> QED
      BY <1>11, <3>1, StillUnderWay
  <2>2. ASSUME NEW y \in requests', y.kind = "refresh"
        PROVE  /\ y.cursor = 0
               /\ y.answered => Whole(plane', list', y.query, y.events, y.next, y.base)
    BY <1>6, <2>1, <2>2
  <2>3. ASSUME NEW y \in requests', y.kind = "more" PROVE y.cursor # 0 /\ ~y.fresh
    BY <1>7, <2>1, <2>3
  <2> QED
    BY <1>11, <2>2, <2>3 DEF Views
<1>12. ASSUME NEW r \in requests, ShowRefresh(r) PROVE Views'
  <2>1. /\ r.kind = "refresh" /\ r.answered /\ Done(r)
        /\ loaded' = r.events /\ cursor' = r.next /\ loadedFor' = r.query
        /\ base' = r.base
    BY <1>12 DEF ShowRefresh
  <2>2. Whole(plane', list', loadedFor', loaded', cursor', base')
    BY <1>6, <2>1
  <2> QED
    BY <1>11, <2>1, <2>2
<1>13. ASSUME NEW r \in requests, ShowMore(r) PROVE Views'
  <2>1. /\ r.kind = "more" /\ r.answered /\ Done(r)
        /\ loaded' = r.events \o loaded /\ cursor' = r.next
        /\ mixed' = (mixed \/ ~r.fresh \/ r.query # loadedFor)
        /\ loadedFor' = loadedFor /\ base' = base
    BY <1>13 DEF ShowMore
  <2>2. ~mixed' => Whole(plane', list', loadedFor', loaded', cursor', base')
    BY <1>7, <2>1
  <2> QED
    BY <1>11, <2>1, <2>2
<1>14. ASSUME NEW r \in requests, Fail(r) PROVE Views'
  <2>1. requests' = requests \ {r} /\ UNCHANGED listVars
    BY <1>14 DEF Fail
  <2> QED
    BY <1>5, <1>6, <1>7, <2>1 DEF Views, listVars
<1>15. query \in Queries /\ "refresh" \in {"refresh", "more"}
       /\ "more" \in {"refresh", "more"} /\ 0 \in Nat
  BY <1>1 DEF Typed, Shown
<1>16. CASE RefreshEvents
  BY <1>9, <1>15, <1>16 DEF RefreshEvents
<1>17. ASSUME NEW q \in Queries, InputFilter(q) PROVE Views'
  BY <1>9, <1>15, <1>17 DEF InputFilter
<1>18. CASE LoadMoreEvents
  BY <1>4, <1>9, <1>15, <1>18 DEF LoadMoreEvents
<1> QED
  BY <1>8, <1>10, <1>12, <1>13, <1>14, <1>16, <1>17, <1>18
  DEF Next, PostAuditEvent, Replicate, Restart, ClearFilters, vars

LEMMA ViewsAlways == Spec => []IInv
<1>1. Init => IInv
  BY TypedInit, ViewsInit DEF IInv
<1>2. IInv /\ [Next]_vars => IInv'
  BY TypedStep, ViewsStep DEF IInv
<1> QED
  BY <1>1, <1>2, PTL DEF Spec

\* While the plane has all events of b the cursor stands inside what its list
\* holds of the query, so the mock plane takes it.
LEMMA InPlaceInRange ==
  ASSUME NEW l, l \in Seq(Events), NEW q, NEW ev, ev \in Seq(Events), NEW c, NEW b,
         InPlace(l, q, ev, c, b)
  PROVE  c <= Len(Filtered(l, q))
<1>1. PICK pre, post :
        /\ pre \in Seq(Events) /\ post \in Seq(Events)
        /\ Filtered(l, q) = (pre \o ev) \o post /\ Len(pre) = c
  BY DEF InPlace
<1>2. pre \o ev \in Seq(Events) /\ Len(pre \o ev) = c + Len(ev)
  BY ONLY <1>1, ev \in Seq(Events), ConcatProperties
<1>3. Len((pre \o ev) \o post) = Len(pre \o ev) + Len(post)
  BY ONLY <1>1, <1>2, ConcatProperties
<1>4. Len(pre) \in Nat /\ Len(ev) \in Nat /\ Len(post) \in Nat
  BY ONLY <1>1, ev \in Seq(Events), LenProperties
<1> QED
  BY ONLY <1>1, <1>2, <1>3, <1>4

\* What the view shows misses no event that its query selected at the refresh,
\* that had reached every replica, and that the plane still has: it is loaded or
\* a page the plane still answers shows it, however pages, events, cuts, restarts,
\* replicas and late answers interleave; and the mock plane refuses the view's
\* cursor only after it has cut or lost an event the query had selected.
THEOREM NothingSkippedAlways == Spec => []NothingSkipped
<1>1. IInv => NothingSkipped
  <2> SUFFICES ASSUME IInv, ~mixed
               PROVE  \/ base \cap ToSet(list) \subseteq
                           ToSet(loaded) \cup Remaining(loadedFor, cursor)
                      \/ ~InRange(loadedFor, cursor) /\ ~(base \subseteq ToSet(list))
    BY DEF NothingSkipped
  <2>1. Whole(plane, list, loadedFor, loaded, cursor, base)
    BY DEF IInv, Views
  <2>2. ListOK /\ loaded \in Seq(posted) /\ cursor \in Nat
    BY DEF IInv, Typed, Shown
  <2>3. list \in Seq(Events) /\ loaded \in Seq(Events)
    BY <2>2, ListTyped
  <2>4. CASE InRange(loadedFor, cursor)
    <3>1. Remaining(loadedFor, cursor) = BehindCursor(plane, list, loadedFor, cursor)
      <4>1. CASE plane = "mock"
        <5> DEFINE f == Filtered(list, loadedFor)
                   head == SubSeq(f, 1, cursor)
        <5>1. f \in Seq(Events) /\ Len(f) \in Nat /\ cursor <= Len(f)
          BY <2>3, <2>4, <4>1, FilteredRange DEF InRange
        <5>2. Least(cursor, Len(f)) = cursor
          BY <2>2, <5>1 DEF Least
        <5> HIDE DEF f
        <5>3. DOMAIN head = 1 .. cursor /\ \A i \in 1 .. cursor : head[i] = f[i]
          BY <2>2, <5>1
        <5>4. ToSet(head) = {f[i] : i \in 1 .. cursor}
          BY <5>3 DEF ToSet
        <5> QED
          BY <2>4, <4>1, <5>2, <5>4 DEF Remaining, BehindCursor, f
      <4>2. CASE plane # "mock"
        BY <2>4, <4>2 DEF Remaining, BehindCursor
      <4> QED
        BY <4>1, <4>2
    <3> QED
      BY <2>1, <3>1 DEF Whole
  <2>5. CASE ~InRange(loadedFor, cursor)
    <3>1. plane = "mock" /\ ~(cursor <= Len(Filtered(list, loadedFor)))
      BY <2>5 DEF InRange
    <3>2. ASSUME base \subseteq ToSet(list) PROVE FALSE
      <4>1. InPlace(list, loadedFor, loaded, cursor, base)
        BY <2>1, <3>1, <3>2 DEF Whole
      <4>2. cursor <= Len(Filtered(list, loadedFor))
        BY ONLY <2>3, <4>1, InPlaceInRange
      <4> QED
        BY <3>1, <4>2
    <3> QED
      BY <2>5, <3>2
  <2> QED
    BY <2>4, <2>5
<1> QED
  BY <1>1, ViewsAlways, PTL

\* Where the loaded events stand in what the mock plane's list holds of a query.
LEMMA InPlaceFacts ==
  ASSUME NEW l, l \in Seq(Events), IsInjective(l), NEW q, NEW ev, ev \in Seq(Events),
         NEW c, NEW b, InPlace(l, q, ev, c, b)
  PROVE  IsInjective(ev) /\ ev = Filtered(l, ToSet(ev))
<1> DEFINE f == Filtered(l, q)
<1>1. f \in Seq(Events) /\ IsInjective(f)
  BY FilteredRange, FilteredInjective
<1>2. PICK at : Picks(l, q, f, at)
  BY FilteredPicks
<1>3. PICK pre, post :
        /\ pre \in Seq(Events) /\ post \in Seq(Events) /\ f = (pre \o ev) \o post
  BY DEF InPlace
<1> HIDE DEF f
<1> DEFINE h == pre \o ev
<1>4. /\ h \in Seq(Events) /\ f = h \o post
  BY <1>3, ConcatProperties
<1>5. IsInjective(h)
  BY ONLY <1>1, <1>3, <1>4, JoinedInjective
<1>6. IsInjective(ev)
  BY ONLY <1>3, <1>5, ev \in Seq(Events), JoinedInjective
<1> DEFINE n == Len(pre)
           bt == [i \in 1 .. Len(ev) |-> at[n + i]]
<1>7. n \in Nat /\ DOMAIN ev = 1 .. Len(ev) /\ DOMAIN f = 1 .. Len(f)
  BY <1>1, <1>3
<1>8. \A i \in 1 .. Len(ev) : n + i \in DOMAIN f /\ f[n + i] = ev[i]
  <2> SUFFICES ASSUME NEW i \in 1 .. Len(ev) PROVE n + i \in DOMAIN f /\ f[n + i] = ev[i]
    OBVIOUS
  <2>1. i \in DOMAIN ev
    BY <1>7
  <2>2. n + i \in DOMAIN h /\ h[n + i] = ev[i]
    BY ONLY <1>3, <2>1, ev \in Seq(Events), JoinedPlaces
  <2>3. n + i \in DOMAIN f /\ f[n + i] = h[n + i]
    BY ONLY <1>3, <1>4, <2>2, JoinedPlaces
  <2> QED
    BY <2>2, <2>3
<1> HIDE DEF n, h
<1>9. /\ \A i \in DOMAIN f : at[i] \in 1 .. Len(l) /\ f[i] = l[at[i]] /\ f[i] \in q
      /\ \A i, j \in DOMAIN f : i < j => at[i] < at[j]
      /\ \A k \in 1 .. Len(l) : l[k] \in q => \E i \in DOMAIN f : at[i] = k
  BY <1>2, <1>7 DEF Picks
<1>10. \A i \in 1 .. Len(ev) : bt[i] = at[n + i]
  OBVIOUS
<1>11. bt \in [1 .. Len(ev) -> 1 .. Len(l)]
  BY <1>8, <1>9
<1> HIDE DEF bt
<1>12. ASSUME NEW i \in 1 .. Len(ev), NEW j \in 1 .. Len(ev), i < j PROVE bt[i] < bt[j]
  <2>1. n + i < n + j
    BY <1>7, <1>12
  <2> QED
    BY <1>8, <1>9, <1>10, <2>1
<1>13. ASSUME NEW i \in 1 .. Len(ev) PROVE ev[i] = l[bt[i]] /\ ev[i] \in ToSet(ev)
  <2>1. ev[i] = l[at[n + i]]
    BY <1>8, <1>9
  <2>2. ev[i] \in ToSet(ev)
    BY <1>7 DEF ToSet
  <2> QED
    BY <1>10, <2>1, <2>2
<1>14. ASSUME NEW k \in 1 .. Len(l), l[k] \in ToSet(ev)
       PROVE  \E i \in 1 .. Len(ev) : bt[i] = k
  <2>1. PICK i \in 1 .. Len(ev) : l[k] = ev[i]
    BY <1>7, <1>14 DEF ToSet
  <2>2. l[bt[i]] = l[k] /\ bt[i] \in 1 .. Len(l)
    BY <1>11, <1>13, <2>1
  <2>3. DOMAIN l = 1 .. Len(l)
    OBVIOUS
  <2>4. bt[i] = k
    BY <2>2, <2>3 DEF IsInjective
  <2> QED
    BY <2>4
<1>15. Picks(l, ToSet(ev), ev, bt)
  BY <1>11, <1>12, <1>13, <1>14 DEF Picks
<1>16. ev = Filtered(l, ToSet(ev))
  BY ONLY <1>15, l \in Seq(Events), ev \in Seq(Events), PickedIsFiltered
<1> QED
  BY <1>6, <1>16

\* No event is loaded twice unless the mock plane has cut or lost events the
\* query had selected.
THEOREM TwiceOnlyAfterTrimmingAlways == Spec => []TwiceOnlyAfterTrimming
<1>1. IInv => TwiceOnlyAfterTrimming
  <2> SUFFICES ASSUME IInv, ~mixed, base \subseteq ToSet(list)
               PROVE  IsInjective(loaded)
    BY DEF TwiceOnlyAfterTrimming
  <2>1. Whole(plane, list, loadedFor, loaded, cursor, base)
    BY DEF IInv, Views
  <2>2. ListOK /\ loaded \in Seq(posted)
    BY DEF IInv, Typed, Shown
  <2>3. list \in Seq(Events) /\ loaded \in Seq(Events) /\ IsInjective(list)
    BY <2>2, ListTyped DEF ListOK
  <2>4. CASE plane = "mock"
    <3>1. InPlace(list, loadedFor, loaded, cursor, base)
      BY <2>1, <2>4 DEF Whole
    <3> QED
      BY ONLY <2>3, <3>1, InPlaceFacts
  <2>5. CASE plane # "mock"
    BY <2>1, <2>5 DEF Whole
  <2> QED
    BY <2>4, <2>5
<1> QED
  BY <1>1, ViewsAlways, PTL

\* Pages of the mock plane are joined in the order of its list, also when events
\* arrive between two of them.
THEOREM ListedInOrderAlways == Spec => []ListedInOrder
<1>1. IInv => ListedInOrder
  <2> SUFFICES ASSUME IInv, plane = "mock", ~mixed, base \subseteq ToSet(list)
               PROVE  loaded = Filtered(list, ToSet(loaded))
    BY DEF ListedInOrder
  <2>1. Whole(plane, list, loadedFor, loaded, cursor, base)
    BY DEF IInv, Views
  <2>2. ListOK /\ loaded \in Seq(posted)
    BY DEF IInv, Typed, Shown
  <2>3. list \in Seq(Events) /\ loaded \in Seq(Events) /\ IsInjective(list)
    BY <2>2, ListTyped DEF ListOK
  <2>4. InPlace(list, loadedFor, loaded, cursor, base)
    BY <2>1 DEF Whole
  <2> QED
    BY ONLY <2>3, <2>4, InPlaceFacts
<1> QED
  BY <1>1, ViewsAlways, PTL
=============================================================================
