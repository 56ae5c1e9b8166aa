---------------------------- MODULE NollInduction ---------------------------
(***************************************************************************)
(* Induction over the numbers of a bounded interval, in first-order form:  *)
(* the least counterexample, and functions defined by iterating a step;    *)
(* and what sorting a finite set gives (NollOrder).                        *)
(* The loops of the code that walk over a sequence are modelled by         *)
(* recursive functions on 0 .. n; these lemmas give what they compute.     *)
(***************************************************************************)
EXTENDS NollOrder, Sequences, WellFoundedInduction, FiniteSetTheorems, TLAPS

(* A set of numbers has a least one. *)
LEMMA Least ==
  ASSUME NEW S, S \subseteq Nat, S # {}
  PROVE  \E a \in S : \A i \in S : ~ (i < a)
<1> DEFINE Lt == {ss \in Nat \X Nat : ss[1] < ss[2]}
<1>1. IsWellFoundedOn(Lt, Nat)
  BY NatLessThanWellFounded DEF OpToRel
<1>2. PICK a \in S : \A i \in S : ~ (<<i, a>> \in Lt)
  <2> HIDE DEF Lt
  <2> QED
    BY <1>1, WFMin
<1> QED
  BY <1>2

(* A step function can be iterated. *)
Iteration(g, S, b, n, E) ==
  /\ g \in [0 .. n -> S]
  /\ g[0] = b
  /\ \A k \in 1 .. n : g[k] = E[k][g[k - 1]]

LEMMA Iterates ==
  ASSUME NEW S, NEW b \in S, NEW n \in Nat, NEW E \in [1 .. n -> [S -> S]]
  PROVE  \E g : Iteration(g, S, b, n, E)
<1> DEFINE Up(m) == \E g \in [0 .. m -> S] :
                       g[0] = b /\ \A k \in 1 .. m : g[k] = E[k][g[k - 1]]
           Bad == {m \in 0 .. n : ~ Up(m)}
<1>1. Up(0)
  <2> DEFINE g == [i \in 0 .. 0 |-> b]
  <2>1. g \in [0 .. 0 -> S] /\ g[0] = b
    OBVIOUS
  <2>2. \A k \in 1 .. 0 : g[k] = E[k][g[k - 1]]
    OBVIOUS
  <2> HIDE DEF g
  <2> QED
    BY <2>1, <2>2
<1>2. ASSUME NEW m \in 1 .. n, Up(m - 1)
      PROVE  Up(m)
  <2>1. PICK g \in [0 .. m - 1 -> S] :
                 g[0] = b /\ \A k \in 1 .. m - 1 : g[k] = E[k][g[k - 1]]
    BY <1>2
  <2> DEFINE h == [i \in 0 .. m |-> IF i = m THEN E[m][g[m - 1]] ELSE g[i]]
  <2>2. m - 1 \in 0 .. m - 1 /\ g[m - 1] \in S /\ E[m][g[m - 1]] \in S
    OBVIOUS
  <2>3. h \in [0 .. m -> S]
    BY <2>2
  <2>4. h[0] = b
    BY <2>1
  <2>5. ASSUME NEW k \in 1 .. m
        PROVE  h[k] = E[k][h[k - 1]]
    <3>1. k - 1 \in 0 .. m /\ k - 1 # m /\ h[k - 1] = g[k - 1]
      OBVIOUS
    <3>2. CASE k = m
      BY <3>1, <3>2
    <3>3. CASE k # m
      <4>1. k \in 1 .. m - 1 /\ h[k] = g[k]
        BY <3>3
      <4> QED
        BY <2>1, <3>1, <4>1
    <3> QED
      BY <3>2, <3>3
  <2> HIDE DEF h
  <2> QED
    BY <2>3, <2>4, <2>5
<1>3. Bad = {}
  <2> SUFFICES ASSUME Bad # {} PROVE FALSE
    OBVIOUS
  <2>1. PICK m \in Bad : \A i \in Bad : ~ (i < m)
    <3>1. Bad \subseteq Nat
      OBVIOUS
    <3> HIDE DEF Bad
    <3> QED
      BY <3>1, Least
  <2>2. m # 0 /\ m \in 1 .. n /\ ~Up(m)
    <3>1. m \in 0 .. n /\ ~Up(m)
      OBVIOUS
    <3>2. m # 0
      <4> HIDE DEF Up
      <4> QED
        BY <1>1, <3>1
    <3> HIDE DEF Up
    <3> QED
      BY <3>1, <3>2
  <2>3. Up(m - 1)
    <3> HIDE DEF Up
    <3> QED
      BY <2>1, <2>2
  <2> HIDE DEF Up, Bad
  <2> QED
    BY <1>2, <2>2, <2>3
<1> HIDE DEF Up
<1>4. Up(n)
  BY <1>3
<1> QED
  BY <1>4 DEF Up, Iteration

-----------------------------------------------------------------------------
(* Sorted finite sets.                                                     *)

(* A strict total order on S, as a set of pairs. *)
Orders(R, S) ==
  /\ \A a \in S : <<a, a>> \notin R
  /\ \A a, b, c \in S : <<a, b>> \in R /\ <<b, c>> \in R => <<a, c>> \in R
  /\ \A a, b \in S : a = b \/ <<a, b>> \in R \/ <<b, a>> \in R

(* The rank of an element, the number of those before it, numbers a finite *)
(* set from 0 without gaps.                                                *)
Below(e, S, R) == {d \in S : <<d, e>> \in R}
Rank(e, S, R)  == Cardinality(Below(e, S, R))

LEMMA RankNumbers ==
  ASSUME NEW S, IsFiniteSet(S), NEW R, Orders(R, S)
  PROVE  /\ Cardinality(S) \in Nat
         /\ \A e \in S : Rank(e, S, R) \in 0 .. Cardinality(S) - 1
         /\ \A d, e \in S : <<d, e>> \in R => Rank(d, S, R) < Rank(e, S, R)
         /\ \A d, e \in S : Rank(d, S, R) = Rank(e, S, R) => d = e
         /\ \A n \in 0 .. Cardinality(S) - 1 : \E e \in S : Rank(e, S, R) = n
<1> DEFINE N == Cardinality(S)
           below(e) == {d \in S : <<d, e>> \in R}
           rank == [e \in S |-> Cardinality(below(e)) + 1]
<1>1. N \in Nat
  BY FS_CardinalityType
<1>2. \A e \in S : IsFiniteSet(below(e)) /\ Cardinality(below(e)) \in Nat
  BY FS_Subset, FS_CardinalityType
<1>3. ASSUME NEW e \in S PROVE rank[e] \in 1 .. N
  <2>1. e \in S /\ e \notin below(e)
    BY DEF Orders
  <2>2. Cardinality(below(e)) <= N /\ Cardinality(below(e)) # N
    BY <2>1, FS_Subset
  <2> QED
    BY <1>1, <1>2, <2>2
<1>4. ASSUME NEW d \in S, NEW e \in S, <<d, e>> \in R PROVE rank[d] < rank[e]
  <2>1. below(d) \subseteq below(e)
    BY <1>4 DEF Orders
  <2>2. d \in below(e) /\ d \notin below(d)
    BY <1>4 DEF Orders
  <2>3. IsFiniteSet(below(e)) /\ below(d) # below(e)
    BY <1>2, <2>2
  <2> HIDE DEF below
  <2>4. Cardinality(below(d)) <= Cardinality(below(e))
        /\ Cardinality(below(d)) # Cardinality(below(e))
    BY <2>1, <2>3, FS_Subset
  <2> QED
    BY <1>2, <2>4
<1>5. rank \in Injection(S, 1 .. N)
  <2>1. \A d, e \in S : rank[d] = rank[e] => d = e
    <3> SUFFICES ASSUME NEW d \in S, NEW e \in S, rank[d] = rank[e], d # e PROVE FALSE
      OBVIOUS
    <3>1. rank[d] \in Int /\ rank[e] \in Int
      BY <1>3
    <3>2. ~ (rank[d] < rank[e]) /\ ~ (rank[e] < rank[d])
      <4> HIDE DEF rank
      <4> QED
        BY <3>1
    <3> HIDE DEF rank
    <3> QED
      BY <1>4, <3>2 DEF Orders
  <2>2. rank \in [S -> 1 .. N]
    BY <1>3
  <2> HIDE DEF rank, N
  <2> QED
    BY <2>1, <2>2 DEF Injection, IsInjective
<1>6. rank \in Surjection(S, 1 .. N)
  <2>1. IsFiniteSet(1 .. N) /\ Cardinality(1 .. N) = N
    BY <1>1, FS_Interval
  <2> HIDE DEF rank
  <2> QED
    BY <1>5, <2>1, FS_Injection
<1> DEFINE q(e) == Cardinality(below(e))
<1>7. /\ \A e \in S : q(e) \in 0 .. N - 1
      /\ \A d, e \in S : <<d, e>> \in R => q(d) < q(e)
      /\ \A d, e \in S : q(d) = q(e) => d = e
  <2>1. \A e \in S : rank[e] = q(e) + 1 /\ q(e) \in Nat
    BY <1>2
  <2> HIDE DEF rank, q, N
  <2>2. \A e \in S : q(e) \in 0 .. N - 1
    BY <1>1, <1>3, <2>1
  <2>3. \A d, e \in S : <<d, e>> \in R => q(d) < q(e)
    BY <1>4, <2>1
  <2>4. \A d, e \in S : q(d) = q(e) => d = e
    BY <1>5, <2>1 DEF Injection, IsInjective
  <2> QED
    BY <2>2, <2>3, <2>4
<1>8. ASSUME NEW n \in 0 .. N - 1 PROVE \E e \in S : q(e) = n
  <2>1. n + 1 \in 1 .. N
    BY <1>1
  <2>2. PICK e \in S : rank[e] = n + 1
    <3> HIDE DEF rank
    <3> QED
      BY <1>6, <2>1 DEF Surjection
  <2>3. q(e) \in Nat /\ q(e) + 1 = n + 1
    BY <1>2, <2>2
  <2> HIDE DEF q
  <2> QED
    BY <2>3
<1> HIDE DEF q, N
<1>9. \A e \in S : Rank(e, S, R) = q(e)
  BY DEF Rank, Below, q
<1> QED
  BY <1>1, <1>7, <1>8, <1>9 DEF N

(* Ranked lists every element of a finite set once, in the given order.    *)
LEMMA RankedSorts ==
  ASSUME NEW S, IsFiniteSet(S), NEW R, Orders(R, S)
  PROVE  /\ Ranked(S, R) \in Seq(S)
         /\ Len(Ranked(S, R)) = Cardinality(S)
         /\ \A e \in S : \E n \in DOMAIN Ranked(S, R) : Ranked(S, R)[n] = e
         /\ \A n, m \in DOMAIN Ranked(S, R) :
              n < m => <<Ranked(S, R)[n], Ranked(S, R)[m]>> \in R
<1> DEFINE N == Cardinality(S)
           rank(e) == Rank(e, S, R)
           r == Ranked(S, R)
<1>1. /\ N \in Nat
      /\ \A e \in S : rank(e) \in 0 .. N - 1
      /\ \A d, e \in S : <<d, e>> \in R => rank(d) < rank(e)
      /\ \A d, e \in S : rank(d) = rank(e) => d = e
      /\ \A n \in 0 .. N - 1 : \E e \in S : rank(e) = n
  BY RankNumbers
<1> HIDE DEF N, rank
<1>2. ASSUME NEW n \in 1 .. N PROVE r[n] \in S /\ rank(r[n]) = n - 1
  <2>1. n - 1 \in 0 .. N - 1
    BY <1>1
  <2>2. \E e \in S : rank(e) = n - 1
    BY <1>1, <2>1
  <2>3. r[n] = CHOOSE e \in S : rank(e) = n - 1
    BY DEF Ranked, Rank, Below, rank, N
  <2> HIDE DEF r
  <2> QED
    BY <2>2, <2>3
<1>3. DOMAIN r = 1 .. N /\ r \in [1 .. N -> S]
  BY <1>2 DEF Ranked, N
<1> HIDE DEF r
<1>4. r \in Seq(S) /\ Len(r) = N
  BY <1>1, <1>3
<1>5. ASSUME NEW e \in S PROVE \E n \in 1 .. N : r[n] = e
  <2> DEFINE n == rank(e) + 1
  <2>1. n \in 1 .. N /\ rank(e) = n - 1
    BY <1>1
  <2> HIDE DEF n
  <2>2. r[n] \in S /\ rank(r[n]) = rank(e)
    BY <1>2, <2>1
  <2> QED
    BY <1>1, <2>1, <2>2
<1>6. ASSUME NEW n \in 1 .. N, NEW m \in 1 .. N, n < m PROVE <<r[n], r[m]>> \in R
  <2>1. r[n] \in S /\ r[m] \in S /\ rank(r[n]) = n - 1 /\ rank(r[m]) = m - 1
    BY <1>2
  <2>2. ~ (rank(r[m]) < rank(r[n])) /\ r[n] # r[m]
    BY <1>1, <1>6, <2>1
  <2> QED
    BY <1>1, <2>1, <2>2 DEF Orders
<1>7. /\ r \in Seq(S) /\ Len(r) = N
      /\ \A e \in S : \E n \in DOMAIN r : r[n] = e
      /\ \A n, m \in DOMAIN r : n < m => <<r[n], r[m]>> \in R
  BY <1>3, <1>4, <1>5, <1>6
<1> QED
  BY <1>7 DEF r, N

=============================================================================
