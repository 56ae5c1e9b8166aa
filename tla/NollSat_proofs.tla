--------------------------- MODULE NollSat_proofs ---------------------------
(***************************************************************************)
(* What NollSat's runs check on small formulas, for every formula:         *)
(*   SatTypes      every literal written is a variable counted for the     *)
(*                 header of the file,                                     *)
(*   SatEncoded    no search for a variable fails and no clause is empty,  *)
(*   SatAdequate   every heap of the formula satisfies every clause.       *)
(* The proofs go from the tables up: the entries are sorted, so bisection  *)
(* finds each of them; a literal of an entry that is found names one fact  *)
(* of a heap; the facts of one line cannot all be false, by the shape the  *)
(* unfolding of a predicate gives to its heaps.                            *)
(***************************************************************************)
EXTENDS NollSat, NollInduction, FiniteSetTheorems, SequenceTheorems, TLAPS

-----------------------------------------------------------------------------
(* Sorted tables.                                                          *)

(* The lexicographic order of keys of one length. *)
LEMMA KeyOrder ==
  ASSUME NEW n \in Nat
  PROVE  /\ \A a \in [1 .. n -> Int] : ~ KeyLess(a, a)
         /\ \A a, b, c \in [1 .. n -> Int] : KeyLess(a, b) /\ KeyLess(b, c) => KeyLess(a, c)
         /\ \A a, b \in [1 .. n -> Int] : a = b \/ KeyLess(a, b) \/ KeyLess(b, a)
<1>1. ASSUME NEW a \in [1 .. n -> Int] PROVE ~ KeyLess(a, a)
  BY DEF KeyLess
<1>2. ASSUME NEW a \in [1 .. n -> Int], NEW b \in [1 .. n -> Int], NEW c \in [1 .. n -> Int],
             KeyLess(a, b), KeyLess(b, c)
      PROVE  KeyLess(a, c)
  <2>1. PICK k \in 1 .. n : a[k] < b[k] /\ \A l \in 1 .. k - 1 : a[l] = b[l]
    BY <1>2 DEF KeyLess
  <2>2. PICK m \in 1 .. n : b[m] < c[m] /\ \A l \in 1 .. m - 1 : b[l] = c[l]
    BY <1>2 DEF KeyLess
  <2>3. CASE k <= m
    <3>1. \A l \in 1 .. k - 1 : a[l] = c[l]
      BY <2>1, <2>2, <2>3
    <3>2. a[k] < c[k]
      BY <2>1, <2>2, <2>3
    <3> QED
      BY <3>1, <3>2 DEF KeyLess
  <2>4. CASE m < k
    <3>1. \A l \in 1 .. m - 1 : a[l] = c[l]
      BY <2>1, <2>2, <2>4
    <3>2. a[m] < c[m]
      BY <2>1, <2>2, <2>4
    <3> QED
      BY <3>1, <3>2 DEF KeyLess
  <2> QED
    BY <2>3, <2>4
<1>3. ASSUME NEW a \in [1 .. n -> Int], NEW b \in [1 .. n -> Int], a # b
      PROVE  KeyLess(a, b) \/ KeyLess(b, a)
  <2> DEFINE D == {k \in 1 .. n : a[k] # b[k]}
  <2>1. D # {} /\ D \subseteq Nat
    BY <1>3
  <2>2. PICK k \in D : \A i \in D : ~ (i < k)
    <3> HIDE DEF D
    <3> QED
      BY <2>1, Least
  <2>3. \A l \in 1 .. k - 1 : a[l] = b[l]
    BY <2>2
  <2>4. a[k] < b[k] \/ b[k] < a[k]
    OBVIOUS
  <2> QED
    BY <2>3, <2>4 DEF KeyLess
<1> QED
  BY <1>1, <1>2, <1>3

(* The entries of a table with keys of length n. *)
Entries(n) == [key : [1 .. n -> Int], atom : Int, idx : Int]

LEMMA EntriesOrdered ==
  ASSUME NEW n \in Nat, NEW E, E \subseteq Entries(n)
  PROVE  Orders(EntryOrder(E), E)
<1> DEFINE low(e) == <<e.atom, e.idx>>
           Before(d, e) == \/ KeyLess(d.key, e.key)
                           \/ d.key = e.key /\ KeyLess(low(d), low(e))
<1>1. \A e \in E : e.key \in [1 .. n -> Int] /\ low(e) \in [1 .. 2 -> Int]
  BY DEF Entries
<1>2. \A d, e \in E : <<d, e>> \in EntryOrder(E) <=> Before(d, e)
  BY DEF EntryOrder
<1>3. \A d, e \in E : d.key = e.key /\ low(d) = low(e) => d = e
  BY DEF Entries
<1> HIDE DEF low
<1>4. ASSUME NEW a \in E PROVE ~ Before(a, a)
  BY <1>1, KeyOrder
<1>5. ASSUME NEW a \in E, NEW b \in E, NEW c \in E, Before(a, b), Before(b, c)
      PROVE  Before(a, c)
  <2>1. KeyLess(a.key, b.key) /\ KeyLess(b.key, c.key) => KeyLess(a.key, c.key)
    BY <1>1, KeyOrder
  <2>2. KeyLess(low(a), low(b)) /\ KeyLess(low(b), low(c)) => KeyLess(low(a), low(c))
    BY <1>1, KeyOrder
  <2> QED
    BY <1>5, <2>1, <2>2
<1>6. ASSUME NEW a \in E, NEW b \in E PROVE a = b \/ Before(a, b) \/ Before(b, a)
  <2>1. a.key = b.key \/ KeyLess(a.key, b.key) \/ KeyLess(b.key, a.key)
    BY <1>1, KeyOrder
  <2>2. low(a) = low(b) \/ KeyLess(low(a), low(b)) \/ KeyLess(low(b), low(a))
    BY <1>1, KeyOrder
  <2> QED
    BY <1>3, <2>1, <2>2
<1> HIDE DEF Before
<1> QED
  BY <1>2, <1>4, <1>5, <1>6 DEF Orders

Sorted(keys) == \A i, j \in DOMAIN keys : i < j => ~ KeyLess(keys[j], keys[i])

(* What the code gets from sorting: each entry once, in ascending order.   *)
Table(table, E, n) ==
  /\ table \in Seq(E)
  /\ \A e \in E : \E p \in DOMAIN table : table[p] = e
  /\ \A p, q \in DOMAIN table : p # q => table[p] # table[q]
  /\ Keys(table) \in Seq([1 .. n -> Int]) /\ Len(Keys(table)) = Len(table)
  /\ \A p \in DOMAIN table : Keys(table)[p] = table[p].key
  /\ Sorted(Keys(table))

LEMMA TableSorted ==
  ASSUME NEW n \in Nat, NEW E, E \subseteq Entries(n), IsFiniteSet(E)
  PROVE  Table(SortTable(E), E, n)
<1> DEFINE t == SortTable(E)
           R == EntryOrder(E)
<1>1. Orders(R, E)
  BY EntriesOrdered
<1>2. /\ t \in Seq(E)
      /\ \A e \in E : \E p \in DOMAIN t : t[p] = e
      /\ \A p, q \in DOMAIN t : p < q => <<t[p], t[q]>> \in R
  BY <1>1, RankedSorts DEF SortTable
<1>3. DOMAIN t = 1 .. Len(t) /\ Len(t) \in Nat /\ \A p \in DOMAIN t : t[p] \in E
  <2> HIDE DEF t
  <2> QED
    BY <1>2
<1>4. \A p \in DOMAIN t : t[p].key \in [1 .. n -> Int]
  <2> HIDE DEF t
  <2> QED
    BY <1>3 DEF Entries
<1>5. DOMAIN Keys(t) = DOMAIN t /\ \A p \in DOMAIN t : Keys(t)[p] = t[p].key
  <2> HIDE DEF t
  <2> QED
    BY DEF Keys
<1>6. Keys(t) \in Seq([1 .. n -> Int]) /\ Len(Keys(t)) = Len(t)
  <2> HIDE DEF t
  <2>1. Keys(t) \in [1 .. Len(t) -> [1 .. n -> Int]]
    BY <1>3, <1>4 DEF Keys
  <2> QED
    BY <1>3, <2>1
<1>7. ASSUME NEW p \in DOMAIN t, NEW q \in DOMAIN t, p < q
      PROVE  ~ KeyLess(t[q].key, t[p].key)
  <2> HIDE DEF t
  <2>1. t[p].key \in [1 .. n -> Int] /\ t[q].key \in [1 .. n -> Int]
    BY <1>4
  <2>2. KeyLess(t[p].key, t[q].key) \/ t[p].key = t[q].key
    BY <1>2, <1>7 DEF EntryOrder
  <2> QED
    BY <2>1, <2>2, KeyOrder
<1>8. ASSUME NEW p \in DOMAIN t, NEW q \in DOMAIN t, p # q PROVE t[p] # t[q]
  <2> HIDE DEF t, R
  <2>1. p < q \/ q < p
    BY <1>3, <1>8
  <2>2. <<t[p], t[q]>> \in R \/ <<t[q], t[p]>> \in R
    BY <1>2, <2>1
  <2> QED
    BY <1>1, <1>3, <2>2 DEF Orders
<1> HIDE DEF t
<1>9. Sorted(Keys(t))
  BY <1>5, <1>7 DEF Sorted
<1> QED
  BY <1>2, <1>5, <1>6, <1>8, <1>9 DEF Table, t

-----------------------------------------------------------------------------
(* The bisection.                                                          *)

Interval == [min : Nat, max : Int]

LEMMA TurnType ==
  ASSUME NEW keys, Len(keys) \in Nat, NEW key, NEW b \in Interval
  PROVE  Turn(keys, key, b) \in Interval
<1> DEFINE pos == Middle(b)
<1>1. b.min \in Nat /\ b.max \in Int
  BY DEF Interval
<1>2. b.min < b.max => pos \in Nat
  BY <1>1 DEF Middle
<1> HIDE DEF pos
<1>3. CASE b.min >= b.max \/ pos >= Len(keys)
  BY <1>3 DEF Turn, pos
<1>4. CASE ~ (b.min >= b.max \/ pos >= Len(keys))
  <2>1. pos \in Nat
    BY <1>1, <1>2, <1>4
  <2>2. Turn(keys, key, b) \in {[min |-> pos + 1, max |-> b.max], [min |-> b.min, max |-> UintMax],
                                [min |-> b.min, max |-> pos - 1], [min |-> pos, max |-> pos]}
    BY <1>4 DEF Turn, pos
  <2> QED
    BY <1>1, <2>1, <2>2 DEF Interval, UintMax
<1> QED
  BY <1>3, <1>4

(* The bisection is the iteration of its turns. *)
LEMMA BisectTurns ==
  ASSUME NEW keys, Len(keys) \in Nat, NEW key
  PROVE  \E g \in [0 .. Len(keys) -> Interval] :
           /\ g[0] = [min |-> 0, max |-> Len(keys) - 1]
           /\ \A n \in 1 .. Len(keys) : g[n] = Turn(keys, key, g[n - 1])
           /\ Bisect(keys, key) = g[Len(keys)]
<1> DEFINE N == Len(keys)
           first == [min |-> 0, max |-> N - 1]
           E == [n \in 1 .. N |-> [b \in Interval |-> Turn(keys, key, b)]]
<1>1. first \in Interval
  BY DEF Interval
<1>2. E \in [1 .. N -> [Interval -> Interval]]
  BY TurnType
<1>3. PICK g : Iteration(g, Interval, first, N, E)
  <2> HIDE DEF E, first
  <2> QED
    BY <1>1, <1>2, Iterates
<1>4. g \in [0 .. N -> Interval] /\ g[0] = first
  <2> HIDE DEF E, first
  <2> QED
    BY <1>3 DEF Iteration
<1>5. ASSUME NEW n \in 1 .. N PROVE g[n] = Turn(keys, key, g[n - 1])
  <2>1. g[n] = E[n][g[n - 1]]
    <3> HIDE DEF E, first
    <3> QED
      BY <1>3 DEF Iteration
  <2>2. g[n - 1] \in Interval
    <3> HIDE DEF first
    <3> QED
      BY <1>4
  <2> QED
    BY <2>1, <2>2
<1> DEFINE Body(f) == [n \in 0 .. N |-> IF n = 0 THEN first ELSE Turn(keys, key, f[n - 1])]
           after == CHOOSE f : f = Body(f)
<1>6. g = Body(g)
  <2> HIDE DEF first
  <2>1. \A n \in 0 .. N : g[n] = IF n = 0 THEN first ELSE Turn(keys, key, g[n - 1])
    BY <1>4, <1>5
  <2> QED
    BY <1>4, <2>1
<1>7. after = Body(after)
  <2> HIDE DEF Body
  <2> QED
    BY <1>6
<1>8. Bisect(keys, key) = after[N]
  BY DEF Bisect
<1> DEFINE h == after
<1>9. DOMAIN h = 0 .. N /\ h[0] = first /\ \A n \in 1 .. N : h[n] = Turn(keys, key, h[n - 1])
  <2> HIDE DEF after, first
  <2> QED
    BY <1>7
<1> HIDE DEF h
<1> DEFINE Bad == {n \in 0 .. N : h[n] # g[n]}
<1>10. Bad = {}
  <2> SUFFICES ASSUME Bad # {} PROVE FALSE
    OBVIOUS
  <2>1. PICK n \in Bad : \A i \in Bad : ~ (i < n)
    <3>1. Bad \subseteq Nat
      OBVIOUS
    <3> HIDE DEF Bad
    <3> QED
      BY <3>1, Least
  <2>2. n \in 1 .. N
    BY <1>4, <1>9
  <2>3. h[n - 1] = g[n - 1]
    BY <2>1, <2>2
  <2> QED
    BY <1>5, <1>9, <2>2, <2>3
<1>11. h[N] = g[N]
  <2>1. N \in 0 .. N /\ N \notin Bad
    BY <1>10
  <2> QED
    BY <2>1
<1> QED
  <2>1. Bisect(keys, key) = g[N]
    BY <1>8, <1>11 DEF h
  <2> QED
    BY <1>4, <1>5, <2>1

(* The key lies in the interval after every turn, and the interval shrinks *)
(* until it has one position.                                              *)
Within(keys, key, b, n) ==
  /\ b \in Interval /\ b.max \in Nat
  /\ b.min <= b.max /\ b.max < Len(keys)
  /\ \E p \in b.min + 1 .. b.max + 1 : keys[p] = key
  /\ b.max = b.min \/ b.max - b.min <= Len(keys) - 1 - n

LEMMA TurnWithin ==
  ASSUME NEW m \in Nat, NEW keys \in Seq([1 .. m -> Int]), Sorted(keys),
         NEW key \in [1 .. m -> Int], NEW n \in Nat, NEW b, Within(keys, key, b, n)
  PROVE  Within(keys, key, Turn(keys, key, b), n + 1)
<1> DEFINE pos == Middle(b)
           N == Len(keys)
           T == Turn(keys, key, b)
<1>1. /\ b.min \in Nat /\ b.max \in Nat /\ N \in Nat /\ b.min <= b.max /\ b.max < N
      /\ b.max = b.min \/ b.max - b.min <= N - 1 - n
  BY DEF Within, Interval
<1>2. PICK p \in b.min + 1 .. b.max + 1 : keys[p] = key
  BY DEF Within
<1>3. CASE b.min = b.max
  <2>1. T = b
    BY <1>1, <1>3 DEF Turn
  <2> QED
    BY <1>3, <2>1 DEF Within
<1>4. CASE b.min < b.max
  <2>1. pos \in Nat /\ b.min <= pos /\ pos < b.max
    BY <1>1, <1>4, SMTT(30) DEF Middle
  <2> HIDE DEF pos
  <2>2. /\ p \in DOMAIN keys /\ pos + 1 \in DOMAIN keys
        /\ keys[pos + 1] \in [1 .. m -> Int]
    <3>1. p \in 1 .. N /\ pos + 1 \in 1 .. N
      BY <1>1, <1>2, <2>1
    <3> QED
      BY <3>1
  <2>3. ~ (b.min >= b.max \/ pos >= N)
    BY <1>1, <1>4, <2>1
  <2>4. CASE KeyLess(keys[pos + 1], key)
    <3>1. T = [min |-> pos + 1, max |-> b.max]
      BY <2>3, <2>4 DEF Turn, pos
    <3>2. ~ (p < pos + 1) /\ p # pos + 1
      BY <1>2, <2>2, <2>4, KeyOrder, SMTT(30) DEF Sorted
    <3>3. p \in (pos + 1) + 1 .. b.max + 1
      BY <1>1, <1>2, <2>1, <3>2
    <3> QED
      BY <1>1, <1>2, <2>1, <3>1, <3>3 DEF Within, Interval
  <2>5. CASE ~ KeyLess(keys[pos + 1], key) /\ KeyLess(key, keys[pos + 1])
    <3>1. ~ (pos + 1 < p) /\ p # pos + 1
      BY <1>2, <2>2, <2>5, KeyOrder, SMTT(30) DEF Sorted
    <3>2. p < pos + 1 /\ pos # 0
      BY <1>1, <1>2, <2>1, <3>1
    <3>3. T = [min |-> b.min, max |-> pos - 1]
      BY <2>3, <2>5, <3>2 DEF Turn, pos
    <3>4. p \in b.min + 1 .. (pos - 1) + 1
      BY <1>1, <1>2, <2>1, <3>2
    <3> QED
      BY <1>1, <1>2, <2>1, <3>2, <3>3, <3>4 DEF Within, Interval
  <2>6. CASE ~ KeyLess(keys[pos + 1], key) /\ ~ KeyLess(key, keys[pos + 1])
    <3>1. T = [min |-> pos, max |-> pos]
      BY <2>3, <2>6 DEF Turn, pos
    <3>2. keys[pos + 1] = key
      BY <2>2, <2>6, KeyOrder
    <3> QED
      BY <1>1, <2>1, <3>1, <3>2 DEF Within, Interval
  <2> QED
    BY <2>4, <2>5, <2>6
<1> QED
  BY <1>1, <1>3, <1>4

(* The search finds a key that is there. *)
LEMMA BsearchFinds ==
  ASSUME NEW m \in Nat, NEW keys \in Seq([1 .. m -> Int]), Sorted(keys),
         NEW p \in DOMAIN keys
  PROVE  /\ Bsearch(keys, keys[p]) \in 0 .. Len(keys) - 1
         /\ keys[Bsearch(keys, keys[p]) + 1] = keys[p]
<1> DEFINE N == Len(keys)
           key == keys[p]
<1>1. N \in Nat /\ DOMAIN keys = 1 .. N /\ key \in [1 .. m -> Int] /\ p \in 1 .. N
  OBVIOUS
<1>2. PICK g \in [0 .. N -> Interval] :
           /\ g[0] = [min |-> 0, max |-> N - 1]
           /\ \A n \in 1 .. N : g[n] = Turn(keys, key, g[n - 1])
           /\ Bisect(keys, key) = g[N]
  BY <1>1, BisectTurns
<1> DEFINE Bad == {n \in 0 .. N : ~ Within(keys, key, g[n], n)}
<1>3. Bad = {}
  <2> SUFFICES ASSUME Bad # {} PROVE FALSE
    OBVIOUS
  <2>1. PICK n \in Bad : \A i \in Bad : ~ (i < n)
    <3>1. Bad \subseteq Nat
      OBVIOUS
    <3> HIDE DEF Bad
    <3> QED
      BY <3>1, Least
  <2>2. Within(keys, key, g[0], 0)
    <3>1. p \in 0 + 1 .. (N - 1) + 1
      BY <1>1
    <3>2. g[0].min = 0 /\ g[0].max = N - 1 /\ g[0] \in Interval
      <4>1. g[0] = [min |-> 0, max |-> N - 1]
        BY <1>2
      <4>2. [min |-> 0, max |-> N - 1] \in Interval
        BY <1>1 DEF Interval
      <4> HIDE DEF key
      <4> QED
        BY <4>1, <4>2
    <3> HIDE DEF key
    <3> QED
      BY <1>1, <3>1, <3>2 DEF Within, key
  <2> HIDE DEF key
  <2>3. n \in 1 .. N
    BY <2>2
  <2>4. Within(keys, key, g[n - 1], n - 1)
    BY <2>1, <2>3
  <2>5. Within(keys, key, g[n], (n - 1) + 1)
    <3>1. g[n] = Turn(keys, key, g[n - 1]) /\ n - 1 \in Nat
      BY <1>2, <2>3
    <3> QED
      BY <1>1, <2>4, <3>1, TurnWithin
  <2> QED
    BY <2>3, <2>5
<1> HIDE DEF key
<1>4. Within(keys, key, g[N], N)
  <2>1. N \in 0 .. N
    BY <1>1
  <2> QED
    BY <1>3, <2>1
<1> DEFINE b == Bisect(keys, key)
<1>5. /\ b.min \in Nat /\ b.max \in Nat /\ b.min = b.max /\ b.max < N
      /\ \E q \in b.min + 1 .. b.max + 1 : keys[q] = key
  BY <1>1, <1>2, <1>4 DEF Within, Interval
<1>6. keys[b.min + 1] = key
  BY <1>5
<1>7. keys # <<>>
  BY <1>1
<1>8. Bsearch(keys, key) = b.min
  BY <1>5, <1>6, <1>7 DEF Bsearch
<1> QED
  BY <1>1, <1>5, <1>6, <1>8 DEF key

(* What a search may give: a position in the table, or none. *)
LEMMA BsearchType ==
  ASSUME NEW keys, Len(keys) \in Nat, NEW key
  PROVE  Bsearch(keys, key) \in Nat
<1>1. Bisect(keys, key) \in Interval
  <2>1. PICK g \in [0 .. Len(keys) -> Interval] : Bisect(keys, key) = g[Len(keys)]
    BY BisectTurns
  <2> QED
    BY <2>1
<1> QED
  BY <1>1 DEF Bsearch, UintMax, Interval

-----------------------------------------------------------------------------
(* The formulas and their tables.                                          *)

LEMMA ZeroVar == 0 \in Var /\ Var \subseteq Nat /\ IsFiniteSet(Var)
BY SizeAssumption, FS_Interval DEF Var

LEMMA FormTypes ==
  ASSUME NEW f \in Forms
  PROVE  /\ Len(f.space) \in Nat /\ DOMAIN f.space = 1 .. Len(f.space)
         /\ IsFiniteSet(DOMAIN f.space)
         /\ f.space \in Spaces /\ f.pure \in [Cell -> Op]
         /\ DOMAIN f.space = PtoAtoms(f) \union PredAtoms(f)
<1>1. f.space \in Seq(Range(f.space)) /\ \A i \in DOMAIN f.space : AtomOK(f.space[i])
  BY SatAssumption
<1>2. Len(f.space) \in Nat /\ DOMAIN f.space = 1 .. Len(f.space)
  BY <1>1
<1>3. IsFiniteSet(DOMAIN f.space)
  BY <1>2, FS_Interval
<1>4. DOMAIN f.space = PtoAtoms(f) \union PredAtoms(f)
  BY <1>1 DEF PtoAtoms, PredAtoms, AtomOK
<1> QED
  BY <1>2, <1>3, <1>4, SatAssumption

(* The parts of UsedVars. *)
LEMMA UsedParts ==
  ASSUME NEW f
  PROVE  /\ 0 \in UsedVars(f)
         /\ \A i \in DOMAIN f.space : AtomVars(f.space[i]) \subseteq UsedVars(f)
         /\ \A a \in f.share : a.x \in UsedVars(f)
         /\ \A a \in f.share : \A t \in Range(a.terms) : t.kind = "lvar" => t.var \in UsedVars(f)
         /\ \A c \in Cell : c[1] < c[2] /\ f.pure[c] # "other" => {c[1], c[2]} \subseteq UsedVars(f)
         /\ \A x \in UsedVars(f) :
              \/ x = 0
              \/ \E c \in Cell : x \in {c[1], c[2]}
              \/ \E i \in DOMAIN f.space : x \in AtomVars(f.space[i])
              \/ \E a \in f.share : x = a.x
              \/ \E a \in f.share : \E t \in Range(a.terms) : t.kind = "lvar" /\ x = t.var
<1> DEFINE pure == UNION {{x[1], x[2]} : x \in {c \in Cell : c[1] < c[2] /\ f.pure[c] # "other"}}
           atoms == UNION {AtomVars(f.space[i]) : i \in DOMAIN f.space}
           left == {a.x : a \in f.share}
           right == UNION {{t.var : t \in {u \in Range(a.terms) : u.kind = "lvar"}} : a \in f.share}
<1>1. UsedVars(f) = {0} \union pure \union atoms \union left \union right
  BY DEF UsedVars
<1>2. /\ \A i \in DOMAIN f.space : AtomVars(f.space[i]) \subseteq atoms
      /\ \A x \in atoms : \E i \in DOMAIN f.space : x \in AtomVars(f.space[i])
  OBVIOUS
<1>3. /\ \A a \in f.share : a.x \in left
      /\ \A x \in left : \E a \in f.share : x = a.x
  OBVIOUS
<1>4. ASSUME NEW a \in f.share, NEW t \in Range(a.terms), t.kind = "lvar" PROVE t.var \in right
  <2>1. t \in {u \in Range(a.terms) : u.kind = "lvar"}
    BY <1>4
  <2> QED
    BY <2>1
<1>5. \A x \in right : \E a \in f.share : \E t \in Range(a.terms) : t.kind = "lvar" /\ x = t.var
  OBVIOUS
<1>6. \A c \in Cell : c[1] < c[2] /\ f.pure[c] # "other" => {c[1], c[2]} \subseteq pure
  OBVIOUS
<1>7. \A x \in pure : \E c \in Cell : x \in {c[1], c[2]}
  OBVIOUS
<1> HIDE DEF pure, atoms, left, right
<1> QED
  BY <1>1, <1>2, <1>3, <1>4, <1>5, <1>6, <1>7

LEMMA PtoTypes ==
  ASSUME NEW f \in Forms, NEW i \in PtoAtoms(f)
  PROVE  /\ i \in DOMAIN f.space /\ i \in Int
         /\ f.space[i].kind = "pto" /\ f.space[i].src \in Var
         /\ f.space[i].fields \in Seq(Int \X Var)
         /\ \A k, l \in DOMAIN f.space[i].fields :
              f.space[i].fields[k][1] = f.space[i].fields[l][1] => k = l
         /\ f.space[i].src \in UsedVars(f)
<1>1. i \in DOMAIN f.space /\ f.space[i].kind = "pto"
  BY DEF PtoAtoms
<1>2. AtomOK(f.space[i])
  BY <1>1, SatAssumption
<1>3. i \in Int
  BY <1>1, FormTypes
<1>4. f.space[i].src \in UsedVars(f)
  BY <1>1, UsedParts DEF AtomVars
<1> QED
  BY <1>1, <1>2, <1>3, <1>4 DEF AtomOK

LEMMA PredTypes ==
  ASSUME NEW f \in Forms, NEW i \in PredAtoms(f)
  PROVE  /\ i \in DOMAIN f.space /\ i \in Int
         /\ f.space[i].kind = "ls" /\ f.space[i].pid \in DOMAIN Preds /\ f.space[i].pid \in Int
         /\ f.space[i].args \in Seq(Var) /\ Len(f.space[i].args) = Preds[f.space[i].pid].fargs
         /\ {1, 2} \subseteq DOMAIN f.space[i].args
         /\ TwoDir(f, i) => {3, 4} \subseteq DOMAIN f.space[i].args
         /\ \A k \in DOMAIN f.space[i].args : f.space[i].args[k] \in UsedVars(f)
         /\ Preds[f.space[i].pid].fields \subseteq Int /\ IsFiniteSet(Preds[f.space[i].pid].fields)
<1>1. i \in DOMAIN f.space /\ f.space[i].kind = "ls"
  BY DEF PredAtoms
<1>2. AtomOK(f.space[i])
  BY <1>1, SatAssumption
<1>3. i \in Int
  BY <1>1, FormTypes
<1>4. /\ f.space[i].pid \in DOMAIN Preds
      /\ f.space[i].args \in Seq(Var) /\ Len(f.space[i].args) = Preds[f.space[i].pid].fargs
  BY <1>1, <1>2 DEF AtomOK
<1>5. PredOK(f.space[i].pid)
  BY <1>4, SatAssumption
<1>6. {1, 2} \subseteq DOMAIN f.space[i].args
  BY <1>4, <1>5 DEF PredOK
<1>7. TwoDir(f, i) => {3, 4} \subseteq DOMAIN f.space[i].args
  BY <1>4, <1>5 DEF PredOK, TwoDir
<1>8. ASSUME NEW k \in DOMAIN f.space[i].args PROVE f.space[i].args[k] \in UsedVars(f)
  <2>1. f.space[i].args[k] \in Range(f.space[i].args)
    BY DEF Range
  <2> QED
    BY <1>1, <2>1, UsedParts DEF AtomVars
<1> QED
  BY <1>1, <1>3, <1>4, <1>5, <1>6, <1>7, <1>8 DEF PredOK

LEMMA EndTypes ==
  ASSUME NEW f \in Forms, NEW i \in PredAtoms(f)
  PROVE  /\ In(f, i) \in Var /\ Out(f, i) \in Var
         /\ In(f, i) \in UsedVars(f) /\ Out(f, i) \in UsedVars(f)
<1> DEFINE args == f.space[i].args
<1>1. args \in Seq(Var) /\ 1 \in DOMAIN args /\ 2 \in DOMAIN args
      /\ \A k \in DOMAIN args : args[k] \in UsedVars(f)
  BY PredTypes
<1> HIDE DEF args
<1>2. {args[1], args[2]} \subseteq Var \intersect UsedVars(f)
  BY <1>1
<1> QED
  BY <1>2 DEF In, Out, args

LEMMA ShareTypes ==
  ASSUME NEW f \in Forms, NEW a \in f.share
  PROVE  /\ a.x \in Var \ {0} /\ a.x \in UsedVars(f) /\ a.kind \in {"in", "ni"}
         /\ a.terms \in Seq(Range(a.terms))
         /\ \A t \in Range(a.terms) :
              \/ t.kind = "lvar" /\ t.var \in Var \ {0} /\ t.var \in UsedVars(f)
              \/ t.kind = "svar" /\ t.svar \in PredAtoms(f)
<1>1. ShareOK(f.space, a)
  BY SatAssumption
<1>2. a.x \in UsedVars(f)
  BY UsedParts
<1>3. ASSUME NEW t \in Range(a.terms)
      PROVE  \/ t.kind = "lvar" /\ t.var \in Var \ {0} /\ t.var \in UsedVars(f)
             \/ t.kind = "svar" /\ t.svar \in PredAtoms(f)
  <2>1. PICK k \in DOMAIN a.terms : t = a.terms[k]
    BY DEF Range
  <2>2. CASE t.kind = "lvar"
    <3>1. t.var \in UsedVars(f)
      BY <2>2, UsedParts
    <3> QED
      BY <1>1, <2>1, <2>2, <3>1 DEF ShareOK
  <2>3. CASE t.kind # "lvar"
    BY <1>1, <2>1, <2>3 DEF ShareOK, PredAtoms
  <2> QED
    BY <2>2, <2>3
<1> QED
  BY <1>1, <1>2, <1>3 DEF ShareOK

LEMMA UsedTypes ==
  ASSUME NEW f \in Forms
  PROVE  /\ UsedVars(f) \subseteq Var /\ 0 \in UsedVars(f) /\ IsFiniteSet(UsedVars(f))
         /\ UsedSets(f) = PredAtoms(f) /\ IsFiniteSet(PredAtoms(f)) /\ IsFiniteSet(PtoAtoms(f))
<1>1. ASSUME NEW x \in UsedVars(f) PROVE x \in Var
  <2>1. ASSUME NEW i \in DOMAIN f.space, x \in AtomVars(f.space[i]) PROVE x \in Var
    <3>1. CASE i \in PtoAtoms(f)
      <4>1. f.space[i].kind = "pto" /\ f.space[i].src \in Var
            /\ f.space[i].fields \in Seq(Int \X Var)
        BY <3>1, PtoTypes
      <4>2. \A k \in DOMAIN f.space[i].fields : f.space[i].fields[k][2] \in Var
        BY <4>1
      <4> QED
        BY <2>1, <4>1, <4>2 DEF AtomVars
    <3>2. CASE i \in PredAtoms(f)
      <4>1. f.space[i].kind = "ls" /\ f.space[i].args \in Seq(Var)
        BY <3>2, PredTypes
      <4>2. \A k \in DOMAIN f.space[i].args : f.space[i].args[k] \in Var
        BY <4>1
      <4> QED
        BY <2>1, <4>1, <4>2 DEF AtomVars, Range
    <3> QED
      BY <3>1, <3>2, FormTypes
  <2>2. ASSUME NEW a \in f.share PROVE a.x \in Var /\ \A t \in Range(a.terms) : t.kind = "lvar" => t.var \in Var
    BY ShareTypes
  <2>3. \A c \in Cell : c[1] \in Var /\ c[2] \in Var
    BY DEF Cell
  <2> QED
    BY <2>1, <2>2, <2>3, UsedParts, ZeroVar
<1>2. IsFiniteSet(UsedVars(f))
  BY <1>1, ZeroVar, FS_Subset
<1>3. IsFiniteSet(PredAtoms(f)) /\ IsFiniteSet(PtoAtoms(f))
  BY FormTypes, FS_Subset DEF PredAtoms, PtoAtoms
<1>4. UsedSets(f) = PredAtoms(f)
  <2>1. ASSUME NEW a \in f.share, NEW t \in {u \in Range(a.terms) : u.kind = "svar"}
        PROVE  t.svar \in PredAtoms(f)
    BY ShareTypes
  <2> QED
    BY <2>1 DEF UsedSets
<1> QED
  BY <1>1, <1>2, <1>3, <1>4, UsedParts

(* The image of a finite set, and the union of finitely many finite sets.  *)
LEMMA ImageFinite ==
  ASSUME NEW S, IsFiniteSet(S), NEW g, DOMAIN g = S, NEW T, \A y \in T : \E x \in S : y = g[x]
  PROVE  IsFiniteSet(T)
<1> DEFINE I == {g[x] : x \in S}
           h == [x \in S |-> g[x]]
<1>1. h \in [S -> I] /\ \A y \in I : \E x \in S : h[x] = y
  OBVIOUS
<1>2. T \subseteq I
  OBVIOUS
<1> HIDE DEF h, I
<1>3. h \in Surjection(S, I)
  BY <1>1 DEF Surjection
<1> QED
  BY <1>2, <1>3, FS_Surjection, FS_Subset

LEMMA UnionFinite ==
  ASSUME NEW S, IsFiniteSet(S), NEW g, DOMAIN g = S, \A x \in S : IsFiniteSet(g[x]),
         NEW T, \A y \in T : \E x \in S : y \in g[x]
  PROVE  IsFiniteSet(T)
<1> DEFINE I == {g[x] : x \in S}
<1>1. /\ \A y \in I : \E x \in S : y = g[x]
      /\ \A y \in I : IsFiniteSet(y)
      /\ T \subseteq UNION I
  OBVIOUS
<1> HIDE DEF I
<1>2. IsFiniteSet(I)
  BY <1>1, ImageFinite
<1> QED
  BY <1>1, <1>2, FS_UNION, FS_Subset

LEMMA PtoEntriesTypes ==
  ASSUME NEW f \in Forms
  PROVE  PtoEntries(f) \subseteq Entries(2) /\ IsFiniteSet(PtoEntries(f))
<1> DEFINE of(i) == {[key |-> KeyPto(f, i, k), atom |-> i, idx |-> k] : k \in DOMAIN f.space[i].fields}
           g == [i \in PtoAtoms(f) |-> of(i)]
<1>1. ASSUME NEW i \in PtoAtoms(f) PROVE of(i) \subseteq Entries(2) /\ IsFiniteSet(of(i))
  <2> DEFINE F == f.space[i].fields
             e(k) == [key |-> KeyPto(f, i, k), atom |-> i, idx |-> k]
             h == [k \in DOMAIN F |-> e(k)]
  <2>1. i \in Int /\ f.space[i].src \in Int /\ F \in Seq(Int \X Var)
    BY PtoTypes, ZeroVar
  <2>2. ASSUME NEW k \in DOMAIN F PROVE e(k) \in Entries(2)
    <3>1. k \in Int /\ F[k][1] \in Int
      BY <2>1
    <3>2. KeyPto(f, i, k) \in [1 .. 2 -> Int]
      BY <2>1, <3>1 DEF KeyPto
    <3> QED
      BY <2>1, <3>1, <3>2 DEF Entries
  <2>3. IsFiniteSet(DOMAIN F)
    BY <2>1, FS_Interval
  <2>4. DOMAIN h = DOMAIN F /\ \A y \in of(i) : \E k \in DOMAIN F : y = h[k]
    OBVIOUS
  <2>5. IsFiniteSet(of(i))
    <3> HIDE DEF h, of
    <3> QED
      BY <2>3, <2>4, ImageFinite
  <2> QED
    BY <2>2, <2>5
<1>2. PtoEntries(f) = UNION {of(i) : i \in PtoAtoms(f)}
  BY DEF PtoEntries
<1>3. IsFiniteSet(PtoEntries(f))
  <2>1. \A y \in PtoEntries(f) : \E i \in PtoAtoms(f) : y \in g[i]
    BY <1>2
  <2>2. DOMAIN g = PtoAtoms(f) /\ \A i \in PtoAtoms(f) : IsFiniteSet(g[i])
    BY <1>1
  <2> HIDE DEF g
  <2> QED
    BY <2>1, <2>2, UnionFinite, UsedTypes
<1> HIDE DEF of
<1> QED
  BY <1>1, <1>2, <1>3

LEMMA PredEntriesTypes ==
  ASSUME NEW f \in Forms
  PROVE  PredEntries(f) \subseteq Entries(3) /\ IsFiniteSet(PredEntries(f))
<1> DEFINE e(i) == [key |-> KeyPred(f, i), atom |-> i, idx |-> 0]
           g == [i \in PredAtoms(f) |-> e(i)]
<1>1. ASSUME NEW i \in PredAtoms(f) PROVE e(i) \in Entries(3)
  <2>1. i \in Int /\ f.space[i].pid \in Int
    BY PredTypes
  <2> HIDE DEF e, g
  <2>4. In(f, i) \in Var
    BY EndTypes
  <2>3. \A x \in Var : x \in Int
    BY ZeroVar
  <2>5. In(f, i) \in Int
    BY <2>3, <2>4
  <2>2. KeyPred(f, i) \in [1 .. 3 -> Int]
    <3>1. \A a, b, c \in Int : <<a, b, c>> \in [1 .. 3 -> Int]
      OBVIOUS
    <3> QED
      BY <2>1, <2>5, <3>1 DEF KeyPred
  <2> QED
    BY <2>1, <2>2 DEF Entries, e
<1>2. \A y \in PredEntries(f) : \E i \in PredAtoms(f) : y = g[i]
  BY DEF PredEntries
<1>3. IsFiniteSet(PredEntries(f))
  <2>1. DOMAIN g = PredAtoms(f)
    OBVIOUS
  <2> HIDE DEF g
  <2> QED
    BY <1>2, <2>1, ImageFinite, UsedTypes
<1> QED
  BY <1>1, <1>3 DEF PredEntries

LEMMA AptoEntriesTypes ==
  ASSUME NEW f \in Forms
  PROVE  AptoEntries(f) \subseteq Entries(3) /\ IsFiniteSet(AptoEntries(f))
<1> DEFINE P == (UsedVars(f) \ {0}) \X PredAtoms(f)
           of(c) == {[key |-> <<c[1], fd, c[2]>>, atom |-> c[2], idx |-> 0] : fd \in AptoFields(f, c[1], c[2])}
           g == [c \in P |-> of(c)]
<1>1. ASSUME NEW c \in P PROVE of(c) \subseteq Entries(3) /\ IsFiniteSet(of(c))
  <2> DEFINE F == AptoFields(f, c[1], c[2])
             e(fd) == [key |-> <<c[1], fd, c[2]>>, atom |-> c[2], idx |-> 0]
             h == [fd \in F |-> e(fd)]
  <2>1. c[1] \in UsedVars(f) /\ c[2] \in PredAtoms(f) /\ c[1] \in Int /\ c[2] \in Int
    BY UsedTypes, PredTypes, ZeroVar
  <2>2. F \subseteq Int /\ IsFiniteSet(F)
    <3>1. Preds[f.space[c[2]].pid].fields \subseteq Int
          /\ IsFiniteSet(Preds[f.space[c[2]].pid].fields)
      BY <2>1, PredTypes
    <3>2. F \subseteq Preds[f.space[c[2]].pid].fields
      BY DEF AptoFields
    <3> HIDE DEF F
    <3> QED
      BY <3>1, <3>2, FS_Subset
  <2> HIDE DEF F
  <2>3. ASSUME NEW fd \in F PROVE e(fd) \in Entries(3)
    <3>1. <<c[1], fd, c[2]>> \in [1 .. 3 -> Int]
      BY <2>1, <2>2
    <3> QED
      BY <2>1, <3>1 DEF Entries
  <2>4. DOMAIN h = F /\ \A y \in of(c) : \E fd \in F : y = h[fd]
    BY DEF F
  <2>5. IsFiniteSet(of(c))
    <3> HIDE DEF h, of
    <3> QED
      BY <2>2, <2>4, ImageFinite
  <2>6. of(c) \subseteq Entries(3)
    BY <2>3 DEF F
  <2> QED
    BY <2>5, <2>6
<1>2. AptoEntries(f) = UNION {of(c) : c \in P}
  BY DEF AptoEntries
<1>3. IsFiniteSet(P)
  <2>1. IsFiniteSet(UsedVars(f) \ {0})
    BY UsedTypes, FS_Difference
  <2> QED
    BY <2>1, UsedTypes, FS_Product
<1>4. IsFiniteSet(AptoEntries(f))
  <2>1. \A y \in AptoEntries(f) : \E c \in P : y \in g[c]
    BY <1>2
  <2>2. DOMAIN g = P /\ \A c \in P : IsFiniteSet(g[c])
    BY <1>1
  <2> HIDE DEF g, P
  <2> QED
    BY <1>3, <2>1, <2>2, UnionFinite
<1> HIDE DEF of, P
<1> QED
  BY <1>1, <1>2, <1>4

LEMMA InsetEntriesTypes ==
  ASSUME NEW f \in Forms
  PROVE  InsetEntries(f) \subseteq Entries(2) /\ IsFiniteSet(InsetEntries(f))
<1> DEFINE P == InsetKeys(f)
           e(c) == [key |-> c, atom |-> c[2], idx |-> 0]
           g == [c \in P |-> e(c)]
<1>1. P = (UsedVars(f) \ {0}) \X PredAtoms(f)
  BY UsedTypes DEF InsetKeys
<1>2. ASSUME NEW c \in P PROVE e(c) \in Entries(2)
  <2>1. c[1] \in UsedVars(f) /\ c[2] \in PredAtoms(f) /\ c = <<c[1], c[2]>>
    BY <1>1
  <2>2. c[1] \in Int /\ c[2] \in Int
    BY <2>1, UsedTypes, PredTypes, ZeroVar
  <2>3. c \in [1 .. 2 -> Int]
    BY <2>1, <2>2
  <2> QED
    BY <2>2, <2>3 DEF Entries
<1>3. IsFiniteSet(P)
  <2>1. IsFiniteSet(UsedVars(f) \ {0})
    BY UsedTypes, FS_Difference
  <2> QED
    BY <1>1, <2>1, UsedTypes, FS_Product
<1>4. IsFiniteSet(InsetEntries(f))
  <2>1. \A y \in InsetEntries(f) : \E c \in P : y = g[c]
    BY DEF InsetEntries
  <2>2. DOMAIN g = P
    OBVIOUS
  <2> HIDE DEF g, P
  <2> QED
    BY <1>3, <2>1, <2>2, ImageFinite
<1> QED
  BY <1>2, <1>4 DEF InsetEntries

(* The tables that noll2sat_fill_bvar leaves.                              *)
LEMMA FillTables ==
  ASSUME NEW f \in Forms, NEW fs, fs = FillBvar(f)
  PROVE  /\ fs.used = UsedVars(f) /\ fs.sets = PredAtoms(f)
         /\ Table(fs.pto, PtoEntries(f), 2)
         /\ Table(fs.pred, PredEntries(f), 3)
         /\ Table(fs.apto, AptoEntries(f), 3)
         /\ Table(fs.inset, InsetEntries(f), 2)
<1>1. /\ fs.used = UsedVars(f) /\ fs.sets = UsedSets(f)
      /\ fs.pto = SortTable(PtoEntries(f))
      /\ fs.pred = SortTable(PredEntries(f))
      /\ fs.apto = SortTable(AptoEntries(f))
      /\ fs.inset = SortTable(InsetEntries(f))
  BY DEF FillBvar
<1>2. Table(fs.pto, PtoEntries(f), 2)
  BY <1>1, PtoEntriesTypes, TableSorted
<1>3. Table(fs.pred, PredEntries(f), 3)
  BY <1>1, PredEntriesTypes, TableSorted
<1>4. Table(fs.apto, AptoEntries(f), 3)
  BY <1>1, AptoEntriesTypes, TableSorted
<1>5. Table(fs.inset, InsetEntries(f), 2)
  BY <1>1, InsetEntriesTypes, TableSorted
<1> QED
  BY <1>1, <1>2, <1>3, <1>4, <1>5, UsedTypes

-----------------------------------------------------------------------------
(* The boolean variables a search gives.                                   *)

Tables == {"pto", "pred", "apto", "inset"}

(* What a search may give, found or not. *)
Known(fs) == Bvars(fs) \union {Zero, Crash}

LEMMA BvarsParts ==
  ASSUME NEW fs
  PROVE  /\ \A x, y \in fs.used : <<"eq", x, y>> \in Bvars(fs)
         /\ \A name \in Tables : \A p \in DOMAIN fs[name] : <<name, p - 1, 0>> \in Bvars(fs)
         /\ Zero \notin Bvars(fs) /\ Crash \notin Bvars(fs)
<1> DEFINE of(name) == {<<name, i - 1, 0>> : i \in DOMAIN fs[name]}
<1>1. Bvars(fs) = {<<"eq", x, y>> : x, y \in fs.used} \union UNION {of(name) : name \in Tables}
  BY DEF Bvars, Tables
<1>2. \A name \in Tables : \A p \in DOMAIN fs[name] : <<name, p - 1, 0>> \in of(name)
  OBVIOUS
<1>3. \A name \in Tables : Zero \notin of(name) /\ Crash \notin of(name)
  BY DEF Zero, Crash, Tables
<1>4. \A x, y \in fs.used : <<"eq", x, y>> \in {<<"eq", x2, y2>> : x2, y2 \in fs.used}
  OBVIOUS
<1> HIDE DEF of
<1>5. ASSUME NEW name \in Tables, NEW p \in DOMAIN fs[name]
      PROVE  <<name, p - 1, 0>> \in Bvars(fs)
  <2>1. of(name) \in {of(nm) : nm \in Tables}
    OBVIOUS
  <2> QED
    BY <1>1, <1>2, <2>1
<1>6. Zero \notin Bvars(fs) /\ Crash \notin Bvars(fs)
  <2>1. \A x, y \in fs.used : <<"eq", x, y>> # Zero /\ <<"eq", x, y>> # Crash
    BY DEF Zero, Crash
  <2> QED
    BY <1>1, <1>3, <2>1
<1> QED
  BY <1>1, <1>4, <1>5, <1>6

LEMMA EqKnown ==
  ASSUME NEW fs, NEW x, NEW y
  PROVE  /\ GetBvarEq(fs, x, y) \in Known(fs)
         /\ x \in fs.used /\ y \in fs.used =>
              /\ GetBvarEq(fs, x, y) \in Bvars(fs)
              /\ GetBvarEq(fs, x, y) = <<"eq", Hi(x, y), Lo(x, y)>>
<1>1. Hi(x, y) \in {x, y} /\ Lo(x, y) \in {x, y}
  BY DEF Hi, Lo
<1> QED
  BY <1>1, BvarsParts DEF GetBvarEq, Known

LEMMA GetBvarKnown ==
  ASSUME NEW fs, NEW name \in Tables, NEW S, fs[name] \in Seq(S), NEW key
  PROVE  GetBvar(fs, name, key) \in Known(fs)
<1> DEFINE t == fs[name]
           pos == Bsearch(Keys(t), key)
<1>1. Len(t) \in Nat /\ DOMAIN t = 1 .. Len(t)
  OBVIOUS
<1>2. Len(Keys(t)) \in Nat
  BY <1>1 DEF Keys
<1>3. pos \in Nat
  BY <1>2, BsearchType
<1>4. CASE pos < Len(t)
  <2>1. pos + 1 \in DOMAIN t /\ (pos + 1) - 1 = pos
    BY <1>1, <1>3, <1>4
  <2>2. <<name, pos, 0>> \in Bvars(fs)
    BY <2>1, BvarsParts
  <2> QED
    BY <1>4, <2>2 DEF GetBvar, Known
<1>5. CASE ~ (pos < Len(t))
  BY <1>5 DEF GetBvar, Known
<1> QED
  BY <1>4, <1>5

(* A key that is in a table is found, in an entry with this key.           *)
LEMMA GetBvarFinds ==
  ASSUME NEW fs, NEW name, NEW t, t = fs[name], NEW n \in Nat, NEW E, Table(t, E, n), NEW e \in E
  PROVE  \E p \in DOMAIN t : /\ GetBvar(fs, name, e.key) = <<name, p - 1, 0>>
                             /\ t[p] \in E /\ t[p].key = e.key
<1> DEFINE keys == Keys(t)
           pos == Bsearch(keys, e.key)
<1>1. /\ t \in Seq(E) /\ Len(t) \in Nat /\ DOMAIN t = 1 .. Len(t)
      /\ keys \in Seq([1 .. n -> Int]) /\ Len(keys) = Len(t) /\ DOMAIN keys = DOMAIN t
      /\ \A p \in DOMAIN t : keys[p] = t[p].key
      /\ Sorted(keys)
  BY DEF Table
<1>2. PICK q \in DOMAIN t : t[q] = e
  BY DEF Table
<1>3. q \in DOMAIN keys /\ keys[q] = e.key
  BY <1>1, <1>2
<1> HIDE DEF keys
<1>4. pos \in 0 .. Len(keys) - 1 /\ keys[pos + 1] = e.key
  <2>1. /\ Bsearch(keys, keys[q]) \in 0 .. Len(keys) - 1
        /\ keys[Bsearch(keys, keys[q]) + 1] = keys[q]
    BY <1>1, <1>3, BsearchFinds
  <2> QED
    BY <1>3, <2>1
<1> DEFINE p == pos + 1
<1> HIDE DEF pos
<1>5. p \in DOMAIN t /\ p - 1 = pos /\ pos < Len(t) /\ t[p] \in E /\ t[p].key = e.key
  BY <1>1, <1>4
<1>6. GetBvar(fs, name, e.key) = <<name, pos, 0>>
  BY <1>5 DEF GetBvar, keys, pos
<1> QED
  BY <1>5, <1>6

(* The four tables of a formula. *)
LEMMA TableTypes ==
  ASSUME NEW f \in Forms, NEW fs, fs = FillBvar(f)
  PROVE  /\ fs.pto \in Seq(PtoEntries(f)) /\ fs.pred \in Seq(PredEntries(f))
         /\ fs.apto \in Seq(AptoEntries(f)) /\ fs.inset \in Seq(InsetEntries(f))
         /\ \A name \in Tables : \E S : fs[name] \in Seq(S)
<1>1. /\ fs.pto \in Seq(PtoEntries(f)) /\ fs.pred \in Seq(PredEntries(f))
      /\ fs.apto \in Seq(AptoEntries(f)) /\ fs.inset \in Seq(InsetEntries(f))
  BY FillTables DEF Table
<1> QED
  BY <1>1 DEF Tables

LEMMA PtoFound ==
  ASSUME NEW f \in Forms, NEW fs, fs = FillBvar(f),
         NEW i \in PtoAtoms(f), NEW k \in DOMAIN f.space[i].fields
  PROVE  \E p \in DOMAIN fs.pto : GetBvarPto(fs, f, i, k) = <<"pto", p - 1, 0>>
<1> DEFINE e == [key |-> KeyPto(f, i, k), atom |-> i, idx |-> k]
<1>1. e \in PtoEntries(f) /\ e.key = KeyPto(f, i, k)
  BY DEF PtoEntries
<1> HIDE DEF e
<1>2. fs["pto"] = fs.pto /\ Table(fs.pto, PtoEntries(f), 2)
  BY FillTables
<1> QED
  BY <1>1, <1>2, GetBvarFinds DEF GetBvarPto

LEMMA PredFound ==
  ASSUME NEW f \in Forms, NEW fs, fs = FillBvar(f), NEW i \in PredAtoms(f)
  PROVE  \E p \in DOMAIN fs.pred : /\ GetBvarPred(fs, f, i) = <<"pred", p - 1, 0>>
                                   /\ fs.pred[p].atom = i
<1> DEFINE e == [key |-> KeyPred(f, i), atom |-> i, idx |-> 0]
<1>1. e \in PredEntries(f) /\ e.key = KeyPred(f, i)
  BY DEF PredEntries
<1> HIDE DEF e
<1>2. fs["pred"] = fs.pred /\ Table(fs.pred, PredEntries(f), 3)
  BY FillTables
<1>3. PICK p \in DOMAIN fs.pred : /\ GetBvarPred(fs, f, i) = <<"pred", p - 1, 0>>
                                 /\ fs.pred[p] \in PredEntries(f)
                                 /\ fs.pred[p].key = KeyPred(f, i)
  BY <1>1, <1>2, GetBvarFinds DEF GetBvarPred
<1>4. PICK j \in PredAtoms(f) : fs.pred[p] = [key |-> KeyPred(f, j), atom |-> j, idx |-> 0]
  BY <1>3 DEF PredEntries
<1>5. i = j
  BY <1>3, <1>4 DEF KeyPred
<1> QED
  BY <1>3, <1>4, <1>5

LEMMA InFound ==
  ASSUME NEW f \in Forms, NEW fs, fs = FillBvar(f),
         NEW x \in UsedVars(f) \ {0}, NEW i \in PredAtoms(f)
  PROVE  \E p \in DOMAIN fs.inset : /\ GetBvarIn(fs, x, i) = <<"inset", p - 1, 0>>
                                    /\ fs.inset[p].key[1] = x /\ fs.inset[p].atom = i
<1> DEFINE e == [key |-> <<x, i>>, atom |-> i, idx |-> 0]
<1>1. e \in InsetEntries(f) /\ e.key = <<x, i>>
  <2>1. <<x, i>> \in InsetKeys(f) /\ <<x, i>>[2] = i
    BY UsedTypes DEF InsetKeys
  <2> QED
    BY <2>1 DEF InsetEntries
<1> HIDE DEF e
<1>2. fs["inset"] = fs.inset /\ Table(fs.inset, InsetEntries(f), 2)
  BY FillTables
<1>3. PICK p \in DOMAIN fs.inset : /\ GetBvar(fs, "inset", e.key) = <<"inset", p - 1, 0>>
                                  /\ fs.inset[p] \in InsetEntries(f) /\ fs.inset[p].key = e.key
  <2>1. e \in InsetEntries(f)
    BY <1>1
  <2> QED
    BY <1>2, <2>1, GetBvarFinds
<1>4. fs.inset[p].atom = fs.inset[p].key[2]
  BY <1>3 DEF InsetEntries
<1> QED
  BY <1>1, <1>3, <1>4 DEF GetBvarIn

LEMMA AptoFound ==
  ASSUME NEW f \in Forms, NEW fs, fs = FillBvar(f),
         NEW x \in UsedVars(f) \ {0}, NEW i \in PredAtoms(f), NEW fd \in AptoFields(f, x, i)
  PROVE  \E p \in DOMAIN fs.apto : /\ GetBvar(fs, "apto", <<x, fd, i>>) = <<"apto", p - 1, 0>>
                                   /\ fs.apto[p].key[1] = x /\ fs.apto[p].atom = i
<1> DEFINE e == [key |-> <<x, fd, i>>, atom |-> i, idx |-> 0]
<1>1. e \in AptoEntries(f) /\ e.key = <<x, fd, i>>
  <2> DEFINE c == <<x, i>>
  <2>1. c \in (UsedVars(f) \ {0}) \X PredAtoms(f) /\ c[1] = x /\ c[2] = i
    OBVIOUS
  <2> QED
    BY <2>1 DEF AptoEntries
<1> HIDE DEF e
<1>2. fs["apto"] = fs.apto /\ Table(fs.apto, AptoEntries(f), 3)
  BY FillTables
<1>3. PICK p \in DOMAIN fs.apto : /\ GetBvar(fs, "apto", e.key) = <<"apto", p - 1, 0>>
                                  /\ fs.apto[p] \in AptoEntries(f) /\ fs.apto[p].key = e.key
  <2>1. e \in AptoEntries(f)
    BY <1>1
  <2> QED
    BY <1>2, <2>1, GetBvarFinds
<1>4. fs.apto[p].atom = fs.apto[p].key[3]
  BY <1>3 DEF AptoEntries
<1> QED
  BY <1>1, <1>3, <1>4

-----------------------------------------------------------------------------
(* The variables in the lines.                                             *)

LEMMA AscendingSorts ==
  ASSUME NEW S, IsFiniteSet(S), S \subseteq Int
  PROVE  /\ Ascending(S) \in Seq(S)
         /\ \A e \in S : \E n \in DOMAIN Ascending(S) : Ascending(S)[n] = e
<1> DEFINE R == {c \in S \X S : c[1] < c[2]}
<1>1. \A a, b \in S : <<a, b>> \in R <=> a < b
  OBVIOUS
<1>2. Orders(R, S)
  <2> HIDE DEF R
  <2> QED
    BY <1>1 DEF Orders
<1>3. Ascending(S) = Ranked(S, R)
  BY DEF Ascending
<1> HIDE DEF R
<1> QED
  BY <1>2, <1>3, RankedSorts

(* All variables the lines of a formula look up are in X. *)
Lookups(f, fs, X) ==
  /\ \A x, y \in fs.used : GetBvarEq(fs, x, y) \in X
  /\ \A p \in DOMAIN fs.pto : <<"pto", p - 1, 0>> \in X /\ GetBvarEq(fs, fs.pto[p].key[1], 0) \in X
  /\ \A p \in DOMAIN fs.pred : <<"pred", p - 1, 0>> \in X
  /\ \A p \in DOMAIN fs.apto : <<"apto", p - 1, 0>> \in X
  /\ \A i \in PtoAtoms(f) : \A k \in DOMAIN f.space[i].fields : GetBvarPto(fs, f, i, k) \in X
  /\ \A i \in PredAtoms(f) : GetBvarPred(fs, f, i) \in X
  /\ \A x \in fs.used \ {0} : \A i \in PredAtoms(f) : GetBvarIn(fs, x, i) \in X
  /\ \A x \in fs.used \ {0} : \A i \in PredAtoms(f) : \A fd \in AptoFields(f, x, i) :
       GetBvar(fs, "apto", <<x, fd, i>>) \in X
  /\ \A i \in PredAtoms(f) : GetBvarIn(fs, In(f, i), i) \in X
  /\ \A p \in DOMAIN fs.pto : \A x \in fs.used : \A i \in PredAtoms(f) :
       Rec[fs.pto[p].key[1]] = Rec[x] => GetBvarIn(fs, x, i) \in X

(* The lines with variables of X. *)
Literal(X) == BOOLEAN \X X
Lines(X)   == Seq(Literal(X))

LEMMA Literals ==
  ASSUME NEW X
  PROVE  \A b \in X : Pos(b) \in Literal(X) /\ Neg(b) \in Literal(X)
BY DEF Pos, Neg, Literal

(* The keys of the tables. *)
LEMMA TableKeys ==
  ASSUME NEW f \in Forms, NEW fs, fs = FillBvar(f)
  PROVE  /\ \A p \in DOMAIN fs.pto :
              \E i \in PtoAtoms(f) : \E k \in DOMAIN f.space[i].fields :
                 fs.pto[p] = [key |-> KeyPto(f, i, k), atom |-> i, idx |-> k]
         /\ \A p \in DOMAIN fs.pto : fs.pto[p].key[1] \in fs.used
         /\ \A p \in DOMAIN fs.pred : fs.pred[p].atom \in PredAtoms(f)
         /\ \A p \in DOMAIN fs.apto : fs.apto[p].key[1] \in fs.used \ {0} /\ fs.apto[p].atom \in PredAtoms(f)
         /\ \A name \in Tables : DOMAIN fs[name] \subseteq Nat \ {0}
<1>1. fs.used = UsedVars(f)
  BY FillTables
<1>2. ASSUME NEW p \in DOMAIN fs.pto
      PROVE  /\ \E i \in PtoAtoms(f) : \E k \in DOMAIN f.space[i].fields :
                   fs.pto[p] = [key |-> KeyPto(f, i, k), atom |-> i, idx |-> k]
             /\ fs.pto[p].key[1] \in fs.used
  <2>1. fs.pto[p] \in PtoEntries(f)
    BY TableTypes
  <2>2. PICK i \in PtoAtoms(f) : \E k \in DOMAIN f.space[i].fields :
               fs.pto[p] = [key |-> KeyPto(f, i, k), atom |-> i, idx |-> k]
    BY <2>1 DEF PtoEntries
  <2>3. fs.pto[p].key[1] = f.space[i].src
    BY <2>2 DEF KeyPto
  <2> QED
    BY <1>1, <2>2, <2>3, PtoTypes
<1>3. ASSUME NEW p \in DOMAIN fs.pred PROVE fs.pred[p].atom \in PredAtoms(f)
  <2>1. fs.pred[p] \in PredEntries(f)
    BY TableTypes
  <2> QED
    BY <2>1 DEF PredEntries
<1>4. ASSUME NEW p \in DOMAIN fs.apto
      PROVE  fs.apto[p].key[1] \in fs.used \ {0} /\ fs.apto[p].atom \in PredAtoms(f)
  <2>1. fs.apto[p] \in AptoEntries(f)
    BY TableTypes
  <2>2. PICK c \in (UsedVars(f) \ {0}) \X PredAtoms(f) : \E fd \in AptoFields(f, c[1], c[2]) :
               fs.apto[p] = [key |-> <<c[1], fd, c[2]>>, atom |-> c[2], idx |-> 0]
    BY <2>1 DEF AptoEntries
  <2> QED
    BY <1>1, <2>2
<1>5. \A name \in Tables : DOMAIN fs[name] \subseteq Nat \ {0}
  <2>1. \A name \in Tables : \E S : fs[name] \in Seq(S)
    BY TableTypes
  <2> QED
    BY <2>1
<1> QED
  BY <1>2, <1>3, <1>4, <1>5

(* Found or not, a search gives a variable, Zero or Crash.                 *)
LEMMA LookupsKnown ==
  ASSUME NEW f \in Forms, NEW fs, fs = FillBvar(f)
  PROVE  Lookups(f, fs, Known(fs))
<1>1. \A name \in Tables : \E S : fs[name] \in Seq(S)
  BY TableTypes
<1>2. \A name \in Tables : \A key : GetBvar(fs, name, key) \in Known(fs)
  BY <1>1, GetBvarKnown
<1>3. \A x, y : GetBvarEq(fs, x, y) \in Known(fs)
  BY EqKnown
<1>4. \A name \in Tables : \A p \in DOMAIN fs[name] : <<name, p - 1, 0>> \in Known(fs)
  BY BvarsParts DEF Known
<1>5. /\ \A p \in DOMAIN fs.pto : <<"pto", p - 1, 0>> \in Known(fs)
      /\ \A p \in DOMAIN fs.pred : <<"pred", p - 1, 0>> \in Known(fs)
      /\ \A p \in DOMAIN fs.apto : <<"apto", p - 1, 0>> \in Known(fs)
  <2>1. "pto" \in Tables /\ "pred" \in Tables /\ "apto" \in Tables
    BY DEF Tables
  <2>2. \A p \in DOMAIN fs["pto"] : <<"pto", p - 1, 0>> \in Known(fs)
    BY <1>4, <2>1
  <2>3. \A p \in DOMAIN fs["pred"] : <<"pred", p - 1, 0>> \in Known(fs)
    BY <1>4, <2>1
  <2>4. \A p \in DOMAIN fs["apto"] : <<"apto", p - 1, 0>> \in Known(fs)
    BY <1>4, <2>1
  <2> QED
    BY <2>2, <2>3, <2>4
<1>6. /\ \A i, k : GetBvarPto(fs, f, i, k) \in Known(fs)
      /\ \A i : GetBvarPred(fs, f, i) \in Known(fs)
      /\ \A x, i : GetBvarIn(fs, x, i) \in Known(fs)
      /\ \A x, fd, i : GetBvar(fs, "apto", <<x, fd, i>>) \in Known(fs)
  BY <1>2 DEF Tables, GetBvarPto, GetBvarPred, GetBvarIn
<1> QED
  BY <1>3, <1>5, <1>6 DEF Lookups

Proper(X, lines) == \A line \in lines : line \in Lines(X) /\ line # <<>>

(* Lines of one to five literals. *)
LEMMA ShortLines ==
  ASSUME NEW X
  PROVE  /\ \A a \in Literal(X) : <<a>> \in Lines(X) /\ <<a>> # <<>>
         /\ \A a, b \in Literal(X) : <<a, b>> \in Lines(X) /\ <<a, b>> # <<>>
         /\ \A a, b, c \in Literal(X) : <<a, b, c>> \in Lines(X) /\ <<a, b, c>> # <<>>
         /\ \A a, b, c, d \in Literal(X) :
              <<a, b>> \o <<c, d>> \in Lines(X) /\ <<a, b>> \o <<c, d>> # <<>>
         /\ \A a, b, c, d, e \in Literal(X) :
              <<a, b, c, d, e>> \in Lines(X) /\ <<a, b, c, d, e>> # <<>>
<1> DEFINE L == Literal(X)
<1> HIDE DEF L
<1>1. /\ \A a \in L : <<a>> \in Seq(L) /\ <<a>> # <<>>
      /\ \A a, b \in L : <<a, b>> \in Seq(L) /\ <<a, b>> # <<>>
      /\ \A a, b, c \in L : <<a, b, c>> \in Seq(L) /\ <<a, b, c>> # <<>>
      /\ \A a, b, c, d, e \in L : <<a, b, c, d, e>> \in Seq(L) /\ <<a, b, c, d, e>> # <<>>
  OBVIOUS
<1>2. \A a, b, c, d \in L : <<a, b>> \o <<c, d>> \in Seq(L) /\ <<a, b>> \o <<c, d>> # <<>>
  BY <1>1, ConcatProperties, ConcatEqualIffEmpty
<1> QED
  BY <1>1, <1>2 DEF L, Lines

LEMMA PureProper ==
  ASSUME NEW f \in Forms, NEW fs, NEW X, Lookups(f, fs, X)
  PROVE  Proper(X, PureLines(f, fs))
<1> DEFINE Eq(x, y) == GetBvarEq(fs, x, y)
<1>1. \A x, y \in fs.used : Pos(Eq(x, y)) \in Literal(X) /\ Neg(Eq(x, y)) \in Literal(X)
  BY Literals DEF Lookups
<1> SUFFICES ASSUME NEW line \in PureLines(f, fs) PROVE line \in Lines(X) /\ line # <<>>
  BY DEF Proper
<1>2. \/ \E i \in fs.used : line = <<Pos(Eq(i, i))>>
      \/ \E x, y \in fs.used : line = <<Pos(Eq(x, y))>> \/ line = <<Neg(Eq(x, y))>>
      \/ \E x, y, k \in fs.used : line = <<Neg(Eq(x, k)), Neg(Eq(y, k)), Pos(Eq(x, y))>>
  BY DEF PureLines
<1> DEFINE one(x, y) == <<Pos(Eq(x, y))>>
           two(x, y) == <<Neg(Eq(x, y))>>
           three(x, y, k) == <<Neg(Eq(x, k)), Neg(Eq(y, k)), Pos(Eq(x, y))>>
<1>3. \A x, y \in fs.used : /\ one(x, y) \in Lines(X) /\ one(x, y) # <<>>
                           /\ two(x, y) \in Lines(X) /\ two(x, y) # <<>>
  <2> HIDE DEF Eq
  <2> QED
    BY <1>1, ShortLines
<1>4. ASSUME NEW x \in fs.used, NEW y \in fs.used, NEW k \in fs.used
      PROVE  three(x, y, k) \in Lines(X) /\ three(x, y, k) # <<>>
  <2> HIDE DEF Eq
  <2>1. Neg(Eq(x, k)) \in Literal(X) /\ Neg(Eq(y, k)) \in Literal(X) /\ Pos(Eq(x, y)) \in Literal(X)
    BY <1>1
  <2> QED
    BY <2>1, ShortLines
<1>5. \/ \E i \in fs.used : line = one(i, i)
      \/ \E x, y \in fs.used : line = one(x, y) \/ line = two(x, y)
      \/ \E x, y, k \in fs.used : line = three(x, y, k)
  BY <1>2
<1> HIDE DEF one, two, three
<1> QED
  BY <1>3, <1>4, <1>5

LEMMA AtomProper ==
  ASSUME NEW f \in Forms, NEW fs, fs = FillBvar(f), NEW X, Lookups(f, fs, X),
         NEW i \in DOMAIN f.space
  PROVE  Proper(X, AtomLines(f, fs, i))
<1>1. fs.used = UsedVars(f)
  BY FillTables
<1>2. CASE i \in PtoAtoms(f)
  <2>1. \A k \in DOMAIN f.space[i].fields : <<Pos(GetBvarPto(fs, f, i, k))>> \in Lines(X)
                                            /\ <<Pos(GetBvarPto(fs, f, i, k))>> # <<>>
    BY <1>2, Literals, ShortLines DEF Lookups
  <2> QED
    BY <1>2, <2>1 DEF AtomLines, Proper, PtoAtoms
<1>3. CASE i \in PredAtoms(f)
  <2> DEFINE b == GetBvarPred(fs, f, i)
             xor(e) == {<<Pos(b), Pos(e)>>, <<Neg(b), Neg(e)>>}
             arg(k) == f.space[i].args[k]
  <2>1. \A e \in X : Proper(X, xor(e))
    <3>1. b \in X
      BY <1>3 DEF Lookups
    <3> HIDE DEF b
    <3> QED
      BY <3>1, Literals, ShortLines DEF Proper
  <2>2. GetBvarEq(fs, In(f, i), Out(f, i)) \in X
    BY <1>1, <1>3, EndTypes DEF Lookups
  <2>3. TwoDir(f, i) => GetBvarEq(fs, In(f, i), arg(4)) \in X /\ GetBvarEq(fs, Out(f, i), arg(3)) \in X
    <3>1. TwoDir(f, i) => arg(3) \in fs.used /\ arg(4) \in fs.used
      BY <1>1, <1>3, PredTypes
    <3> QED
      BY <1>1, <1>3, <3>1, EndTypes DEF Lookups
  <2>4. f.space[i].kind # "pto"
    BY <1>3 DEF PredAtoms
  <2>5. AtomLines(f, fs, i) = IF TwoDir(f, i) THEN xor(GetBvarEq(fs, In(f, i), arg(4))) \union
                                                  xor(GetBvarEq(fs, Out(f, i), arg(3)))
                              ELSE xor(GetBvarEq(fs, In(f, i), Out(f, i)))
    BY <2>4, Zenon DEF AtomLines
  <2> HIDE DEF xor
  <2> QED
    BY <2>1, <2>2, <2>3, <2>5 DEF Proper
<1> QED
  BY <1>2, <1>3, FormTypes

LEMMA SepProper ==
  ASSUME NEW f \in Forms, NEW fs, fs = FillBvar(f), NEW X, Lookups(f, fs, X),
         NEW i \in DOMAIN f.space, NEW j \in DOMAIN f.space
  PROVE  Proper(X, SepLines(f, fs, i, j))
<1> DEFINE Eq(x, y) == GetBvarEq(fs, x, y)
           empty(k) == Pos(Eq(In(f, k), Out(f, k)))
           ptoLs(p, l) ==
             {<<Neg(Eq(f.space[p].src, In(f, l))), empty(l)>>} \union
               IF TwoDir(f, l) THEN {<<Neg(Eq(f.space[p].src, Out(f, l))), Neg(GetBvarPred(fs, f, l))>>}
               ELSE {}
<1>1. fs.used = UsedVars(f)
  BY FillTables
<1>2. \A k \in PtoAtoms(f) : f.space[k].src \in fs.used /\ f.space[k].kind = "pto"
  BY <1>1, PtoTypes
<1>3. \A k \in PredAtoms(f) : In(f, k) \in fs.used /\ Out(f, k) \in fs.used /\ f.space[k].kind = "ls"
  BY <1>1, EndTypes DEF PredAtoms
<1>4. \A x, y \in fs.used : Pos(Eq(x, y)) \in Literal(X) /\ Neg(Eq(x, y)) \in Literal(X)
  BY Literals DEF Lookups
<1>5. \A k \in PredAtoms(f) : empty(k) \in Literal(X)
  BY <1>3, <1>4
<1>6. ASSUME NEW p \in PtoAtoms(f), NEW l \in PredAtoms(f) PROVE Proper(X, ptoLs(p, l))
  <2>1. Neg(Eq(f.space[p].src, In(f, l))) \in Literal(X)
    BY <1>2, <1>3, <1>4
  <2>2. Neg(Eq(f.space[p].src, Out(f, l))) \in Literal(X)
    BY <1>2, <1>3, <1>4
  <2>3. Neg(GetBvarPred(fs, f, l)) \in Literal(X)
    BY Literals DEF Lookups
  <2> DEFINE first == <<Neg(Eq(f.space[p].src, In(f, l))), empty(l)>>
             second == <<Neg(Eq(f.space[p].src, Out(f, l))), Neg(GetBvarPred(fs, f, l))>>
  <2>4. \A line \in ptoLs(p, l) : line = first \/ line = second
    OBVIOUS
  <2> HIDE DEF Eq, empty, ptoLs
  <2>5. first \in Lines(X) /\ first # <<>>
    BY <1>5, <2>1, ShortLines
  <2>6. second \in Lines(X) /\ second # <<>>
    BY <2>2, <2>3, ShortLines
  <2> HIDE DEF first, second
  <2> QED
    BY <2>4, <2>5, <2>6 DEF Proper
<1>7. CASE i \in PtoAtoms(f) /\ j \in PtoAtoms(f)
  <2>1. SepLines(f, fs, i, j) = {<<Neg(Eq(f.space[i].src, f.space[j].src))>>}
    BY <1>2, <1>7 DEF SepLines
  <2> HIDE DEF Eq
  <2> QED
    BY <1>2, <1>4, <1>7, <2>1, ShortLines DEF Proper
<1>8. CASE i \in PtoAtoms(f) /\ j \in PredAtoms(f)
  <2>1. SepLines(f, fs, i, j) = ptoLs(i, j)
    BY <1>2, <1>3, <1>8 DEF SepLines
  <2> QED
    BY <1>6, <1>8, <2>1
<1>9. CASE i \in PredAtoms(f) /\ j \in PtoAtoms(f)
  <2>1. SepLines(f, fs, i, j) = ptoLs(j, i)
    BY <1>2, <1>3, <1>9 DEF SepLines
  <2> QED
    BY <1>6, <1>9, <2>1
<1>10. CASE i \in PredAtoms(f) /\ j \in PredAtoms(f)
  <2> DEFINE In2(x) == <<Neg(GetBvarIn(fs, x, i)), Neg(GetBvarIn(fs, x, j))>>
             ends == <<Neg(Eq(In(f, i), In(f, j))), empty(i), empty(j)>>
  <2>1. SepLines(f, fs, i, j) = {In2(x) : x \in fs.used \ {0}} \union {ends}
    BY <1>3, <1>10 DEF SepLines
  <2>2. \A x \in fs.used \ {0} : In2(x) \in Lines(X) /\ In2(x) # <<>>
    BY <1>10, Literals, ShortLines DEF Lookups
  <2>3. ends \in Lines(X) /\ ends # <<>>
    <3>1. Neg(Eq(In(f, i), In(f, j))) \in Literal(X)
      BY <1>3, <1>4, <1>10
    <3> HIDE DEF Eq, empty
    <3> QED
      BY <1>5, <1>10, <3>1, ShortLines
  <2> HIDE DEF In2, ends
  <2> QED
    BY <2>1, <2>2, <2>3 DEF Proper
<1> QED
  BY <1>7, <1>8, <1>9, <1>10, FormTypes

LEMMA SpaceProper ==
  ASSUME NEW f \in Forms, NEW fs, fs = FillBvar(f), NEW X, Lookups(f, fs, X)
  PROVE  Proper(X, SpaceLines(f, fs))
<1> DEFINE D == DOMAIN f.space
           atoms == UNION {AtomLines(f, fs, i) : i \in D}
           seps == UNION {SepLines(f, fs, c[1], c[2]) : c \in {d \in D \X D : d[1] < d[2]}}
<1>1. SpaceLines(f, fs) = atoms \union seps
  BY DEF SpaceLines
<1>2. \A line \in atoms : \E i \in D : line \in AtomLines(f, fs, i)
  OBVIOUS
<1>3. \A line \in seps : \E i, j \in D : line \in SepLines(f, fs, i, j)
  OBVIOUS
<1> HIDE DEF atoms, seps
<1> QED
  BY <1>1, <1>2, <1>3, AtomProper, SepProper DEF Proper

LEMMA SourceProper ==
  ASSUME NEW f \in Forms, NEW fs, NEW X, Lookups(f, fs, X)
  PROVE  Proper(X, SourceLines(f, fs))
<1>1. ASSUME NEW i \in PredAtoms(f)
      PROVE  /\ <<Neg(GetBvarPred(fs, f, i)), Pos(GetBvarIn(fs, In(f, i), i))>> \in Lines(X)
             /\ <<Neg(GetBvarPred(fs, f, i)), Pos(GetBvarIn(fs, In(f, i), i))>> # <<>>
  BY Literals, ShortLines DEF Lookups
<1> QED
  BY <1>1 DEF SourceLines, Proper

(* The lines of noll2sat_membership. *)
LEMMA MemberCases ==
  ASSUME NEW f \in Forms, NEW fs, fs = FillBvar(f), NEW line \in MemberLines(f, fs)
  PROVE  \E x, y \in fs.used \ {0} : \E i \in PredAtoms(f) :
           \/ TypeInPred(f, Rec[x], i) = 0 /\ line = <<Neg(GetBvarIn(fs, x, i))>>
           \/ line = <<Neg(GetBvarIn(fs, x, i)), Pos(GetBvarPred(fs, f, i))>>
           \/ line = <<Neg(GetBvarEq(fs, x, y)), Neg(GetBvarIn(fs, x, i)), Pos(GetBvarIn(fs, y, i))>>
           \/ AptoFields(f, x, i) # {} /\ line = FieldLine(f, fs, x, i)
<1>1. fs.sets = PredAtoms(f)
  BY FillTables
<1>3. CASE line \in OutLines(f, fs)
  BY <1>1, <1>3 DEF OutLines
<1>4. CASE line \in InsideLines(f, fs)
  BY <1>4 DEF InsideLines
<1>5. CASE line \in EqualLines(f, fs)
  <2>1. PICK x \in fs.used \ {0}, y \in fs.used \ {0}, i \in PredAtoms(f) :
           line = <<Neg(GetBvarEq(fs, x, y)), Neg(GetBvarIn(fs, x, i)), Pos(GetBvarIn(fs, y, i))>>
    BY <1>1, <1>5 DEF EqualLines
  <2> QED
    BY <2>1
<1>6. CASE line \in FieldLines(f, fs)
  BY <1>6 DEF FieldLines
<1> QED
  BY <1>3, <1>4, <1>5, <1>6 DEF MemberLines

LEMMA MemberProper ==
  ASSUME NEW f \in Forms, NEW fs, fs = FillBvar(f), NEW X, Lookups(f, fs, X)
  PROVE  Proper(X, MemberLines(f, fs))
<1> SUFFICES ASSUME NEW line \in MemberLines(f, fs) PROVE line \in Lines(X) /\ line # <<>>
  BY DEF Proper
<1> DEFINE out(x, i) == <<Neg(GetBvarIn(fs, x, i))>>
           inside(x, i) == <<Neg(GetBvarIn(fs, x, i)), Pos(GetBvarPred(fs, f, i))>>
           equal(x, y, i) == <<Neg(GetBvarEq(fs, x, y)), Neg(GetBvarIn(fs, x, i)), Pos(GetBvarIn(fs, y, i))>>
<1>1. PICK x \in fs.used \ {0}, y \in fs.used \ {0}, i \in PredAtoms(f) :
           \/ line = out(x, i)
           \/ line = inside(x, i)
           \/ line = equal(x, y, i)
           \/ line = FieldLine(f, fs, x, i)
  BY MemberCases
<1>2. /\ Neg(GetBvarIn(fs, x, i)) \in Literal(X) /\ Pos(GetBvarIn(fs, y, i)) \in Literal(X)
      /\ Pos(GetBvarPred(fs, f, i)) \in Literal(X) /\ Neg(GetBvarEq(fs, x, y)) \in Literal(X)
  BY Literals DEF Lookups
<1>3. out(x, i) \in Lines(X) /\ out(x, i) # <<>>
  BY <1>2, ShortLines
<1>4. inside(x, i) \in Lines(X) /\ inside(x, i) # <<>>
  BY <1>2, ShortLines
<1>5. equal(x, y, i) \in Lines(X) /\ equal(x, y, i) # <<>>
  BY <1>2, ShortLines
<1>6. CASE line = FieldLine(f, fs, x, i)
  <2> DEFINE F == AptoFields(f, x, i)
             fields == Ascending(F)
             s == [k \in DOMAIN fields |-> Pos(GetBvar(fs, "apto", <<x, fields[k], i>>))]
  <2>1. IsFiniteSet(F) /\ F \subseteq Int
    <3>1. F \subseteq Preds[f.space[i].pid].fields
      BY DEF AptoFields
    <3> HIDE DEF F
    <3> QED
      BY <3>1, PredTypes, FS_Subset
  <2>2. fields \in Seq(F)
    BY <2>1, AscendingSorts
  <2>3. \A fd \in F : Pos(GetBvar(fs, "apto", <<x, fd, i>>)) \in Literal(X)
    BY Literals DEF Lookups
  <2> HIDE DEF F, fields
  <2>4. s \in Seq(Literal(X))
    <3>1. Len(fields) \in Nat /\ DOMAIN fields = 1 .. Len(fields) /\ \A k \in DOMAIN fields : fields[k] \in F
      BY <2>2
    <3>2. ASSUME NEW k \in 1 .. Len(fields) PROVE s[k] \in Literal(X)
      BY <2>3, <3>1
    <3>3. s \in [1 .. Len(fields) -> Literal(X)]
      BY <3>1, <3>2
    <3> HIDE DEF s
    <3> QED
      BY <3>1, <3>3
  <2>5. line = <<Neg(GetBvarIn(fs, x, i))>> \o s
    BY <1>6 DEF FieldLine, fields, F
  <2> HIDE DEF s
  <2>6. <<Neg(GetBvarIn(fs, x, i))>> \in Seq(Literal(X)) /\ <<Neg(GetBvarIn(fs, x, i))>> # <<>>
    BY <1>2
  <2> QED
    BY <2>4, <2>5, <2>6, ConcatProperties, ConcatEqualIffEmpty, SMTT(30) DEF Lines
<1> HIDE DEF out, inside, equal
<1> QED
  BY <1>1, <1>3, <1>4, <1>5, <1>6

(* The lines of noll2sat_det_pto_pred, of positive and of negative literals. *)
PtoPredIf(fs, p, q, x) ==
  <<Neg(GetBvarEq(fs, fs.pto[p].key[1], x)), Neg(GetBvarIn(fs, x, fs.pred[q].atom))>>

PtoPredPos(fs, p, q, x) ==
  PtoPredIf(fs, p, q, x) \o <<Pos(<<"pto", p - 1, 0>>), Pos(<<"pred", q - 1, 0>>)>>

PtoPredNeg(fs, p, q, x) ==
  PtoPredIf(fs, p, q, x) \o <<Neg(<<"pto", p - 1, 0>>), Neg(<<"pred", q - 1, 0>>)>>

LEMMA PtoPredCases ==
  ASSUME NEW f, NEW fs, NEW line \in PtoPredLines(f, fs)
  PROVE  \E p \in DOMAIN fs.pto : \E q \in DOMAIN fs.pred : \E x \in fs.used :
           /\ fs.pto[p].key[2] \in TypeInfo[f.space[fs.pred[q].atom].pid].border
           /\ Rec[fs.pto[p].key[1]] = Rec[x]
           /\ (line = PtoPredPos(fs, p, q, x) \/ line = PtoPredNeg(fs, p, q, x))
<1> DEFINE T == (DOMAIN fs.pto) \X (DOMAIN fs.pred) \X fs.used
           one(c) == PtoPredPos(fs, c[1], c[2], c[3])
           two(c) == PtoPredNeg(fs, c[1], c[2], c[3])
<1>1. PICK c \in T : /\ fs.pto[c[1]].key[2] \in TypeInfo[f.space[fs.pred[c[2]].atom].pid].border
                     /\ Rec[fs.pto[c[1]].key[1]] = Rec[c[3]]
                     /\ (line = one(c) \/ line = two(c))
  <2> HIDE DEF T
  <2> QED
    BY ZenonT(40) DEF PtoPredLines, T, PtoPredPos, PtoPredNeg, PtoPredIf
<1>2. c[1] \in DOMAIN fs.pto /\ c[2] \in DOMAIN fs.pred /\ c[3] \in fs.used
  BY SMTT(30)
<1> QED
  BY <1>1, <1>2

(* The lines of noll2sat_det_pred_pred. *)
PredPredLine(fs, p, q, x, y) ==
  <<Neg(GetBvarIn(fs, x, fs.pred[p].atom)), Neg(GetBvarIn(fs, y, fs.pred[q].atom)),
    Neg(GetBvarEq(fs, x, y)), Neg(<<"pred", p - 1, 0>>), Neg(<<"pred", q - 1, 0>>)>>

LEMMA PredPredCases ==
  ASSUME NEW f, NEW fs, NEW line \in PredPredLines(f, fs)
  PROVE  \E p, q \in DOMAIN fs.pred : \E x, y \in fs.used \ {0} :
           p < q /\ line = PredPredLine(fs, p, q, x, y)
<1> DEFINE T == (DOMAIN fs.pred) \X (DOMAIN fs.pred) \X (fs.used \ {0}) \X (fs.used \ {0})
           one(c) == PredPredLine(fs, c[1], c[2], c[3], c[4])
<1>1. PICK c \in T : c[1] < c[2] /\ line = one(c)
  <2> HIDE DEF T
  <2> QED
    BY ZenonT(40) DEF PredPredLines, T, PredPredLine
<1>2. c[1] \in DOMAIN fs.pred /\ c[2] \in DOMAIN fs.pred /\ c[3] \in fs.used \ {0} /\ c[4] \in fs.used \ {0}
  OBVIOUS
<1> QED
  BY <1>1, <1>2

LEMMA DetProper ==
  ASSUME NEW f \in Forms, NEW fs, fs = FillBvar(f), NEW X, Lookups(f, fs, X)
  PROVE  Proper(X, DetLines(f, fs))
<1> DEFINE pto(p)  == <<"pto", p - 1, 0>>
           apto(p) == <<"apto", p - 1, 0>>
           pred(p) == <<"pred", p - 1, 0>>
           Eq(x, y) == GetBvarEq(fs, x, y)
<1>1. \A p \in DOMAIN fs.pto : /\ Pos(pto(p)) \in Literal(X) /\ Neg(pto(p)) \in Literal(X)
                              /\ fs.pto[p].key[1] \in fs.used
  BY Literals, TableKeys DEF Lookups
<1>2. \A p \in DOMAIN fs.apto : Neg(apto(p)) \in Literal(X) /\ fs.apto[p].key[1] \in fs.used
  BY Literals, TableKeys DEF Lookups
<1>3. \A p \in DOMAIN fs.pred : /\ Pos(pred(p)) \in Literal(X) /\ Neg(pred(p)) \in Literal(X)
                               /\ fs.pred[p].atom \in PredAtoms(f)
  BY Literals, TableKeys DEF Lookups
<1>4. \A x, y \in fs.used : Neg(Eq(x, y)) \in Literal(X)
  BY Literals DEF Lookups
<1>5. 0 \in fs.used
  BY FillTables, UsedTypes
<1> HIDE DEF pto, apto, pred, Eq
<1>6. Proper(X, NilLines(fs))
  <2>1. \A p \in DOMAIN fs.apto : /\ <<Neg(Eq(fs.apto[p].key[1], 0)), Neg(apto(p))>> \in Lines(X)
                                 /\ <<Neg(Eq(fs.apto[p].key[1], 0)), Neg(apto(p))>> # <<>>
    BY <1>2, <1>4, <1>5, ShortLines
  <2>2. \A p \in DOMAIN fs.pto : /\ <<Neg(pto(p)), Neg(Eq(fs.pto[p].key[1], 0))>> \in Lines(X)
                                /\ <<Neg(pto(p)), Neg(Eq(fs.pto[p].key[1], 0))>> # <<>>
    BY <1>1, <1>4, <1>5, ShortLines
  <2> QED
    BY <2>1, <2>2 DEF NilLines, Proper, pto, apto, Eq
<1>7. Proper(X, PtoPtoLines(fs))
  <2> DEFINE Same(p, q) == Neg(Eq(fs.pto[p].key[1], fs.pto[q].key[1]))
             one(p, q) == <<Same(p, q), Pos(pto(p)), Pos(pto(q))>>
             two(p, q) == <<Same(p, q), Neg(pto(p)), Neg(pto(q))>>
  <2>1. \A p, q \in DOMAIN fs.pto : Same(p, q) \in Literal(X)
    BY <1>1, <1>4
  <2>2. \A line \in PtoPtoLines(fs) : \E p, q \in DOMAIN fs.pto : line = one(p, q) \/ line = two(p, q)
    BY DEF PtoPtoLines, pto, Eq
  <2> HIDE DEF Same
  <2>3. \A p, q \in DOMAIN fs.pto : /\ one(p, q) \in Lines(X) /\ one(p, q) # <<>>
                                   /\ two(p, q) \in Lines(X) /\ two(p, q) # <<>>
    BY <1>1, <2>1, ShortLines
  <2> HIDE DEF one, two
  <2> QED
    BY <2>2, <2>3 DEF Proper
<1>8. Proper(X, AptoAptoLines(fs))
  <2> DEFINE Same(p, q) == Neg(Eq(fs.apto[p].key[1], fs.apto[q].key[1]))
             one(p, q) == <<Same(p, q), Neg(apto(p)), Neg(apto(q))>>
  <2>1. \A p, q \in DOMAIN fs.apto : Same(p, q) \in Literal(X)
    BY <1>2, <1>4
  <2>2. \A line \in AptoAptoLines(fs) : \E p, q \in DOMAIN fs.apto : line = one(p, q)
    BY DEF AptoAptoLines, apto, Eq
  <2> HIDE DEF Same
  <2>3. \A p, q \in DOMAIN fs.apto : one(p, q) \in Lines(X) /\ one(p, q) # <<>>
    BY <1>2, <2>1, ShortLines
  <2> HIDE DEF one
  <2> QED
    BY <2>2, <2>3 DEF Proper
<1>9. Proper(X, PtoAptoLines(fs))
  <2> DEFINE Same(p, q) == Neg(Eq(fs.pto[p].key[1], fs.apto[q].key[1]))
             one(p, q) == <<Same(p, q), Neg(pto(p)), Neg(apto(q))>>
  <2>1. \A p \in DOMAIN fs.pto : \A q \in DOMAIN fs.apto : Same(p, q) \in Literal(X)
    BY <1>1, <1>2, <1>4
  <2>2. \A line \in PtoAptoLines(fs) : \E p \in DOMAIN fs.pto : \E q \in DOMAIN fs.apto : line = one(p, q)
    BY DEF PtoAptoLines, pto, apto, Eq
  <2> HIDE DEF Same
  <2>3. \A p \in DOMAIN fs.pto : \A q \in DOMAIN fs.apto : one(p, q) \in Lines(X) /\ one(p, q) # <<>>
    BY <1>1, <1>2, <2>1, ShortLines
  <2> HIDE DEF one
  <2> QED
    BY <2>2, <2>3 DEF Proper
<1>10. Proper(X, PtoPredLines(f, fs))
  <2> SUFFICES ASSUME NEW line \in PtoPredLines(f, fs) PROVE line \in Lines(X) /\ line # <<>>
    BY DEF Proper
  <2>1. PICK p \in DOMAIN fs.pto : \E q \in DOMAIN fs.pred : \E x \in fs.used :
          /\ Rec[fs.pto[p].key[1]] = Rec[x]
          /\ (line = PtoPredPos(fs, p, q, x) \/ line = PtoPredNeg(fs, p, q, x))
    BY PtoPredCases
  <2>2. PICK q \in DOMAIN fs.pred : \E x \in fs.used :
          /\ Rec[fs.pto[p].key[1]] = Rec[x]
          /\ (line = PtoPredPos(fs, p, q, x) \/ line = PtoPredNeg(fs, p, q, x))
    BY <2>1
  <2>3. PICK x \in fs.used :
          /\ Rec[fs.pto[p].key[1]] = Rec[x]
          /\ (line = PtoPredPos(fs, p, q, x) \/ line = PtoPredNeg(fs, p, q, x))
    BY <2>2
  <2> DEFINE same == Neg(Eq(fs.pto[p].key[1], x))
             member == Neg(GetBvarIn(fs, x, fs.pred[q].atom))
  <2>4. same \in Literal(X)
    BY <1>1, <1>4
  <2>5. member \in Literal(X)
    BY <1>3, <2>3, Literals DEF Lookups
  <2>6. \/ line = <<same, member>> \o <<Pos(pto(p)), Pos(pred(q))>>
        \/ line = <<same, member>> \o <<Neg(pto(p)), Neg(pred(q))>>
    BY <2>3 DEF PtoPredPos, PtoPredNeg, PtoPredIf, pto, pred, Eq
  <2> HIDE DEF same, member
  <2>7. \A c, d \in Literal(X) :
          <<same, member>> \o <<c, d>> \in Lines(X) /\ <<same, member>> \o <<c, d>> # <<>>
    BY <2>4, <2>5, ShortLines
  <2>8. CASE line = <<same, member>> \o <<Pos(pto(p)), Pos(pred(q))>>
    BY <1>1, <1>3, <2>7, <2>8
  <2>9. CASE line = <<same, member>> \o <<Neg(pto(p)), Neg(pred(q))>>
    BY <1>1, <1>3, <2>7, <2>9
  <2> QED
    BY <2>6, <2>8, <2>9
<1>11. Proper(X, PredPredLines(f, fs))
  <2>1. ASSUME NEW p \in DOMAIN fs.pred, NEW q \in DOMAIN fs.pred,
               NEW x \in fs.used \ {0}, NEW y \in fs.used \ {0}
        PROVE  PredPredLine(fs, p, q, x, y) \in Lines(X) /\ PredPredLine(fs, p, q, x, y) # <<>>
    <3> DEFINE in1 == Neg(GetBvarIn(fs, x, fs.pred[p].atom))
               in2 == Neg(GetBvarIn(fs, y, fs.pred[q].atom))
    <3>1. in1 \in Literal(X) /\ in2 \in Literal(X) /\ Neg(Eq(x, y)) \in Literal(X)
      BY <1>3, <1>4, Literals DEF Lookups
    <3>2. PredPredLine(fs, p, q, x, y) = <<in1, in2, Neg(Eq(x, y)), Neg(pred(p)), Neg(pred(q))>>
      BY DEF PredPredLine, pred, Eq
    <3> HIDE DEF in1, in2
    <3>3. /\ <<in1, in2, Neg(Eq(x, y)), Neg(pred(p)), Neg(pred(q))>> \in Lines(X)
          /\ <<in1, in2, Neg(Eq(x, y)), Neg(pred(p)), Neg(pred(q))>> # <<>>
      BY <1>3, <3>1, ShortLines
    <3> QED
      BY <3>2, <3>3
  <2> QED
    BY <2>1, PredPredCases DEF Proper
<1> QED
  BY <1>6, <1>7, <1>8, <1>9, <1>10, <1>11 DEF DetLines, Proper

(* The literal of a term of a sharing constraint, and the line of noll2sat_share_in. *)
LEMMA TermKnown ==
  ASSUME NEW f \in Forms, NEW fs, fs = FillBvar(f), NEW X, Lookups(f, fs, X),
         NEW a \in f.share, NEW t \in Range(a.terms)
  PROVE  Pos(TermBvar(fs, a.x, t)) \in Literal(X) /\ Neg(TermBvar(fs, a.x, t)) \in Literal(X)
<1>1. fs.used = UsedVars(f)
  BY FillTables
<1>2. a.x \in fs.used \ {0}
  BY <1>1, ShareTypes
<1>3. CASE t.kind = "lvar"
  <2>1. t.var \in fs.used
    BY <1>1, <1>3, ShareTypes
  <2>2. GetBvarEq(fs, a.x, t.var) \in X
    BY <1>2, <2>1 DEF Lookups
  <2> QED
    BY <1>3, <2>2, Literals DEF TermBvar
<1>4. CASE t.kind # "lvar"
  <2>1. t.svar \in PredAtoms(f)
    BY <1>4, ShareTypes
  <2>2. GetBvarIn(fs, a.x, t.svar) \in X
    BY <1>2, <2>1 DEF Lookups
  <2> QED
    BY <1>4, <2>2, Literals DEF TermBvar
<1> QED
  BY <1>3, <1>4

LEMMA ShareInLine ==
  ASSUME NEW f \in Forms, NEW fs, fs = FillBvar(f), NEW X, Lookups(f, fs, X), NEW a \in f.share
  PROVE  /\ ShareIn(f, fs, a.x, a.terms) \in Lines(X)
         /\ \A t \in Range(a.terms) : Useful(f, a.x, t) =>
              \E n \in DOMAIN ShareIn(f, fs, a.x, a.terms) :
                 ShareIn(f, fs, a.x, a.terms)[n] = Pos(TermBvar(fs, a.x, t))
<1> DEFINE S == {k \in DOMAIN a.terms : Useful(f, a.x, a.terms[k])}
           at == Ascending(S)
           line == [k \in DOMAIN at |-> Pos(TermBvar(fs, a.x, a.terms[at[k]]))]
<1>1. ShareIn(f, fs, a.x, a.terms) = line
  BY DEF ShareIn
<1>2. DOMAIN a.terms = 1 .. Len(a.terms) /\ Len(a.terms) \in Nat
  BY ShareTypes
<1>3. IsFiniteSet(S) /\ S \subseteq Int /\ S \subseteq DOMAIN a.terms
  <2>1. IsFiniteSet(DOMAIN a.terms) /\ DOMAIN a.terms \subseteq Int
    BY <1>2, FS_Interval
  <2>2. S \subseteq DOMAIN a.terms
    OBVIOUS
  <2> HIDE DEF S
  <2> QED
    BY <2>1, <2>2, FS_Subset
<1>4. \A k \in DOMAIN a.terms : Useful(f, a.x, a.terms[k]) => k \in S
  OBVIOUS
<1> HIDE DEF S
<1>5. at \in Seq(S) /\ \A e \in S : \E n \in DOMAIN at : at[n] = e
  BY <1>3, AscendingSorts
<1> HIDE DEF at
<1>6. Len(at) \in Nat /\ DOMAIN at = 1 .. Len(at) /\ \A k \in DOMAIN at : at[k] \in S
  BY <1>5
<1>7. line \in Lines(X)
  <2>1. ASSUME NEW k \in 1 .. Len(at) PROVE line[k] \in Literal(X)
    <3>1. at[k] \in DOMAIN a.terms
      BY <1>3, <1>6
    <3>2. a.terms[at[k]] \in Range(a.terms)
      BY <3>1 DEF Range
    <3> QED
      BY <1>6, <3>2, TermKnown
  <2>2. line \in [1 .. Len(at) -> Literal(X)]
    BY <1>6, <2>1
  <2> HIDE DEF line
  <2> QED
    BY <1>6, <2>2 DEF Lines
<1>8. ASSUME NEW t \in Range(a.terms), Useful(f, a.x, t)
      PROVE  \E n \in DOMAIN line : line[n] = Pos(TermBvar(fs, a.x, t))
  <2>1. PICK k \in DOMAIN a.terms : a.terms[k] = t
    BY DEF Range
  <2>2. PICK n \in DOMAIN at : at[n] = k
    BY <1>4, <1>5, <1>8, <2>1
  <2>3. n \in DOMAIN line /\ line[n] = Pos(TermBvar(fs, a.x, t))
    BY <2>1, <2>2
  <2> QED
    BY <2>3
<1> HIDE DEF line
<1> QED
  BY <1>1, <1>7, <1>8

LEMMA ShareCases ==
  ASSUME NEW f, NEW fs, NEW line \in ShareLines(f, fs)
  PROVE  \E a \in f.share :
           \/ a.kind = "in" /\ line = ShareIn(f, fs, a.x, a.terms)
           \/ a.kind = "ni" /\ \E t \in Range(a.terms) : line = <<Neg(TermBvar(fs, a.x, t))>>
<1> DEFINE ins == {ShareIn(f, fs, a.x, a.terms) : a \in {b \in f.share : b.kind = "in"}}
           of(a) == {<<Neg(TermBvar(fs, a.x, t))>> : t \in Range(a.terms)}
           nis == UNION {of(a) : a \in {b \in f.share : b.kind = "ni"}}
<1>1. ShareLines(f, fs) = ins \union nis
  BY DEF ShareLines
<1>2. CASE line \in ins
  BY <1>2
<1>3. CASE line \in nis
  <2>1. PICK a \in f.share : a.kind = "ni" /\ line \in of(a)
    BY <1>3
  <2> QED
    BY <2>1
<1> QED
  BY <1>1, <1>2, <1>3

LEMMA ShareKnown ==
  ASSUME NEW f \in Forms, NEW fs, fs = FillBvar(f), NEW X, Lookups(f, fs, X),
         NEW line \in ShareLines(f, fs)
  PROVE  line \in Lines(X)
<1>1. PICK a \in f.share :
         \/ a.kind = "in" /\ line = ShareIn(f, fs, a.x, a.terms)
         \/ a.kind = "ni" /\ \E t \in Range(a.terms) : line = <<Neg(TermBvar(fs, a.x, t))>>
  BY ShareCases
<1>2. CASE line = ShareIn(f, fs, a.x, a.terms)
  BY <1>2, ShareInLine
<1>3. CASE \E t \in Range(a.terms) : line = <<Neg(TermBvar(fs, a.x, t))>>
  <2>1. PICK t \in Range(a.terms) : line = <<Neg(TermBvar(fs, a.x, t))>>
    BY <1>3
  <2> QED
    BY <2>1, TermKnown, ShortLines
<1> QED
  BY <1>1, <1>2, <1>3

-----------------------------------------------------------------------------
(* What a solver reads from a line.                                        *)

(* A clause is a part of the line without the number 0, and a line without *)
(* the number 0 is one clause.                                             *)
LEMMA ClausesOfLine ==
  ASSUME NEW X, NEW line \in Lines(X)
  PROVE  /\ \A c \in ClausesOf(line) : \A l \in c :
              l[2] # Zero /\ \E k \in DOMAIN line : l = line[k]
         /\ (\A k \in DOMAIN line : line[k][2] # Zero) =>
              \A c \in ClausesOf(line) : c = {line[k] : k \in DOMAIN line}
<1> DEFINE n == Len(line)
           zeros == {k \in DOMAIN line : line[k][2] = Zero}
           ends == zeros \union {n + 1}
           starts == ends \union {0}
           last(e) == CHOOSE d \in starts : d < e /\ \A k \in starts : k < e => k <= d
           clause(e) == {line[k] : k \in 1 + last(e) .. e - 1}
<1>1. n \in Nat /\ DOMAIN line = 1 .. n
  BY DEF Lines
<1>2. \A c \in ClausesOf(line) : \E e \in ends : c = clause(e)
  BY DEF ClausesOf
<1>3. zeros \subseteq 1 .. n /\ ends \subseteq 1 .. n + 1 /\ starts \subseteq 0 .. n + 1 /\ 0 \in starts
  BY <1>1
<1>4. \A k \in 1 .. n : k \notin starts => line[k][2] # Zero
  BY <1>1
<1>5. ends \subseteq starts
  OBVIOUS
<1>6. (\A k \in DOMAIN line : line[k][2] # Zero) => ends = {n + 1} /\ starts = {0, n + 1}
  OBVIOUS
<1> HIDE DEF zeros, ends, starts, n
<1>7. ASSUME NEW e \in ends
      PROVE  last(e) \in starts /\ last(e) < e /\ \A k \in starts : k < e => k <= last(e)
  <2> DEFINE up == {m \in Nat : \A k \in starts : k < e => k <= m}
  <2>1. e - 1 \in up
    BY <1>1, <1>3
  <2>2. PICK m \in up : \A i \in up : ~ (i < m)
    <3> HIDE DEF up
    <3>1. up \subseteq Nat
      BY DEF up
    <3> QED
      BY <2>1, <3>1, Least
  <2>3. m \in Nat /\ \A k \in starts : k < e => k <= m
    BY <2>2
  <2>4. m < e
    BY <1>1, <1>3, <2>1, <2>2
  <2>5. m \in starts
    <3>1. CASE m = 0
      BY <1>3, <3>1
    <3>2. CASE m # 0 /\ m \notin starts
      <4>1. m - 1 \in Nat /\ m - 1 < m
        BY <2>3, <3>2
      <4>2. \A k \in starts : k < e => k <= m - 1
        BY <1>1, <1>3, <2>3, <3>2
      <4> QED
        BY <2>2, <4>1, <4>2
    <3> QED
      BY <3>1, <3>2
  <2> HIDE DEF up
  <2>6. \E d \in starts : d < e /\ \A k \in starts : k < e => k <= d
    BY <2>3, <2>4, <2>5
  <2> QED
    BY <2>6
<1> HIDE DEF last
<1>8. ASSUME NEW c \in ClausesOf(line), NEW l \in c
      PROVE  l[2] # Zero /\ \E k \in DOMAIN line : l = line[k]
  <2>1. PICK e \in ends : c = clause(e)
    BY <1>2
  <2>2. PICK k \in 1 + last(e) .. e - 1 : l = line[k]
    BY <2>1
  <2>3. last(e) \in 0 .. n + 1 /\ e \in 1 .. n + 1
    BY <1>3, <1>7
  <2>4. k \in 1 .. n /\ last(e) < k /\ k < e
    BY <1>1, <2>3
  <2>5. k \notin starts
    BY <1>1, <1>3, <1>7, <2>3, <2>4
  <2> QED
    BY <1>1, <1>4, <2>2, <2>4, <2>5
<1>9. ASSUME \A k \in DOMAIN line : line[k][2] # Zero, NEW c \in ClausesOf(line)
      PROVE  c = {line[k] : k \in DOMAIN line}
  <2>1. PICK e \in ends : c = clause(e)
    BY <1>2
  <2>2. e = n + 1 /\ last(e) \in {0, n + 1} /\ last(e) < e
    BY <1>6, <1>7, <1>9
  <2>3. last(e) = 0
    BY <1>1, <2>2
  <2>4. 1 + last(e) .. e - 1 = DOMAIN line
    BY <1>1, <2>2, <2>3
  <2> QED
    BY <2>1, <2>4
<1> QED
  BY <1>8, <1>9

-----------------------------------------------------------------------------
(* The steps.                                                              *)

(* What the stages write. *)
AllLines(f, fs) ==
  {PureLines(f, fs), SpaceLines(f, fs), MemberLines(f, fs) \union SourceLines(f, fs),
   DetLines(f, fs), ShareLines(f, fs)}

LEMMA StepWrites ==
  ASSUME Next
  PROVE  \/ Fill
         \/ /\ pc \notin {"fill", "crash"}
            /\ \E lines \in AllLines(form, fsat) :
                 \E next \in {"space", "membership", "det", "share", "done"} : Write(lines, next)
<1>1. CASE Pure
  BY <1>1 DEF Pure, AllLines
<1>2. CASE Space
  BY <1>2 DEF Space, AllLines
<1>3. CASE Membership
  BY <1>3 DEF Membership, AllLines
<1>4. CASE Det
  BY <1>4 DEF Det, AllLines
<1>5. CASE Share
  BY <1>5 DEF Share, AllLines
<1> QED
  BY <1>1, <1>2, <1>3, <1>4, <1>5 DEF Next

LEMMA LinesKnown ==
  ASSUME NEW f \in Forms, NEW fs, fs = FillBvar(f), NEW X, Lookups(f, fs, X),
         NEW lines \in AllLines(f, fs), NEW line \in lines
  PROVE  line \in Lines(X) /\ (lines # ShareLines(f, fs) => line # <<>>)
<1>1. CASE lines = PureLines(f, fs)
  BY <1>1, PureProper DEF Proper
<1>2. CASE lines = SpaceLines(f, fs)
  BY <1>2, SpaceProper DEF Proper
<1>3. CASE lines = MemberLines(f, fs) \union SourceLines(f, fs)
  BY <1>3, MemberProper, SourceProper DEF Proper
<1>4. CASE lines = DetLines(f, fs)
  BY <1>4, DetProper DEF Proper
<1>5. CASE lines = ShareLines(f, fs)
  BY <1>5, ShareKnown
<1> QED
  BY <1>1, <1>2, <1>3, <1>4, <1>5 DEF AllLines

(* The tables stay as noll2sat_fill_bvar leaves them, and the clauses have *)
(* literals of variables in the tables.                                    *)
SInv ==
  /\ form \in Forms
  /\ pc \in {"fill", "pure", "space", "membership", "det", "share", "done", "crash"}
  /\ IF pc = "fill" THEN fsat.used = {} /\ clauses = {} ELSE fsat = FillBvar(form)
  /\ \A c \in clauses : \A l \in c : l \in Literal(Bvars(fsat))

(* A stage adds literals of variables in the tables. *)
LEMMA WriteKnown ==
  ASSUME NEW lines, NEW next, Write(lines, next),
         \A line \in lines : line \in Lines(Known(fsat)),
         NEW c \in clauses' \ clauses, NEW l \in c
  PROVE  l \in Literal(Bvars(fsat))
<1>1. /\ \A line \in lines : \A k \in DOMAIN line : line[k][2] # Crash
      /\ c \in UNION {ClausesOf(line) : line \in lines}
  BY DEF Write
<1>2. PICK line \in lines : c \in ClausesOf(line)
  BY <1>1
<1>3. line \in Lines(Known(fsat))
  BY <1>2
<1>4. l[2] # Zero /\ \E k \in DOMAIN line : l = line[k]
  BY <1>2, <1>3, ClausesOfLine
<1>5. PICK k \in DOMAIN line : l = line[k]
  BY <1>4
<1>6. line[k] \in Literal(Known(fsat)) /\ line[k][2] # Crash
  BY <1>1, <1>2, <1>3, <1>5 DEF Lines
<1> QED
  BY <1>4, <1>5, <1>6 DEF Literal, Known

LEMMA SInvInductive == Spec => []SInv
<1>1. Init => SInv
  BY DEF Init, SInv
<1>2. SInv /\ [Next]_vars => SInv'
  <2> SUFFICES ASSUME SInv, [Next]_vars PROVE SInv'
    OBVIOUS
  <2>1. CASE UNCHANGED vars
    BY <2>1 DEF SInv, vars
  <2>2. CASE Fill
    BY <2>2 DEF Fill, SInv
  <2>3. ASSUME pc \notin {"fill", "crash"}, NEW lines \in AllLines(form, fsat),
               NEW next \in {"space", "membership", "det", "share", "done"}, Write(lines, next)
        PROVE  SInv'
    <3>1. form \in Forms /\ fsat = FillBvar(form)
      BY <2>3 DEF SInv
    <3>2. form' = form /\ fsat' = fsat /\ pc' \in {next, "crash"}
      BY <2>3 DEF Write
    <3>3. \A line \in lines : line \in Lines(Known(fsat))
      BY <2>3, <3>1, LookupsKnown, LinesKnown
    <3>4. \A c \in clauses' \ clauses : \A l \in c : l \in Literal(Bvars(fsat))
      BY <2>3, <3>3, WriteKnown
    <3> QED
      BY <3>1, <3>2, <3>4 DEF SInv
  <2> QED
    BY <2>1, <2>2, <2>3, StepWrites
<1> QED
  BY <1>1, <1>2, PTL DEF Spec

(* Every literal in the file is a variable that was counted for its header,*)
(* whatever the formulas: a search in a table gives a variable of it, or   *)
(* one of the numbers that are not written.                                *)
THEOREM SatTypes == Spec => []TypeOK
<1>1. SInv => TypeOK
  <2> SUFFICES ASSUME SInv PROVE TypeOK
    OBVIOUS
  <2>1. fsat.used \subseteq Var
    BY FillTables, UsedTypes DEF SInv
  <2> QED
    BY <2>1 DEF SInv, TypeOK, Literal
<1> QED
  BY <1>1, SInvInductive, PTL

-----------------------------------------------------------------------------
(* What the segments of a heap are.                                        *)

Fargs(c) == Preds[c[1]].fargs

(* A segment has the shape of its rules. *)
SegOK(c) ==
  /\ c[1] \in DOMAIN Preds
  /\ c[2] \in [1 .. Fargs(c) -> Location]
  /\ c[3] # {} => c[2][1] \in c[3]
  /\ IF TypeInfo[c[1]].twodir
     THEN IF c[3] = {} THEN c[2][1] = c[2][4] /\ c[2][2] = c[2][3]
          ELSE c[2][1] # c[2][4] /\ c[2][2] # c[2][3] /\ c[2][2] \in c[3]
     ELSE c[3] # {} => c[2][1] # c[2][2]

LEMMA CandidateTypes ==
  ASSUME NEW h, NEW c \in Candidates(h)
  PROVE  /\ c[1] \in DOMAIN Preds /\ c[2] \in [1 .. Fargs(c) -> Location]
         /\ c[3] \subseteq DOMAIN h
<1>1. PICK pid \in DOMAIN Preds :
         c \in {<<pid, vals, D>> : vals \in [1 .. Preds[pid].fargs -> Location], D \in SUBSET (DOMAIN h)}
  BY DEF Candidates
<1> QED
  BY <1>1 DEF Fargs

(* The values of the parameters and of nil in a rule. *)
LEMMA ParameterValues ==
  ASSUME NEW n \in Nat, NEW vals \in [1 .. n -> Location], NEW ex, NEW k \in 1 .. n
  PROVE  Values(vals, ex)[k] = vals[k]
BY DEF Values

(* One unfolding of a rule keeps the shape. *)
LEMMA UnfoldingOK ==
  ASSUME Shaped, NEW h, NEW c \in Candidates(h),
         NEW segs, segs \subseteq Candidates(h), \A d \in segs : SegOK(d),
         RuleHolds(c[1], c[2], h, c[3], segs)
  PROVE  SegOK(c)
<1> DEFINE pid == c[1]
           vals == c[2]
           D == c[3]
           n == Preds[pid].fargs
<1>1. pid \in DOMAIN Preds /\ vals \in [1 .. n -> Location]
  BY CandidateTypes DEF Fargs
<1>2. /\ n \in Nat /\ n >= 2 /\ TypeInfo[pid].twodir \in BOOLEAN
      /\ TypeInfo[pid].twodir => n >= 4
  BY <1>1, SatAssumption DEF PredOK
<1> HIDE DEF n, pid, vals, D
<1>3. CASE D = {} /\ \E base \in Range(Preds[pid].base) : Satisfies(Values(vals, <<>>), base)
  <2>1. PICK base \in Range(Preds[pid].base) : Satisfies(Values(vals, <<>>), base)
    BY <1>3
  <2>2. TypeInfo[pid].twodir => vals[1] = vals[4] /\ vals[2] = vals[3]
    <3> SUFFICES ASSUME TypeInfo[pid].twodir PROVE vals[1] = vals[4] /\ vals[2] = vals[3]
      OBVIOUS
    <3>1. PureAtom("eq", 1, 4) \in base /\ PureAtom("eq", 2, 3) \in base
      BY <1>1, <2>1 DEF Shaped
    <3>2. /\ Values(vals, <<>>)[1] = Values(vals, <<>>)[4]
          /\ Values(vals, <<>>)[2] = Values(vals, <<>>)[3]
      BY <2>1, <3>1 DEF Satisfies, Holds, PureAtom
    <3> QED
      BY <1>1, <1>2, <3>2, ParameterValues
  <2> QED
    BY <1>1, <1>3, <2>2 DEF SegOK, Fargs, n, pid, vals, D
<1>4. ASSUME NEW rule \in Range(Preds[pid].rec), NEW ex,
             Values(vals, <<>>)[rule.pto.src] \in D,
             Satisfies(Values(vals, ex), rule.pure),
             SepHolds(<<rule.pto>> \o rule.calls, Values(vals, ex), h, D, segs)
      PROVE  SegOK(c)
  <2>1. rule.pto.src = 1 /\ rule.calls \in Seq(Range(rule.calls))
    BY <1>1, <1>4 DEF Shaped
  <2>2. vals[1] \in D
    <3>1. 1 \in 1 .. n
      BY <1>2
    <3>2. Values(vals, <<>>)[1] = vals[1]
      BY <1>1, <1>2, <3>1, ParameterValues
    <3>3. Values(vals, <<>>)[1] \in D
      BY <1>4, <2>1
    <3> QED
      BY <3>2, <3>3
  <2>3. \A x, y \in 1 .. n : PureAtom("neq", x, y) \in rule.pure => vals[x] # vals[y]
    <3> SUFFICES ASSUME NEW x \in 1 .. n, NEW y \in 1 .. n, PureAtom("neq", x, y) \in rule.pure
                 PROVE  vals[x] # vals[y]
      OBVIOUS
    <3>1. Values(vals, ex)[x] # Values(vals, ex)[y]
      BY <1>4 DEF Satisfies, Holds, PureAtom
    <3> QED
      BY <1>1, <1>2, <3>1, ParameterValues
  <2>4. CASE TypeInfo[pid].twodir
    <3>1. n >= 4 /\ 1 \in 1 .. n /\ 2 \in 1 .. n /\ 3 \in 1 .. n /\ 4 \in 1 .. n
      BY <1>2, <2>4
    <3>2. PureAtom("neq", 1, 4) \in rule.pure /\ PureAtom("neq", 2, 3) \in rule.pure
      BY <1>1, <1>4, <2>4 DEF Shaped
    <3>3. vals[1] # vals[4] /\ vals[2] # vals[3]
      BY <2>3, <3>1, <3>2
    <3>4. PICK k \in DOMAIN rule.calls :
             /\ rule.calls[k].kind = "ls" /\ rule.calls[k].pid = pid
             /\ rule.calls[k].args[2] = 2 /\ rule.calls[k].args[3] = 1
      BY <1>1, <1>4, <2>4 DEF Shaped
    <3> DEFINE call == rule.calls[k]
               atoms == <<rule.pto>> \o rule.calls
               s == Values(vals, ex)
    <3>5. k + 1 \in DOMAIN atoms /\ atoms[k + 1] = call
      BY <2>1
    <3> HIDE DEF atoms, s
    <3>6. PICK part \in [DOMAIN atoms -> SUBSET D] : AtomHolds(atoms[k + 1], s, h, part[k + 1], segs)
      <4>1. SepHolds(atoms, s, h, D, segs)
        BY <1>4 DEF atoms, s
      <4> QED
        BY <3>5, <4>1 DEF SepHolds, Splits
    <3> DEFINE P == part[k + 1]
               v == [j \in DOMAIN call.args |-> s[call.args[j]]]
               d == <<pid, v, P>>
    <3>7. d \in segs
      BY <3>4, <3>5, <3>6 DEF AtomHolds
    <3>8. P \subseteq D
      BY <3>5, <3>6
    <3>9. SegOK(d) /\ d \in Candidates(h)
      BY <3>7
    <3> HIDE DEF v, P
    <3>10. v \in [1 .. n -> Location]
      BY <3>9, CandidateTypes DEF Fargs, n
    <3>11. v[2] = vals[2] /\ v[3] = vals[1]
      <4>1. DOMAIN v = 1 .. n
        BY <3>10
      <4>2. 2 \in DOMAIN call.args /\ 3 \in DOMAIN call.args
        BY <3>1, <4>1 DEF v
      <4>3. v[2] = s[2] /\ v[3] = s[1]
        BY <3>4, <4>2 DEF v
      <4> QED
        BY <1>1, <1>2, <3>1, <4>3, ParameterValues DEF s
    <3>12. CASE P = {}
      <4>1. v[2] = v[3]
        BY <2>4, <3>9, <3>12 DEF SegOK
      <4>2. vals[2] \in D
        BY <2>2, <3>11, <4>1
      <4> QED
        BY <1>1, <2>2, <2>4, <3>3, <4>2 DEF SegOK, Fargs, n, pid, vals, D
    <3>13. CASE P # {}
      <4>1. v[2] \in P
        BY <2>4, <3>9, <3>13 DEF SegOK
      <4>2. vals[2] \in D
        BY <3>8, <3>11, <4>1
      <4> QED
        BY <1>1, <2>2, <2>4, <3>3, <4>2 DEF SegOK, Fargs, n, pid, vals, D
    <3> QED
      BY <3>12, <3>13
  <2>5. CASE ~ TypeInfo[pid].twodir
    <3>1. PureAtom("neq", 1, 2) \in rule.pure
      BY <1>1, <1>4, <2>5 DEF Shaped
    <3>2. vals[1] # vals[2]
      BY <1>2, <2>3, <3>1
    <3> QED
      BY <1>1, <2>2, <2>5, <3>2 DEF SegOK, Fargs, n, pid, vals, D
  <2> QED
    BY <2>4, <2>5
<1> QED
  BY <1>3, <1>4 DEF RuleHolds, n, pid, vals, D

(* The segments of a heap have the shape of their rules. *)
LEMMA SegmentsOK ==
  ASSUME Shaped, NEW h \in Heap
  PROVE  \A c \in Segments(h) : SegOK(c)
<1> DEFINE N == Cardinality(DOMAIN h) + 1
           C == Candidates(h)
           Step(segs) == {c \in C : RuleHolds(c[1], c[2], h, c[3], segs)}
           E == [n \in 1 .. N |-> [segs \in SUBSET C |-> Step(segs)]]
<1>1. N \in Nat
  <2>1. DOMAIN h \subseteq Location
    BY DEF Heap
  <2> QED
    BY <2>1, SatAssumption, FS_Subset, FS_CardinalityType
<1>2. E \in [1 .. N -> [SUBSET C -> SUBSET C]]
  OBVIOUS
<1>3. PICK g : Iteration(g, SUBSET C, {}, N, E)
  <2> HIDE DEF E, N
  <2>1. {} \in SUBSET C
    OBVIOUS
  <2> HIDE DEF C
  <2> QED
    BY <1>1, <1>2, <2>1, Iterates
<1>4. g \in [0 .. N -> SUBSET C] /\ g[0] = {} /\ \A n \in 1 .. N : g[n] = E[n][g[n - 1]]
  BY <1>3 DEF Iteration
<1> HIDE DEF C, N
<1>5. ASSUME NEW n \in 1 .. N PROVE g[n] = Step(g[n - 1])
  <2>1. n - 1 \in 0 .. N
    BY <1>1
  <2>2. g[n - 1] \in SUBSET C
    BY <1>4, <2>1
  <2>3. E[n] = [segs \in SUBSET C |-> Step(segs)]
    OBVIOUS
  <2> QED
    BY <1>4, <2>2, <2>3
<1> HIDE DEF E, Step
<1> DEFINE Body(f) == [n \in 0 .. N |-> IF n = 0 THEN {} ELSE Step(f[n - 1])]
           upto == CHOOSE f : f = Body(f)
<1>6. g = Body(g)
  <2>1. \A n \in 0 .. N : g[n] = IF n = 0 THEN {} ELSE Step(g[n - 1])
    BY <1>1, <1>4, <1>5
  <2> QED
    BY <1>4, <2>1
<1>7. upto = Body(upto)
  <2> HIDE DEF Body
  <2> QED
    BY <1>6
<1>8. Segments(h) = upto[N]
  BY DEF Segments, Step, C, N
<1> DEFINE k == upto
<1>9. k[0] = {} /\ \A n \in 1 .. N : k[n] = Step(k[n - 1])
  <2>1. 0 \in 0 .. N /\ \A n \in 1 .. N : n \in 0 .. N /\ n # 0
    BY <1>1
  <2>2. k = [n \in 0 .. N |-> IF n = 0 THEN {} ELSE Step(k[n - 1])]
    BY <1>7
  <2> HIDE DEF k
  <2>3. \A n \in 0 .. N : k[n] = IF n = 0 THEN {} ELSE Step(k[n - 1])
    BY <2>2
  <2> QED
    BY <2>1, <2>3
<1> HIDE DEF k
<1> DEFINE Bad == {n \in 0 .. N : ~ (k[n] \subseteq C /\ \A c \in k[n] : SegOK(c))}
<1>10. Bad = {}
  <2> SUFFICES ASSUME Bad # {} PROVE FALSE
    OBVIOUS
  <2>1. PICK n \in Bad : \A i \in Bad : ~ (i < n)
    <3>1. Bad \subseteq Nat
      BY <1>1
    <3> HIDE DEF Bad
    <3> QED
      BY <3>1, Least
  <2>2. n \in 1 .. N
    BY <1>1, <1>9
  <2>3. n - 1 \in 0 .. N /\ n - 1 \notin Bad
    BY <1>1, <2>1, <2>2
  <2>4. k[n - 1] \subseteq C /\ \A c \in k[n - 1] : SegOK(c)
    BY <2>3
  <2>5. k[n] = Step(k[n - 1])
    BY <1>9, <2>2
  <2>6. k[n] \subseteq C
    BY <2>5 DEF Step
  <2>7. \A c \in k[n] : SegOK(c)
    BY <2>4, <2>5, UnfoldingOK DEF Step, C
  <2> QED
    BY <2>6, <2>7
<1>11. N \in 0 .. N /\ N \notin Bad
  BY <1>1, <1>10
<1>12. \A c \in k[N] : SegOK(c)
  BY <1>11
<1> QED
  BY <1>8, <1>12 DEF k

-----------------------------------------------------------------------------
(* What the worlds of a formula are.                                       *)

LEMMA WorldParts ==
  ASSUME NEW f \in Forms, NEW w \in Worlds(f)
  PROVE  /\ w.s \in Stack /\ Agrees(w.s, f.pure)
         /\ w.parts \in [DOMAIN f.space -> SUBSET (Location \ {0})]
         /\ \A i \in DOMAIN f.space : <<f.space[i], w.s, w.parts[i]>> \in Regions
         /\ Disjoint(w.parts)
         /\ \A a \in f.share : ShareHolds(w, a)
<1>1. PICK s \in Stack : Agrees(s, f.pure) /\ \E p \in Parts(f.space, s) : w = [s |-> s, parts |-> p]
  BY DEF Worlds
<1>2. PICK p \in Parts(f.space, s) : w = [s |-> s, parts |-> p]
  BY <1>1
<1>3. w.s = s /\ w.parts = p
  BY <1>2
<1>4. \A a \in f.share : ShareHolds(w, a)
  BY DEF Worlds
<1> QED
  BY <1>1, <1>2, <1>3, <1>4 DEF Parts

LEMMA RegionHolds ==
  ASSUME NEW at, NEW s, NEW D, <<at, s, D>> \in Regions
  PROVE  \E h \in Heap : AtomHolds(at, s, h, D, Segments(h))
<1>1. PICK h \in Heap : <<at, s, D>> \in RegionsIn(h, Segments(h))
  BY DEF Regions
<1> QED
  BY <1>1 DEF RegionsIn

(* A points-to atom allocates its source. *)
LEMMA PtoPart ==
  ASSUME NEW f \in Forms, NEW w \in Worlds(f), NEW i \in PtoAtoms(f)
  PROVE  w.parts[i] = {w.s[f.space[i].src]} /\ w.s[f.space[i].src] # 0
<1>1. /\ i \in DOMAIN f.space /\ f.space[i].kind = "pto"
      /\ <<f.space[i], w.s, w.parts[i]>> \in Regions
      /\ w.parts[i] \subseteq Location \ {0}
  <2>1. i \in DOMAIN f.space /\ f.space[i].kind = "pto"
    BY DEF PtoAtoms
  <2> QED
    BY <2>1, WorldParts, ZenonT(30)
<1>2. PICK h \in Heap : AtomHolds(f.space[i], w.s, h, w.parts[i], Segments(h))
  BY <1>1, RegionHolds
<1>3. w.parts[i] = {w.s[f.space[i].src]}
  BY <1>1, <1>2 DEF AtomHolds
<1> QED
  BY <1>1, <1>3

(* A segment allocates its source, unless it is empty. *)
LEMMA PredPart ==
  ASSUME Shaped, NEW f \in Forms, NEW w \in Worlds(f), NEW i \in PredAtoms(f)
  PROVE  /\ w.parts[i] # {} => w.s[In(f, i)] \in w.parts[i]
         /\ IF TwoDir(f, i)
            THEN IF w.parts[i] = {}
                 THEN /\ w.s[In(f, i)] = w.s[f.space[i].args[4]]
                      /\ w.s[Out(f, i)] = w.s[f.space[i].args[3]]
                 ELSE /\ w.s[In(f, i)] # w.s[f.space[i].args[4]]
                      /\ w.s[Out(f, i)] # w.s[f.space[i].args[3]]
                      /\ w.s[Out(f, i)] \in w.parts[i]
            ELSE w.parts[i] # {} => w.s[In(f, i)] # w.s[Out(f, i)]
<1> DEFINE at == f.space[i]
           v == [k \in DOMAIN at.args |-> w.s[at.args[k]]]
           c == <<at.pid, v, w.parts[i]>>
<1>1. i \in DOMAIN f.space /\ at.kind = "ls" /\ <<at, w.s, w.parts[i]>> \in Regions
  BY PredTypes, WorldParts
<1>2. PICK h \in Heap : AtomHolds(at, w.s, h, w.parts[i], Segments(h))
  BY <1>1, RegionHolds
<1>3. c \in Segments(h)
  BY <1>1, <1>2 DEF AtomHolds
<1>4. SegOK(c)
  BY <1>3, SegmentsOK
<1>5. /\ 1 \in DOMAIN at.args /\ 2 \in DOMAIN at.args
      /\ TwoDir(f, i) => 3 \in DOMAIN at.args /\ 4 \in DOMAIN at.args
  BY PredTypes
<1>6. /\ v[1] = w.s[In(f, i)] /\ v[2] = w.s[Out(f, i)]
      /\ TwoDir(f, i) => v[3] = w.s[at.args[3]] /\ v[4] = w.s[at.args[4]]
  BY <1>5 DEF In, Out
<1> HIDE DEF v
<1> QED
  BY <1>4, <1>6 DEF SegOK, TwoDir

-----------------------------------------------------------------------------
(* Every variable is found.                                                *)

(* Of a formula that has a world, with variables of one record and without *)
(* a segment that starts from nil, all variables that are looked up are in *)
(* their tables.                                                           *)
LEMMA LookupsFound ==
  ASSUME OneRecord, SourcesNotNil, NEW f \in Forms, NEW w \in Worlds(f), NEW fs, fs = FillBvar(f)
  PROVE  Lookups(f, fs, Bvars(fs))
<1> DEFINE X == Bvars(fs)
<1>1. fs.used = UsedVars(f)
  BY FillTables
<1>2. 0 \in fs.used
  BY <1>1, UsedTypes
<1>3. \A x, y \in fs.used : GetBvarEq(fs, x, y) \in X
  BY EqKnown
<1>4. /\ "pto" \in Tables /\ "pred" \in Tables /\ "apto" \in Tables /\ "inset" \in Tables
      /\ fs["pto"] = fs.pto /\ fs["pred"] = fs.pred /\ fs["apto"] = fs.apto /\ fs["inset"] = fs.inset
  BY DEF Tables
<1>5. /\ \A p \in DOMAIN fs.pto : <<"pto", p - 1, 0>> \in X
      /\ \A p \in DOMAIN fs.pred : <<"pred", p - 1, 0>> \in X
      /\ \A p \in DOMAIN fs.apto : <<"apto", p - 1, 0>> \in X
      /\ \A p \in DOMAIN fs.inset : <<"inset", p - 1, 0>> \in X
  BY <1>4, BvarsParts
<1>6. \A p \in DOMAIN fs.pto : GetBvarEq(fs, fs.pto[p].key[1], 0) \in X
  BY <1>2, <1>3, TableKeys
<1>7. ASSUME NEW i \in PtoAtoms(f), NEW k \in DOMAIN f.space[i].fields
      PROVE  GetBvarPto(fs, f, i, k) \in X
  BY <1>5, PtoFound
<1>8. ASSUME NEW i \in PredAtoms(f) PROVE GetBvarPred(fs, f, i) \in X
  BY <1>5, PredFound
<1>9. ASSUME NEW x \in fs.used \ {0}, NEW i \in PredAtoms(f) PROVE GetBvarIn(fs, x, i) \in X
  BY <1>1, <1>5, InFound
<1>10. ASSUME NEW x \in fs.used \ {0}, NEW i \in PredAtoms(f), NEW fd \in AptoFields(f, x, i)
       PROVE  GetBvar(fs, "apto", <<x, fd, i>>) \in X
  BY <1>1, <1>5, AptoFound
<1>11. ASSUME NEW i \in PredAtoms(f) PROVE GetBvarIn(fs, In(f, i), i) \in X
  <2>1. In(f, i) \in fs.used \ {0}
    BY <1>1, EndTypes DEF SourcesNotNil
  <2> QED
    BY <1>9, <2>1
<1>12. ASSUME NEW p \in DOMAIN fs.pto, NEW x \in fs.used, NEW i \in PredAtoms(f),
              Rec[fs.pto[p].key[1]] = Rec[x]
       PROVE  GetBvarIn(fs, x, i) \in X
  <2>1. PICK j \in PtoAtoms(f) : \E k \in DOMAIN f.space[j].fields :
               fs.pto[p] = [key |-> KeyPto(f, j, k), atom |-> j, idx |-> k]
    BY TableKeys
  <2>2. fs.pto[p].key[1] = f.space[j].src
    BY <2>1 DEF KeyPto
  <2>3. f.space[j].src \in Var /\ w.s[f.space[j].src] # 0 /\ w.s[0] = 0
    BY PtoTypes, PtoPart, WorldParts DEF Stack
  <2>4. Rec[f.space[j].src] # 0
    BY <2>3 DEF OneRecord
  <2>5. x # 0
    BY <1>12, <2>2, <2>4 DEF OneRecord
  <2> QED
    BY <1>9, <2>5
<1> HIDE DEF X
<1> QED
  BY <1>3, <1>5, <1>6, <1>7, <1>8, <1>9, <1>10, <1>11, <1>12 DEF Lookups, X

(* A term that holds of a variable is not passed over. *)
LEMMA UsefulTerm ==
  ASSUME OneRecord, NEW f \in Forms, NEW a \in f.share, NEW t \in Range(a.terms)
  PROVE  Useful(f, a.x, t)
<1>1. a.x \in Var \ {0}
  BY ShareTypes
<1>2. CASE t.kind = "lvar"
  <2>1. t.var \in Var \ {0}
    BY <1>2, ShareTypes
  <2> QED
    BY <1>1, <1>2, <2>1 DEF Useful, OneRecord
<1>3. CASE t.kind # "lvar"
  <2>1. t.svar \in PredAtoms(f)
    BY <1>3, ShareTypes
  <2>2. f.space[t.svar].pid \in DOMAIN Preds
    BY <2>1, PredTypes
  <2>3. Rec[a.x] = TypeInfo[f.space[t.svar].pid].ptype0
    BY <1>1, <2>2 DEF OneRecord
  <2>4. TypeInPred(f, Rec[a.x], t.svar) = 1
    BY <2>1, <2>3 DEF TypeInPred
  <2> QED
    BY <1>3, <2>4 DEF Useful
<1> QED
  BY <1>2, <1>3

(* No line is empty: a constraint that holds has a term. *)
LEMMA LinesNotEmpty ==
  ASSUME OneRecord, SourcesNotNil, NEW f \in Forms, NEW w \in Worlds(f), NEW fs, fs = FillBvar(f),
         NEW lines \in AllLines(f, fs)
  PROVE  Proper(Bvars(fs), lines)
<1>1. Lookups(f, fs, Bvars(fs))
  BY LookupsFound
<1>2. ASSUME NEW line \in lines PROVE line \in Lines(Bvars(fs)) /\ line # <<>>
  <2>1. CASE lines # ShareLines(f, fs)
    BY <1>1, <2>1, LinesKnown
  <2>2. CASE lines = ShareLines(f, fs)
    <3>1. line \in Lines(Bvars(fs))
      BY <1>1, LinesKnown
    <3>2. PICK a \in f.share :
             \/ a.kind = "in" /\ line = ShareIn(f, fs, a.x, a.terms)
             \/ a.kind = "ni" /\ \E t \in Range(a.terms) : line = <<Neg(TermBvar(fs, a.x, t))>>
      BY <2>2, ShareCases
    <3>3. CASE a.kind = "in" /\ line = ShareIn(f, fs, a.x, a.terms)
      <4>1. ShareHolds(w, a)
        BY WorldParts
      <4>2. PICK t \in Range(a.terms) : TRUE
        BY <3>3, <4>1 DEF ShareHolds
      <4>3. Useful(f, a.x, t)
        BY UsefulTerm
      <4>4. \E n \in DOMAIN line : line[n] = Pos(TermBvar(fs, a.x, t))
        BY <1>1, <3>3, <4>3, ShareInLine
      <4> QED
        BY <3>1, <4>4
    <3>4. CASE \E t \in Range(a.terms) : line = <<Neg(TermBvar(fs, a.x, t))>>
      <4>1. PICK l : line = <<l>>
        BY <3>4
      <4> QED
        BY <3>1, <4>1
    <3> QED
      BY <3>2, <3>3, <3>4
  <2> QED
    BY <2>1, <2>2
<1> QED
  BY <1>2 DEF Proper

(* What a stage adds to the file. *)
LEMMA WriteFound ==
  ASSUME NEW X, Zero \notin X, Crash \notin X, NEW lines, Proper(X, lines),
         NEW next, Write(lines, next)
  PROVE  /\ pc' = next
         /\ \A c \in clauses' \ clauses : \E line \in lines :
              line # <<>> /\ line \in Lines(X) /\ c = {line[k] : k \in DOMAIN line}
<1>1. \A line \in lines : \A k \in DOMAIN line : line[k][2] # Zero /\ line[k][2] # Crash
  <2> SUFFICES ASSUME NEW line \in lines, NEW k \in DOMAIN line
               PROVE  line[k][2] # Zero /\ line[k][2] # Crash
    OBVIOUS
  <2>1. line \in Lines(X)
    BY DEF Proper
  <2>2. line[k] \in Literal(X)
    BY <2>1 DEF Lines
  <2> QED
    BY <2>2 DEF Literal
<1>2. pc' = next /\ clauses' = clauses \union UNION {ClausesOf(line) : line \in lines}
  BY <1>1 DEF Write
<1>3. ASSUME NEW c \in clauses' \ clauses
      PROVE  \E line \in lines :
               line # <<>> /\ line \in Lines(X) /\ c = {line[k] : k \in DOMAIN line}
  <2>1. PICK line \in lines : c \in ClausesOf(line)
    BY <1>2
  <2>2. line \in Lines(X) /\ line # <<>>
    BY DEF Proper
  <2> QED
    BY <1>1, <2>1, <2>2, ClausesOfLine
<1> QED
  BY <1>2, <1>3

(* A formula that some heap satisfies is encoded, if its variables have    *)
(* one record and no segment starts from nil: every search for a boolean   *)
(* variable by bisection finds it, so that the assertions of noll2sat.c    *)
(* hold, and no clause of the file is empty.                               *)
THEOREM SatEncoded == OneRecord /\ SourcesNotNil => (Spec => []Encoded)
<1> SUFFICES ASSUME OneRecord, SourcesNotNil PROVE Spec => []Encoded
  OBVIOUS
<1>1. Init => Encoded
  BY DEF Init, Encoded
<1>2. SInv /\ Encoded /\ [Next]_vars => Encoded'
  <2> SUFFICES ASSUME SInv, Encoded, [Next]_vars PROVE Encoded'
    OBVIOUS
  <2>1. CASE UNCHANGED vars
    BY <2>1 DEF Encoded, vars
  <2>2. CASE Fill
    BY <2>2 DEF Fill, Encoded
  <2>3. ASSUME pc \notin {"fill", "crash"}, NEW lines \in AllLines(form, fsat),
               NEW next \in {"space", "membership", "det", "share", "done"}, Write(lines, next)
        PROVE  Encoded'
    <3>1. form \in Forms /\ fsat = FillBvar(form)
      BY <2>3 DEF SInv
    <3>2. form' = form
      BY <2>3 DEF Write
    <3>3. ASSUME NEW w \in Worlds(form) PROVE pc' # "crash" /\ {} \notin clauses'
      <4>1. Proper(Bvars(fsat), lines)
        BY <2>3, <3>1, LinesNotEmpty
      <4>2. /\ pc' = next
            /\ \A c \in clauses' \ clauses : \E line \in lines :
                 /\ line # <<>> /\ line \in Lines(Bvars(fsat))
                 /\ c = {line[k] : k \in DOMAIN line}
        BY <2>3, <4>1, BvarsParts, WriteFound
      <4>3. {} \notin clauses
        BY DEF Encoded
      <4>4. ASSUME {} \in clauses' PROVE FALSE
        <5>1. {} \in clauses' \ clauses
          BY <4>3, <4>4
        <5>2. PICK line \in lines : /\ line # <<>> /\ line \in Lines(Bvars(fsat))
                                    /\ {} = {line[k] : k \in DOMAIN line}
          BY <4>2, <5>1
        <5>3. DOMAIN line = {}
          BY <5>2
        <5> QED
          BY <5>2, <5>3 DEF Lines
      <4> QED
        BY <2>3, <4>2, <4>4
    <3>4. Worlds(form)' = Worlds(form)
      BY <3>2
    <3> QED
      BY <3>3, <3>4 DEF Encoded
  <2> QED
    BY <2>1, <2>2, <2>3, StepWrites
<1> QED
  BY <1>1, <1>2, SInvInductive, PTL DEF Spec

-----------------------------------------------------------------------------
(* What the literals of a formula mean in one of its worlds.               *)

LitHolds(fs, w, l) == l[1] = Meaning(fs, w, l[2])

LineHolds(fs, w, line) == \E k \in DOMAIN line : LitHolds(fs, w, line[k])

AllHold(fs, w, lines) == \A line \in lines : LineHolds(fs, w, line)

LEMMA LitMeans ==
  ASSUME NEW fs, NEW w, NEW b
  PROVE  /\ Meaning(fs, w, b) => LitHolds(fs, w, Pos(b))
         /\ ~ Meaning(fs, w, b) => LitHolds(fs, w, Neg(b))
<1>1. ASSUME Meaning(fs, w, b) PROVE TRUE = Meaning(fs, w, b)
  BY <1>1
<1>2. ASSUME ~ Meaning(fs, w, b) PROVE FALSE = Meaning(fs, w, b)
  BY <1>2, SMT DEF Meaning
<1>3. Pos(b)[1] = TRUE /\ Pos(b)[2] = b /\ Neg(b)[1] = FALSE /\ Neg(b)[2] = b
  BY DEF Pos, Neg
<1> QED
  BY <1>1, <1>2, <1>3 DEF LitHolds

(* A line holds if one of its literals does. *)
LEMMA ShortLinesHold ==
  ASSUME NEW fs, NEW w
  PROVE  /\ \A a : LitHolds(fs, w, a) => LineHolds(fs, w, <<a>>)
         /\ \A a, b : LitHolds(fs, w, a) \/ LitHolds(fs, w, b) => LineHolds(fs, w, <<a, b>>)
         /\ \A a, b, c : LitHolds(fs, w, a) \/ LitHolds(fs, w, b) \/ LitHolds(fs, w, c)
                           => LineHolds(fs, w, <<a, b, c>>)
<1> DEFINE L(l) == LitHolds(fs, w, l)
<1> HIDE DEF L
<1>1. /\ \A a : L(a) => \E k \in DOMAIN <<a>> : L(<<a>>[k])
      /\ \A a, b : L(a) \/ L(b) => \E k \in DOMAIN <<a, b>> : L(<<a, b>>[k])
      /\ \A a, b, c : L(a) \/ L(b) \/ L(c) => \E k \in DOMAIN <<a, b, c>> : L(<<a, b, c>>[k])
  OBVIOUS
<1> QED
  BY <1>1 DEF LineHolds, L

LEMMA FiveLiteralsHold ==
  ASSUME NEW fs, NEW w, NEW a, NEW b, NEW c, NEW d, NEW e,
         LitHolds(fs, w, a) \/ LitHolds(fs, w, b) \/ LitHolds(fs, w, c)
  PROVE  LineHolds(fs, w, <<a, b, c, d, e>>)
<1> DEFINE line == <<a, b, c, d, e>>
<1>1. DOMAIN line = 1 .. 5 /\ line[1] = a /\ line[2] = b /\ line[3] = c
  OBVIOUS
<1> HIDE DEF line
<1>2. \E k \in 1 .. 5 : LitHolds(fs, w, line[k])
  BY <1>1
<1>3. LineHolds(fs, w, line)
  BY <1>1, <1>2 DEF LineHolds
<1> QED
  BY <1>3 DEF line

LEMMA LongLinesHold ==
  ASSUME NEW fs, NEW w, NEW S, NEW T, NEW s \in Seq(S), NEW t \in Seq(T),
         LineHolds(fs, w, s) \/ LineHolds(fs, w, t)
  PROVE  LineHolds(fs, w, s \o t)
<1>1. CASE LineHolds(fs, w, s)
  <2>1. PICK k \in DOMAIN s : LitHolds(fs, w, s[k])
    BY <1>1 DEF LineHolds
  <2>2. k \in DOMAIN (s \o t) /\ (s \o t)[k] = s[k]
    OBVIOUS
  <2> QED
    BY <2>1, <2>2 DEF LineHolds
<1>2. CASE LineHolds(fs, w, t)
  <2>1. PICK k \in DOMAIN t : LitHolds(fs, w, t[k])
    BY <1>2 DEF LineHolds
  <2>2. Len(s) + k \in DOMAIN (s \o t) /\ (s \o t)[Len(s) + k] = t[k]
    OBVIOUS
  <2> QED
    BY <2>1, <2>2 DEF LineHolds
<1> QED
  BY <1>1, <1>2

(* The literals for equal variables, nonempty segments and members.        *)
EqMeans(fs, w) ==
  \A x, y \in fs.used :
    /\ w.s[x] = w.s[y] => LitHolds(fs, w, Pos(GetBvarEq(fs, x, y)))
    /\ w.s[x] # w.s[y] => LitHolds(fs, w, Neg(GetBvarEq(fs, x, y)))

PtoMeans(f, fs, w) ==
  /\ \A p \in DOMAIN fs.pto : LitHolds(fs, w, Pos(<<"pto", p - 1, 0>>))
  /\ \A i \in PtoAtoms(f) : \A k \in DOMAIN f.space[i].fields :
       LitHolds(fs, w, Pos(GetBvarPto(fs, f, i, k)))

PredMeans(f, fs, w) ==
  /\ \A p \in DOMAIN fs.pred :
       /\ w.parts[fs.pred[p].atom] # {} => LitHolds(fs, w, Pos(<<"pred", p - 1, 0>>))
       /\ w.parts[fs.pred[p].atom] = {} => LitHolds(fs, w, Neg(<<"pred", p - 1, 0>>))
  /\ \A i \in PredAtoms(f) :
       /\ w.parts[i] # {} => LitHolds(fs, w, Pos(GetBvarPred(fs, f, i)))
       /\ w.parts[i] = {} => LitHolds(fs, w, Neg(GetBvarPred(fs, f, i)))

InMeans(f, fs, w) ==
  \A x \in fs.used \ {0} : \A i \in PredAtoms(f) :
    /\ w.s[x] \in w.parts[i] => LitHolds(fs, w, Pos(GetBvarIn(fs, x, i)))
    /\ w.s[x] \notin w.parts[i] => LitHolds(fs, w, Neg(GetBvarIn(fs, x, i)))

AptoMeans(f, fs, w) ==
  /\ \A p \in DOMAIN fs.apto :
       w.s[fs.apto[p].key[1]] \notin w.parts[fs.apto[p].atom]
         => LitHolds(fs, w, Neg(<<"apto", p - 1, 0>>))
  /\ \A x \in fs.used \ {0} : \A i \in PredAtoms(f) : \A fd \in AptoFields(f, x, i) :
       w.s[x] \in w.parts[i] => LitHolds(fs, w, Pos(GetBvar(fs, "apto", <<x, fd, i>>)))

LEMMA EqLiterals ==
  ASSUME NEW fs, NEW w
  PROVE  EqMeans(fs, w)
<1> SUFFICES ASSUME NEW x \in fs.used, NEW y \in fs.used
             PROVE  /\ w.s[x] = w.s[y] => LitHolds(fs, w, Pos(GetBvarEq(fs, x, y)))
                    /\ w.s[x] # w.s[y] => LitHolds(fs, w, Neg(GetBvarEq(fs, x, y)))
  BY DEF EqMeans
<1>1. GetBvarEq(fs, x, y) = <<"eq", Hi(x, y), Lo(x, y)>>
  BY EqKnown
<1> DEFINE b == <<"eq", Hi(x, y), Lo(x, y)>>
<1>2. Meaning(fs, w, b) <=> w.s[Hi(x, y)] = w.s[Lo(x, y)]
  BY DEF Meaning
<1>3. w.s[Hi(x, y)] = w.s[Lo(x, y)] <=> w.s[x] = w.s[y]
  BY DEF Hi, Lo
<1> HIDE DEF b
<1> QED
  BY <1>1, <1>2, <1>3, LitMeans DEF b

LEMMA PtoLiterals ==
  ASSUME NEW f \in Forms, NEW fs, fs = FillBvar(f), NEW w
  PROVE  PtoMeans(f, fs, w)
<1>1. ASSUME NEW p \in DOMAIN fs.pto PROVE LitHolds(fs, w, Pos(<<"pto", p - 1, 0>>))
  <2>1. Meaning(fs, w, <<"pto", p - 1, 0>>)
    BY DEF Meaning
  <2> QED
    BY <2>1, LitMeans
<1> QED
  BY <1>1, PtoFound DEF PtoMeans

LEMMA PredLiterals ==
  ASSUME NEW f \in Forms, NEW fs, fs = FillBvar(f), NEW w
  PROVE  PredMeans(f, fs, w)
<1>1. ASSUME NEW p \in DOMAIN fs.pred
      PROVE  /\ w.parts[fs.pred[p].atom] # {} => LitHolds(fs, w, Pos(<<"pred", p - 1, 0>>))
             /\ w.parts[fs.pred[p].atom] = {} => LitHolds(fs, w, Neg(<<"pred", p - 1, 0>>))
  <2>1. p \in Nat
    BY TableKeys DEF Tables
  <2>2. Meaning(fs, w, <<"pred", p - 1, 0>>) <=> w.parts[fs.pred[p].atom] # {}
    BY <2>1 DEF Meaning
  <2> QED
    BY <2>2, LitMeans
<1>2. ASSUME NEW i \in PredAtoms(f)
      PROVE  /\ w.parts[i] # {} => LitHolds(fs, w, Pos(GetBvarPred(fs, f, i)))
             /\ w.parts[i] = {} => LitHolds(fs, w, Neg(GetBvarPred(fs, f, i)))
  <2>1. PICK p \in DOMAIN fs.pred : /\ GetBvarPred(fs, f, i) = <<"pred", p - 1, 0>>
                                    /\ fs.pred[p].atom = i
    BY PredFound
  <2> QED
    BY <1>1, <2>1
<1> QED
  BY <1>1, <1>2 DEF PredMeans

LEMMA InLiterals ==
  ASSUME NEW f \in Forms, NEW fs, fs = FillBvar(f), NEW w
  PROVE  InMeans(f, fs, w)
<1> SUFFICES ASSUME NEW x \in fs.used \ {0}, NEW i \in PredAtoms(f)
             PROVE  /\ w.s[x] \in w.parts[i] => LitHolds(fs, w, Pos(GetBvarIn(fs, x, i)))
                    /\ w.s[x] \notin w.parts[i] => LitHolds(fs, w, Neg(GetBvarIn(fs, x, i)))
  BY DEF InMeans
<1>1. x \in UsedVars(f) \ {0}
  BY FillTables
<1>2. PICK p \in DOMAIN fs.inset : /\ GetBvarIn(fs, x, i) = <<"inset", p - 1, 0>>
                                  /\ fs.inset[p].key[1] = x /\ fs.inset[p].atom = i
  BY <1>1, InFound
<1>3. p \in Nat /\ fs["inset"] = fs.inset
  <2>1. "inset" \in Tables /\ fs["inset"] = fs.inset
    BY DEF Tables
  <2> QED
    BY <2>1, TableKeys
<1>4. Meaning(fs, w, <<"inset", p - 1, 0>>) <=> w.s[x] \in w.parts[i]
  BY <1>2, <1>3 DEF Meaning
<1> QED
  BY <1>2, <1>4, LitMeans

LEMMA AptoLiterals ==
  ASSUME NEW f \in Forms, NEW fs, fs = FillBvar(f), NEW w
  PROVE  AptoMeans(f, fs, w)
<1>1. ASSUME NEW p \in DOMAIN fs.apto
      PROVE  Meaning(fs, w, <<"apto", p - 1, 0>>) <=>
               w.s[fs.apto[p].key[1]] \in w.parts[fs.apto[p].atom]
  <2>1. p \in Nat /\ fs["apto"] = fs.apto
    <3>1. "apto" \in Tables /\ fs["apto"] = fs.apto
      BY DEF Tables
    <3> QED
      BY <3>1, TableKeys
  <2> QED
    BY <2>1 DEF Meaning
<1>2. ASSUME NEW x \in fs.used \ {0}, NEW i \in PredAtoms(f), NEW fd \in AptoFields(f, x, i),
             w.s[x] \in w.parts[i]
      PROVE  LitHolds(fs, w, Pos(GetBvar(fs, "apto", <<x, fd, i>>)))
  <2>1. x \in UsedVars(f) \ {0}
    BY FillTables
  <2>2. PICK p \in DOMAIN fs.apto : /\ GetBvar(fs, "apto", <<x, fd, i>>) = <<"apto", p - 1, 0>>
                                    /\ fs.apto[p].key[1] = x /\ fs.apto[p].atom = i
    BY <2>1, AptoFound
  <2>3. Meaning(fs, w, <<"apto", p - 1, 0>>)
    BY <1>1, <1>2, <2>2
  <2> QED
    BY <2>2, <2>3, LitMeans
<1>3. \A p \in DOMAIN fs.apto :
        w.s[fs.apto[p].key[1]] \notin w.parts[fs.apto[p].atom]
          => LitHolds(fs, w, Neg(<<"apto", p - 1, 0>>))
  BY <1>1, LitMeans
<1> QED
  BY <1>2, <1>3 DEF AptoMeans

-----------------------------------------------------------------------------
(* The lines hold in every world.                                          *)

LEMMA PartsDisjoint ==
  ASSUME NEW f \in Forms, NEW w \in Worlds(f), NEW i \in DOMAIN f.space, NEW j \in DOMAIN f.space,
         i # j, NEW v \in w.parts[i]
  PROVE  v \notin w.parts[j]
<1>1. w.parts \in [DOMAIN f.space -> SUBSET (Location \ {0})] /\ Disjoint(w.parts)
  BY WorldParts
<1>2. w.parts[i] \intersect w.parts[j] = {}
  BY <1>1 DEF Disjoint
<1> QED
  BY <1>2

(* noll2sat_pure *)
LEMMA PureHolds ==
  ASSUME OneRecord, NEW f \in Forms, NEW w \in Worlds(f), NEW fs, fs = FillBvar(f)
  PROVE  AllHold(fs, w, PureLines(f, fs))
<1> DEFINE Eq(x, y) == GetBvarEq(fs, x, y)
           pos(x, y) == <<Pos(Eq(x, y))>>
           neg(x, y) == <<Neg(Eq(x, y))>>
           three(x, y, k) == <<Neg(Eq(x, k)), Neg(Eq(y, k)), Pos(Eq(x, y))>>
           apart(x, y) == Rec[x] # 0 /\ Rec[y] # 0 /\ Rec[x] # Rec[y]
<1>1. EqMeans(fs, w)
  BY EqLiterals
<1>2. fs.used \subseteq Var
  BY FillTables, UsedTypes
<1>3. \A x, y \in fs.used : ~ apart(x, y)
  BY <1>2 DEF OneRecord
<1>4. ASSUME NEW line \in PureLines(f, fs)
      PROVE  \/ \E x \in fs.used : line = pos(x, x)
             \/ \E x, y \in fs.used : x < y /\ f.pure[<<x, y>>] = "eq" /\ line = pos(x, y)
             \/ \E x, y \in fs.used : x < y /\ f.pure[<<x, y>>] = "neq" /\ line = neg(x, y)
             \/ \E x, y, k \in fs.used : line = three(x, y, k)
  <2> DEFINE P == {c \in fs.used \X fs.used : c[1] < c[2]}
  <2>1. \A c \in P : c[1] \in fs.used /\ c[2] \in fs.used /\ c[1] < c[2] /\ c = <<c[1], c[2]>>
    OBVIOUS
  <2>2. \/ \E x \in fs.used : line = pos(x, x)
        \/ \E c \in P : f.pure[c] = "eq" /\ line = pos(c[1], c[2])
        \/ \E c \in P : (f.pure[c] = "neq" \/ apart(c[1], c[2])) /\ line = neg(c[1], c[2])
        \/ \E c \in P : \E k \in fs.used : line = three(c[1], c[2], k)
    <3> DEFINE refl == {<<Pos(Eq(x, x))>> : x \in fs.used}
               eqs  == {<<Pos(Eq(c[1], c[2]))>> : c \in {d \in P : f.pure[d] = "eq"}}
               neqs == {<<Neg(Eq(c[1], c[2]))>> : c \in {d \in P : f.pure[d] = "neq" \/ apart(d[1], d[2])}}
               trans == {<<Neg(Eq(c[1], k)), Neg(Eq(c[2], k)), Pos(Eq(c[1], c[2]))>> :
                           c \in P, k \in fs.used}
    <3>1. PureLines(f, fs) = refl \union eqs \union neqs \union trans
      BY DEF PureLines
    <3>2. line \in refl => \E x \in fs.used : line = pos(x, x)
      OBVIOUS
    <3>3. line \in eqs => \E c \in P : f.pure[c] = "eq" /\ line = pos(c[1], c[2])
      OBVIOUS
    <3>4. line \in neqs => \E c \in P : (f.pure[c] = "neq" \/ apart(c[1], c[2])) /\ line = neg(c[1], c[2])
      OBVIOUS
    <3>5. line \in trans => \E c \in P : \E k \in fs.used : line = three(c[1], c[2], k)
      OBVIOUS
    <3> HIDE DEF refl, eqs, neqs, trans, P, pos, neg, three, apart
    <3> QED
      BY <1>4, <3>1, <3>2, <3>3, <3>4, <3>5
  <2> HIDE DEF P, pos, neg, three, apart
  <2>3. CASE \E c \in P : f.pure[c] = "eq" /\ line = pos(c[1], c[2])
    <3>1. PICK c \in P : f.pure[c] = "eq" /\ line = pos(c[1], c[2])
      BY <2>3
    <3> QED
      BY <2>1, <3>1
  <2>4. CASE \E c \in P : (f.pure[c] = "neq" \/ apart(c[1], c[2])) /\ line = neg(c[1], c[2])
    <3>1. PICK c \in P : (f.pure[c] = "neq" \/ apart(c[1], c[2])) /\ line = neg(c[1], c[2])
      BY <2>4
    <3>2. f.pure[c] = "neq"
      BY <1>3, <2>1, <3>1
    <3> QED
      BY <2>1, <3>1, <3>2
  <2>5. CASE \E c \in P : \E k \in fs.used : line = three(c[1], c[2], k)
    <3>1. PICK c \in P : \E k \in fs.used : line = three(c[1], c[2], k)
      BY <2>5
    <3> QED
      BY <2>1, <3>1
  <2> QED
    BY <2>2, <2>3, <2>4, <2>5
<1>5. \A x, y \in fs.used : w.s[x] = w.s[y] => LineHolds(fs, w, pos(x, y))
  BY <1>1, ShortLinesHold DEF EqMeans
<1>6. \A x, y \in fs.used : w.s[x] # w.s[y] => LineHolds(fs, w, neg(x, y))
  BY <1>1, ShortLinesHold DEF EqMeans
<1>7. ASSUME NEW x \in fs.used, NEW y \in fs.used, NEW k \in fs.used
      PROVE  LineHolds(fs, w, three(x, y, k))
  <2>1. w.s[x] # w.s[k] \/ w.s[y] # w.s[k] \/ w.s[x] = w.s[y]
    OBVIOUS
  <2>2. \/ LitHolds(fs, w, Neg(Eq(x, k))) \/ LitHolds(fs, w, Neg(Eq(y, k)))
        \/ LitHolds(fs, w, Pos(Eq(x, y)))
    BY <1>1, <2>1 DEF EqMeans
  <2> QED
    BY <2>2, ShortLinesHold
<1>8. ASSUME NEW x \in fs.used, NEW y \in fs.used, x < y
      PROVE  /\ f.pure[<<x, y>>] = "eq" => w.s[x] = w.s[y]
             /\ f.pure[<<x, y>>] = "neq" => w.s[x] # w.s[y]
  <2>1. x \in Nat /\ y \in Nat
    BY <1>2, ZeroVar
  <2>2. <<x, y>> \in Cell
    BY <1>2, <1>8, <2>1 DEF Cell
  <2>3. Agrees(w.s, f.pure)
    BY WorldParts
  <2> QED
    BY <2>2, <2>3 DEF Agrees
<1> HIDE DEF pos, neg, three
<1>9. \A x \in fs.used : LineHolds(fs, w, pos(x, x))
  BY <1>5
<1>10. \A x, y \in fs.used : x < y /\ f.pure[<<x, y>>] = "eq" => LineHolds(fs, w, pos(x, y))
  BY <1>5, <1>8
<1>11. \A x, y \in fs.used : x < y /\ f.pure[<<x, y>>] = "neq" => LineHolds(fs, w, neg(x, y))
  BY <1>6, <1>8
<1>12. ASSUME NEW line \in PureLines(f, fs) PROVE LineHolds(fs, w, line)
  <2>1. CASE \E x \in fs.used : line = pos(x, x)
    BY <1>9, <2>1
  <2>2. CASE \E x, y \in fs.used : x < y /\ f.pure[<<x, y>>] = "eq" /\ line = pos(x, y)
    BY <1>10, <2>2
  <2>3. CASE \E x, y \in fs.used : x < y /\ f.pure[<<x, y>>] = "neq" /\ line = neg(x, y)
    BY <1>11, <2>3
  <2>4. CASE \E x, y, k \in fs.used : line = three(x, y, k)
    BY <1>7, <2>4
  <2> QED
    BY <1>4, <2>1, <2>2, <2>3, <2>4
<1> QED
  BY <1>12 DEF AllHold

(* noll2sat_space_aux *)
LEMMA AtomHold ==
  ASSUME Shaped, NEW f \in Forms, NEW w \in Worlds(f), EndsMeet(f, w), NEW fs, fs = FillBvar(f),
         NEW i \in DOMAIN f.space
  PROVE  AllHold(fs, w, AtomLines(f, fs, i))
<1>1. fs.used = UsedVars(f)
  BY FillTables
<1>2. CASE i \in PtoAtoms(f)
  <2>1. \A k \in DOMAIN f.space[i].fields : LineHolds(fs, w, <<Pos(GetBvarPto(fs, f, i, k))>>)
    BY <1>2, PtoLiterals, ShortLinesHold DEF PtoMeans
  <2> QED
    BY <1>2, <2>1 DEF AtomLines, AllHold, PtoAtoms
<1>3. CASE i \in PredAtoms(f)
  <2> DEFINE b == GetBvarPred(fs, f, i)
             xor(e) == {<<Pos(b), Pos(e)>>, <<Neg(b), Neg(e)>>}
             arg(k) == f.space[i].args[k]
  <2>1. ASSUME NEW x \in fs.used, NEW y \in fs.used, w.parts[i] = {} <=> w.s[x] = w.s[y]
        PROVE  AllHold(fs, w, xor(GetBvarEq(fs, x, y)))
    <3> DEFINE e == GetBvarEq(fs, x, y)
    <3>1. /\ w.s[x] = w.s[y] => LitHolds(fs, w, Pos(e))
          /\ w.s[x] # w.s[y] => LitHolds(fs, w, Neg(e))
      BY EqLiterals DEF EqMeans
    <3>2. /\ w.parts[i] # {} => LitHolds(fs, w, Pos(b))
          /\ w.parts[i] = {} => LitHolds(fs, w, Neg(b))
      BY <1>3, PredLiterals DEF PredMeans
    <3> HIDE DEF e, b
    <3>3. LineHolds(fs, w, <<Pos(b), Pos(e)>>)
      <4>1. LitHolds(fs, w, Pos(b)) \/ LitHolds(fs, w, Pos(e))
        BY <2>1, <3>1, <3>2
      <4> QED
        BY <4>1, ShortLinesHold
    <3>4. LineHolds(fs, w, <<Neg(b), Neg(e)>>)
      <4>1. LitHolds(fs, w, Neg(b)) \/ LitHolds(fs, w, Neg(e))
        BY <2>1, <3>1, <3>2
      <4> QED
        BY <4>1, ShortLinesHold
    <3>5. AllHold(fs, w, xor(e))
      BY <3>3, <3>4 DEF AllHold
    <3> QED
      BY <3>5 DEF e
  <2>2. f.space[i].kind # "pto"
    BY <1>3 DEF PredAtoms
  <2>3. AtomLines(f, fs, i) = IF TwoDir(f, i) THEN xor(GetBvarEq(fs, In(f, i), arg(4))) \union
                                                  xor(GetBvarEq(fs, Out(f, i), arg(3)))
                              ELSE xor(GetBvarEq(fs, In(f, i), Out(f, i)))
    BY <2>2, Zenon DEF AtomLines
  <2>4. In(f, i) \in fs.used /\ Out(f, i) \in fs.used
    BY <1>1, <1>3, EndTypes
  <2> HIDE DEF xor
  <2>5. CASE TwoDir(f, i)
    <3>1. arg(3) \in fs.used /\ arg(4) \in fs.used
      BY <1>1, <1>3, <2>5, PredTypes
    <3>2. /\ w.parts[i] = {} <=> w.s[In(f, i)] = w.s[arg(4)]
          /\ w.parts[i] = {} <=> w.s[Out(f, i)] = w.s[arg(3)]
      BY <1>3, <2>5, PredPart
    <3> HIDE DEF arg
    <3>3. AllHold(fs, w, xor(GetBvarEq(fs, In(f, i), arg(4))))
      BY <2>1, <2>4, <3>1, <3>2
    <3>4. AllHold(fs, w, xor(GetBvarEq(fs, Out(f, i), arg(3))))
      BY <2>1, <2>4, <3>1, <3>2
    <3> QED
      BY <2>3, <2>5, <3>3, <3>4 DEF AllHold
  <2>6. CASE ~ TwoDir(f, i)
    <3>1. w.parts[i] = {} <=> w.s[In(f, i)] = w.s[Out(f, i)]
      BY <1>3, <2>6, PredPart DEF EndsMeet
    <3>2. AllHold(fs, w, xor(GetBvarEq(fs, In(f, i), Out(f, i))))
      BY <2>1, <2>4, <3>1
    <3> QED
      BY <2>3, <2>6, <3>2
  <2> QED
    BY <2>5, <2>6
<1> QED
  BY <1>2, <1>3, FormTypes

(* noll2sat_space_sep *)
LEMMA SepHold ==
  ASSUME Shaped, NEW f \in Forms, NEW w \in Worlds(f), EndsMeet(f, w), NEW fs, fs = FillBvar(f),
         NEW i \in DOMAIN f.space, NEW j \in DOMAIN f.space, i # j
  PROVE  AllHold(fs, w, SepLines(f, fs, i, j))
<1> DEFINE Eq(x, y) == GetBvarEq(fs, x, y)
           empty(k) == Pos(Eq(In(f, k), Out(f, k)))
           ptoLs(p, l) ==
             {<<Neg(Eq(f.space[p].src, In(f, l))), empty(l)>>} \union
               IF TwoDir(f, l) THEN {<<Neg(Eq(f.space[p].src, Out(f, l))), Neg(GetBvarPred(fs, f, l))>>}
               ELSE {}
<1>1. fs.used = UsedVars(f)
  BY FillTables
<1>2. \A k \in PtoAtoms(f) : /\ f.space[k].src \in fs.used /\ f.space[k].kind = "pto"
                             /\ w.s[f.space[k].src] \in w.parts[k]
  <2>1. \A k \in PtoAtoms(f) : w.parts[k] = {w.s[f.space[k].src]}
    BY PtoPart
  <2> QED
    BY <1>1, <2>1, PtoTypes
<1>3. \A k \in PredAtoms(f) :
        /\ In(f, k) \in fs.used /\ Out(f, k) \in fs.used /\ f.space[k].kind = "ls"
        /\ w.parts[k] # {} => w.s[In(f, k)] \in w.parts[k]
        /\ TwoDir(f, k) /\ w.parts[k] # {} => w.s[Out(f, k)] \in w.parts[k]
        /\ w.parts[k] = {} => w.s[In(f, k)] = w.s[Out(f, k)]
  BY <1>1, EndTypes, PredPart DEF PredAtoms, EndsMeet
<1>4. \A x, y \in fs.used : /\ w.s[x] = w.s[y] => LitHolds(fs, w, Pos(Eq(x, y)))
                           /\ w.s[x] # w.s[y] => LitHolds(fs, w, Neg(Eq(x, y)))
  BY EqLiterals DEF EqMeans
<1>5. ASSUME NEW l \in PredAtoms(f), w.parts[l] = {} PROVE LitHolds(fs, w, empty(l))
  <2> DEFINE x == In(f, l)
             y == Out(f, l)
  <2>1. x \in fs.used /\ y \in fs.used /\ w.s[x] = w.s[y]
    BY <1>3, <1>5
  <2> HIDE DEF x, y
  <2>2. LitHolds(fs, w, Pos(GetBvarEq(fs, x, y)))
    BY <2>1, EqLiterals DEF EqMeans
  <2> QED
    BY <2>2 DEF x, y
<1>6. ASSUME NEW p \in PtoAtoms(f), NEW l \in PredAtoms(f), p # l PROVE AllHold(fs, w, ptoLs(p, l))
  <2> DEFINE first == <<Neg(Eq(f.space[p].src, In(f, l))), empty(l)>>
             second == <<Neg(Eq(f.space[p].src, Out(f, l))), Neg(GetBvarPred(fs, f, l))>>
  <2>1. \A line \in ptoLs(p, l) : line = first \/ (TwoDir(f, l) /\ line = second)
    OBVIOUS
  <2>2. w.s[f.space[p].src] \notin w.parts[l]
    <3>1. p \in DOMAIN f.space /\ l \in DOMAIN f.space
      BY PtoTypes, PredTypes
    <3> QED
      BY <1>2, <1>6, <3>1, PartsDisjoint
  <2>3. w.parts[l] # {} => LitHolds(fs, w, Neg(Eq(f.space[p].src, In(f, l))))
    BY <1>2, <1>3, <1>4, <2>2
  <2>4. TwoDir(f, l) /\ w.parts[l] # {} => LitHolds(fs, w, Neg(Eq(f.space[p].src, Out(f, l))))
    BY <1>2, <1>3, <1>4, <2>2
  <2>5. w.parts[l] = {} => LitHolds(fs, w, Neg(GetBvarPred(fs, f, l)))
    BY PredLiterals DEF PredMeans
  <2> HIDE DEF Eq, empty, ptoLs
  <2>6. LineHolds(fs, w, first)
    <3>1. LitHolds(fs, w, Neg(Eq(f.space[p].src, In(f, l)))) \/ LitHolds(fs, w, empty(l))
      BY <1>5, <2>3
    <3> QED
      BY <3>1, ShortLinesHold
  <2>7. TwoDir(f, l) => LineHolds(fs, w, second)
    <3>1. TwoDir(f, l) => \/ LitHolds(fs, w, Neg(Eq(f.space[p].src, Out(f, l))))
                          \/ LitHolds(fs, w, Neg(GetBvarPred(fs, f, l)))
      BY <2>4, <2>5
    <3> QED
      BY <3>1, ShortLinesHold
  <2> HIDE DEF first, second
  <2> QED
    BY <2>1, <2>6, <2>7 DEF AllHold
<1>7. CASE i \in PtoAtoms(f) /\ j \in PtoAtoms(f)
  <2>1. SepLines(f, fs, i, j) = {<<Neg(Eq(f.space[i].src, f.space[j].src))>>}
    BY <1>2, <1>7 DEF SepLines
  <2>2. w.s[f.space[i].src] # w.s[f.space[j].src]
    BY <1>2, <1>7, PartsDisjoint
  <2>3. LitHolds(fs, w, Neg(Eq(f.space[i].src, f.space[j].src)))
    BY <1>2, <1>4, <1>7, <2>2
  <2> HIDE DEF Eq
  <2> QED
    BY <2>1, <2>3, ShortLinesHold DEF AllHold
<1>8. CASE i \in PtoAtoms(f) /\ j \in PredAtoms(f)
  <2>1. SepLines(f, fs, i, j) = ptoLs(i, j)
    BY <1>2, <1>3, <1>8 DEF SepLines
  <2> QED
    BY <1>6, <1>8, <2>1
<1>9. CASE i \in PredAtoms(f) /\ j \in PtoAtoms(f)
  <2>1. SepLines(f, fs, i, j) = ptoLs(j, i)
    BY <1>2, <1>3, <1>9 DEF SepLines
  <2> QED
    BY <1>6, <1>9, <2>1
<1>10. CASE i \in PredAtoms(f) /\ j \in PredAtoms(f)
  <2> DEFINE In2(x) == <<Neg(GetBvarIn(fs, x, i)), Neg(GetBvarIn(fs, x, j))>>
             ends == <<Neg(Eq(In(f, i), In(f, j))), empty(i), empty(j)>>
  <2>1. SepLines(f, fs, i, j) = {In2(x) : x \in fs.used \ {0}} \union {ends}
    BY <1>3, <1>10 DEF SepLines
  <2>2. ASSUME NEW x \in fs.used \ {0} PROVE LineHolds(fs, w, In2(x))
    <3>1. w.s[x] \notin w.parts[i] \/ w.s[x] \notin w.parts[j]
      BY PartsDisjoint
    <3>2. LitHolds(fs, w, Neg(GetBvarIn(fs, x, i))) \/ LitHolds(fs, w, Neg(GetBvarIn(fs, x, j)))
      BY <1>10, <3>1, InLiterals DEF InMeans
    <3> QED
      BY <3>2, ShortLinesHold
  <2>3. LineHolds(fs, w, ends)
    <3>1. w.parts[i] # {} /\ w.parts[j] # {} => w.s[In(f, i)] # w.s[In(f, j)]
      BY <1>3, <1>10, PartsDisjoint
    <3>2. \/ LitHolds(fs, w, Neg(Eq(In(f, i), In(f, j))))
          \/ LitHolds(fs, w, empty(i)) \/ LitHolds(fs, w, empty(j))
      BY <1>3, <1>4, <1>5, <1>10, <3>1
    <3> HIDE DEF Eq, empty
    <3> QED
      BY <3>2, ShortLinesHold
  <2> HIDE DEF In2, ends
  <2> QED
    BY <2>1, <2>2, <2>3 DEF AllHold
<1> QED
  BY <1>7, <1>8, <1>9, <1>10, FormTypes

(* noll2sat_space *)
LEMMA SpaceHold ==
  ASSUME Shaped, NEW f \in Forms, NEW w \in Worlds(f), EndsMeet(f, w), NEW fs, fs = FillBvar(f)
  PROVE  AllHold(fs, w, SpaceLines(f, fs))
<1> DEFINE D == DOMAIN f.space
           atoms == UNION {AtomLines(f, fs, i) : i \in D}
           seps == UNION {SepLines(f, fs, c[1], c[2]) : c \in {d \in D \X D : d[1] < d[2]}}
<1>1. SpaceLines(f, fs) = atoms \union seps
  BY DEF SpaceLines
<1>2. \A line \in atoms : \E i \in D : line \in AtomLines(f, fs, i)
  OBVIOUS
<1>3. \A line \in seps : \E i, j \in D : i # j /\ line \in SepLines(f, fs, i, j)
  <2>1. \A i \in D : i \in Int
    BY FormTypes
  <2>2. \A c \in D \X D : c[1] \in D /\ c[2] \in D
    OBVIOUS
  <2>3. \A line \in seps : \E c \in D \X D : c[1] < c[2] /\ line \in SepLines(f, fs, c[1], c[2])
    OBVIOUS
  <2> HIDE DEF seps, D
  <2>4. \A c \in D \X D : c[1] < c[2] => c[1] # c[2]
    BY <2>1, <2>2
  <2> QED
    BY <2>2, <2>3, <2>4
<1> HIDE DEF atoms, seps
<1> QED
  BY <1>1, <1>2, <1>3, AtomHold, SepHold DEF AllHold

(* noll2sat_membership *)
LEMMA SourceHold ==
  ASSUME SourcesNotNil, Shaped, NEW f \in Forms, NEW w \in Worlds(f), NEW fs, fs = FillBvar(f)
  PROVE  AllHold(fs, w, SourceLines(f, fs))
<1>1. ASSUME NEW i \in PredAtoms(f)
      PROVE  LineHolds(fs, w, <<Neg(GetBvarPred(fs, f, i)), Pos(GetBvarIn(fs, In(f, i), i))>>)
  <2> DEFINE x == In(f, i)
  <2>1. x \in fs.used \ {0}
    BY FillTables, EndTypes DEF SourcesNotNil
  <2>2. w.parts[i] # {} => w.s[x] \in w.parts[i]
    BY PredPart
  <2> HIDE DEF x
  <2>3. w.parts[i] # {} => LitHolds(fs, w, Pos(GetBvarIn(fs, x, i)))
    BY <2>1, <2>2, InLiterals DEF InMeans
  <2>4. w.parts[i] = {} => LitHolds(fs, w, Neg(GetBvarPred(fs, f, i)))
    BY PredLiterals DEF PredMeans
  <2>5. LitHolds(fs, w, Neg(GetBvarPred(fs, f, i))) \/ LitHolds(fs, w, Pos(GetBvarIn(fs, x, i)))
    BY <2>3, <2>4
  <2>6. LineHolds(fs, w, <<Neg(GetBvarPred(fs, f, i)), Pos(GetBvarIn(fs, x, i))>>)
    BY <2>5, ShortLinesHold
  <2> QED
    BY <2>6 DEF x
<1> QED
  BY <1>1 DEF SourceLines, AllHold

(* noll2sat_membership *)
LEMMA MemberHold ==
  ASSUME NEW f \in Forms, NEW w \in Worlds(f), NEW fs, fs = FillBvar(f)
  PROVE  AllHold(fs, w, MemberLines(f, fs))
<1> SUFFICES ASSUME NEW line \in MemberLines(f, fs) PROVE LineHolds(fs, w, line)
  BY DEF AllHold
<1>1. PICK x \in fs.used \ {0}, y \in fs.used \ {0}, i \in PredAtoms(f) :
         \/ TypeInPred(f, Rec[x], i) = 0
         \/ line = <<Neg(GetBvarIn(fs, x, i)), Pos(GetBvarPred(fs, f, i))>>
         \/ line = <<Neg(GetBvarEq(fs, x, y)), Neg(GetBvarIn(fs, x, i)), Pos(GetBvarIn(fs, y, i))>>
         \/ AptoFields(f, x, i) # {} /\ line = FieldLine(f, fs, x, i)
  BY MemberCases
<1>2. x \in fs.used /\ y \in fs.used
  OBVIOUS
<1>3. /\ w.s[x] \in w.parts[i] => LitHolds(fs, w, Pos(GetBvarIn(fs, x, i)))
      /\ w.s[x] \notin w.parts[i] => LitHolds(fs, w, Neg(GetBvarIn(fs, x, i)))
      /\ w.s[y] \in w.parts[i] => LitHolds(fs, w, Pos(GetBvarIn(fs, y, i)))
  BY InLiterals DEF InMeans
<1>4. w.s[x] # w.s[y] => LitHolds(fs, w, Neg(GetBvarEq(fs, x, y)))
  BY <1>2, EqLiterals DEF EqMeans
<1>5. w.parts[i] # {} => LitHolds(fs, w, Pos(GetBvarPred(fs, f, i)))
  BY PredLiterals DEF PredMeans
<1>6. TypeInPred(f, Rec[x], i) # 0
  BY DEF TypeInPred
<1>7. CASE line = <<Neg(GetBvarIn(fs, x, i)), Pos(GetBvarPred(fs, f, i))>>
  <2>1. LitHolds(fs, w, Neg(GetBvarIn(fs, x, i))) \/ LitHolds(fs, w, Pos(GetBvarPred(fs, f, i)))
    BY <1>3, <1>5
  <2> QED
    BY <1>7, <2>1, ShortLinesHold
<1>8. CASE line = <<Neg(GetBvarEq(fs, x, y)), Neg(GetBvarIn(fs, x, i)), Pos(GetBvarIn(fs, y, i))>>
  <2>1. \/ LitHolds(fs, w, Neg(GetBvarEq(fs, x, y)))
        \/ LitHolds(fs, w, Neg(GetBvarIn(fs, x, i)))
        \/ LitHolds(fs, w, Pos(GetBvarIn(fs, y, i)))
    BY <1>3, <1>4
  <2> QED
    BY <1>8, <2>1, ShortLinesHold
<1>9. CASE AptoFields(f, x, i) # {} /\ line = FieldLine(f, fs, x, i)
  <2> DEFINE F == AptoFields(f, x, i)
             fields == Ascending(F)
             first == <<Neg(GetBvarIn(fs, x, i))>>
             rest == [k \in DOMAIN fields |-> Pos(GetBvar(fs, "apto", <<x, fields[k], i>>))]
  <2>1. IsFiniteSet(F) /\ F \subseteq Int /\ F # {}
    <3>1. F \subseteq Preds[f.space[i].pid].fields
      BY DEF AptoFields
    <3>2. F # {}
      BY <1>9
    <3> HIDE DEF F
    <3> QED
      BY <3>1, <3>2, PredTypes, FS_Subset
  <2>2. fields \in Seq(F) /\ \A e \in F : \E n \in DOMAIN fields : fields[n] = e
    BY <2>1, AscendingSorts
  <2>3. line = first \o rest
    BY <1>9 DEF FieldLine
  <2>4. \A fd \in F : w.s[x] \in w.parts[i] => LitHolds(fs, w, Pos(GetBvar(fs, "apto", <<x, fd, i>>)))
    BY AptoLiterals DEF AptoMeans
  <2> HIDE DEF F, fields
  <2>5. PICK n \in DOMAIN fields : fields[n] \in F
    <3>1. PICK e \in F : TRUE
      BY <2>1
    <3>2. PICK n \in DOMAIN fields : fields[n] = e
      BY <2>2
    <3> QED
      BY <3>2
  <2>6. Len(fields) \in Nat /\ DOMAIN fields = 1 .. Len(fields)
    BY <2>2
  <2>7. rest \in Seq({rest[k] : k \in DOMAIN fields})
    <3>1. \A k \in DOMAIN fields : rest[k] \in {rest[m] : m \in DOMAIN fields}
      OBVIOUS
    <3>2. rest \in [1 .. Len(fields) -> {rest[k] : k \in DOMAIN fields}]
      BY <2>6
    <3> HIDE DEF rest
    <3> QED
      BY <2>6, <3>2
  <2>8. w.s[x] \in w.parts[i] => LineHolds(fs, w, rest)
    <3>1. n \in DOMAIN rest /\ rest[n] = Pos(GetBvar(fs, "apto", <<x, fields[n], i>>))
      BY <2>5
    <3> HIDE DEF rest
    <3> QED
      BY <2>4, <2>5, <3>1 DEF LineHolds
  <2>9. w.s[x] \notin w.parts[i] => LineHolds(fs, w, first)
    BY <1>3, ShortLinesHold
  <2>10. first \in Seq({Neg(GetBvarIn(fs, x, i))})
    OBVIOUS
  <2> HIDE DEF first, rest
  <2> QED
    BY <2>3, <2>7, <2>8, <2>9, <2>10, LongLinesHold
<1> QED
  BY <1>1, <1>6, <1>7, <1>8, <1>9

(* noll2sat_share *)
LEMMA TermMeans ==
  ASSUME NEW f \in Forms, NEW w \in Worlds(f), NEW fs, fs = FillBvar(f),
         NEW a \in f.share, NEW t \in Range(a.terms)
  PROVE  /\ (IF t.kind = "lvar" THEN w.s[a.x] = w.s[t.var] ELSE w.s[a.x] \in w.parts[t.svar])
              => LitHolds(fs, w, Pos(TermBvar(fs, a.x, t)))
         /\ ~ (IF t.kind = "lvar" THEN w.s[a.x] = w.s[t.var] ELSE w.s[a.x] \in w.parts[t.svar])
              => LitHolds(fs, w, Neg(TermBvar(fs, a.x, t)))
<1> DEFINE x == a.x
<1>1. x \in fs.used \ {0} /\ x \in fs.used
  BY FillTables, ShareTypes
<1>2. CASE t.kind = "lvar"
  <2> DEFINE y == t.var
  <2>1. y \in fs.used
    BY <1>2, FillTables, ShareTypes
  <2>2. TermBvar(fs, a.x, t) = GetBvarEq(fs, x, y)
    BY <1>2 DEF TermBvar
  <2> HIDE DEF x, y
  <2>3. /\ w.s[x] = w.s[y] => LitHolds(fs, w, Pos(GetBvarEq(fs, x, y)))
        /\ w.s[x] # w.s[y] => LitHolds(fs, w, Neg(GetBvarEq(fs, x, y)))
    BY <1>1, <2>1, EqLiterals DEF EqMeans
  <2> QED
    BY <1>2, <2>2, <2>3 DEF x, y
<1>3. CASE t.kind # "lvar"
  <2> DEFINE i == t.svar
  <2>1. i \in PredAtoms(f)
    BY <1>3, ShareTypes
  <2>2. TermBvar(fs, a.x, t) = GetBvarIn(fs, x, i)
    BY <1>3 DEF TermBvar
  <2> HIDE DEF x, i
  <2>3. /\ w.s[x] \in w.parts[i] => LitHolds(fs, w, Pos(GetBvarIn(fs, x, i)))
        /\ w.s[x] \notin w.parts[i] => LitHolds(fs, w, Neg(GetBvarIn(fs, x, i)))
    BY <1>1, <2>1, InLiterals DEF InMeans
  <2> QED
    BY <1>3, <2>2, <2>3 DEF x, i
<1> QED
  BY <1>2, <1>3

LEMMA ShareHold ==
  ASSUME OneRecord, SourcesNotNil, NEW f \in Forms, NEW w \in Worlds(f), NEW fs, fs = FillBvar(f)
  PROVE  AllHold(fs, w, ShareLines(f, fs))
<1> SUFFICES ASSUME NEW line \in ShareLines(f, fs) PROVE LineHolds(fs, w, line)
  BY DEF AllHold
<1>1. PICK a \in f.share :
         \/ a.kind = "in" /\ line = ShareIn(f, fs, a.x, a.terms)
         \/ a.kind = "ni" /\ \E t \in Range(a.terms) : line = <<Neg(TermBvar(fs, a.x, t))>>
  BY ShareCases
<1>2. ShareHolds(w, a)
  BY WorldParts
<1>3. CASE a.kind = "in" /\ line = ShareIn(f, fs, a.x, a.terms)
  <2>1. PICK t \in Range(a.terms) :
           IF t.kind = "lvar" THEN w.s[a.x] = w.s[t.var] ELSE w.s[a.x] \in w.parts[t.svar]
    BY <1>2, <1>3 DEF ShareHolds
  <2>2. LitHolds(fs, w, Pos(TermBvar(fs, a.x, t)))
    BY <2>1, TermMeans
  <2>3. Useful(f, a.x, t)
    BY UsefulTerm
  <2>4. PICK n \in DOMAIN line : line[n] = Pos(TermBvar(fs, a.x, t))
    BY <1>3, <2>3, LookupsFound, ShareInLine
  <2> QED
    BY <2>2, <2>4 DEF LineHolds
<1>4. CASE a.kind = "ni" /\ \E t \in Range(a.terms) : line = <<Neg(TermBvar(fs, a.x, t))>>
  <2>1. PICK t \in Range(a.terms) : line = <<Neg(TermBvar(fs, a.x, t))>>
    BY <1>4
  <2>2. ~ (IF t.kind = "lvar" THEN w.s[a.x] = w.s[t.var] ELSE w.s[a.x] \in w.parts[t.svar])
    BY <1>2, <1>4 DEF ShareHolds
  <2>3. LitHolds(fs, w, Neg(TermBvar(fs, a.x, t)))
    BY <2>2, TermMeans
  <2> QED
    BY <2>1, <2>3, ShortLinesHold
<1> QED
  BY <1>1, <1>3, <1>4

(* Points-to atoms of different positions, and predicate atoms.            *)
LEMMA PtoPositions ==
  ASSUME NEW f \in Forms, NEW w \in Worlds(f), NEW fs, fs = FillBvar(f)
  PROVE  /\ \A p \in DOMAIN fs.pto : /\ fs.pto[p].atom \in PtoAtoms(f)
                                     /\ w.s[fs.pto[p].key[1]] \in w.parts[fs.pto[p].atom]
         /\ \A p, q \in DOMAIN fs.pto : p # q /\ fs.pto[p].key[2] = fs.pto[q].key[2]
              => fs.pto[p].atom # fs.pto[q].atom
         /\ \A p, q \in DOMAIN fs.pred : p # q => fs.pred[p].atom # fs.pred[q].atom
<1>1. ASSUME NEW p \in DOMAIN fs.pto
      PROVE  /\ fs.pto[p].atom \in PtoAtoms(f)
             /\ w.s[fs.pto[p].key[1]] \in w.parts[fs.pto[p].atom]
  <2>1. PICK i \in PtoAtoms(f) : \E k \in DOMAIN f.space[i].fields :
           fs.pto[p] = [key |-> KeyPto(f, i, k), atom |-> i, idx |-> k]
    BY TableKeys
  <2>2. fs.pto[p].atom = i /\ fs.pto[p].key[1] = f.space[i].src
    BY <2>1 DEF KeyPto
  <2> QED
    BY <2>2, PtoPart
<1>2. ASSUME NEW p \in DOMAIN fs.pto, NEW q \in DOMAIN fs.pto, p # q,
             fs.pto[p].key[2] = fs.pto[q].key[2], fs.pto[p].atom = fs.pto[q].atom
      PROVE  FALSE
  <2>1. PICK i \in PtoAtoms(f) : \E k \in DOMAIN f.space[i].fields :
           fs.pto[p] = [key |-> KeyPto(f, i, k), atom |-> i, idx |-> k]
    BY TableKeys
  <2>2. PICK k \in DOMAIN f.space[i].fields :
           fs.pto[p] = [key |-> KeyPto(f, i, k), atom |-> i, idx |-> k]
    BY <2>1
  <2>3. PICK j \in PtoAtoms(f) : \E l \in DOMAIN f.space[j].fields :
           fs.pto[q] = [key |-> KeyPto(f, j, l), atom |-> j, idx |-> l]
    BY TableKeys
  <2>4. PICK l \in DOMAIN f.space[j].fields :
           fs.pto[q] = [key |-> KeyPto(f, j, l), atom |-> j, idx |-> l]
    BY <2>3
  <2>5. i = j
    BY <1>2, <2>2, <2>4
  <2>6. f.space[i].fields[k][1] = f.space[i].fields[l][1]
    BY <1>2, <2>2, <2>4, <2>5 DEF KeyPto
  <2>7. k = l
    BY <2>4, <2>5, <2>6, PtoTypes
  <2>8. fs.pto[p] = fs.pto[q]
    BY <2>2, <2>4, <2>5, <2>7
  <2> QED
    BY <1>2, <2>8, FillTables DEF Table
<1>3. ASSUME NEW p \in DOMAIN fs.pred, NEW q \in DOMAIN fs.pred, p # q,
             fs.pred[p].atom = fs.pred[q].atom
      PROVE  FALSE
  <2>1. fs.pred[p] \in PredEntries(f) /\ fs.pred[q] \in PredEntries(f)
    BY TableTypes
  <2>2. fs.pred[p] = fs.pred[q]
    BY <1>3, <2>1 DEF PredEntries
  <2> QED
    BY <1>3, <2>2, FillTables DEF Table
<1> QED
  BY <1>1, <1>2, <1>3

(* noll2sat_det *)
LEMMA NilHold ==
  ASSUME NEW f \in Forms, NEW w \in Worlds(f), NEW fs, fs = FillBvar(f)
  PROVE  AllHold(fs, w, NilLines(fs))
<1>1. 0 \in fs.used /\ w.s[0] = 0
  BY FillTables, UsedTypes, WorldParts DEF Stack
<1>2. \A i \in DOMAIN f.space : 0 \notin w.parts[i]
  BY WorldParts
<1>3. ASSUME NEW p \in DOMAIN fs.apto
      PROVE  LineHolds(fs, w, <<Neg(GetBvarEq(fs, fs.apto[p].key[1], 0)), Neg(<<"apto", p - 1, 0>>)>>)
  <2> DEFINE x == fs.apto[p].key[1]
             i == fs.apto[p].atom
  <2>1. x \in fs.used /\ i \in DOMAIN f.space
    BY TableKeys, PredTypes
  <2> HIDE DEF x
  <2>2. w.s[x] # w.s[0] => LitHolds(fs, w, Neg(GetBvarEq(fs, x, 0)))
    BY <1>1, <2>1, EqLiterals DEF EqMeans
  <2>3. w.s[x] \notin w.parts[i] => LitHolds(fs, w, Neg(<<"apto", p - 1, 0>>))
    BY AptoLiterals DEF AptoMeans, x
  <2>4. LitHolds(fs, w, Neg(GetBvarEq(fs, x, 0))) \/ LitHolds(fs, w, Neg(<<"apto", p - 1, 0>>))
    BY <1>1, <1>2, <2>1, <2>2, <2>3
  <2>5. LineHolds(fs, w, <<Neg(GetBvarEq(fs, x, 0)), Neg(<<"apto", p - 1, 0>>)>>)
    BY <2>4, ShortLinesHold
  <2> QED
    BY <2>5 DEF x
<1>4. ASSUME NEW p \in DOMAIN fs.pto
      PROVE  LineHolds(fs, w, <<Neg(<<"pto", p - 1, 0>>), Neg(GetBvarEq(fs, fs.pto[p].key[1], 0))>>)
  <2> DEFINE x == fs.pto[p].key[1]
  <2>1. x \in fs.used /\ w.s[x] # 0
    BY <1>2, TableKeys, PtoPositions, PtoTypes
  <2> HIDE DEF x
  <2>2. LitHolds(fs, w, Neg(GetBvarEq(fs, x, 0)))
    BY <1>1, <2>1, EqLiterals DEF EqMeans
  <2>3. LineHolds(fs, w, <<Neg(<<"pto", p - 1, 0>>), Neg(GetBvarEq(fs, x, 0))>>)
    BY <2>2, ShortLinesHold
  <2> QED
    BY <2>3 DEF x
<1> QED
  BY <1>3, <1>4 DEF NilLines, AllHold

LEMMA PtoPtoHold ==
  ASSUME NEW f \in Forms, NEW w \in Worlds(f), NEW fs, fs = FillBvar(f)
  PROVE  AllHold(fs, w, PtoPtoLines(fs))
<1> DEFINE same(p, q) == Neg(GetBvarEq(fs, fs.pto[p].key[1], fs.pto[q].key[1]))
           pos(p) == Pos(<<"pto", p - 1, 0>>)
           neg(p) == Neg(<<"pto", p - 1, 0>>)
           P == {c \in (DOMAIN fs.pto) \X (DOMAIN fs.pto) :
                   c[1] < c[2] /\ fs.pto[c[1]].key[2] = fs.pto[c[2]].key[2]}
           one(p, q) == <<same(p, q), pos(p), pos(q)>>
           two(p, q) == <<same(p, q), neg(p), neg(q)>>
<1>1. \A line \in PtoPtoLines(fs) : \E c \in P : line = one(c[1], c[2]) \/ line = two(c[1], c[2])
  <2> DEFINE of(c) == {one(c[1], c[2]), two(c[1], c[2])}
  <2>1. PtoPtoLines(fs) = UNION {of(c) : c \in P}
    BY DEF PtoPtoLines
  <2>2. \A c \in P : \A line \in of(c) : line = one(c[1], c[2]) \/ line = two(c[1], c[2])
    OBVIOUS
  <2> HIDE DEF of, one, two, P
  <2> QED
    BY <2>1, <2>2
<1>2. \A p \in DOMAIN fs.pto : p \in Nat
  BY TableKeys DEF Tables
<1>3. \A c \in P : /\ c[1] \in DOMAIN fs.pto /\ c[2] \in DOMAIN fs.pto /\ c[1] # c[2]
                   /\ fs.pto[c[1]].key[2] = fs.pto[c[2]].key[2]
  BY <1>2
<1> HIDE DEF P
<1>4. ASSUME NEW c \in P PROVE LineHolds(fs, w, one(c[1], c[2]))
  <2>1. LitHolds(fs, w, pos(c[1]))
    BY <1>3, PtoLiterals DEF PtoMeans
  <2> HIDE DEF pos, same
  <2> QED
    BY <2>1, ShortLinesHold
<1>5. ASSUME NEW c \in P PROVE LineHolds(fs, w, two(c[1], c[2]))
  <2> DEFINE p == c[1]
             q == c[2]
             x == fs.pto[p].key[1]
             y == fs.pto[q].key[1]
  <2>1. p \in DOMAIN fs.pto /\ q \in DOMAIN fs.pto /\ fs.pto[p].atom # fs.pto[q].atom
    BY <1>3, PtoPositions
  <2> HIDE DEF p, q
  <2>2. x \in fs.used /\ y \in fs.used
    BY <2>1, TableKeys
  <2>3. /\ fs.pto[p].atom \in DOMAIN f.space /\ fs.pto[q].atom \in DOMAIN f.space
        /\ w.s[x] \in w.parts[fs.pto[p].atom] /\ w.s[y] \in w.parts[fs.pto[q].atom]
    BY <2>1, PtoPositions, PtoTypes
  <2>4. w.s[x] # w.s[y]
    BY <2>1, <2>3, PartsDisjoint
  <2> HIDE DEF x, y
  <2>5. LitHolds(fs, w, Neg(GetBvarEq(fs, x, y)))
    BY <2>2, <2>4, EqLiterals DEF EqMeans
  <2>6. LitHolds(fs, w, same(p, q))
    BY <2>5 DEF x, y
  <2> HIDE DEF same, neg
  <2> QED
    BY <2>6, ShortLinesHold DEF p, q
<1> HIDE DEF one, two
<1> QED
  BY <1>1, <1>4, <1>5 DEF AllHold

(* Two cells of different atoms are not equal. *)
LEMMA ApartLine ==
  ASSUME NEW f \in Forms, NEW w \in Worlds(f), NEW fs, fs = FillBvar(f),
         NEW x \in fs.used, NEW y \in fs.used, NEW i \in DOMAIN f.space, NEW j \in DOMAIN f.space, i # j
  PROVE  w.s[x] \in w.parts[i] /\ w.s[y] \in w.parts[j] => LitHolds(fs, w, Neg(GetBvarEq(fs, x, y)))
<1>1. w.s[x] \in w.parts[i] /\ w.s[y] \in w.parts[j] => w.s[x] # w.s[y]
  BY PartsDisjoint
<1> QED
  BY <1>1, EqLiterals DEF EqMeans

LEMMA AptoAptoHold ==
  ASSUME NEW f \in Forms, NEW w \in Worlds(f), NEW fs, fs = FillBvar(f)
  PROVE  AllHold(fs, w, AptoAptoLines(fs))
<1> DEFINE one(p, q) == <<Neg(GetBvarEq(fs, fs.apto[p].key[1], fs.apto[q].key[1])),
                          Neg(<<"apto", p - 1, 0>>), Neg(<<"apto", q - 1, 0>>)>>
           P == {c \in (DOMAIN fs.apto) \X (DOMAIN fs.apto) :
                  /\ c[1] < c[2]
                  /\ fs.apto[c[1]].key[2] = fs.apto[c[2]].key[2]
                  /\ fs.apto[c[1]].atom # fs.apto[c[2]].atom
                  /\ fs.apto[c[1]].key[1] # fs.apto[c[2]].key[1]}
<1>1. \A line \in AptoAptoLines(fs) : \E c \in P : line = one(c[1], c[2])
  BY DEF AptoAptoLines
<1>2. \A c \in P : /\ c[1] \in DOMAIN fs.apto /\ c[2] \in DOMAIN fs.apto
                   /\ fs.apto[c[1]].atom # fs.apto[c[2]].atom
  OBVIOUS
<1> HIDE DEF P
<1>3. ASSUME NEW p \in DOMAIN fs.apto, NEW q \in DOMAIN fs.apto, fs.apto[p].atom # fs.apto[q].atom
      PROVE  LineHolds(fs, w, one(p, q))
  <2> DEFINE x == fs.apto[p].key[1]
             y == fs.apto[q].key[1]
             i == fs.apto[p].atom
             j == fs.apto[q].atom
  <2>1. x \in fs.used /\ y \in fs.used /\ i \in DOMAIN f.space /\ j \in DOMAIN f.space
    BY TableKeys, PredTypes
  <2>2. /\ w.s[x] \notin w.parts[i] => LitHolds(fs, w, Neg(<<"apto", p - 1, 0>>))
        /\ w.s[y] \notin w.parts[j] => LitHolds(fs, w, Neg(<<"apto", q - 1, 0>>))
    BY AptoLiterals DEF AptoMeans
  <2>3. w.s[x] \in w.parts[i] /\ w.s[y] \in w.parts[j] => LitHolds(fs, w, Neg(GetBvarEq(fs, x, y)))
    BY <1>3, <2>1, ApartLine
  <2>4. \/ LitHolds(fs, w, Neg(GetBvarEq(fs, x, y)))
        \/ LitHolds(fs, w, Neg(<<"apto", p - 1, 0>>)) \/ LitHolds(fs, w, Neg(<<"apto", q - 1, 0>>))
    BY <2>2, <2>3
  <2> QED
    BY <2>4, ShortLinesHold
<1> HIDE DEF one
<1> QED
  BY <1>1, <1>2, <1>3 DEF AllHold

LEMMA PtoAptoHold ==
  ASSUME NEW f \in Forms, NEW w \in Worlds(f), NEW fs, fs = FillBvar(f)
  PROVE  AllHold(fs, w, PtoAptoLines(fs))
<1> DEFINE one(p, q) == <<Neg(GetBvarEq(fs, fs.pto[p].key[1], fs.apto[q].key[1])),
                          Neg(<<"pto", p - 1, 0>>), Neg(<<"apto", q - 1, 0>>)>>
           P == {c \in (DOMAIN fs.pto) \X (DOMAIN fs.apto) : fs.pto[c[1]].key[2] = fs.apto[c[2]].key[2]}
<1>1. \A line \in PtoAptoLines(fs) : \E c \in P : line = one(c[1], c[2])
  BY DEF PtoAptoLines
<1>2. \A c \in P : c[1] \in DOMAIN fs.pto /\ c[2] \in DOMAIN fs.apto
  OBVIOUS
<1> HIDE DEF P
<1>3. ASSUME NEW p \in DOMAIN fs.pto, NEW q \in DOMAIN fs.apto
      PROVE  LineHolds(fs, w, one(p, q))
  <2> DEFINE x == fs.pto[p].key[1]
             y == fs.apto[q].key[1]
             i == fs.pto[p].atom
             j == fs.apto[q].atom
  <2>1. /\ x \in fs.used /\ y \in fs.used /\ i \in DOMAIN f.space /\ j \in DOMAIN f.space /\ i # j
        /\ w.s[x] \in w.parts[i]
    <3>1. i \in PtoAtoms(f) /\ j \in PredAtoms(f) /\ w.s[x] \in w.parts[i]
      BY PtoPositions, TableKeys
    <3>2. i # j
      BY <3>1 DEF PtoAtoms, PredAtoms
    <3>3. x \in fs.used /\ y \in fs.used
      BY TableKeys
    <3> HIDE DEF i, j
    <3>4. i \in DOMAIN f.space /\ j \in DOMAIN f.space
      BY <3>1, PtoTypes, PredTypes
    <3> QED
      BY <3>1, <3>2, <3>3, <3>4
  <2>2. w.s[y] \notin w.parts[j] => LitHolds(fs, w, Neg(<<"apto", q - 1, 0>>))
    BY AptoLiterals DEF AptoMeans
  <2>3. w.s[y] \in w.parts[j] => LitHolds(fs, w, Neg(GetBvarEq(fs, x, y)))
    BY <2>1, ApartLine
  <2>4. LitHolds(fs, w, Neg(GetBvarEq(fs, x, y))) \/ LitHolds(fs, w, Neg(<<"apto", q - 1, 0>>))
    BY <2>2, <2>3
  <2> QED
    BY <2>4, ShortLinesHold
<1> HIDE DEF one
<1> QED
  BY <1>1, <1>2, <1>3 DEF AllHold

LEMMA PtoPredHold ==
  ASSUME OneRecord, NEW f \in Forms, NEW w \in Worlds(f), NEW fs, fs = FillBvar(f)
  PROVE  AllHold(fs, w, PtoPredLines(f, fs))
<1> SUFFICES ASSUME NEW line \in PtoPredLines(f, fs) PROVE LineHolds(fs, w, line)
  BY DEF AllHold
<1>1. PICK p \in DOMAIN fs.pto : \E q \in DOMAIN fs.pred : \E x \in fs.used :
        /\ Rec[fs.pto[p].key[1]] = Rec[x]
        /\ (line = PtoPredPos(fs, p, q, x) \/ line = PtoPredNeg(fs, p, q, x))
  BY PtoPredCases
<1>2. PICK q \in DOMAIN fs.pred : \E x \in fs.used :
        /\ Rec[fs.pto[p].key[1]] = Rec[x]
        /\ (line = PtoPredPos(fs, p, q, x) \/ line = PtoPredNeg(fs, p, q, x))
  BY <1>1
<1>3. PICK x \in fs.used :
        /\ Rec[fs.pto[p].key[1]] = Rec[x]
        /\ (line = PtoPredPos(fs, p, q, x) \/ line = PtoPredNeg(fs, p, q, x))
  BY <1>2
<1> DEFINE y == fs.pto[p].key[1]
           i == fs.pto[p].atom
           j == fs.pred[q].atom
           same == Neg(GetBvarEq(fs, y, x))
           member == Neg(GetBvarIn(fs, x, j))
           pos == <<Pos(<<"pto", p - 1, 0>>), Pos(<<"pred", q - 1, 0>>)>>
           neg == <<Neg(<<"pto", p - 1, 0>>), Neg(<<"pred", q - 1, 0>>)>>
<1>4. line = <<same, member>> \o pos \/ line = <<same, member>> \o neg
  BY <1>3 DEF PtoPredPos, PtoPredNeg, PtoPredIf
<1>5. /\ y \in fs.used /\ i \in DOMAIN f.space /\ j \in DOMAIN f.space /\ i # j /\ j \in PredAtoms(f)
      /\ w.s[y] \in w.parts[i]
  <2>1. i \in PtoAtoms(f) /\ j \in PredAtoms(f) /\ w.s[y] \in w.parts[i]
    BY PtoPositions, TableKeys
  <2>2. i # j
    BY <2>1 DEF PtoAtoms, PredAtoms
  <2>3. y \in fs.used
    BY TableKeys
  <2> HIDE DEF i, j
  <2>4. i \in DOMAIN f.space /\ j \in DOMAIN f.space
    BY <2>1, PtoTypes, PredTypes
  <2> QED
    BY <2>1, <2>2, <2>3, <2>4
<1>6. x # 0
  <2>1. w.s[y] # 0 /\ w.s[0] = 0 /\ y \in Var
    BY <1>5, WorldParts, FillTables, UsedTypes DEF Stack
  <2>2. Rec[y] # 0
    BY <2>1 DEF OneRecord
  <2> QED
    BY <1>3, <2>2 DEF OneRecord
<1>7. CASE line = <<same, member>> \o pos
  <2>1. LineHolds(fs, w, pos)
    <3>1. LitHolds(fs, w, Pos(<<"pto", p - 1, 0>>))
      BY PtoLiterals DEF PtoMeans
    <3> QED
      BY <3>1, ShortLinesHold
  <2>2. <<same, member>> \in Seq({same, member}) /\ pos \in Seq({pos[1], pos[2]})
    OBVIOUS
  <2> HIDE DEF same, member, pos
  <2> QED
    BY <1>7, <2>1, <2>2, LongLinesHold
<1>8. CASE line = <<same, member>> \o neg
  <2>1. LineHolds(fs, w, <<same, member>>)
    <3>1. w.s[x] \notin w.parts[j] => LitHolds(fs, w, member)
      BY <1>5, <1>6, InLiterals DEF InMeans
    <3>2. w.s[x] \in w.parts[j] => LitHolds(fs, w, same)
      BY <1>5, ApartLine
    <3> HIDE DEF same, member
    <3>3. LitHolds(fs, w, same) \/ LitHolds(fs, w, member)
      BY <3>1, <3>2
    <3> QED
      BY <3>3, ShortLinesHold
  <2>2. <<same, member>> \in Seq({same, member}) /\ neg \in Seq({neg[1], neg[2]})
    OBVIOUS
  <2> HIDE DEF same, member, neg
  <2> QED
    BY <1>8, <2>1, <2>2, LongLinesHold
<1> QED
  BY <1>4, <1>7, <1>8

LEMMA PredPredHold ==
  ASSUME NEW f \in Forms, NEW w \in Worlds(f), NEW fs, fs = FillBvar(f)
  PROVE  AllHold(fs, w, PredPredLines(f, fs))
<1>1. \A p \in DOMAIN fs.pred : p \in Nat
  BY TableKeys DEF Tables
<1>2. ASSUME NEW p \in DOMAIN fs.pred, NEW q \in DOMAIN fs.pred, p < q,
             NEW x \in fs.used \ {0}, NEW y \in fs.used \ {0}
      PROVE  LineHolds(fs, w, PredPredLine(fs, p, q, x, y))
  <2> DEFINE i == fs.pred[p].atom
             j == fs.pred[q].atom
             in1 == Neg(GetBvarIn(fs, x, i))
             in2 == Neg(GetBvarIn(fs, y, j))
             same == Neg(GetBvarEq(fs, x, y))
  <2>1. i \in PredAtoms(f) /\ j \in PredAtoms(f) /\ i # j
    <3>1. p # q
      BY <1>1, <1>2
    <3> QED
      BY <3>1, PtoPositions, TableKeys
  <2>2. PredPredLine(fs, p, q, x, y) = <<in1, in2, same, Neg(<<"pred", p - 1, 0>>), Neg(<<"pred", q - 1, 0>>)>>
    BY DEF PredPredLine
  <2> HIDE DEF i, j
  <2>3. i \in DOMAIN f.space /\ j \in DOMAIN f.space
    BY <2>1, PredTypes
  <2>4. /\ w.s[x] \notin w.parts[i] => LitHolds(fs, w, in1)
        /\ w.s[y] \notin w.parts[j] => LitHolds(fs, w, in2)
    BY <2>1, InLiterals DEF InMeans
  <2>5. w.s[x] \in w.parts[i] /\ w.s[y] \in w.parts[j] => LitHolds(fs, w, same)
    BY <2>1, <2>3, ApartLine
  <2> HIDE DEF in1, in2, same
  <2>6. LitHolds(fs, w, in1) \/ LitHolds(fs, w, in2) \/ LitHolds(fs, w, same)
    BY <2>4, <2>5
  <2>7. LineHolds(fs, w, <<in1, in2, same, Neg(<<"pred", p - 1, 0>>), Neg(<<"pred", q - 1, 0>>)>>)
    BY <2>6, FiveLiteralsHold
  <2> QED
    BY <2>2, <2>7
<1> QED
  BY <1>2, PredPredCases DEF AllHold

LEMMA DetHold ==
  ASSUME OneRecord, NEW f \in Forms, NEW w \in Worlds(f), NEW fs, fs = FillBvar(f)
  PROVE  AllHold(fs, w, DetLines(f, fs))
BY NilHold, PtoPtoHold, AptoAptoHold, PtoAptoHold, PtoPredHold, PredPredHold DEF DetLines, AllHold

(* Every list of lines noll2sat_pure, _space, _membership, _det and _share *)
(* write holds in every heap of the formula.                               *)
LEMMA LinesHold ==
  ASSUME OneRecord, SourcesNotNil, Shaped,
         NEW f \in Forms, NEW w \in Worlds(f), EndsMeet(f, w), NEW fs, fs = FillBvar(f),
         NEW lines \in AllLines(f, fs)
  PROVE  AllHold(fs, w, lines)
<1>1. AllHold(fs, w, MemberLines(f, fs) \union SourceLines(f, fs))
  BY MemberHold, SourceHold DEF AllHold
<1> QED
  BY <1>1, PureHolds, SpaceHold, DetHold, ShareHold DEF AllLines

(* No clause says more than the formula: every heap of a formula, with the *)
(* ends of the empty segments equal, satisfies all clauses noll2sat has    *)
(* written so far, however many variables and atoms the formula has. The   *)
(* variables have one record, no segment starts from nil and the formulas  *)
(* have the shape the parser builds: the first two are where the code asks *)
(* more than the logic does.                                               *)
THEOREM SatAdequate == OneRecord /\ SourcesNotNil /\ Shaped => (Spec => []Adequate)
<1> SUFFICES ASSUME OneRecord, SourcesNotNil, Shaped PROVE Spec => []Adequate
  OBVIOUS
<1>1. Init => Adequate
  BY DEF Init, Adequate
<1>2. SInv /\ Adequate /\ [Next]_vars => Adequate'
  <2> SUFFICES ASSUME SInv, Adequate, [Next]_vars PROVE Adequate'
    OBVIOUS
  <2>1. CASE UNCHANGED vars
    BY <2>1 DEF Adequate, vars, EndsMeet
  <2>2. CASE Fill
    BY <2>2 DEF Fill, Adequate, SInv
  <2>3. ASSUME pc \notin {"fill", "crash"}, NEW lines \in AllLines(form, fsat),
               NEW next \in {"space", "membership", "det", "share", "done"}, Write(lines, next)
        PROVE  Adequate'
    <3>1. form \in Forms /\ fsat = FillBvar(form)
      BY <2>3 DEF SInv
    <3>2. form' = form /\ fsat' = fsat
      BY <2>3 DEF Write
    <3>3. ASSUME NEW w \in Worlds(form), EndsMeet(form, w), NEW c \in clauses'
          PROVE  \E l \in c : l[1] = Meaning(fsat, w, l[2])
      <4>1. CASE c \in clauses
        BY <3>3, <4>1 DEF Adequate
      <4>2. CASE c \notin clauses
        <5>1. Proper(Bvars(fsat), lines)
          BY <2>3, <3>1, LinesNotEmpty
        <5>2. c \in clauses' \ clauses
          BY <4>2
        <5>3. PICK line \in lines : c = {line[k] : k \in DOMAIN line}
          BY <2>3, <5>1, <5>2, BvarsParts, WriteFound
        <5>4. PICK k \in DOMAIN line : LitHolds(fsat, w, line[k])
          BY <2>3, <3>1, <3>3, LinesHold DEF AllHold, LineHolds
        <5> QED
          BY <5>3, <5>4 DEF LitHolds
      <4> QED
        BY <4>1, <4>2
    <3>4. Adequate' = \A w \in {v \in Worlds(form) : EndsMeet(form, v)} :
                        \A c \in clauses' : \E l \in c : l[1] = Meaning(fsat, w, l[2])
      BY <3>2 DEF Adequate
    <3> QED
      BY <3>3, <3>4
  <2> QED
    BY <2>1, <2>2, <2>3, StepWrites
<1> QED
  BY <1>1, <1>2, SInvInductive, PTL DEF Spec

=============================================================================
