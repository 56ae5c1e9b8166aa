------------------------- MODULE NollContext_proofs -------------------------
(***************************************************************************)
(* Theorems about the parser's context, for any names and any bounds.  The *)
(* argument has three parts: the context's array is the scopes one after   *)
(* the other, so that a pop takes away just the innermost one; a lookup    *)
(* finds a variable of the name in it, and no variable is pushed between   *)
(* the reading of a term and the copy that is made for it, so that what a  *)
(* use denotes stays; and the arrays of formulas, of rules and of the      *)
(* context are different arrays, so that no push, pop or free reaches      *)
(* another owner's.                                                        *)
(***************************************************************************)
EXTENDS NollContext, NollInduction, SequenceTheorems, TLAPS

Array == {a \in [data : Seq(Decl), size : Nat, freed : BOOLEAN] : a.size <= Len(a.data)}

Rule == [vars : Nat, uses : SUBSET Use, own : Seq(Decl)]

Pred == [vars : Nat, fargs : Nat, formals : Seq(Decl), rules : Seq(Rule)]

Form == [lvars : Nat, psize : Nat, uses : SUBSET Use, unsat : BOOLEAN]

Types ==
  /\ heap \in Seq(Array) /\ env \in 1 .. Len(heap)
  /\ stack \in Seq(Nat) /\ Len(stack) \in {1, 2, 3}
  /\ scopes \in Seq(Seq(Decl)) /\ Len(scopes) = Len(stack)
  /\ funs \subseteq GlobalNames
  /\ parsing \in BOOLEAN /\ declares \in BOOLEAN
  /\ cmd \in {"top", "define", "assert", "exited"}
  /\ outer \subseteq Use /\ inner \subseteq Use
  /\ exists \in Seq(Rule) /\ preds \in Seq(Pred)
  /\ forms \in [Sign -> Form]
  /\ count \in [{"decl", "pos", "neg"} -> Nat]

(* Commands are still being read. *)
Running == parsing = FALSE /\ cmd # "exited"

(* Which scopes and terms are open in which command. *)
Control ==
  /\ declares = TRUE => \/ cmd = "define" /\ Len(stack) \in {2, 3}
                        \/ cmd = "assert" /\ Len(stack) = 2
  /\ parsing = TRUE => cmd \in {"top", "exited"}
  /\ Running =>
       /\ cmd = "top" => Len(stack) = 1 /\ exists = <<>> /\ outer = {}
       /\ cmd = "define" => Len(stack) \in {2, 3} /\ Len(scopes[1]) = 1
       /\ cmd = "define" /\ Len(stack) = 2 /\ declares = TRUE => exists = <<>> /\ outer = {}
       /\ declares = TRUE => inner = {}
       /\ cmd = "assert" => Len(stack) \in {1, 2}
       /\ cmd = "assert" /\ TopExists = FALSE => Len(stack) = 1 /\ exists = <<>>
       /\ inner # {} => \/ cmd = "define" /\ Len(stack) = 3
                        \/ cmd = "assert" /\ Len(stack) = 2
  /\ Len(scopes[1]) # 0 /\ scopes[1][1] = Nil

(* Where the i-th scope begins in the array. *)
Before(st, i) == IF i = 1 THEN 0 ELSE IF i = 2 THEN st[1]
                 ELSE IF i = 3 THEN st[1] + st[2] ELSE st[1] + st[2] + st[3]

(* The first places of dt are n scopes sc, of sizes st, one after the other. *)
Placed(dt, size, st, sc, n) ==
  /\ size = Before(st, n + 1)
  /\ \A i \in 1 .. n : \A j \in 1 .. st[i] : dt[Before(st, i) + j] = sc[i][j]

(* The array a is the scopes sc, whose sizes are st. *)
Aligned(a, st, sc) ==
  /\ \A i \in 1 .. Len(st) : st[i] = Len(sc[i])
  /\ Placed(a.data, a.size, st, sc, Len(st))

Context ==
  Running => /\ heap[env].freed = FALSE
             /\ Aligned(heap[env], stack, scopes)

(* The uses denote variables of the array a up to its n-th. *)
Places(a, n, uses) == \A u \in uses : Denotes(a, n, u)

(* The first scope that is not around all of a command. *)
Inside(c) == IF c = "define" THEN 3 ELSE 2

UsesOK ==
  Running => /\ Places(heap[env], Before(stack, Inside(cmd)), outer)
             /\ Places(heap[env], heap[env].size, inner)

(* Nobody else has the context's array, and formulas share none with rules. *)
Owned ==
  /\ \A s \in Sign : forms[s].lvars \in 0 .. Len(heap) /\ forms[s].lvars # env
  /\ forms["pos"].lvars = 0 \/ forms["pos"].lvars # forms["neg"].lvars
  /\ \A i \in 1 .. Len(exists) :
       /\ exists[i].vars \in 1 .. Len(heap) /\ exists[i].vars # env
       /\ \A s \in Sign : exists[i].vars # forms[s].lvars
  /\ \A i \in 1 .. Len(preds) : \A j \in 1 .. Len(preds[i].rules) :
       /\ preds[i].rules[j].vars \in 1 .. Len(heap) /\ preds[i].rules[j].vars # env
       /\ \A s \in Sign : preds[i].rules[j].vars # forms[s].lvars

(* A rule with its array, in a predicate with these formal parameters. *)
RuleOK(h, r, formals) ==
  /\ h[r.vars].freed = FALSE
  /\ Places(h[r.vars], h[r.vars].size, r.uses)
  /\ Content(h[r.vars]) = <<Nil>> \o formals \o r.own

ExistsOK ==
  (Running /\ cmd = "define") =>
     \A i \in 1 .. Len(exists) : RuleOK(heap, exists[i], scopes[2])

PredsOK ==
  \A i \in 1 .. Len(preds) :
     /\ \A j \in 1 .. Len(preds[i].rules) : RuleOK(heap, preds[i].rules[j], preds[i].formals)
     /\ Len(preds[i].rules) >= 1
     /\ preds[i].vars = preds[i].rules[1].vars
     /\ preds[i].fargs = Len(preds[i].formals)

(* What is known of formulas when no assertion is quantified, and none is  *)
(* added to an earlier one.                                                *)
FormsOK ==
  /\ \A s \in Sign : count[s] = 0 => forms[s] = FormNew
  /\ (MaxAsserts <= 1 /\ TopExists = FALSE) =>
       \A s \in Sign : forms[s].lvars # 0 =>
         /\ heap[forms[s].lvars].freed = FALSE
         /\ Places(heap[forms[s].lvars], heap[forms[s].lvars].size, forms[s].uses)
         /\ forms[s].psize \in {0, heap[forms[s].lvars].size}

CInv == /\ Types /\ Control /\ Context /\ UsesOK
        /\ Owned /\ ExistsOK /\ PredsOK /\ FormsOK

-----------------------------------------------------------------------------
(* noll_vector.h: what the operations do to the part of the array in use.  *)

LEMMA SmallNumber ==
  ASSUME NEW n \in {1, 2, 3} PROVE n \in 1 .. 3
OBVIOUS

LEMMA NilDecl == Nil \in Decl
BY DEF Nil, Decl

LEMMA ArrayFields ==
  ASSUME NEW a \in Array
  PROVE  /\ a.data \in Seq(Decl) /\ a.size \in Nat /\ a.freed \in BOOLEAN
         /\ a.size <= Len(a.data) /\ Len(a.data) \in Nat
         /\ \A k \in 1 .. a.size : a.data[k] \in Decl
BY LenProperties, ElementOfSeq DEF Array

LEMMA PushedArray ==
  ASSUME NEW a \in Array, NEW d \in Decl
  PROVE  /\ Pushed(a, d) \in Array
         /\ Pushed(a, d).size = a.size + 1
         /\ Pushed(a, d).freed = a.freed
         /\ Pushed(a, d).data[a.size + 1] = d
         /\ \A k \in 1 .. a.size : Pushed(a, d).data[k] = a.data[k]
<1> DEFINE D == IF a.size < Len(a.data) THEN [a.data EXCEPT ![a.size + 1] = d]
                ELSE Append(a.data, d)
<1>1. a.data \in Seq(Decl) /\ a.size \in Nat /\ a.size <= Len(a.data) /\ Len(a.data) \in Nat
  BY ArrayFields
<1>2. Pushed(a, d) = [a EXCEPT !.data = D, !.size = a.size + 1]
  BY DEF Pushed
<1>3. /\ D \in Seq(Decl) /\ a.size + 1 <= Len(D) /\ D[a.size + 1] = d
      /\ \A k \in 1 .. a.size : D[k] = a.data[k]
  <2>1. CASE a.size < Len(a.data)
    <3>1. a.size + 1 \in 1 .. Len(a.data)
      BY <1>1, <2>1
    <3>2. D = [a.data EXCEPT ![a.size + 1] = d]
      BY <2>1
    <3>3. /\ D \in Seq(Decl) /\ Len(D) = Len(a.data)
          /\ \A j \in 1 .. Len(a.data) : D[j] = IF j = a.size + 1 THEN d ELSE a.data[j]
      BY <1>1, <3>1, <3>2, ExceptSeq
    <3> HIDE DEF D
    <3> QED
      BY <1>1, <3>1, <3>3
  <2>2. CASE ~(a.size < Len(a.data))
    <3>1. D = Append(a.data, d) /\ a.size = Len(a.data)
      BY <1>1, <2>2
    <3> HIDE DEF D
    <3> QED
      BY <1>1, <3>1, AppendProperties
  <2> QED
    BY <2>1, <2>2
<1> HIDE DEF D
<1>4. /\ Pushed(a, d).data = D /\ Pushed(a, d).size = a.size + 1
      /\ Pushed(a, d).freed = a.freed
      /\ Pushed(a, d) \in [data : Seq(Decl), size : Nat, freed : BOOLEAN]
  <2>1. a \in [data : Seq(Decl), size : Nat, freed : BOOLEAN]
    BY DEF Array
  <2>2. /\ Pushed(a, d).data = D /\ Pushed(a, d).size = a.size + 1
        /\ Pushed(a, d).freed = a.freed
    BY <1>2, <2>1
  <2>3. a.size + 1 \in Nat
    BY <1>1
  <2>4. Pushed(a, d) \in [data : Seq(Decl), size : Nat, freed : BOOLEAN]
    BY <1>2, <1>3, <2>1, <2>3
  <2> QED
    BY <2>2, <2>4
<1>5. Pushed(a, d) \in Array
  BY <1>3, <1>4 DEF Array
<1> QED
  BY <1>3, <1>4, <1>5

LEMMA PoppedArray ==
  ASSUME NEW a \in Array, NEW n \in Nat, n <= a.size
  PROVE  /\ Popped(a, n) \in Array
         /\ Popped(a, n).size = a.size - n
         /\ Popped(a, n).freed = a.freed
         /\ Popped(a, n).data = a.data
BY ArrayFields DEF Popped, Array

LEMMA ContentSeq ==
  ASSUME NEW a \in Array
  PROVE  /\ Content(a) \in Seq(Decl)
         /\ Len(Content(a)) = a.size
         /\ \A k \in 1 .. a.size : Content(a)[k] = a.data[k]
<1>1. a.data \in Seq(Decl) /\ a.size \in Nat /\ \A k \in 1 .. a.size : a.data[k] \in Decl
  BY ArrayFields
<1>2. /\ SubSeq(a.data, 1, a.size) \in Seq(Decl)
      /\ Len(SubSeq(a.data, 1, a.size)) = IF 1 <= a.size THEN a.size - 1 + 1 ELSE 0
      /\ \A k \in 1 .. a.size - 1 + 1 : SubSeq(a.data, 1, a.size)[k] = a.data[1 + k - 1]
  BY <1>1, SubSeqProperties, 1 \in Int, a.size \in Int
<1> QED
  BY <1>1, <1>2 DEF Content

LEMMA NewArray ==
  ASSUME NEW s \in Seq(Decl)
  PROVE  /\ New(s) \in Array
         /\ New(s).data = s /\ New(s).size = Len(s) /\ New(s).freed = FALSE
BY LenProperties DEF New, Array

-----------------------------------------------------------------------------
(* The scopes in the array.                                                *)

(* Where scopes begin and end. *)
LEMMA BeforeNext ==
  ASSUME NEW st, NEW n \in 1 .. 3, \A i \in 1 .. n : st[i] \in Nat
  PROVE  /\ \A i \in 1 .. n + 1 : Before(st, i) \in Nat
         /\ \A i \in 1 .. n : Before(st, i + 1) = Before(st, i) + st[i]
<1>1. \A i \in 1 .. n : Before(st, i + 1) = Before(st, i) + st[i]
  <2> TAKE i \in 1 .. n
  <2>1. CASE i = 1
    BY <2>1 DEF Before
  <2>2. CASE i = 2
    BY <2>2 DEF Before
  <2>3. CASE i = 3
    BY <2>3 DEF Before
  <2> QED
    BY <2>1, <2>2, <2>3
<1>2. Before(st, 1) = 0
  BY DEF Before
<1> HIDE DEF Before
<1>3. /\ Before(st, 2) \in Nat
      /\ n >= 2 => Before(st, 3) \in Nat
      /\ n >= 3 => Before(st, 4) \in Nat
  <2>1. Before(st, 1 + 1) = Before(st, 1) + st[1] /\ st[1] \in Nat
    BY <1>1
  <2>2. n >= 2 => Before(st, 2 + 1) = Before(st, 2) + st[2] /\ st[2] \in Nat
    BY <1>1
  <2>3. n >= 3 => Before(st, 3 + 1) = Before(st, 3) + st[3] /\ st[3] \in Nat
    BY <1>1
  <2> QED
    BY <1>2, <2>1, <2>2, <2>3
<1>4. \A i \in 1 .. n + 1 : Before(st, i) \in Nat
  <2> TAKE i \in 1 .. n + 1
  <2>1. i = 1 \/ i = 2 \/ (i = 3 /\ n >= 2) \/ (i = 4 /\ n >= 3)
    OBVIOUS
  <2> QED
    BY <1>2, <1>3, <2>1
<1> QED
  BY <1>1, <1>4

LEMMA BeforeWithin ==
  ASSUME NEW st, NEW n \in 1 .. 3, \A i \in 1 .. n : st[i] \in Nat,
         NEW i \in 1 .. n
  PROVE  Before(st, i) + st[i] <= Before(st, n + 1)
<1>1. /\ Before(st, 1) \in Nat /\ Before(st, 2) \in Nat
      /\ Before(st, 2) = Before(st, 1) + st[1] /\ st[1] \in Nat
  <2>1. Before(st, 1 + 1) = Before(st, 1) + st[1] /\ st[1] \in Nat /\ Before(st, 1) \in Nat
    BY BeforeNext
  <2> QED
    BY <2>1
<1>2. n >= 2 => /\ Before(st, 3) \in Nat /\ st[2] \in Nat
                /\ Before(st, 3) = Before(st, 2) + st[2]
  <2>1. n >= 2 => Before(st, 2 + 1) = Before(st, 2) + st[2] /\ st[2] \in Nat /\ Before(st, 3) \in Nat
    BY BeforeNext
  <2> QED
    BY <2>1
<1>3. n >= 3 => /\ Before(st, 4) \in Nat /\ st[3] \in Nat
                /\ Before(st, 4) = Before(st, 3) + st[3]
  <2>1. n >= 3 => Before(st, 3 + 1) = Before(st, 3) + st[3] /\ st[3] \in Nat /\ Before(st, 4) \in Nat
    BY BeforeNext
  <2> QED
    BY <2>1
<1>4. CASE n = 1
  BY <1>1, <1>4
<1>5. CASE n = 2
  BY <1>1, <1>2, <1>5
<1>6. CASE n = 3
  <2>1. i = 1 \/ i = 2 \/ i = 3
    BY <1>6
  <2> QED
    BY <1>1, <1>2, <1>3, <1>6, <2>1
<1> QED
  BY <1>4, <1>5, <1>6

LEMMA BeforeSame ==
  ASSUME NEW st, NEW t, NEW n \in 1 .. 4, \A i \in 1 .. n - 1 : t[i] = st[i]
  PROVE  \A i \in 1 .. n : Before(t, i) = Before(st, i)
<1> TAKE i \in 1 .. n
<1>1. i \in 1 .. 4
  OBVIOUS
<1>2. CASE i = 1
  BY <1>2 DEF Before
<1>3. CASE i = 2
  <2>1. t[1] = st[1]
    BY <1>3
  <2> QED
    BY <1>3, <2>1 DEF Before
<1>4. CASE i = 3
  <2>1. t[1] = st[1] /\ t[2] = st[2]
    BY <1>4
  <2> QED
    BY <1>4, <2>1 DEF Before
<1>5. CASE i = 4
  <2>1. t[1] = st[1] /\ t[2] = st[2] /\ t[3] = st[3]
    BY <1>5
  <2> QED
    BY <1>5, <2>1 DEF Before
<1> QED
  BY <1>1, <1>2, <1>3, <1>4, <1>5

(* Every place of the array belongs to a scope. *)
LEMMA BeforeCovers ==
  ASSUME NEW st, NEW n \in 1 .. 3, \A i \in 1 .. n : st[i] \in Nat,
         NEW k \in 1 .. Before(st, n + 1)
  PROVE  \E i \in 1 .. n : \E j \in 1 .. st[i] : k = Before(st, i) + j
<1>1. /\ \A i \in 1 .. n + 1 : Before(st, i) \in Nat
      /\ \A i \in 1 .. n : Before(st, i + 1) = Before(st, i) + st[i]
  BY BeforeNext
<1>2. Before(st, 1) = 0
  BY DEF Before
<1>3. PICK i \in 1 .. n : Before(st, i) < k /\ k <= Before(st, i + 1)
  <2>1. CASE k <= Before(st, 2)
    BY <1>1, <1>2, <2>1
  <2>2. CASE ~(k <= Before(st, 2)) /\ n = 2
    BY <1>1, <1>2, <2>2
  <2>3. CASE ~(k <= Before(st, 2)) /\ n = 3
    BY <1>1, <1>2, <2>3
  <2> QED
    BY <2>1, <2>2, <2>3
<1>4. k - Before(st, i) \in 1 .. st[i]
  BY <1>1, <1>3
<1>5. k = Before(st, i) + (k - Before(st, i))
  BY <1>1
<1> QED
  BY <1>4, <1>5

(* A use of a variable finds one of its name. *)
LEMMA LookupFinds ==
  ASSUME NEW a \in Array, NEW k \in 1 .. a.size
  PROVE  /\ Lookup(a, a.data[k].name) \in 1 .. a.size
         /\ a.data[Lookup(a, a.data[k].name)].name = a.data[k].name
<1>1. a.size \in Nat
  BY ArrayFields
<1> DEFINE P(i) == /\ a.data[i].name = a.data[k].name
                   /\ \A j \in 1 .. i - 1 : a.data[j].name # a.data[k].name
<1> DEFINE S == {i \in 1 .. a.size : a.data[i].name = a.data[k].name}
<1>2. PICK m \in S : \A i \in S : ~ (i < m)
  <2>1. S \subseteq Nat /\ k \in S
    OBVIOUS
  <2> HIDE DEF S
  <2> QED
    BY <2>1, Least
<1>3. m \in 1 .. a.size /\ P(m)
  <2>1. m \in 1 .. a.size /\ a.data[m].name = a.data[k].name
    OBVIOUS
  <2>2. ASSUME NEW j \in 1 .. m - 1
        PROVE  a.data[j].name # a.data[k].name
    <3>1. j \in 1 .. a.size /\ j < m
      BY <1>1, <2>1
    <3> QED
      BY <1>2, <3>1
  <2> QED
    BY <2>1, <2>2
<1>4. Lookup(a, a.data[k].name) = CHOOSE i \in 1 .. a.size : P(i)
  BY DEF Lookup
<1>5. \A i : P(i) => a.data[i].name = a.data[k].name
  OBVIOUS
<1> HIDE DEF P
<1> QED
  BY <1>3, <1>4, <1>5

(* D is dt with d in the next place. *)
Longer(D, dt, size, d) == D[size + 1] = d /\ \A k \in 1 .. size : D[k] = dt[k]

(* The n-th scope gets d; a scope with d is opened after n scopes. *)
ScopeGrows(T, C, st, sc, d, n) ==
  /\ \A i \in 1 .. n : st[i] \in Nat
  /\ \A i \in 1 .. n - 1 : T[i] = st[i] /\ C[i] = sc[i]
  /\ T[n] = st[n] + 1
  /\ \A j \in 1 .. st[n] : C[n][j] = sc[n][j]
  /\ C[n][st[n] + 1] = d

ScopeOpens(T, C, st, sc, d, n) ==
  /\ \A i \in 1 .. n : st[i] \in Nat /\ T[i] = st[i] /\ C[i] = sc[i]
  /\ T[n + 1] = 1 /\ C[n + 1] = <<d>>

LEMMA PlacesPush ==
  ASSUME NEW st, NEW T, NEW sc, NEW C, NEW dt, NEW D, NEW d, NEW n \in 1 .. 3, NEW size,
         Placed(dt, size, st, sc, n), Longer(D, dt, size, d), ScopeGrows(T, C, st, sc, d, n)
  PROVE  Placed(D, size + 1, T, C, n)
<1>0. /\ \A i \in 1 .. n : st[i] \in Nat
      /\ \A i \in 1 .. n - 1 : T[i] = st[i] /\ C[i] = sc[i]
      /\ T[n] = st[n] + 1
      /\ \A j \in 1 .. st[n] : C[n][j] = sc[n][j]
      /\ C[n][st[n] + 1] = d
      /\ size = Before(st, n + 1)
      /\ D[size + 1] = d
      /\ \A k \in 1 .. size : D[k] = dt[k]
      /\ \A i \in 1 .. n : \A j \in 1 .. st[i] : dt[Before(st, i) + j] = sc[i][j]
  BY DEF Placed, Longer, ScopeGrows
<1>1. \A i \in 1 .. n : T[i] \in Nat
  BY <1>0
<1>2. \A i \in 1 .. n : Before(T, i) = Before(st, i)
  <2>1. \A i \in 1 .. n - 1 : T[i] = st[i]
    BY <1>0
  <2> QED
    BY <2>1, BeforeSame
<1>3. /\ \A i \in 1 .. n + 1 : Before(st, i) \in Nat
      /\ Before(st, n + 1) = Before(st, n) + st[n]
  BY <1>0, BeforeNext
<1>4. Before(T, n + 1) = Before(T, n) + T[n]
  BY <1>1, BeforeNext
<1>5. size + 1 = Before(T, n + 1)
  BY <1>0, <1>2, <1>3, <1>4
<1>6. ASSUME NEW i \in 1 .. n, NEW j \in 1 .. T[i]
      PROVE  D[Before(T, i) + j] = C[i][j]
  <2>1. CASE j \in 1 .. st[i]
    <3>1. Before(st, i) + st[i] <= size /\ Before(st, i) \in Nat
      <4>1. \A l \in 1 .. n : st[l] \in Nat
        BY <1>0
      <4>2. Before(st, i) + st[i] <= Before(st, n + 1)
        BY <4>1, BeforeWithin
      <4> QED
        BY <1>0, <1>3, <4>2
    <3>2. Before(st, i) + j \in 1 .. size
      BY <1>0, <1>3, <2>1, <3>1
    <3>3. C[i][j] = sc[i][j]
      BY <1>0, <2>1
    <3> QED
      BY <1>0, <1>2, <2>1, <3>2, <3>3
  <2>2. CASE ~(j \in 1 .. st[i])
    <3>1. i = n /\ j = st[n] + 1
      BY <1>0, <2>2
    <3>2. Before(T, i) + j = size + 1
      BY <1>0, <1>2, <1>3, <3>1
    <3> QED
      BY <1>0, <3>1, <3>2
  <2> QED
    BY <2>1, <2>2
<1> QED
  BY <1>5, <1>6 DEF Placed

LEMMA PlacesOpen ==
  ASSUME NEW st, NEW T, NEW sc, NEW C, NEW dt, NEW D, NEW d, NEW n \in 1 .. 2, NEW size,
         Placed(dt, size, st, sc, n), Longer(D, dt, size, d), ScopeOpens(T, C, st, sc, d, n)
  PROVE  Placed(D, size + 1, T, C, n + 1)
<1>0. /\ \A i \in 1 .. n : st[i] \in Nat
      /\ \A i \in 1 .. n : T[i] = st[i] /\ C[i] = sc[i]
      /\ T[n + 1] = 1 /\ C[n + 1] = <<d>>
      /\ size = Before(st, n + 1)
      /\ D[size + 1] = d
      /\ \A k \in 1 .. size : D[k] = dt[k]
      /\ \A i \in 1 .. n : \A j \in 1 .. st[i] : dt[Before(st, i) + j] = sc[i][j]
  BY DEF Placed, Longer, ScopeOpens
<1>1. \A i \in 1 .. n + 1 : T[i] \in Nat
  BY <1>0
<1>2. \A i \in 1 .. n + 1 : Before(T, i) = Before(st, i)
  <2>1. \A i \in 1 .. (n + 1) - 1 : T[i] = st[i]
    BY <1>0
  <2> QED
    BY <2>1, BeforeSame
<1>3. \A i \in 1 .. n + 1 : Before(st, i) \in Nat
  BY <1>0, BeforeNext
<1>4. Before(T, n + 2) = Before(T, n + 1) + T[n + 1]
  <2>1. n + 1 \in 1 .. 3 /\ (n + 1) + 1 = n + 2
    OBVIOUS
  <2>2. Before(T, (n + 1) + 1) = Before(T, n + 1) + T[n + 1]
    BY <1>1, <2>1, BeforeNext
  <2> QED
    BY <2>1, <2>2
<1>5. size + 1 = Before(T, n + 2)
  BY <1>0, <1>2, <1>3, <1>4
<1>6. ASSUME NEW i \in 1 .. n + 1, NEW j \in 1 .. T[i]
      PROVE  D[Before(T, i) + j] = C[i][j]
  <2>1. CASE i \in 1 .. n
    <3>1. Before(st, i) + st[i] <= size /\ Before(st, i) \in Nat
      BY <1>0, <1>3, <2>1, BeforeWithin
    <3>2. j \in 1 .. st[i] /\ Before(st, i) + j \in 1 .. size
      BY <1>0, <1>3, <2>1, <3>1
    <3> QED
      BY <1>0, <1>2, <2>1, <3>2
  <2>2. CASE i = n + 1
    <3>1. j = 1 /\ C[i][j] = d
      BY <1>0, <2>2
    <3>2. Before(T, i) + j = size + 1
      BY <1>0, <1>2, <1>3, <2>2, <3>1
    <3> QED
      BY <1>0, <3>1, <3>2
  <2> QED
    BY <2>1, <2>2
<1> QED
  <2>1. (n + 1) + 1 = n + 2
    OBVIOUS
  <2> QED
    BY <1>5, <1>6, <2>1 DEF Placed

LEMMA PlacesPop ==
  ASSUME NEW st, NEW T, NEW n \in 1 .. 3,
         \A i \in 1 .. n : st[i] \in Nat,
         \A i \in 1 .. n - 1 : T[i] = st[i]
  PROVE  /\ Before(T, n) = Before(st, n + 1) - st[n]
         /\ st[n] <= Before(st, n + 1) /\ Before(st, n + 1) \in Nat
         /\ \A i \in 1 .. n : Before(T, i) = Before(st, i)
<1>1. \A i \in 1 .. n : Before(T, i) = Before(st, i)
  BY BeforeSame
<1>2. /\ \A i \in 1 .. n + 1 : Before(st, i) \in Nat
      /\ \A i \in 1 .. n : Before(st, i + 1) = Before(st, i) + st[i]
  BY BeforeNext
<1>3. /\ Before(st, n + 1) = Before(st, n) + st[n]
      /\ Before(st, n) \in Nat /\ Before(st, n + 1) \in Nat /\ st[n] \in Nat
  BY <1>2
<1> QED
  BY <1>1, <1>3

(* A sequence without its last element. *)
LEMMA FrontOf ==
  ASSUME NEW S, NEW s \in Seq(S), NEW n \in Nat \ {0}, Len(s) = n
  PROVE  /\ Front(s) \in Seq(S)
         /\ Len(Front(s)) = n - 1
         /\ \A i \in 1 .. n - 1 : Front(s)[i] = s[i]
<1>1. \A i \in 1 .. n - 1 : s[i] \in S
  BY ElementOfSeq
<1>2. Front(s) = SubSeq(s, 1, n - 1)
  BY DEF Front
<1>3. /\ SubSeq(s, 1, n - 1) \in Seq(S)
      /\ Len(SubSeq(s, 1, n - 1)) = IF 1 <= n - 1 THEN (n - 1) - 1 + 1 ELSE 0
      /\ \A i \in 1 .. (n - 1) - 1 + 1 : SubSeq(s, 1, n - 1)[i] = s[1 + i - 1]
  BY <1>1, SubSeqProperties
<1> QED
  BY <1>2, <1>3

LEMMA AlignedPush ==
  ASSUME NEW a \in Array, NEW st \in Seq(Nat), NEW sc \in Seq(Seq(Decl)), NEW d \in Decl,
         NEW n \in 1 .. 3, Len(st) = n, Len(sc) = n, Aligned(a, st, sc)
  PROVE  Aligned(Pushed(a, d), [st EXCEPT ![n] = @ + 1], [sc EXCEPT ![n] = Append(@, d)])
<1> DEFINE T == [st EXCEPT ![n] = @ + 1]
           C == [sc EXCEPT ![n] = Append(@, d)]
           b == Pushed(a, d)
<1>1. /\ Len(T) = n /\ T[n] = st[n] + 1
      /\ \A i \in 1 .. n : st[i] \in Nat
      /\ \A i \in 1 .. n - 1 : T[i] = st[i]
  BY LenProperties, ElementOfSeq
<1>2. /\ \A i \in 1 .. n : sc[i] \in Seq(Decl)
      /\ \A i \in 1 .. n - 1 : C[i] = sc[i]
      /\ C[n] = Append(sc[n], d)
  BY LenProperties, ElementOfSeq
<1>3. /\ Len(Append(sc[n], d)) = Len(sc[n]) + 1
      /\ \A j \in 1 .. Len(sc[n]) : Append(sc[n], d)[j] = sc[n][j]
      /\ Append(sc[n], d)[Len(sc[n]) + 1] = d
  BY <1>2, AppendProperties
<1>4. b.size = a.size + 1 /\ Longer(b.data, a.data, a.size, d)
  BY PushedArray DEF Longer
<1>5. /\ \A i \in 1 .. n : st[i] = Len(sc[i])
      /\ Placed(a.data, a.size, st, sc, n)
  BY DEF Aligned
<1> HIDE DEF T, C, b
<1>6. Placed(b.data, a.size + 1, T, C, n)
  <2>1. /\ \A j \in 1 .. st[n] : C[n][j] = sc[n][j]
        /\ C[n][st[n] + 1] = d
    BY <1>2, <1>3, <1>5
  <2>2. ScopeGrows(T, C, st, sc, d, n)
    BY <1>1, <1>2, <2>1 DEF ScopeGrows
  <2> QED
    BY <1>4, <1>5, <2>2, PlacesPush
<1>7. \A i \in 1 .. n : T[i] = Len(C[i])
  <2> TAKE i \in 1 .. n
  <2>1. CASE i = n
    BY <1>1, <1>2, <1>3, <1>5, <2>1
  <2>2. CASE i \in 1 .. n - 1
    BY <1>1, <1>2, <1>5, <2>2
  <2> QED
    BY <2>1, <2>2
<1>8. Aligned(b, T, C)
  BY <1>1, <1>4, <1>6, <1>7 DEF Aligned
<1> QED
  BY <1>8 DEF b, T, C

LEMMA AlignedOpen ==
  ASSUME NEW a \in Array, NEW st \in Seq(Nat), NEW sc \in Seq(Seq(Decl)), NEW d \in Decl,
         NEW n \in 1 .. 2, Len(st) = n, Len(sc) = n, Aligned(a, st, sc)
  PROVE  Aligned(Pushed(a, d), Append(st, 1), Append(sc, <<d>>))
<1> DEFINE T == Append(st, 1)
           C == Append(sc, <<d>>)
           b == Pushed(a, d)
<1>1. /\ Len(T) = n + 1 /\ T[n + 1] = 1
      /\ \A i \in 1 .. n : st[i] \in Nat /\ T[i] = st[i]
  BY LenProperties, ElementOfSeq, AppendProperties
<1>2. C[n + 1] = <<d>> /\ \A i \in 1 .. n : C[i] = sc[i]
  <2>1. <<d>> \in Seq(Decl)
    OBVIOUS
  <2> QED
    BY <2>1, AppendProperties
<1>3. Len(<<d>>) = 1
  OBVIOUS
<1>4. b.size = a.size + 1 /\ Longer(b.data, a.data, a.size, d)
  BY PushedArray DEF Longer
<1>5. /\ \A i \in 1 .. n : st[i] = Len(sc[i])
      /\ Placed(a.data, a.size, st, sc, n)
  BY DEF Aligned
<1> HIDE DEF T, C, b
<1>6. Placed(b.data, a.size + 1, T, C, n + 1)
  <2>1. ScopeOpens(T, C, st, sc, d, n)
    BY <1>1, <1>2 DEF ScopeOpens
  <2> QED
    BY <1>4, <1>5, <2>1, PlacesOpen
<1>7. \A i \in 1 .. n + 1 : T[i] = Len(C[i])
  <2> TAKE i \in 1 .. n + 1
  <2>1. CASE i = n + 1
    BY <1>1, <1>2, <1>3, <2>1
  <2>2. CASE i \in 1 .. n
    BY <1>1, <1>2, <1>5, <2>2
  <2> QED
    BY <2>1, <2>2
<1>8. Aligned(b, T, C)
  BY <1>1, <1>4, <1>6, <1>7 DEF Aligned
<1> QED
  BY <1>8 DEF b, T, C

(* The innermost scope is what a pop takes away. *)
LEMMA AlignedPop ==
  ASSUME NEW a \in Array, NEW st \in Seq(Nat), NEW sc \in Seq(Seq(Decl)),
         NEW n \in 2 .. 3, Len(st) = n, Len(sc) = n, Aligned(a, st, sc)
  PROVE  /\ st[n] \in Nat /\ st[n] <= a.size
         /\ Front(st) \in Seq(Nat) /\ Len(Front(st)) = n - 1
         /\ Front(sc) \in Seq(Seq(Decl)) /\ Len(Front(sc)) = n - 1
         /\ \A i \in 1 .. n - 1 : Front(st)[i] = st[i] /\ Front(sc)[i] = sc[i]
         /\ Aligned(Popped(a, st[n]), Front(st), Front(sc))
<1> DEFINE T == Front(st)
           C == Front(sc)
<1>1. /\ T \in Seq(Nat) /\ Len(T) = n - 1
      /\ \A i \in 1 .. n - 1 : T[i] = st[i]
      /\ \A i \in 1 .. n : st[i] \in Nat
  BY FrontOf, ElementOfSeq
<1>2. /\ C \in Seq(Seq(Decl)) /\ Len(C) = n - 1
      /\ \A i \in 1 .. n - 1 : C[i] = sc[i]
  BY FrontOf
<1>3. /\ \A i \in 1 .. n : st[i] = Len(sc[i])
      /\ a.size = Before(st, n + 1)
      /\ \A i \in 1 .. n : \A j \in 1 .. st[i] : a.data[Before(st, i) + j] = sc[i][j]
  BY DEF Aligned, Placed
<1> HIDE DEF T, C
<1>4. /\ Before(T, n) = Before(st, n + 1) - st[n]
      /\ st[n] <= Before(st, n + 1)
      /\ \A i \in 1 .. n : Before(T, i) = Before(st, i)
  <2>1. /\ \A i \in 1 .. n : st[i] \in Nat
        /\ \A i \in 1 .. n - 1 : T[i] = st[i]
        /\ n \in 1 .. 3
    BY <1>1
  <2> QED
    BY <2>1, PlacesPop
<1>5. /\ st[n] \in Nat /\ st[n] <= a.size
      /\ Popped(a, st[n]).size = a.size - st[n]
      /\ Popped(a, st[n]).data = a.data
  BY <1>1, <1>3, <1>4, PoppedArray
<1>6. Aligned(Popped(a, st[n]), T, C)
  <2>1. Popped(a, st[n]).size = Before(T, Len(T) + 1)
    <3>1. Len(T) + 1 = n
      BY <1>1
    <3> QED
      BY <1>3, <1>4, <1>5, <3>1
  <2>2. \A i \in 1 .. n - 1 : T[i] = Len(C[i])
    <3> TAKE i \in 1 .. n - 1
    <3>1. i \in 1 .. n
      OBVIOUS
    <3>2. T[i] = st[i] /\ C[i] = sc[i]
      BY <1>1, <1>2
    <3> QED
      BY <1>3, <3>1, <3>2
  <2>3. \A i \in 1 .. n - 1 : \A j \in 1 .. T[i] :
          Popped(a, st[n]).data[Before(T, i) + j] = C[i][j]
    <3> TAKE i \in 1 .. n - 1
    <3> TAKE j \in 1 .. T[i]
    <3>1. i \in 1 .. n
      OBVIOUS
    <3>2. T[i] = st[i] /\ C[i] = sc[i] /\ Before(T, i) = Before(st, i)
      BY <1>1, <1>2, <1>4, <3>1
    <3>3. st[i] = T[i] /\ a.data[Before(st, i) + j] = sc[i][j]
      BY <1>3, <3>1, <3>2
    <3> QED
      BY <1>5, <3>2, <3>3
  <2> QED
    BY <1>1, <2>1, <2>2, <2>3 DEF Aligned, Placed
<1> QED
  BY <1>1, <1>2, <1>5, <1>6 DEF T, C

(* The variables of n scopes sc are those of the array a. *)
SameVars(a, sc, n) ==
  /\ \A i \in 1 .. n : \A j \in 1 .. Len(sc[i]) : \E k \in 1 .. a.size : a.data[k] = sc[i][j]
  /\ \A k \in 1 .. a.size : \E i \in 1 .. n : \E j \in 1 .. Len(sc[i]) : a.data[k] = sc[i][j]

LEMMA AlignedVisible ==
  ASSUME NEW a \in Array, NEW st \in Seq(Nat), NEW sc,
         NEW n \in 1 .. 3, Len(st) = n, Aligned(a, st, sc)
  PROVE  SameVars(a, sc, n)
<1>1. \A i \in 1 .. n : st[i] \in Nat
  BY ElementOfSeq
<1>2. /\ \A i \in 1 .. n : st[i] = Len(sc[i])
      /\ a.size = Before(st, n + 1)
      /\ \A i \in 1 .. n : \A j \in 1 .. st[i] : a.data[Before(st, i) + j] = sc[i][j]
  BY DEF Aligned, Placed
<1>3. ASSUME NEW i \in 1 .. n, NEW j \in 1 .. Len(sc[i])
      PROVE  \E k \in 1 .. a.size : a.data[k] = sc[i][j]
  <2>1. Before(st, i) + st[i] <= Before(st, n + 1)
    BY <1>1, BeforeWithin
  <2>2. /\ \A l \in 1 .. n + 1 : Before(st, l) \in Nat
        /\ \A l \in 1 .. n : Before(st, l + 1) = Before(st, l) + st[l]
    BY <1>1, BeforeNext
  <2>3. Before(st, i) \in Nat /\ Before(st, n + 1) \in Nat /\ st[i] \in Nat /\ st[i] = Len(sc[i])
    BY <1>1, <1>2, <2>2
  <2>4. Before(st, i) + j \in 1 .. a.size /\ j \in 1 .. st[i]
    BY <1>2, <2>1, <2>3
  <2>5. a.data[Before(st, i) + j] = sc[i][j]
    BY <1>2, <2>4
  <2> QED
    BY <2>4, <2>5
<1>4. ASSUME NEW k \in 1 .. a.size
      PROVE  \E i \in 1 .. n : \E j \in 1 .. Len(sc[i]) : a.data[k] = sc[i][j]
  <2>1. k \in 1 .. Before(st, n + 1)
    BY <1>2
  <2>2. PICK i \in 1 .. n : \E j \in 1 .. st[i] : k = Before(st, i) + j
    BY <1>1, <2>1, BeforeCovers
  <2>3. PICK j \in 1 .. st[i] : k = Before(st, i) + j
    BY <2>2
  <2> QED
    BY <1>2, <2>3
<1> QED
  BY <1>3, <1>4 DEF SameVars

(* The array of a rule is a copy of the context, which holds nil, the      *)
(* parameters and, inside of an "exists", its variables.                   *)
LEMMA CopyContent ==
  ASSUME NEW a \in Array
  PROVE  /\ New(Content(a)) \in Array
         /\ New(Content(a)).freed = FALSE
         /\ New(Content(a)).size = a.size
         /\ Content(New(Content(a))) = Content(a)
         /\ \A k \in 1 .. a.size : New(Content(a)).data[k] = a.data[k]
<1>1. /\ Content(a) \in Seq(Decl) /\ Len(Content(a)) = a.size
      /\ \A k \in 1 .. a.size : Content(a)[k] = a.data[k]
  BY ContentSeq
<1>2. /\ New(Content(a)) \in Array
      /\ New(Content(a)).data = Content(a) /\ New(Content(a)).size = Len(Content(a))
      /\ New(Content(a)).freed = FALSE
  BY <1>1, NewArray
<1>3. Content(New(Content(a))) = SubSeq(Content(a), 1, Len(Content(a)))
  BY <1>2 DEF Content
<1>4. Content(New(Content(a))) = Content(a)
  BY <1>1, <1>3, SubSeqFull
<1> QED
  BY <1>1, <1>2, <1>4

LEMMA BaseContent ==
  ASSUME NEW a \in Array, NEW p \in Seq(Decl),
         a.size = 1 + Len(p), a.data[1] = Nil,
         \A j \in 1 .. Len(p) : a.data[1 + j] = p[j]
  PROVE  Content(a) = <<Nil>> \o p \o <<>>
<1>1. Len(p) \in Nat
  BY LenProperties
<1>2. /\ a.size = 1 + Len(p)
      /\ a.data[1] = Nil
      /\ \A j \in 1 .. Len(p) : a.data[1 + j] = p[j]
  OBVIOUS
<1>3. /\ <<Nil>> \in Seq(Decl) /\ Len(<<Nil>>) = 1 /\ <<Nil>>[1] = Nil
  BY NilDecl
<1> DEFINE c == <<Nil>> \o p
<1>4. /\ c \in Seq(Decl) /\ Len(c) = 1 + Len(p)
      /\ \A i \in 1 .. 1 + Len(p) : c[i] = IF i <= 1 THEN <<Nil>>[i] ELSE p[i - 1]
  BY <1>1, <1>3, ConcatProperties
<1>5. c \o <<>> = c
  BY <1>4, ConcatEmptySeq
<1>6. /\ Content(a) \in Seq(Decl) /\ Len(Content(a)) = a.size
      /\ \A k \in 1 .. a.size : Content(a)[k] = a.data[k]
  BY ContentSeq
<1> HIDE DEF c
<1>7. \A i \in 1 .. Len(Content(a)) : Content(a)[i] = c[i]
  <2> TAKE i \in 1 .. Len(Content(a))
  <2>1. CASE i = 1
    BY <1>1, <1>2, <1>3, <1>4, <1>6, <2>1
  <2>2. CASE i # 1
    <3>1. i - 1 \in 1 .. Len(p) /\ i \in 1 .. 1 + Len(p) /\ 1 + (i - 1) = i
      BY <1>1, <1>2, <1>6, <2>2
    <3>2. a.data[1 + (i - 1)] = p[i - 1]
      BY <1>2, <3>1
    <3>3. c[i] = p[i - 1]
      BY <1>4, <2>2, <3>1
    <3> QED
      BY <1>2, <1>6, <3>1, <3>2, <3>3
  <2> QED
    BY <2>1, <2>2
<1>8. Content(a) = c
  BY <1>2, <1>4, <1>6, <1>7, SeqEqual
<1> QED
  BY <1>5, <1>8 DEF c

LEMMA RecursiveContent ==
  ASSUME NEW a \in Array, NEW p \in Seq(Decl), NEW q \in Seq(Decl),
         a.size = 1 + Len(p) + Len(q), a.data[1] = Nil,
         \A j \in 1 .. Len(p) : a.data[1 + j] = p[j],
         \A j \in 1 .. Len(q) : a.data[1 + Len(p) + j] = q[j]
  PROVE  Content(a) = <<Nil>> \o p \o q
<1>1. Len(p) \in Nat /\ Len(q) \in Nat
  BY LenProperties
<1>2. /\ a.size = 1 + Len(p) + Len(q)
      /\ a.data[1] = Nil
      /\ \A j \in 1 .. Len(p) : a.data[1 + j] = p[j]
      /\ \A j \in 1 .. Len(q) : a.data[1 + Len(p) + j] = q[j]
  OBVIOUS
<1>3. /\ <<Nil>> \in Seq(Decl) /\ Len(<<Nil>>) = 1 /\ <<Nil>>[1] = Nil
  BY NilDecl
<1> DEFINE b == <<Nil>> \o p
           c == b \o q
<1>4. /\ b \in Seq(Decl) /\ Len(b) = 1 + Len(p)
      /\ \A i \in 1 .. 1 + Len(p) : b[i] = IF i <= 1 THEN <<Nil>>[i] ELSE p[i - 1]
  BY <1>1, <1>3, ConcatProperties
<1> HIDE DEF b
<1>5. /\ c \in Seq(Decl) /\ Len(c) = 1 + Len(p) + Len(q)
      /\ \A i \in 1 .. 1 + Len(p) + Len(q) :
           c[i] = IF i <= 1 + Len(p) THEN b[i] ELSE q[i - (1 + Len(p))]
  <2>1. /\ b \o q \in Seq(Decl) /\ Len(b \o q) = Len(b) + Len(q)
        /\ \A i \in 1 .. Len(b) + Len(q) :
             (b \o q)[i] = IF i <= Len(b) THEN b[i] ELSE q[i - Len(b)]
    BY <1>4, ConcatProperties
  <2>2. Len(b) = 1 + Len(p)
    BY <1>4
  <2> QED
    BY <2>1, <2>2
<1>6. /\ Content(a) \in Seq(Decl) /\ Len(Content(a)) = a.size
      /\ \A k \in 1 .. a.size : Content(a)[k] = a.data[k]
  BY ContentSeq
<1> HIDE DEF c
<1>7. \A i \in 1 .. Len(Content(a)) : Content(a)[i] = c[i]
  <2> TAKE i \in 1 .. Len(Content(a))
  <2>0. i \in 1 .. a.size /\ i \in 1 .. 1 + Len(p) + Len(q) /\ Content(a)[i] = a.data[i]
    BY <1>2, <1>6
  <2>1. CASE i = 1
    BY <1>1, <1>2, <1>3, <1>4, <1>5, <2>0, <2>1
  <2>2. CASE i # 1 /\ i <= 1 + Len(p)
    <3>1. i - 1 \in 1 .. Len(p) /\ i \in 1 .. 1 + Len(p) /\ 1 + (i - 1) = i
      BY <1>1, <2>0, <2>2
    <3>2. a.data[1 + (i - 1)] = p[i - 1]
      BY <1>2, <3>1
    <3>3. b[i] = p[i - 1]
      BY <1>4, <2>2, <3>1
    <3> QED
      BY <1>5, <2>0, <2>2, <3>1, <3>2, <3>3
  <2>3. CASE ~(i <= 1 + Len(p))
    <3>1. /\ i - (1 + Len(p)) \in 1 .. Len(q)
          /\ 1 + Len(p) + (i - (1 + Len(p))) = i
      BY <1>1, <2>0, <2>3
    <3>2. a.data[1 + Len(p) + (i - (1 + Len(p)))] = q[i - (1 + Len(p))]
      BY <1>2, <3>1
    <3>3. c[i] = q[i - (1 + Len(p))]
      BY <1>5, <2>0, <2>3
    <3> QED
      BY <2>0, <3>1, <3>2, <3>3
  <2> QED
    BY <1>1, <2>0, <2>1, <2>2, <2>3
<1>8. Content(a) = c
  BY <1>2, <1>5, <1>6, <1>7, SeqEqual
<1> QED
  BY <1>8 DEF b, c

(* Where two and three scopes are. *)
(* In a definition: nil, the parameters, and the scope of an "exists". *)
Parts(a, sc, n) ==
  /\ a.data[1] = Nil
  /\ \A j \in 1 .. Len(sc[2]) : a.data[1 + j] = sc[2][j]
  /\ n = 2 => a.size = 1 + Len(sc[2])
  /\ n = 3 => /\ a.size = 1 + Len(sc[2]) + Len(sc[3])
              /\ \A j \in 1 .. Len(sc[3]) : a.data[1 + Len(sc[2]) + j] = sc[3][j]

LEMMA AlignedParts ==
  ASSUME NEW a, NEW st, NEW sc, NEW n \in 2 .. 3, Len(st) = n, Aligned(a, st, sc),
         Len(sc[1]) = 1, Len(sc[2]) \in Nat, Len(sc[n]) \in Nat, sc[1][1] = Nil
  PROVE  Parts(a, sc, n)
<1>1. /\ a.size = Before(st, n + 1)
      /\ \A i \in 1 .. n : st[i] = Len(sc[i])
      /\ \A i \in 1 .. n : \A j \in 1 .. st[i] : a.data[Before(st, i) + j] = sc[i][j]
  BY DEF Aligned, Placed
<1>2. st[1] = 1 /\ st[2] = Len(sc[2]) /\ st[n] = Len(sc[n])
  BY <1>1
<1>3. Before(st, 1) = 0 /\ Before(st, 2) = 1 /\ Before(st, 3) = 1 + Len(sc[2])
  BY <1>2 DEF Before
<1>4. n = 3 => Before(st, 4) = 1 + Len(sc[2]) + Len(sc[3])
  <2> SUFFICES ASSUME n = 3
               PROVE  Before(st, 4) = 1 + Len(sc[2]) + Len(sc[3])
    OBVIOUS
  <2>1. st[1] = 1 /\ st[2] = Len(sc[2]) /\ st[3] = Len(sc[3])
    BY <1>2
  <2> QED
    BY <2>1 DEF Before
<1>5. a.data[1] = Nil
  <2>1. 1 \in 1 .. n /\ 1 \in 1 .. st[1]
    BY <1>2
  <2>2. a.data[Before(st, 1) + 1] = sc[1][1]
    BY <1>1, <2>1
  <2> QED
    BY <1>3, <2>2
<1>6. \A j \in 1 .. Len(sc[2]) : a.data[1 + j] = sc[2][j]
  <2>1. \A j \in 1 .. st[2] : a.data[Before(st, 2) + j] = sc[2][j]
    BY <1>1
  <2> QED
    BY <1>2, <1>3, <2>1
<1>7. n = 3 => \A j \in 1 .. Len(sc[3]) : a.data[1 + Len(sc[2]) + j] = sc[3][j]
  <2>1. n = 3 => \A j \in 1 .. st[3] : a.data[Before(st, 3) + j] = sc[3][j]
    BY <1>1
  <2> QED
    BY <1>2, <1>3, <2>1
<1> QED
  <2>1. n = 2 => a.size = Before(st, 3)
    BY <1>1
  <2>2. n = 3 => a.size = Before(st, 4)
    BY <1>1
  <2> QED
    BY <1>3, <1>4, <1>5, <1>6, <1>7, <2>1, <2>2 DEF Parts

-----------------------------------------------------------------------------
LEMMA ContextInit == Init => CInv
<1> SUFFICES ASSUME Init
             PROVE  CInv
  OBVIOUS
<1> DEFINE a == New(<<Nil>>)
<1>1. /\ <<Nil>> \in Seq(Decl) /\ Len(<<Nil>>) = 1 /\ <<Nil>>[1] = Nil
  BY NilDecl
<1>2. /\ a \in Array /\ a.data = <<Nil>> /\ a.size = 1 /\ a.freed = FALSE
  BY <1>1, NewArray
<1> HIDE DEF a
<1>3. /\ heap = <<a>> /\ env = 1 /\ stack = <<1>> /\ scopes = << <<Nil>> >>
      /\ funs = {} /\ parsing = FALSE /\ cmd = "top" /\ declares = FALSE
      /\ outer = {} /\ inner = {} /\ exists = <<>> /\ preds = <<>>
      /\ forms = [s \in Sign |-> FormNew]
      /\ count = [c \in {"decl", "pos", "neg"} |-> 0]
  BY DEF Init, a
<1>4. /\ heap \in Seq(Array) /\ Len(heap) = 1 /\ heap[1] = a
      /\ stack \in Seq(Nat) /\ Len(stack) = 1 /\ stack[1] = 1
  BY <1>2, <1>3
<1>5. /\ scopes \in Seq(Seq(Decl)) /\ Len(scopes) = 1 /\ scopes[1] = <<Nil>>
  BY <1>1, <1>3
<1>6. FormNew \in Form /\ FormNew.lvars = 0 /\ FormNew.psize = 0
  BY DEF FormNew, Form
<1>7. /\ forms \in [Sign -> Form] /\ \A s \in Sign : forms[s] = FormNew
      /\ count \in [{"decl", "pos", "neg"} -> Nat]
  BY <1>3, <1>6
<1>8. exists \in Seq(Rule) /\ Len(exists) = 0 /\ preds \in Seq(Pred) /\ Len(preds) = 0
  BY <1>3
<1>9. Types
  <2>1. /\ heap \in Seq(Array) /\ env \in 1 .. Len(heap)
        /\ stack \in Seq(Nat) /\ Len(stack) \in {1, 2, 3}
        /\ scopes \in Seq(Seq(Decl)) /\ Len(scopes) = Len(stack)
    BY <1>3, <1>4, <1>5
  <2>2. /\ funs \subseteq GlobalNames /\ parsing \in BOOLEAN /\ declares \in BOOLEAN
        /\ cmd \in {"top", "define", "assert", "exited"}
        /\ outer \subseteq Use /\ inner \subseteq Use
    BY <1>3
  <2> QED
    BY <2>1, <2>2, <1>7, <1>8 DEF Types
<1>10. Control
  BY <1>1, <1>3, <1>4, <1>5 DEF Control
<1>11. Context
  <2>1. Placed(a.data, a.size, stack, scopes, 1)
    <3>1. Before(stack, 1) = 0 /\ Before(stack, 1 + 1) = 1
      BY <1>4 DEF Before
    <3>2. a.data[0 + 1] = scopes[1][1]
      BY <1>1, <1>2, <1>5
    <3>3. ASSUME NEW i \in 1 .. 1, NEW j \in 1 .. stack[i]
          PROVE  a.data[Before(stack, i) + j] = scopes[i][j]
      <4>1. i = 1
        OBVIOUS
      <4>2. j = 1
        BY <1>4, <4>1
      <4> QED
        BY <3>1, <3>2, <4>1, <4>2
    <3> QED
      BY <1>2, <3>1, <3>3 DEF Placed
  <2>2. Aligned(heap[env], stack, scopes)
    <3>1. heap[env] = a /\ stack[1] = Len(scopes[1])
      BY <1>1, <1>3, <1>4, <1>5
    <3>2. \A i \in 1 .. 1 : stack[i] = Len(scopes[i])
      BY <3>1
    <3> QED
      BY <1>4, <2>1, <3>1, <3>2 DEF Aligned
  <2> QED
    BY <1>2, <1>3, <1>4, <2>2 DEF Context
<1>12. UsesOK
  BY <1>3 DEF UsesOK, Places
<1>13. Owned
  BY <1>3, <1>4, <1>6, <1>7, <1>8 DEF Owned, Sign
<1>14. ExistsOK /\ PredsOK
  BY <1>8 DEF ExistsOK, PredsOK
<1>15. FormsOK
  BY <1>6, <1>7 DEF FormsOK
<1> QED
  BY <1>9, <1>10, <1>11, <1>12, <1>13, <1>14, <1>15 DEF CInv

-----------------------------------------------------------------------------
(* Steps that leave the arrays alone.                                      *)

LEMMA QuietStep ==
  ASSUME CInv,
         UNCHANGED <<heap, env, stack, funs, parsing, outer, inner, exists, preds,
                     forms, scopes, count>>,
         \/ declares' = declares /\ cmd' = cmd
         \/ declares' = FALSE /\ cmd' = cmd
         \/ declares' = FALSE /\ cmd' = "exited"
  PROVE  CInv'
<1>1. Running' => Running /\ cmd' = cmd
  BY DEF Running
<1>2. Types'
  BY DEF CInv, Types
<1>3. Control'
  BY <1>1 DEF CInv, Control, Types
<1>4. Context' /\ UsesOK'
  BY <1>1 DEF CInv, Context, UsesOK
<1>5. Owned'
  BY DEF CInv, Owned
<1>6. ExistsOK' /\ PredsOK'
  BY <1>1 DEF CInv, ExistsOK, PredsOK
<1>7. FormsOK'
  BY DEF CInv, FormsOK
<1> QED
  BY <1>2, <1>3, <1>4, <1>5, <1>6, <1>7 DEF CInv

(* What the command being read says of scopes. *)
LEMMA ControlFacts ==
  ASSUME CInv, Running
  PROVE  /\ Len(stack) \in {1, 2, 3} /\ cmd \in {"top", "define", "assert"}
         /\ cmd = "top" => Len(stack) = 1 /\ exists = <<>> /\ outer = {}
         /\ cmd = "define" => Len(stack) \in {2, 3} /\ Len(scopes[1]) = 1
         /\ cmd = "define" /\ Len(stack) = 2 /\ declares = TRUE => exists = <<>> /\ outer = {}
         /\ declares = TRUE => inner = {}
         /\ cmd = "assert" => Len(stack) \in {1, 2}
         /\ cmd = "assert" /\ TopExists = FALSE => Len(stack) = 1 /\ exists = <<>>
         /\ inner # {} => \/ cmd = "define" /\ Len(stack) = 3
                          \/ cmd = "assert" /\ Len(stack) = 2
         /\ Len(scopes[1]) # 0 /\ scopes[1][1] = Nil
<1>1. Control
  BY DEF CInv
<1>2. Len(stack) \in {1, 2, 3} /\ cmd \in {"top", "define", "assert", "exited"}
  BY DEF CInv, Types
<1>3. cmd # "exited"
  BY DEF Running
<1> QED
  BY <1>1, <1>2, <1>3 DEF Control

(* The array of the context and its scopes. *)
LEMMA ContextFacts ==
  ASSUME CInv, Running
  PROVE  \E n \in 1 .. 3 :
           /\ heap[env] \in Array /\ heap[env].size \in Nat /\ heap[env].freed = FALSE
           /\ stack \in Seq(Nat) /\ Len(stack) = n
           /\ scopes \in Seq(Seq(Decl)) /\ Len(scopes) = n
           /\ Aligned(heap[env], stack, scopes)
           /\ \A i \in 1 .. n : scopes[i] \in Seq(Decl)
<1>1. /\ heap \in Seq(Array) /\ env \in 1 .. Len(heap)
      /\ stack \in Seq(Nat) /\ Len(stack) \in {1, 2, 3}
      /\ scopes \in Seq(Seq(Decl)) /\ Len(scopes) = Len(stack)
  BY DEF CInv, Types
<1>2. /\ Aligned(heap[env], stack, scopes)
      /\ heap[env].freed = FALSE
  BY DEF CInv, Context
<1>3. PICK n \in 1 .. 3 : n = Len(stack)
  BY <1>1, SmallNumber, Zenon
<1>4. heap[env] \in Array
  BY <1>1, ElementOfSeq
<1>5. heap[env].size \in Nat
  BY <1>4, ArrayFields
<1>6. \A i \in 1 .. Len(scopes) : scopes[i] \in Seq(Decl)
  BY <1>1, ElementOfSeq
<1> QED
  BY <1>1, <1>2, <1>3, <1>4, <1>5, <1>6

(* The declaration that is in scope is in the array, and Lookup finds one  *)
(* of its name.                                                            *)
LEMMA VisiblePlace ==
  ASSUME CInv, Running, NEW d \in InScope, NEW u, u.decl = d,
         u.at = Lookup(heap[env], d.name)
  PROVE  d \in Decl /\ Denotes(heap[env], heap[env].size, u)
<1>1. PICK n \in 1 .. 3 :
           /\ heap[env] \in Array /\ heap[env].size \in Nat
           /\ stack \in Seq(Nat) /\ Len(stack) = n
           /\ scopes \in Seq(Seq(Decl)) /\ Len(scopes) = n
           /\ Aligned(heap[env], stack, scopes)
           /\ \A i \in 1 .. n : scopes[i] \in Seq(Decl)
  BY ContextFacts
<1>2. PICK i \in DOMAIN scopes : d \in Range(scopes[i])
  BY DEF InScope, Visible
<1>3. i \in 1 .. n /\ scopes[i] \in Seq(Decl)
  BY <1>1, LenProperties
<1>4. PICK j \in 1 .. Len(scopes[i]) : d = scopes[i][j]
  BY <1>2, <1>3, LenProperties DEF Range
<1>5. \A l \in 1 .. n : \A o \in 1 .. Len(scopes[l]) :
        \E k \in 1 .. heap[env].size : heap[env].data[k] = scopes[l][o]
  <2>1. /\ heap[env] \in Array /\ stack \in Seq(Nat) /\ Len(stack) = n
        /\ Aligned(heap[env], stack, scopes)
    BY <1>1
  <2>2. SameVars(heap[env], scopes, n)
    BY <2>1, AlignedVisible
  <2> QED
    BY <2>2 DEF SameVars
<1>6. PICK k \in 1 .. heap[env].size : heap[env].data[k] = scopes[i][j]
  BY <1>3, <1>5
<1>7. d = heap[env].data[k]
  BY <1>4, <1>6
<1>8. u.at \in 1 .. heap[env].size /\ heap[env].data[u.at].name = d.name
  <2>1. heap[env] \in Array /\ k \in 1 .. heap[env].size
    BY <1>1
  <2>2. /\ Lookup(heap[env], heap[env].data[k].name) \in 1 .. heap[env].size
        /\ heap[env].data[Lookup(heap[env], heap[env].data[k].name)].name
             = heap[env].data[k].name
    BY <2>1, LookupFinds
  <2>3. u.at = Lookup(heap[env], heap[env].data[k].name)
    BY <1>7
  <2> QED
    BY <1>7, <2>2, <2>3
<1>9. d \in Decl
  BY <1>1, <1>7, ArrayFields
<1>10. (\A l \in 1 .. heap[env].size : heap[env].data[l].name = d.name => l = u.at)
         => heap[env].data[u.at] = d
  BY <1>7
<1> QED
  BY <1>8, <1>9, <1>10 DEF Denotes

LEMMA UseStep ==
  ASSUME CInv, NEW c \in {"define", "assert"}, NEW d \in InScope, UseVar(c, d)
  PROVE  CInv'
<1> DEFINE u == [at |-> Lookup(heap[env], d.name), decl |-> d]
<1>1. /\ UNCHANGED <<heap, env, stack, funs, parsing, declares, exists, preds, forms,
                     scopes, count>>
      /\ cmd' = c
  BY DEF UseVar
<1>2. (cmd = "top" => c = "assert") /\ (cmd # "top" => c = cmd)
  BY DEF UseVar
<1>3. Running /\ declares = FALSE /\ parsing = FALSE
  BY <1>2 DEF UseVar, Running, CInv, Types
<1>4. /\ d \in Decl /\ u = [at |-> u.at, decl |-> u.decl] /\ u.decl = d
      /\ u.at \in 1 .. heap[env].size /\ Denotes(heap[env], heap[env].size, u)
  <2>1. u = [at |-> u.at, decl |-> u.decl] /\ u.decl = d /\ u.at = Lookup(heap[env], d.name)
    OBVIOUS
  <2> HIDE DEF u
  <2>2. d \in Decl /\ Denotes(heap[env], heap[env].size, u)
    BY <1>3, <2>1, VisiblePlace
  <2> QED
    BY <2>1, <2>2 DEF Denotes
<1>5. PICK n \in 1 .. 3 :
           /\ heap[env] \in Array /\ heap[env].size \in Nat
           /\ Len(stack) = n
           /\ Aligned(heap[env], stack, scopes)
  BY <1>3, ContextFacts
<1>6. u \in Use
  BY <1>4, <1>5 DEF Use
<1>7. \/ n > Level(c) /\ inner' = inner \union {u} /\ outer' = outer
      \/ n <= Level(c) /\ outer' = outer \union {u} /\ inner' = inner
  BY <1>5 DEF UseVar
<1> HIDE DEF u
<1>8. /\ n \in {1, 2, 3}
      /\ c = "define" => cmd = "define" /\ n \in {2, 3} /\ Len(scopes[1]) = 1
      /\ c = "assert" => n \in {1, 2}
      /\ c = "assert" /\ TopExists = FALSE => n = 1 /\ exists = <<>>
      /\ inner # {} => \/ c = "define" /\ n = 3
                       \/ c = "assert" /\ n = 2
      /\ Inside(cmd) = Inside(c)
  BY <1>2, <1>3, <1>5, ControlFacts DEF Inside
<1>9. \/ /\ n = Inside(c) /\ inner' = inner \union {u} /\ outer' = outer
         /\ \/ c = "define" /\ n = 3
            \/ c = "assert" /\ n = 2
      \/ n + 1 = Inside(c) /\ outer' = outer \union {u} /\ inner' = inner
  BY <1>7, <1>8 DEF Level, Inside
<1>10. Types'
  BY <1>1, <1>6, <1>9 DEF CInv, Types
<1>11. Control'
  <2>1. /\ inner' # {} => \/ c = "define" /\ n = 3
                          \/ c = "assert" /\ n = 2
    BY <1>8, <1>9
  <2>2. Len(scopes[1]) # 0 /\ scopes[1][1] = Nil
    BY <1>3, ControlFacts
  <2> QED
    BY <1>1, <1>3, <1>5, <1>8, <2>1, <2>2 DEF Control
<1>12. Context'
  BY <1>1, <1>3 DEF CInv, Context
<1>13. UsesOK'
  <2>1. /\ Places(heap[env], Before(stack, Inside(c)), outer)
        /\ Places(heap[env], heap[env].size, inner)
    BY <1>3, <1>8 DEF CInv, UsesOK
  <2>2. heap[env].size = Before(stack, n + 1)
    BY <1>5 DEF Aligned, Placed
  <2>3. /\ Places(heap[env], Before(stack, Inside(c)), outer')
        /\ Places(heap[env], heap[env].size, inner')
    BY <1>4, <1>9, <2>1, <2>2 DEF Places
  <2> QED
    BY <1>1, <2>3 DEF UsesOK
<1>14. Owned'
  BY <1>1 DEF CInv, Owned
<1>15. PredsOK' /\ FormsOK'
  BY <1>1 DEF CInv, PredsOK, FormsOK
<1>16. ExistsOK'
  BY <1>1, <1>3, <1>8 DEF CInv, ExistsOK
<1> QED
  BY <1>10, <1>11, <1>12, <1>13, <1>14, <1>15, <1>16 DEF CInv

-----------------------------------------------------------------------------
(* Steps that push a variable.                                             *)

LEMMA PlacesSame ==
  ASSUME NEW a, NEW b, NEW N, NEW uses,
         Places(a, N, uses), \A k \in 1 .. N : b.data[k] = a.data[k]
  PROVE  Places(b, N, uses)
<1> SUFFICES ASSUME NEW u \in uses
             PROVE  Denotes(b, N, u)
  BY DEF Places
<1>1. /\ u.at \in 1 .. N
      /\ a.data[u.at].name = u.decl.name
      /\ (\A k \in 1 .. N : a.data[k].name = u.decl.name => k = u.at)
            => a.data[u.at] = u.decl
  BY DEF Places, Denotes
<1> QED
  BY <1>1 DEF Denotes

LEMMA RuleKept ==
  ASSUME NEW h, NEW g, NEW r, NEW formals, RuleOK(h, r, formals), g[r.vars] = h[r.vars]
  PROVE  RuleOK(g, r, formals)
BY DEF RuleOK

(* A step that changes no array but the context's and new ones keeps what  *)
(* is known of predicates and formulas.                                    *)
LEMMA OthersKept ==
  ASSUME CInv, NEW g, \A i \in 1 .. Len(heap) : i # env => g[i] = heap[i]
  PROVE  /\ \A i \in 1 .. Len(preds) : \A j \in 1 .. Len(preds[i].rules) :
              RuleOK(g, preds[i].rules[j], preds[i].formals)
         /\ \A s \in Sign : forms[s].lvars # 0 => g[forms[s].lvars] = heap[forms[s].lvars]
         /\ \A i \in 1 .. Len(exists) : g[exists[i].vars] = heap[exists[i].vars]
<1>1. ASSUME NEW i \in 1 .. Len(preds), NEW j \in 1 .. Len(preds[i].rules)
      PROVE  RuleOK(g, preds[i].rules[j], preds[i].formals)
  <2>1. RuleOK(heap, preds[i].rules[j], preds[i].formals)
    BY DEF CInv, PredsOK
  <2>2. preds[i].rules[j].vars \in 1 .. Len(heap) /\ preds[i].rules[j].vars # env
    BY DEF CInv, Owned
  <2>3. g[preds[i].rules[j].vars] = heap[preds[i].rules[j].vars]
    BY <2>2
  <2> QED
    BY <2>1, <2>3, RuleKept
<1>2. ASSUME NEW s \in Sign, forms[s].lvars # 0
      PROVE  g[forms[s].lvars] = heap[forms[s].lvars]
  <2>1. forms[s].lvars \in 0 .. Len(heap) /\ forms[s].lvars # env
    BY DEF CInv, Owned
  <2>2. Len(heap) \in Nat
    BY LenProperties DEF CInv, Types
  <2>3. forms[s].lvars \in 1 .. Len(heap)
    BY <1>2, <2>1, <2>2
  <2> QED
    BY <2>1, <2>3
<1>3. ASSUME NEW i \in 1 .. Len(exists)
      PROVE  g[exists[i].vars] = heap[exists[i].vars]
  <2>1. exists[i].vars \in 1 .. Len(heap) /\ exists[i].vars # env
    BY DEF CInv, Owned
  <2> QED
    BY <2>1
<1> QED
  BY <1>1, <1>2, <1>3

(* The array of a context that a variable was pushed in. *)
PushedArrayOK(a, b, d) ==
  /\ b = Pushed(a, d) /\ d \in Decl /\ b \in Array
  /\ b.freed = FALSE /\ b.size = a.size + 1
  /\ \A k \in 1 .. a.size : b.data[k] = a.data[k]

LEMMA PushKeeps ==
  ASSUME CInv, Running, NEW n \in GlobalNames \union LocalNames,
         heap' = [heap EXCEPT ![env] = Pushed(@, NewDecl(n))],
         env' = env, exists' = exists, preds' = preds, forms' = forms,
         count' = [count EXCEPT !["decl"] = @ + 1]
  PROVE  /\ heap' \in Seq(Array) /\ Len(heap') = Len(heap) /\ env' \in 1 .. Len(heap')
         /\ PushedArrayOK(heap[env], heap'[env], NewDecl(n)) /\ NewDecl(n).name = n
         /\ \A i \in 1 .. Len(heap) : i # env => heap'[i] = heap[i]
         /\ count' \in [{"decl", "pos", "neg"} -> Nat]
         /\ Owned' /\ PredsOK' /\ FormsOK'
<1> DEFINE d == NewDecl(n)
           a == heap[env]
           b == heap'[env]
<1>1. /\ heap \in Seq(Array) /\ env \in 1 .. Len(heap)
      /\ count \in [{"decl", "pos", "neg"} -> Nat]
  BY DEF CInv, Types
<1>2. a \in Array /\ a.freed = FALSE /\ a.size \in Nat
  BY ContextFacts
<1>3. d \in Decl /\ d.name = n
  BY <1>1 DEF NewDecl, Decl
<1> HIDE DEF d
<1>4. /\ Pushed(a, d) \in Array
      /\ Pushed(a, d).size = a.size + 1
      /\ Pushed(a, d).freed = a.freed
      /\ Pushed(a, d).data[a.size + 1] = d
      /\ \A k \in 1 .. a.size : Pushed(a, d).data[k] = a.data[k]
  BY <1>2, <1>3, PushedArray
<1>5. heap' = [heap EXCEPT ![env] = Pushed(a, d)]
  BY DEF d
<1>6. /\ heap' \in Seq(Array) /\ Len(heap') = Len(heap)
      /\ b = Pushed(a, d) /\ \A i \in 1 .. Len(heap) : i # env => heap'[i] = heap[i]
  BY <1>1, <1>4, <1>5, ExceptSeq
<1> HIDE DEF b
<1>7. PushedArrayOK(a, b, d)
  BY <1>2, <1>3, <1>4, <1>6 DEF PushedArrayOK
<1>8. count' \in [{"decl", "pos", "neg"} -> Nat] /\ \A s \in Sign : count'[s] = count[s]
  BY <1>1 DEF Sign
<1>9. Owned'
  BY <1>6 DEF CInv, Owned
<1>10. PredsOK'
  <2>1. \A i \in 1 .. Len(preds) : \A j \in 1 .. Len(preds[i].rules) :
          RuleOK(heap', preds[i].rules[j], preds[i].formals)
    BY <1>6, OthersKept
  <2> QED
    BY <2>1 DEF CInv, PredsOK
<1>11. FormsOK'
  <2>1. \A s \in Sign : forms[s].lvars # 0 => heap'[forms[s].lvars] = heap[forms[s].lvars]
    BY <1>6, OthersKept
  <2> QED
    BY <1>8, <2>1 DEF CInv, FormsOK
<1> QED
  BY <1>1, <1>3, <1>6, <1>7, <1>8, <1>9, <1>10, <1>11 DEF b, d

(* The sizes and the scopes after a push in the innermost scope, and after  *)
(* one that opens a scope.                                                 *)
Grown(st, T, sc, C, d, n) ==
  /\ T \in Seq(Nat) /\ Len(T) = n /\ C \in Seq(Seq(Decl)) /\ Len(C) = n
  /\ \A i \in 1 .. n - 1 : T[i] = st[i] /\ C[i] = sc[i]
  /\ st[n] \in Nat /\ T[n] = st[n] + 1
  /\ sc[n] \in Seq(Decl) /\ C[n] = Append(sc[n], d)

Opened(st, T, sc, C, n) ==
  /\ T \in Seq(Nat) /\ Len(T) = n + 1 /\ C \in Seq(Seq(Decl)) /\ Len(C) = n + 1
  /\ \A i \in 1 .. n : T[i] = st[i] /\ C[i] = sc[i] /\ st[i] \in Nat
  /\ T[n + 1] = 1

LEMMA ScopeGrown ==
  ASSUME NEW st \in Seq(Nat), NEW sc \in Seq(Seq(Decl)), NEW d \in Decl,
         NEW n \in 1 .. 3, Len(st) = n, Len(sc) = n
  PROVE  Grown(st, [st EXCEPT ![n] = @ + 1], sc, [sc EXCEPT ![n] = Append(@, d)], d, n)
<1> DEFINE T == [st EXCEPT ![n] = st[n] + 1]
           C == [sc EXCEPT ![n] = Append(sc[n], d)]
<1>1. st[n] \in Nat /\ sc[n] \in Seq(Decl) /\ n \in 1 .. n
  BY ElementOfSeq
<1>2. st[n] + 1 \in Nat /\ Append(sc[n], d) \in Seq(Decl)
  BY <1>1, AppendProperties
<1>3. /\ T \in Seq(Nat) /\ Len(T) = Len(st)
      /\ \A j \in 1 .. Len(st) : T[j] = IF j = n THEN st[n] + 1 ELSE st[j]
  BY <1>1, <1>2, ExceptSeq
<1>4. /\ C \in Seq(Seq(Decl)) /\ Len(C) = Len(sc)
      /\ \A j \in 1 .. Len(sc) : C[j] = IF j = n THEN Append(sc[n], d) ELSE sc[j]
  BY <1>1, <1>2, ExceptSeq
<1>5. /\ T = [st EXCEPT ![n] = @ + 1] /\ C = [sc EXCEPT ![n] = Append(@, d)]
  OBVIOUS
<1> HIDE DEF T, C
<1>6. /\ T[n] = st[n] + 1 /\ C[n] = Append(sc[n], d)
      /\ \A i \in 1 .. n - 1 : T[i] = st[i] /\ C[i] = sc[i]
  BY <1>1, <1>3, <1>4
<1>7. Grown(st, T, sc, C, d, n)
  BY <1>1, <1>3, <1>4, <1>6 DEF Grown
<1> QED
  BY <1>5, <1>7

LEMMA ScopeOpened ==
  ASSUME NEW st \in Seq(Nat), NEW sc \in Seq(Seq(Decl)), NEW d \in Decl,
         NEW n \in 1 .. 2, Len(st) = n, Len(sc) = n
  PROVE  Opened(st, Append(st, 1), sc, Append(sc, <<d>>), n)
<1>1. /\ Append(st, 1) \in Seq(Nat) /\ Len(Append(st, 1)) = n + 1
      /\ \A i \in 1 .. n : Append(st, 1)[i] = st[i] /\ st[i] \in Nat
      /\ Append(st, 1)[n + 1] = 1
  BY ElementOfSeq, AppendProperties
<1>2. <<d>> \in Seq(Decl)
  OBVIOUS
<1>3. /\ Append(sc, <<d>>) \in Seq(Seq(Decl)) /\ Len(Append(sc, <<d>>)) = n + 1
      /\ \A i \in 1 .. n : Append(sc, <<d>>)[i] = sc[i]
  BY <1>2, AppendProperties
<1> QED
  BY <1>1, <1>3 DEF Opened

LEMMA DeclareStep ==
  ASSUME CInv, NEW n \in GlobalNames, DeclareFun(n)
  PROVE  CInv'
<1>1. /\ heap' = [heap EXCEPT ![env] = Pushed(@, NewDecl(n))]
      /\ stack' = [stack EXCEPT ![1] = @ + 1]
      /\ scopes' = [scopes EXCEPT ![1] = Append(@, NewDecl(n))]
      /\ count' = [count EXCEPT !["decl"] = @ + 1]
      /\ funs' = funs \union {n} /\ n \notin funs /\ cmd = "top"
      /\ env' = env /\ outer' = outer /\ inner' = inner /\ exists' = exists
      /\ preds' = preds /\ forms' = forms
  BY DEF DeclareFun
<1>2. UNCHANGED <<parsing, cmd, declares>>
  BY DEF DeclareFun
<1>3. Running /\ parsing = FALSE
  BY DEF DeclareFun, Running, CInv, Types
<1>4. /\ Len(stack) = 1 /\ exists = <<>> /\ outer = {} /\ inner = {}
      /\ Len(scopes[1]) # 0 /\ scopes[1][1] = Nil
  BY <1>1, <1>3, ControlFacts
<1>5. /\ heap[env] \in Array /\ heap[env].size \in Nat
      /\ stack \in Seq(Nat) /\ Len(scopes) = 1
      /\ scopes \in Seq(Seq(Decl)) /\ Aligned(heap[env], stack, scopes)
      /\ scopes[1] \in Seq(Decl)
  BY <1>3, <1>4, ContextFacts
<1>6. /\ heap' \in Seq(Array) /\ Len(heap') = Len(heap) /\ env' \in 1 .. Len(heap')
      /\ PushedArrayOK(heap[env], heap'[env], NewDecl(n)) /\ NewDecl(n).name = n
      /\ count' \in [{"decl", "pos", "neg"} -> Nat]
      /\ Owned' /\ PredsOK' /\ FormsOK'
  BY <1>1, <1>3, PushKeeps
<1> DEFINE d == NewDecl(n)
<1>7. d \in Decl /\ heap'[env] = Pushed(heap[env], d) /\ d.name = n
  BY <1>6 DEF PushedArrayOK
<1> HIDE DEF d
<1>8. /\ stack' = [stack EXCEPT ![1] = @ + 1] /\ scopes' = [scopes EXCEPT ![1] = Append(@, d)]
  BY <1>1 DEF d
<1>9. Grown(stack, stack', scopes, scopes', d, 1)
  <2>1. /\ stack \in Seq(Nat) /\ scopes \in Seq(Seq(Decl)) /\ d \in Decl
        /\ Len(stack) = 1 /\ Len(scopes) = 1 /\ 1 \in 1 .. 3
    BY <1>4, <1>5, <1>7
  <2>2. Grown(stack, [stack EXCEPT ![1] = @ + 1], scopes, [scopes EXCEPT ![1] = Append(@, d)], d, 1)
    BY <2>1, ScopeGrown
  <2> QED
    BY <1>8, <2>2
<1>10. /\ stack' \in Seq(Nat) /\ Len(stack') = 1 /\ scopes' \in Seq(Seq(Decl))
       /\ Len(scopes') = 1 /\ scopes'[1] = Append(scopes[1], d)
       /\ Len(Append(scopes[1], d)) = Len(scopes[1]) + 1 /\ Len(scopes[1]) \in Nat
       /\ \A j \in 1 .. Len(scopes[1]) : Append(scopes[1], d)[j] = scopes[1][j]
       /\ Append(scopes[1], d)[Len(scopes[1]) + 1] = d
  BY <1>5, <1>7, <1>9, AppendProperties, LenProperties DEF Grown
<1>11. Types'
  <2>1. funs' \subseteq GlobalNames
    BY <1>1 DEF CInv, Types
  <2> QED
    BY <1>1, <1>2, <1>6, <1>10, <2>1 DEF CInv, Types
<1>12. Control'
  <2>1. Len(scopes'[1]) # 0 /\ scopes'[1][1] = Nil
    BY <1>4, <1>10
  <2> QED
    BY <1>1, <1>2, <1>4, <1>10, <2>1 DEF CInv, Control
<1>13. Context'
  <2>1. /\ stack \in Seq(Nat) /\ scopes \in Seq(Seq(Decl)) /\ d \in Decl
        /\ Len(stack) = 1 /\ Len(scopes) = 1 /\ 1 \in 1 .. 3
        /\ heap[env] \in Array /\ Aligned(heap[env], stack, scopes)
    BY <1>4, <1>5, <1>7
  <2>2. Aligned(Pushed(heap[env], d), [stack EXCEPT ![1] = @ + 1],
                [scopes EXCEPT ![1] = Append(@, d)])
    BY <2>1, AlignedPush
  <2>3. Aligned(heap'[env], stack', scopes')
    BY <1>7, <1>8, <2>2
  <2> QED
    BY <1>1, <1>6, <2>3 DEF Context, PushedArrayOK
<1>14. UsesOK'
  BY <1>1, <1>4 DEF UsesOK, Places
<1>15. ExistsOK'
  BY <1>1, <1>2 DEF ExistsOK
<1> QED
  BY <1>6, <1>11, <1>12, <1>13, <1>14, <1>15 DEF CInv

(* A quantified variable or a parameter is pushed: the innermost scope     *)
(* grows or a scope is opened, and the others stay.                        *)
LEMMA PushStep ==
  ASSUME CInv, Running, NEW n \in LocalNames, inner = {},
         heap' = [heap EXCEPT ![env] = Pushed(@, NewDecl(n))],
         count' = [count EXCEPT !["decl"] = @ + 1],
         UNCHANGED <<env, funs, parsing, outer, inner, exists, preds, forms>>,
         cmd' \in {"define", "assert"}, declares' = TRUE,
         NEW m \in 2 .. 3, NEW l \in 2 .. 3,
         stack' \in Seq(Nat), Len(stack') = m, scopes' \in Seq(Seq(Decl)), Len(scopes') = m,
         \A i \in 1 .. l - 1 : scopes'[i] = scopes[i],
         Aligned(heap'[env], stack', scopes'),
         Control',
         cmd' = cmd => /\ \/ outer = {}
                          \/ /\ Before(stack, Inside(cmd)) \in Nat
                             /\ Before(stack', Inside(cmd)) = Before(stack, Inside(cmd))
                             /\ Before(stack, Inside(cmd)) <= heap[env].size
                       /\ (cmd = "define" => l = 3 \/ exists = <<>>),
         cmd' # cmd => cmd = "top"
  PROVE  CInv'
<1>1. n \in GlobalNames \union LocalNames
  OBVIOUS
<1>2. PICK k \in 1 .. 3 :
           /\ heap[env] \in Array /\ heap[env].size \in Nat
           /\ stack \in Seq(Nat) /\ Len(stack) = k
           /\ scopes \in Seq(Seq(Decl)) /\ Len(scopes) = k
           /\ Aligned(heap[env], stack, scopes)
           /\ \A i \in 1 .. k : scopes[i] \in Seq(Decl)
  BY ContextFacts
<1>3. /\ env' = env /\ funs' = funs /\ parsing' = parsing /\ outer' = outer
      /\ inner' = inner /\ exists' = exists /\ preds' = preds /\ forms' = forms
  OBVIOUS
<1>4. /\ heap' \in Seq(Array) /\ Len(heap') = Len(heap) /\ env' \in 1 .. Len(heap')
      /\ PushedArrayOK(heap[env], heap'[env], NewDecl(n)) /\ NewDecl(n).name = n
      /\ \A i \in 1 .. Len(heap) : i # env => heap'[i] = heap[i]
      /\ count' \in [{"decl", "pos", "neg"} -> Nat]
      /\ Owned' /\ PredsOK' /\ FormsOK'
  BY <1>1, <1>3, PushKeeps
<1>5. /\ heap'[env].freed = FALSE /\ heap'[env].size = heap[env].size + 1
      /\ \A p \in 1 .. heap[env].size : heap'[env].data[p] = heap[env].data[p]
  BY <1>4 DEF PushedArrayOK
<1>6. Types'
  <2>1. m \in {1, 2, 3}
    OBVIOUS
  <2>2. /\ funs' \subseteq GlobalNames /\ parsing' \in BOOLEAN
        /\ outer' \subseteq Use /\ inner' \subseteq Use
        /\ exists' \in Seq(Rule) /\ preds' \in Seq(Pred) /\ forms' \in [Sign -> Form]
    BY <1>3 DEF CInv, Types
  <2>3. /\ declares' \in BOOLEAN /\ cmd' \in {"top", "define", "assert", "exited"}
    OBVIOUS
  <2> QED
    BY <1>4, <2>1, <2>2, <2>3 DEF Types
<1>7. Context'
  BY <1>3, <1>5 DEF Context
<1>8. UsesOK'
  <2>1. Places(heap[env], Before(stack, Inside(cmd)), outer)
    BY DEF CInv, UsesOK
  <2>2. Places(heap'[env], heap'[env].size, inner')
    BY <1>3 DEF Places
  <2>3. Places(heap'[env], Before(stack', Inside(cmd')), outer)
    <3>1. CASE outer = {}
      BY <3>1 DEF Places
    <3>2. CASE outer # {}
      <4>1. cmd' = cmd
        BY <3>2, ControlFacts
      <4>2. /\ Before(stack, Inside(cmd)) \in Nat
            /\ Before(stack', Inside(cmd)) = Before(stack, Inside(cmd))
            /\ Before(stack, Inside(cmd)) <= heap[env].size
        BY <3>2, <4>1
      <4>3. \A p \in 1 .. Before(stack, Inside(cmd)) : heap'[env].data[p] = heap[env].data[p]
        <5>1. heap[env].size \in Nat
          BY <1>2
        <5>2. \A p \in 1 .. Before(stack, Inside(cmd)) : p \in 1 .. heap[env].size
          BY <4>2, <5>1
        <5> QED
          BY <1>5, <5>2
      <4>4. Places(heap'[env], Before(stack, Inside(cmd)), outer)
        BY <2>1, <4>3, PlacesSame
      <4>5. Places(heap'[env], Before(stack', Inside(cmd)), outer)
        BY <4>2, <4>4
      <4> QED
        BY <4>1, <4>5
    <3> QED
      BY <3>1, <3>2
  <2> QED
    BY <1>3, <2>2, <2>3 DEF UsesOK
<1>9. ExistsOK'
  <2>1. CASE exists = <<>>
    BY <1>3, <2>1 DEF ExistsOK
  <2>2. CASE exists # <<>>
    <3> SUFFICES ASSUME cmd' = "define", NEW i \in 1 .. Len(exists)
                 PROVE  RuleOK(heap', exists[i], scopes'[2])
      BY <1>3 DEF ExistsOK
    <3>1. cmd = "define"
      BY <2>2, ControlFacts
    <3>2. l = 3
      BY <2>2, <3>1
    <3>3. scopes'[2] = scopes[2]
      BY <3>2
    <3>4. RuleOK(heap, exists[i], scopes[2])
      BY <3>1 DEF CInv, ExistsOK
    <3>5. heap'[exists[i].vars] = heap[exists[i].vars]
      BY <1>4, OthersKept
    <3>6. RuleOK(heap', exists[i], scopes[2])
      BY <3>4, <3>5 DEF RuleOK
    <3> QED
      BY <3>3, <3>6
  <2> QED
    BY <2>1, <2>2
<1> QED
  BY <1>4, <1>6, <1>7, <1>8, <1>9 DEF CInv

LEMMA OpenStep ==
  ASSUME CInv, NEW c \in {"define", "assert"}, NEW n \in LocalNames, OpenScope(c, n)
  PROVE  CInv'
<1> DEFINE d == NewDecl(n)
<1>1. /\ heap' = [heap EXCEPT ![env] = Pushed(@, NewDecl(n))]
      /\ stack' = [Append(stack, 0) EXCEPT ![Len(Append(stack, 0))] = @ + 1]
      /\ count' = [count EXCEPT !["decl"] = @ + 1]
      /\ scopes' = Append(scopes, <<NewDecl(n)>>)
      /\ cmd' = c /\ declares' = TRUE /\ Len(stack) < MaxNesting
  BY DEF OpenScope, PushVar
<1>2. UNCHANGED <<env, funs, parsing, outer, inner, exists, preds, forms>>
  BY DEF OpenScope
<1>3. /\ parsing = FALSE /\ declares = FALSE
      /\ cmd = "top" => /\ c = "define" \/ (c = "assert" /\ TopExists = TRUE)
                        /\ c = "define" => Len(scopes[1]) = 1
      /\ cmd # "top" => c = cmd /\ (c = "define" \/ (TopExists = TRUE /\ Len(stack) = 1))
  BY ContextAssumption DEF OpenScope, CInv, Types
<1>4. Running
  BY <1>3 DEF Running
<1>5. PICK k \in 1 .. 3 :
           /\ heap[env] \in Array /\ heap[env].size \in Nat
           /\ stack \in Seq(Nat) /\ Len(stack) = k
           /\ scopes \in Seq(Seq(Decl)) /\ Len(scopes) = k
           /\ Aligned(heap[env], stack, scopes)
           /\ scopes[1] \in Seq(Decl)
  <2>1. 1 \in 1 .. 3 /\ \A k \in 1 .. 3 : 1 \in 1 .. k
    OBVIOUS
  <2> QED
    BY <1>4, <2>1, ContextFacts
<1>6. k \in 1 .. 2
  BY <1>1, <1>5 DEF MaxNesting
<1>7. d \in Decl
  BY DEF NewDecl, Decl, CInv, Types
<1> HIDE DEF d
<1>8. stack' = Append(stack, 1)
  <2> DEFINE s == Append(stack, 0)
             t == Append(stack, 1)
  <2>1. /\ s \in Seq(Nat) /\ Len(s) = k + 1
        /\ \A i \in 1 .. k : s[i] = stack[i]
        /\ s[k + 1] = 0
    BY <1>5, AppendProperties
  <2>2. /\ t \in Seq(Nat) /\ Len(t) = k + 1
        /\ \A i \in 1 .. k : t[i] = stack[i]
        /\ t[k + 1] = 1
    BY <1>5, AppendProperties
  <2>3. stack' = [s EXCEPT ![Len(s)] = s[Len(s)] + 1]
    BY <1>1
  <2> HIDE DEF s, t
  <2>4. s[Len(s)] + 1 = 1
    BY <2>1
  <2>5. k + 1 \in 1 .. Len(s) /\ 1 \in Nat
    BY <1>6, <2>1
  <2>6. stack' = [s EXCEPT ![k + 1] = 1]
    BY <2>1, <2>3, <2>4
  <2>7. /\ stack' \in Seq(Nat) /\ Len(stack') = Len(s)
        /\ \A i \in 1 .. Len(s) : stack'[i] = IF i = k + 1 THEN 1 ELSE s[i]
    BY <2>1, <2>5, <2>6, ExceptSeq
  <2>8. \A i \in 1 .. Len(t) : stack'[i] = t[i]
    <3> TAKE i \in 1 .. Len(t)
    <3>1. i = k + 1 \/ (i \in 1 .. k /\ i # k + 1)
      BY <1>6, <2>2
    <3>2. i \in 1 .. Len(s)
      BY <2>1, <2>2
    <3> QED
      BY <2>1, <2>2, <2>7, <3>1, <3>2
  <2>9. Len(stack') = Len(t)
    BY <2>1, <2>2, <2>7
  <2>10. stack' = t
    BY <2>2, <2>7, <2>8, <2>9, SeqEqual
  <2> QED
    BY <2>10 DEF t
<1>9. scopes' = Append(scopes, <<d>>)
  BY <1>1 DEF d
<1>10. Opened(stack, stack', scopes, scopes', k)
  <2>1. /\ stack \in Seq(Nat) /\ scopes \in Seq(Seq(Decl)) /\ Len(stack) = k /\ Len(scopes) = k
    BY <1>5
  <2>2. Opened(stack, Append(stack, 1), scopes, Append(scopes, <<d>>), k)
    BY <1>6, <1>7, <2>1, ScopeOpened
  <2> QED
    BY <1>8, <1>9, <2>2
<1>11. /\ stack' \in Seq(Nat) /\ Len(stack') = k + 1
       /\ scopes' \in Seq(Seq(Decl)) /\ Len(scopes') = k + 1
       /\ \A i \in 1 .. k : stack'[i] = stack[i] /\ scopes'[i] = scopes[i] /\ stack[i] \in Nat
       /\ stack'[k + 1] = 1
  BY <1>10 DEF Opened
<1>12. Aligned(heap'[env], stack', scopes')
  <2>1. /\ heap[env] \in Array /\ stack \in Seq(Nat) /\ scopes \in Seq(Seq(Decl))
        /\ Len(stack) = k /\ Len(scopes) = k /\ Aligned(heap[env], stack, scopes)
    BY <1>5
  <2>2. Aligned(Pushed(heap[env], d), Append(stack, 1), Append(scopes, <<d>>))
    BY <1>6, <1>7, <2>1, AlignedOpen
  <2>3. heap'[env] = Pushed(heap[env], d)
    BY <1>1 DEF d, CInv, Types
  <2> QED
    BY <1>8, <1>9, <2>2, <2>3
<1>13. /\ cmd \in {"top", "define", "assert"}
       /\ cmd = "top" => k = 1 /\ exists = <<>> /\ outer = {} /\ inner = {}
       /\ cmd = "define" => k = 2 /\ Len(scopes[1]) = 1 /\ inner = {}
       /\ cmd = "assert" => k = 1 /\ inner = {}
       /\ Len(scopes[1]) # 0 /\ scopes[1][1] = Nil
  <2>1. k # 3
    BY <1>6
  <2> QED
    BY <1>3, <1>4, <1>5, <2>1, ControlFacts
<1>14. scopes'[1] = scopes[1] /\ stack'[1] = stack[1]
  <2>1. 1 \in 1 .. k
    BY <1>6
  <2> QED
    BY <1>11, <2>1
<1>15. Control'
  <2>1. /\ cmd' = "define" => Len(stack') \in {2, 3} /\ Len(scopes'[1]) = 1
        /\ cmd' = "define" /\ Len(stack') = 2 => exists = <<>> /\ outer = {}
        /\ cmd' = "assert" => Len(stack') = 2 /\ TopExists = TRUE
    <3>1. k + 1 \in {2, 3} /\ (k = 1 => k + 1 = 2) /\ (k + 1 = 2 => k = 1)
      BY <1>6
    <3> QED
      BY <1>1, <1>3, <1>11, <1>13, <1>14, <3>1
  <2>2. inner' = {} /\ exists' = exists /\ outer' = outer /\ parsing' = FALSE
    BY <1>2, <1>3, <1>13
  <2>3. Len(scopes'[1]) # 0 /\ scopes'[1][1] = Nil
    BY <1>13, <1>14
  <2> QED
    BY <1>1, <2>1, <2>2, <2>3 DEF Control, Running
<1>16. cmd' = cmd =>
         /\ Before(stack, Inside(cmd)) \in Nat
         /\ Before(stack', Inside(cmd)) = Before(stack, Inside(cmd))
         /\ Before(stack, Inside(cmd)) <= heap[env].size
         /\ (cmd = "define" => k + 1 = 3 \/ exists = <<>>)
  <2> SUFFICES ASSUME cmd' = cmd
               PROVE  /\ Before(stack, k + 1) \in Nat
                      /\ Before(stack', k + 1) = Before(stack, k + 1)
                      /\ Before(stack, k + 1) = heap[env].size
    <3>1. Inside(cmd) = k + 1 /\ (cmd = "define" => k + 1 = 3)
      BY <1>1, <1>13 DEF Inside
    <3> QED
      BY <1>5, <3>1
  <2>1. \A i \in 1 .. k : stack'[i] = stack[i] /\ stack[i] \in Nat
    BY <1>11
  <2>2. k \in 1 .. 3 /\ k + 1 \in 1 .. 4 /\ k + 1 - 1 = k /\ k + 1 \in 1 .. k + 1
    BY <1>6
  <2>3. Before(stack, k + 1) \in Nat
    BY <2>1, <2>2, BeforeNext
  <2>4. \A i \in 1 .. (k + 1) - 1 : stack'[i] = stack[i]
    BY <2>1, <2>2
  <2>5. Before(stack', k + 1) = Before(stack, k + 1)
    BY <2>2, <2>4, BeforeSame
  <2>6. Before(stack, k + 1) = heap[env].size
    BY <1>5 DEF Aligned, Placed
  <2> QED
    BY <2>3, <2>5, <2>6
<1>17. /\ k + 1 \in 2 .. 3 /\ \A i \in 1 .. (k + 1) - 1 : scopes'[i] = scopes[i]
  BY <1>6, <1>11
<1>18. cmd' # cmd => cmd = "top"
  BY <1>1, <1>3
<1>19. cmd' \in {"define", "assert"}
  BY <1>1
<1>20. inner = {}
  BY <1>13
<1> QED
  BY <1>1, <1>2, <1>4, <1>11, <1>12, <1>15, <1>16, <1>17, <1>18, <1>19, <1>20, PushStep

LEMMA MoreStep ==
  ASSUME CInv, NEW n \in LocalNames, MoreVars(n)
  PROVE  CInv'
<1> DEFINE d == NewDecl(n)
<1>1. /\ heap' = [heap EXCEPT ![env] = Pushed(@, NewDecl(n))]
      /\ stack' = [stack EXCEPT ![Len(stack)] = @ + 1]
      /\ count' = [count EXCEPT !["decl"] = @ + 1]
      /\ scopes' = [scopes EXCEPT ![Len(scopes)] = Append(@, NewDecl(n))]
  BY DEF MoreVars, PushVar
<1>2. UNCHANGED <<env, funs, parsing, outer, inner, exists, preds, forms>>
  BY DEF MoreVars
<1>3. declares = TRUE /\ declares' = TRUE /\ cmd' = cmd
  BY DEF MoreVars, CInv, Types
<1>4. Running /\ cmd' \in {"define", "assert"}
  BY <1>3 DEF CInv, Control, Running, Types
<1>5. PICK k \in 1 .. 3 :
           /\ heap[env] \in Array /\ heap[env].size \in Nat
           /\ stack \in Seq(Nat) /\ Len(stack) = k
           /\ scopes \in Seq(Seq(Decl)) /\ Len(scopes) = k
           /\ Aligned(heap[env], stack, scopes)
  BY <1>4, ContextFacts
<1>6. /\ cmd = "define" => /\ k \in {2, 3} /\ Len(scopes[1]) = 1
                           /\ k = 2 => exists = <<>> /\ outer = {}
      /\ cmd = "assert" => k = 2
      /\ k \in {2, 3} /\ inner = {}
  BY <1>3, <1>4, <1>5, ControlFacts DEF CInv, Control
<1>7. d \in Decl
  BY DEF NewDecl, Decl, CInv, Types
<1> HIDE DEF d
<1>8. /\ stack' = [stack EXCEPT ![k] = @ + 1] /\ scopes' = [scopes EXCEPT ![k] = Append(@, d)]
  BY <1>1, <1>5 DEF d
<1>9. Grown(stack, stack', scopes, scopes', d, k)
  <2>1. /\ stack \in Seq(Nat) /\ scopes \in Seq(Seq(Decl)) /\ Len(stack) = k /\ Len(scopes) = k
    BY <1>5
  <2>2. Grown(stack, [stack EXCEPT ![k] = @ + 1], scopes, [scopes EXCEPT ![k] = Append(@, d)], d, k)
    BY <1>7, <2>1, ScopeGrown
  <2> QED
    BY <1>8, <2>2
<1>10. /\ stack' \in Seq(Nat) /\ Len(stack') = k
       /\ scopes' \in Seq(Seq(Decl)) /\ Len(scopes') = k
       /\ \A i \in 1 .. k - 1 : stack'[i] = stack[i] /\ scopes'[i] = scopes[i]
       /\ stack[k] \in Nat /\ stack'[k] = stack[k] + 1
  BY <1>9 DEF Grown
<1>11. Aligned(heap'[env], stack', scopes')
  <2>1. /\ heap[env] \in Array /\ stack \in Seq(Nat) /\ scopes \in Seq(Seq(Decl))
        /\ Len(stack) = k /\ Len(scopes) = k /\ Aligned(heap[env], stack, scopes)
    BY <1>5
  <2>2. Aligned(Pushed(heap[env], d), [stack EXCEPT ![k] = @ + 1],
                [scopes EXCEPT ![k] = Append(@, d)])
    BY <1>7, <2>1, AlignedPush
  <2>3. heap'[env] = Pushed(heap[env], d)
    <3>1. heap \in Seq(Array) /\ env \in 1 .. Len(heap)
      BY DEF CInv, Types
    <3>2. env \in DOMAIN heap
      BY <3>1, LenProperties
    <3> QED
      BY <1>1, <3>2 DEF d
  <2> QED
    BY <1>8, <2>2, <2>3
<1>12. scopes'[1] = scopes[1]
  <2>1. 1 \in 1 .. k - 1
    BY <1>6
  <2> QED
    BY <1>10, <2>1
<1>13. Control'
  <2>1. Len(stack') = Len(stack)
    BY <1>5, <1>10
  <2>2. exists' = exists /\ outer' = outer /\ inner' = inner /\ parsing' = parsing
    BY <1>2
  <2>3. Running'
    BY <1>3, <1>4, <2>2 DEF Running
  <2> QED
    BY <1>3, <1>4, <1>12, <2>1, <2>2, <2>3 DEF CInv, Control
<1>14. \A i \in 1 .. k : stack[i] \in Nat /\ stack'[i] \in Nat
  BY <1>5, <1>10, ElementOfSeq
<1>15. k \in 1 .. 3 /\ \A i \in 1 .. k : stack[i] \in Nat
  BY <1>14
<1>16. /\ \A i \in 1 .. k + 1 : Before(stack, i) \in Nat
       /\ \A i \in 1 .. k : Before(stack, i + 1) = Before(stack, i) + stack[i]
  BY <1>15, BeforeNext
<1>17. Before(stack', k) = Before(stack, k)
  <2>1. k \in 1 .. 4 /\ \A i \in 1 .. k - 1 : stack'[i] = stack[i]
    BY <1>10
  <2>2. k \in 1 .. k
    OBVIOUS
  <2> QED
    BY <2>1, <2>2, BeforeSame
<1>18. Before(stack, k + 1) = heap[env].size
  BY <1>5 DEF Aligned, Placed
<1>19. Before(stack, k) \in Nat /\ Before(stack, k) <= Before(stack, k + 1)
  <2>1. k \in 1 .. k /\ k \in 1 .. k + 1
    OBVIOUS
  <2>2. /\ Before(stack, k) \in Nat
        /\ Before(stack, k + 1) = Before(stack, k) + stack[k]
    BY <1>16, <2>1
  <2> QED
    BY <1>10, <2>2
<1>20. Inside(cmd) = k \/ (cmd = "define" /\ k = 2)
  BY <1>3, <1>4, <1>6 DEF Inside
<1>21. cmd' = cmd =>
         /\ \/ outer = {}
            \/ /\ Before(stack, Inside(cmd)) \in Nat
               /\ Before(stack', Inside(cmd)) = Before(stack, Inside(cmd))
               /\ Before(stack, Inside(cmd)) <= heap[env].size
         /\ (cmd = "define" => k = 3 \/ exists = <<>>)
  <2>1. CASE Inside(cmd) = k
    BY <1>6, <1>17, <1>18, <1>19, <2>1
  <2>2. CASE cmd = "define" /\ k = 2
    BY <1>6, <2>2
  <2> QED
    BY <1>20, <2>1, <2>2
<1>22. k \in 2 .. 3 /\ \A i \in 1 .. k - 1 : scopes'[i] = scopes[i]
  BY <1>6, <1>10
<1> QED
  BY <1>1, <1>2, <1>3, <1>4, <1>6, <1>10, <1>11, <1>13, <1>21, <1>22, PushStep

-----------------------------------------------------------------------------
(* Steps that pop a scope.                                                 *)

LEMMA OthersStep ==
  ASSUME CInv, \A i \in 1 .. Len(heap) : i # env => heap'[i] = heap[i],
         forms' = forms, \A s \in Sign : count'[s] = count[s]
  PROVE  FormsOK' /\ (preds' = preds => PredsOK')
<1>1. /\ \A i \in 1 .. Len(preds) : \A j \in 1 .. Len(preds[i].rules) :
            RuleOK(heap', preds[i].rules[j], preds[i].formals)
      /\ \A s \in Sign : forms[s].lvars # 0 => heap'[forms[s].lvars] = heap[forms[s].lvars]
  BY OthersKept
<1>2. FormsOK'
  BY <1>1 DEF CInv, FormsOK
<1>3. ASSUME preds' = preds
      PROVE  PredsOK'
  BY <1>1, <1>3 DEF CInv, PredsOK
<1> QED
  BY <1>2, <1>3

LEMMA CopyPlaces ==
  ASSUME NEW a \in Array, NEW uses, Places(a, a.size, uses)
  PROVE  Places(New(Content(a)), New(Content(a)).size, uses)
<1>1. /\ New(Content(a)).size = a.size
      /\ \A k \in 1 .. a.size : New(Content(a)).data[k] = a.data[k]
  BY CopyContent
<1> QED
  BY <1>1, PlacesSame

(* The context after its innermost scope is popped, and the array copied   *)
(* before that.                                                            *)
PoppedScope(n) ==
  /\ heap' \in Seq(Array) /\ Len(heap') = Len(heap) + 1
  /\ heap'[env] = Popped(heap[env], stack[n])
  /\ heap'[Len(heap) + 1] = New(Content(heap[env]))
  /\ \A i \in 1 .. Len(heap) : i # env => heap'[i] = heap[i]
  /\ stack' \in Seq(Nat) /\ Len(stack') = n - 1
  /\ scopes' \in Seq(Seq(Decl)) /\ Len(scopes') = n - 1
  /\ \A i \in 1 .. n - 1 : stack'[i] = stack[i] /\ scopes'[i] = scopes[i]
  /\ Len(heap) \in Nat /\ env \in 1 .. Len(heap)

LEMMA PopHeap ==
  ASSUME CInv, Running, NEW n \in 2 .. 3, Len(stack) = n,
         \/ heap' = [Append(heap, New(Content(heap[env]))) EXCEPT ![env] = Popped(@, stack[n])]
         \/ heap' = Append([heap EXCEPT ![env] = Popped(@, stack[n])], New(Content(heap[env]))),
         stack' = Front(stack), scopes' = Front(scopes)
  PROVE  PoppedScope(n)
<1> DEFINE a == heap[env]
           b == Popped(a, stack[n])
           c == New(Content(a))
<1>1. heap \in Seq(Array) /\ env \in 1 .. Len(heap) /\ Len(heap) \in Nat
  BY LenProperties DEF CInv, Types
<1>2. /\ a \in Array /\ stack \in Seq(Nat) /\ scopes \in Seq(Seq(Decl))
      /\ Len(scopes) = n /\ Aligned(a, stack, scopes)
  BY ContextFacts
<1>3. /\ stack[n] \in Nat /\ stack[n] <= a.size
      /\ Front(stack) \in Seq(Nat) /\ Len(Front(stack)) = n - 1
      /\ Front(scopes) \in Seq(Seq(Decl)) /\ Len(Front(scopes)) = n - 1
      /\ \A i \in 1 .. n - 1 : Front(stack)[i] = stack[i] /\ Front(scopes)[i] = scopes[i]
  <2>1. /\ a \in Array /\ stack \in Seq(Nat) /\ scopes \in Seq(Seq(Decl))
        /\ Len(stack) = n /\ Len(scopes) = n /\ Aligned(a, stack, scopes)
    BY <1>2
  <2> HIDE DEF a, b, c
  <2> QED
    BY <2>1, AlignedPop
<1>4. b \in Array
  BY <1>2, <1>3, PoppedArray
<1>5. c \in Array
  BY <1>2, CopyContent
<1> HIDE DEF b, c
<1>6. /\ heap' \in Seq(Array) /\ Len(heap') = Len(heap) + 1 /\ heap'[env] = b
      /\ heap'[Len(heap) + 1] = c
      /\ \A i \in 1 .. Len(heap) : i # env => heap'[i] = heap[i]
  <2>1. CASE heap' = [Append(heap, c) EXCEPT ![env] = Popped(@, stack[n])]
    <3> DEFINE g == Append(heap, c)
    <3>1. /\ g \in Seq(Array) /\ Len(g) = Len(heap) + 1
          /\ \A i \in 1 .. Len(heap) : g[i] = heap[i]
          /\ g[Len(heap) + 1] = c
      BY <1>1, <1>5, AppendProperties
    <3>2. heap' = [g EXCEPT ![env] = Popped(g[env], stack[n])]
      BY <2>1
    <3> HIDE DEF g
    <3>3. heap' = [g EXCEPT ![env] = b]
      BY <1>1, <3>1, <3>2 DEF b
    <3>4. env \in 1 .. Len(g) /\ Len(heap) + 1 \in 1 .. Len(g) /\ env # Len(heap) + 1
      BY <1>1, <3>1
    <3>5. /\ heap' \in Seq(Array) /\ Len(heap') = Len(g)
          /\ \A j \in 1 .. Len(g) : heap'[j] = IF j = env THEN b ELSE g[j]
      BY <1>4, <3>1, <3>3, <3>4, ExceptSeq
    <3>6. \A i \in 1 .. Len(heap) : i \in 1 .. Len(g)
      BY <1>1, <3>1
    <3> QED
      BY <3>1, <3>4, <3>5, <3>6
  <2>2. CASE heap' = Append([heap EXCEPT ![env] = Popped(@, stack[n])], c)
    <3> DEFINE g == [heap EXCEPT ![env] = b]
    <3>1. /\ g \in Seq(Array) /\ Len(g) = Len(heap)
          /\ \A j \in 1 .. Len(heap) : g[j] = IF j = env THEN b ELSE heap[j]
      BY <1>1, <1>4, ExceptSeq
    <3>2. heap' = Append(g, c)
      BY <2>2 DEF b
    <3> HIDE DEF g
    <3>3. /\ Append(g, c) \in Seq(Array) /\ Len(Append(g, c)) = Len(g) + 1
          /\ \A i \in 1 .. Len(g) : Append(g, c)[i] = g[i]
          /\ Append(g, c)[Len(g) + 1] = c
      BY <1>5, <3>1, AppendProperties
    <3> QED
      BY <1>1, <3>1, <3>2, <3>3
  <2> QED
    BY <2>1, <2>2 DEF b, c
<1>7. /\ stack' \in Seq(Nat) /\ Len(stack') = n - 1
      /\ scopes' \in Seq(Seq(Decl)) /\ Len(scopes') = n - 1
      /\ \A i \in 1 .. n - 1 : stack'[i] = stack[i] /\ scopes'[i] = scopes[i]
  BY <1>3
<1> QED
  BY <1>1, <1>6, <1>7 DEF PoppedScope, b, c

LEMMA PopContext ==
  ASSUME CInv, Running, NEW n \in 2 .. 3, Len(stack) = n,
         PoppedScope(n), stack' = Front(stack), scopes' = Front(scopes),
         env' = env, funs' = funs
  PROVE  /\ Context'
         /\ \A k \in 1 .. heap[env].size : heap'[env].data[k] = heap[env].data[k]
         /\ Before(stack', n) = Before(stack, n)
         /\ env' \in 1 .. Len(heap') /\ scopes'[1] = scopes[1]
<1> DEFINE a == heap[env]
           b == Popped(a, stack[n])
<1>1. /\ a \in Array /\ a.freed = FALSE /\ a.size \in Nat
      /\ stack \in Seq(Nat) /\ scopes \in Seq(Seq(Decl))
      /\ Len(scopes) = n /\ Aligned(a, stack, scopes)
  BY ContextFacts
<1>2. /\ stack[n] \in Nat /\ stack[n] <= a.size
      /\ Aligned(b, Front(stack), Front(scopes))
  BY <1>1, AlignedPop
<1>3. b.size = a.size - stack[n] /\ b.freed = FALSE /\ b.data = a.data
  BY <1>1, <1>2, PoppedArray
<1>4. heap'[env] = b /\ \A i \in 1 .. n - 1 : stack'[i] = stack[i] /\ scopes'[i] = scopes[i]
  BY DEF PoppedScope
<1> HIDE DEF a, b
<1>5. scopes'[1] = scopes[1]
  <2>1. 1 \in 1 .. n - 1
    OBVIOUS
  <2> QED
    BY <1>4, <2>1
<1>6. Context'
  <2>1. Aligned(heap'[env], stack', scopes')
    BY <1>2, <1>4
  <2> QED
    BY <1>3, <1>4, <2>1 DEF Context
<1>7. Before(stack', n) = Before(stack, n)
  <2>1. n \in 1 .. 4 /\ \A i \in 1 .. n - 1 : stack'[i] = stack[i]
    BY <1>4
  <2>2. n \in 1 .. n
    OBVIOUS
  <2> QED
    BY <2>1, <2>2, BeforeSame
<1>8. env' \in 1 .. Len(heap')
  BY DEF PoppedScope
<1> QED
  BY <1>3, <1>4, <1>5, <1>6, <1>7, <1>8 DEF a

(* A rule over the copy of the context.                                    *)
LEMMA CopyRule ==
  ASSUME CInv, Running, cmd = "define", NEW n \in 2 .. 3, Len(stack) = n, PoppedScope(n),
         NEW r \in Rule, r.vars = Len(heap) + 1, Places(heap[env], heap[env].size, r.uses),
         n = 2 => r.own = <<>>, n = 3 => r.own = scopes[3]
  PROVE  RuleOK(heap', r, scopes[2])
<1> DEFINE a == heap[env]
           c == New(Content(a))
<1>1. /\ a \in Array /\ Len(scopes) = n /\ Aligned(a, stack, scopes)
      /\ \A i \in 1 .. n : scopes[i] \in Seq(Decl)
  BY ContextFacts
<1>2. heap'[r.vars] = c
  BY DEF PoppedScope
<1>3. c.freed = FALSE /\ Content(c) = Content(a)
  BY <1>1, CopyContent
<1>4. Places(c, c.size, r.uses)
  BY <1>1, CopyPlaces
<1>5. Len(scopes[1]) = 1 /\ scopes[1][1] = Nil
  BY ControlFacts
<1>6. 2 \in 1 .. n /\ n \in 1 .. n
  OBVIOUS
<1>7. /\ scopes[2] \in Seq(Decl) /\ scopes[n] \in Seq(Decl)
      /\ Len(scopes[2]) \in Nat /\ Len(scopes[n]) \in Nat
  BY <1>1, <1>6, LenProperties
<1> HIDE DEF a, c
<1>8. /\ a.data[1] = Nil
      /\ \A j \in 1 .. Len(scopes[2]) : a.data[1 + j] = scopes[2][j]
      /\ n = 2 => a.size = 1 + Len(scopes[2])
      /\ n = 3 => /\ a.size = 1 + Len(scopes[2]) + Len(scopes[3])
                  /\ \A j \in 1 .. Len(scopes[3]) : a.data[1 + Len(scopes[2]) + j] = scopes[3][j]
  <2>1. /\ Len(stack) = n /\ Aligned(a, stack, scopes)
        /\ Len(scopes[1]) = 1 /\ Len(scopes[2]) \in Nat /\ Len(scopes[n]) \in Nat
        /\ scopes[1][1] = Nil
    BY <1>1, <1>5, <1>7
  <2>2. Parts(a, scopes, n)
    BY <2>1, AlignedParts
  <2> QED
    BY <2>2 DEF Parts
<1>9. Content(a) = <<Nil>> \o scopes[2] \o r.own
  <2>1. CASE n = 2
    <3>1. a.size = 1 + Len(scopes[2]) /\ r.own = <<>>
      BY <1>8, <2>1
    <3>2. Content(a) = <<Nil>> \o scopes[2] \o <<>>
      BY <1>1, <1>7, <1>8, <3>1, BaseContent
    <3> QED
      BY <3>1, <3>2
  <2>2. CASE n = 3
    <3>1. /\ a.size = 1 + Len(scopes[2]) + Len(scopes[3]) /\ r.own = scopes[3]
          /\ scopes[3] \in Seq(Decl)
          /\ \A j \in 1 .. Len(scopes[3]) : a.data[1 + Len(scopes[2]) + j] = scopes[3][j]
      BY <1>7, <1>8, <2>2
    <3>2. Content(a) = <<Nil>> \o scopes[2] \o scopes[3]
      BY <1>1, <1>7, <1>8, <3>1, RecursiveContent
    <3> QED
      BY <3>1, <3>2
  <2>3. n = 2 \/ n = 3
    OBVIOUS
  <2> QED
    BY <2>1, <2>2, <2>3
<1> QED
  BY <1>2, <1>3, <1>4, <1>9 DEF RuleOK

LEMMA CloseStep ==
  ASSUME CInv, CloseExists
  PROVE  CInv'
<1> DEFINE r == [vars |-> Len(heap) + 1, uses |-> inner, own |-> Last(scopes)]
<1>1. /\ cmd \in {"define", "assert"} /\ declares = FALSE
      /\ Len(stack) > Level(cmd)
      /\ heap' = [Append(heap, New(Content(heap[env]))) EXCEPT ![env] = Popped(@, Last(stack))]
      /\ exists' = Append(exists, r)
      /\ stack' = Front(stack) /\ scopes' = Front(scopes) /\ inner' = {}
  BY DEF CloseExists, QuantVars, CInv, Types
<1>2. UNCHANGED <<env, funs, parsing, cmd, declares, outer, preds, forms, count>>
  BY DEF CloseExists
<1>3. Running /\ parsing = FALSE
  BY <1>1 DEF CInv, Control, Running, Types
<1>4. PICK n \in 1 .. 3 :
           /\ heap[env] \in Array /\ heap[env].size \in Nat
           /\ stack \in Seq(Nat) /\ Len(stack) = n
           /\ scopes \in Seq(Seq(Decl)) /\ Len(scopes) = n
           /\ Aligned(heap[env], stack, scopes)
           /\ \A i \in 1 .. n : scopes[i] \in Seq(Decl)
  BY <1>3, ContextFacts
<1>5. /\ n \in 2 .. 3 /\ Inside(cmd) = n
      /\ cmd = "define" => n = 3 /\ Len(scopes[1]) = 1
      /\ cmd = "assert" => n = 2 /\ ~(TopExists = FALSE)
      /\ Len(scopes[1]) # 0 /\ scopes[1][1] = Nil
  <2>1. /\ cmd = "define" => n \in {2, 3} /\ Len(scopes[1]) = 1
        /\ cmd = "assert" => n \in {1, 2}
        /\ cmd = "assert" /\ TopExists = FALSE => n = 1
        /\ Len(scopes[1]) # 0 /\ scopes[1][1] = Nil
    BY <1>3, <1>4, ControlFacts
  <2>2. /\ cmd = "define" => n > 2 /\ Inside(cmd) = 3
        /\ cmd = "assert" => n > 1 /\ Inside(cmd) = 2
    BY <1>1, <1>4 DEF Level, Inside
  <2>3. CASE cmd = "define"
    <3>1. n = 3
      BY <2>1, <2>2, <2>3
    <3> QED
      BY <2>1, <2>2, <2>3, <3>1
  <2>4. CASE cmd = "assert"
    <3>1. n = 2
      BY <2>1, <2>2, <2>4
    <3>2. ~(TopExists = FALSE)
      BY <2>1, <2>4, <3>1
    <3> QED
      BY <2>1, <2>2, <2>4, <3>1, <3>2
  <2> QED
    BY <1>1, <2>3, <2>4
<1>6. r = [vars |-> Len(heap) + 1, uses |-> inner, own |-> scopes[n]] /\ Last(stack) = stack[n]
  BY <1>4 DEF Last
<1> HIDE DEF r
<1>7. PoppedScope(n)
  <2>1. heap' = [Append(heap, New(Content(heap[env]))) EXCEPT ![env] = Popped(@, stack[n])]
    BY <1>1, <1>6
  <2> QED
    BY <1>1, <1>3, <1>4, <1>5, <2>1, PopHeap
<1>8. /\ heap' \in Seq(Array) /\ Len(heap') = Len(heap) + 1
      /\ heap'[Len(heap) + 1] = New(Content(heap[env]))
      /\ \A i \in 1 .. Len(heap) : i # env => heap'[i] = heap[i]
      /\ stack' \in Seq(Nat) /\ Len(stack') = n - 1
      /\ scopes' \in Seq(Seq(Decl)) /\ Len(scopes') = n - 1
      /\ \A i \in 1 .. n - 1 : stack'[i] = stack[i] /\ scopes'[i] = scopes[i]
      /\ Len(heap) \in Nat /\ env \in 1 .. Len(heap)
  BY <1>7 DEF PoppedScope
<1>9. /\ Context'
      /\ \A k \in 1 .. heap[env].size : heap'[env].data[k] = heap[env].data[k]
      /\ Before(stack', n) = Before(stack, n)
      /\ env' \in 1 .. Len(heap') /\ scopes'[1] = scopes[1]
  BY <1>1, <1>2, <1>3, <1>4, <1>5, <1>7, PopContext
<1>10. r \in Rule
  <2>1. scopes[n] \in Seq(Decl) /\ Len(heap) + 1 \in Nat /\ inner \subseteq Use
    <3>1. inner \subseteq Use
      BY DEF CInv, Types
    <3>2. n \in 1 .. n
      OBVIOUS
    <3>3. scopes[n] \in Seq(Decl)
      BY <1>4, <3>2
    <3> QED
      BY <1>8, <3>1, <3>3
  <2> QED
    BY <1>6, <2>1 DEF Rule
<1>11. /\ exists' \in Seq(Rule) /\ Len(exists') = Len(exists) + 1 /\ Len(exists) \in Nat
       /\ \A i \in 1 .. Len(exists) : exists'[i] = exists[i]
       /\ exists'[Len(exists) + 1] = r
  BY <1>1, <1>10, AppendProperties, LenProperties DEF CInv, Types
<1>12. Types'
  <2>1. Len(stack') \in {1, 2, 3} /\ Len(scopes') = Len(stack')
    BY <1>5, <1>8
  <2>2. /\ funs' \subseteq GlobalNames /\ parsing' \in BOOLEAN /\ declares' \in BOOLEAN
        /\ outer' \subseteq Use /\ inner' \subseteq Use
        /\ cmd' \in {"top", "define", "assert", "exited"}
        /\ preds' \in Seq(Pred) /\ forms' \in [Sign -> Form]
        /\ count' \in [{"decl", "pos", "neg"} -> Nat]
    BY <1>1, <1>2 DEF CInv, Types
  <2> QED
    BY <1>8, <1>9, <1>11, <2>1, <2>2 DEF Types
<1>13. Control'
  <2>1. /\ cmd = "define" => Len(stack') = 2 /\ Len(scopes'[1]) = 1
        /\ cmd = "assert" => Len(stack') = 1
    BY <1>5, <1>8, <1>9
  <2>2. cmd' = cmd /\ declares' = FALSE /\ parsing' = FALSE
    BY <1>1, <1>2, <1>3
  <2>3. Len(scopes'[1]) # 0 /\ scopes'[1][1] = Nil
    BY <1>5, <1>9
  <2> QED
    BY <1>1, <1>5, <2>1, <2>2, <2>3 DEF Control
<1>14. UsesOK'
  <2>1. Places(heap[env], Before(stack, n), outer)
    BY <1>3, <1>5 DEF CInv, UsesOK
  <2>2. \A i \in 1 .. n : stack[i] \in Nat
    BY <1>4, ElementOfSeq
  <2>3. /\ Before(stack, n) \in Nat /\ stack[n] \in Nat
        /\ Before(stack, n + 1) = Before(stack, n) + stack[n]
    <3>1. n \in 1 .. n /\ n \in 1 .. n + 1
      OBVIOUS
    <3> QED
      BY <2>2, <3>1, BeforeNext
  <2>4. heap[env].size = Before(stack, n + 1)
    BY <1>4 DEF Aligned, Placed
  <2>5. Before(stack, n) <= heap[env].size
    BY <2>3, <2>4
  <2>6. Places(heap'[env], Before(stack, n), outer)
    <3>1. \A k \in 1 .. Before(stack, n) : heap'[env].data[k] = heap[env].data[k]
      BY <1>4, <1>9, <2>3, <2>5
    <3> QED
      BY <2>1, <3>1, PlacesSame
  <2>7. Places(heap'[env], heap'[env].size, inner')
    BY <1>1 DEF Places
  <2>8. env' = env /\ cmd' = cmd /\ outer' = outer
    BY <1>2
  <2> QED
    BY <1>5, <1>9, <2>6, <2>7, <2>8 DEF UsesOK
<1>15. Owned'
  <2>1. /\ r.vars \in 1 .. Len(heap') /\ r.vars # env
        /\ \A i \in 0 .. Len(heap) : r.vars # i
        /\ 1 .. Len(heap) \subseteq 1 .. Len(heap')
        /\ 0 .. Len(heap) \subseteq 0 .. Len(heap')
    BY <1>6, <1>8
  <2>2. /\ \A s \in Sign : forms[s].lvars \in 0 .. Len(heap) /\ forms[s].lvars # env
        /\ forms["pos"].lvars = 0 \/ forms["pos"].lvars # forms["neg"].lvars
    BY DEF CInv, Owned
  <2>3. \A i \in 1 .. Len(exists) :
          /\ exists[i].vars \in 1 .. Len(heap) /\ exists[i].vars # env
          /\ \A s \in Sign : exists[i].vars # forms[s].lvars
    BY DEF CInv, Owned
  <2>4. \A i \in 1 .. Len(preds) : \A j \in 1 .. Len(preds[i].rules) :
          /\ preds[i].rules[j].vars \in 1 .. Len(heap) /\ preds[i].rules[j].vars # env
          /\ \A s \in Sign : preds[i].rules[j].vars # forms[s].lvars
    BY DEF CInv, Owned
  <2>5. env' = env /\ forms' = forms /\ preds' = preds
    BY <1>2
  <2>6. \A s \in Sign : r.vars # forms[s].lvars
    BY <2>1, <2>2
  <2>7. \A i \in 1 .. Len(exists') :
          /\ exists'[i].vars \in 1 .. Len(heap') /\ exists'[i].vars # env
          /\ \A s \in Sign : exists'[i].vars # forms[s].lvars
    <3> TAKE i \in 1 .. Len(exists')
    <3>1. CASE i \in 1 .. Len(exists)
      BY <1>11, <2>1, <2>3, <3>1
    <3>2. CASE i = Len(exists) + 1
      BY <1>11, <2>1, <2>6, <3>2
    <3> QED
      BY <1>11, <3>1, <3>2
  <2>8. \A s \in Sign : forms[s].lvars \in 0 .. Len(heap')
    BY <2>1, <2>2
  <2>9. \A i \in 1 .. Len(preds) : \A j \in 1 .. Len(preds[i].rules) :
          preds[i].rules[j].vars \in 1 .. Len(heap')
    BY <2>1, <2>4
  <2> HIDE <1>8
  <2> QED
    BY <2>2, <2>4, <2>5, <2>7, <2>8, <2>9 DEF Owned
<1>16. PredsOK' /\ FormsOK'
  <2>1. forms' = forms /\ preds' = preds /\ \A s \in Sign : count'[s] = count[s]
    BY <1>2
  <2> QED
    BY <1>8, <2>1, OthersStep
<1>17. ExistsOK'
  <2> SUFFICES ASSUME cmd = "define", NEW i \in 1 .. Len(exists')
               PROVE  RuleOK(heap', exists'[i], scopes'[2])
    BY <1>2 DEF ExistsOK
  <2>1. n = 3
    BY <1>5
  <2>2. scopes'[2] = scopes[2]
    BY <1>8, <2>1
  <2>3. CASE i \in 1 .. Len(exists)
    <3>1. RuleOK(heap, exists[i], scopes[2])
      BY <1>3, <2>3 DEF CInv, ExistsOK
    <3>2. heap'[exists[i].vars] = heap[exists[i].vars]
      <4>1. \A l \in 1 .. Len(heap) : l # env => heap'[l] = heap[l]
        BY <1>8
      <4>2. \A l \in 1 .. Len(exists) : heap'[exists[l].vars] = heap[exists[l].vars]
        BY <4>1, OthersKept
      <4> QED
        BY <2>3, <4>2
    <3>3. RuleOK(heap', exists[i], scopes[2])
      BY <3>1, <3>2 DEF RuleOK
    <3> QED
      BY <1>11, <2>2, <2>3, <3>3
  <2>4. CASE i = Len(exists) + 1
    <3>1. Places(heap[env], heap[env].size, inner)
      BY <1>3 DEF CInv, UsesOK
    <3>2. r.vars = Len(heap) + 1 /\ r.uses = inner /\ r.own = scopes[3]
      BY <1>6, <2>1
    <3>3. RuleOK(heap', r, scopes[2])
      BY <1>3, <1>4, <1>7, <1>10, <2>1, <3>1, <3>2, CopyRule
    <3> QED
      BY <1>11, <2>2, <2>4, <3>3
  <2> QED
    BY <1>11, <2>3, <2>4
<1> QED
  BY <1>9, <1>12, <1>13, <1>14, <1>15, <1>16, <1>17 DEF CInv

LEMMA DefineStep ==
  ASSUME CInv, DefineFun
  PROVE  CInv'
<1> DEFINE base == [vars |-> Len(heap) + 1, uses |-> outer, own |-> <<>>]
           rules == Append(exists, base)
           p == [vars |-> RuleVars(rules), fargs |-> stack[2],
                 formals |-> scopes[2], rules |-> rules]
<1>1. /\ cmd = "define" /\ declares = FALSE /\ Len(stack) = 2 /\ exists # <<>>
      /\ heap' = Append([heap EXCEPT ![env] = Popped(@, stack[2])], New(Content(heap[env])))
      /\ preds' = Append(preds, p)
      /\ stack' = Front(stack) /\ scopes' = Front(scopes)
      /\ cmd' = "top" /\ outer' = {} /\ exists' = <<>>
  BY DEF DefineFun, CInv, Types
<1>2. UNCHANGED <<env, funs, parsing, declares, inner, forms, count>>
  BY DEF DefineFun
<1>3. Running /\ parsing = FALSE
  BY <1>1 DEF CInv, Control, Running, Types
<1>4. /\ heap[env] \in Array /\ heap[env].size \in Nat
      /\ stack \in Seq(Nat) /\ scopes \in Seq(Seq(Decl)) /\ Len(scopes) = 2
      /\ Aligned(heap[env], stack, scopes)
      /\ \A i \in 1 .. 2 : scopes[i] \in Seq(Decl)
  BY <1>1, <1>3, ContextFacts
<1>5. /\ Len(scopes[1]) = 1 /\ inner = {} /\ scopes[1][1] = Nil
  BY <1>1, <1>3, ControlFacts
<1>6. 2 \in 2 .. 3 /\ 2 \in 1 .. 2 /\ 1 \in 1 .. 1 /\ 2 \in 1 .. 3
  OBVIOUS
<1>7. PoppedScope(2)
  BY <1>1, <1>3, <1>6, PopHeap
<1>8. /\ heap' \in Seq(Array) /\ Len(heap') = Len(heap) + 1
      /\ \A i \in 1 .. Len(heap) : i # env => heap'[i] = heap[i]
      /\ stack' \in Seq(Nat) /\ Len(stack') = 1
      /\ scopes' \in Seq(Seq(Decl)) /\ Len(scopes') = 1
      /\ Len(heap) \in Nat /\ env \in 1 .. Len(heap)
  BY <1>7 DEF PoppedScope
<1>9. Context' /\ env' \in 1 .. Len(heap') /\ scopes'[1] = scopes[1]
  BY <1>1, <1>2, <1>3, <1>6, <1>7, PopContext
<1>10. stack[2] \in Nat /\ stack[2] = Len(scopes[2]) /\ scopes[2] \in Seq(Decl)
  BY <1>1, <1>4, <1>6, ElementOfSeq DEF Aligned
<1>11. /\ exists \in Seq(Rule) /\ Len(exists) \in Nat /\ Len(exists) >= 1
       /\ preds \in Seq(Pred) /\ Len(preds) \in Nat
  <2>1. exists \in Seq(Rule) /\ preds \in Seq(Pred)
    BY DEF CInv, Types
  <2>2. Len(exists) # 0
    BY <1>1, <2>1, EmptySeq
  <2> QED
    BY <2>1, <2>2, LenProperties
<1>12. base \in Rule
  <2>1. Len(heap) + 1 \in Nat /\ outer \subseteq Use /\ <<>> \in Seq(Decl)
    <3>1. outer \subseteq Use
      BY DEF CInv, Types
    <3> QED
      BY <1>8, <3>1
  <2> QED
    BY <2>1 DEF Rule
<1>13. base.vars = Len(heap) + 1 /\ base.uses = outer /\ base.own = <<>>
  OBVIOUS
<1> HIDE DEF base
<1>14. /\ rules \in Seq(Rule) /\ Len(rules) = Len(exists) + 1
       /\ \A i \in 1 .. Len(exists) : rules[i] = exists[i]
       /\ rules[Len(exists) + 1] = base
  BY <1>11, <1>12, AppendProperties
<1> HIDE DEF rules
<1>15. /\ p.vars = rules[1].vars /\ p.fargs = Len(scopes[2]) /\ p.formals = scopes[2]
       /\ p.rules = rules /\ p \in Pred
  <2>1. 1 \in 1 .. Len(rules)
    BY <1>11, <1>14
  <2>2. rules[1] \in Rule
    BY <1>14, <2>1, ElementOfSeq
  <2>3. rules[1].vars \in Nat
    BY <2>2 DEF Rule
  <2> QED
    BY <1>10, <1>14, <2>3 DEF RuleVars, Pred
<1> HIDE DEF p
<1>16. /\ preds' \in Seq(Pred) /\ Len(preds') = Len(preds) + 1
       /\ \A i \in 1 .. Len(preds) : preds'[i] = preds[i]
       /\ preds'[Len(preds) + 1] = p
  BY <1>1, <1>11, <1>15, AppendProperties
<1>17. Types'
  <2>1. Len(stack') \in {1, 2, 3} /\ Len(scopes') = Len(stack')
    BY <1>8
  <2>2. /\ funs' \subseteq GlobalNames /\ parsing' \in BOOLEAN /\ declares' \in BOOLEAN
        /\ outer' \subseteq Use /\ inner' \subseteq Use
        /\ cmd' \in {"top", "define", "assert", "exited"}
        /\ exists' \in Seq(Rule) /\ forms' \in [Sign -> Form]
        /\ count' \in [{"decl", "pos", "neg"} -> Nat]
    BY <1>1, <1>2 DEF CInv, Types
  <2> QED
    BY <1>8, <1>9, <1>16, <2>1, <2>2 DEF Types
<1>18. Control'
  <2>1. Len(scopes'[1]) # 0 /\ scopes'[1][1] = Nil
    BY <1>5, <1>9
  <2>2. inner' = {} /\ declares' = FALSE /\ parsing' = FALSE
    BY <1>1, <1>2, <1>3, <1>5
  <2> QED
    BY <1>1, <1>8, <2>1, <2>2 DEF Control
<1>19. UsesOK'
  <2>1. inner' = {} /\ outer' = {}
    BY <1>1, <1>2, <1>5
  <2> QED
    BY <2>1 DEF UsesOK, Places
<1>20. ASSUME NEW j \in 1 .. Len(rules)
       PROVE  /\ rules[j].vars \in 1 .. Len(heap') /\ rules[j].vars # env
              /\ \A s \in Sign : rules[j].vars # forms[s].lvars
              /\ RuleOK(heap', rules[j], scopes[2])
  <2>1. CASE j \in 1 .. Len(exists)
    <3>1. /\ exists[j].vars \in 1 .. Len(heap) /\ exists[j].vars # env
          /\ \A s \in Sign : exists[j].vars # forms[s].lvars
      BY <2>1 DEF CInv, Owned
    <3>2. RuleOK(heap, exists[j], scopes[2])
      BY <1>1, <1>3, <2>1 DEF CInv, ExistsOK
    <3>3. heap'[exists[j].vars] = heap[exists[j].vars]
      BY <1>8, <3>1
    <3>4. RuleOK(heap', exists[j], scopes[2])
      BY <3>2, <3>3 DEF RuleOK
    <3>5. exists[j].vars \in 1 .. Len(heap')
      BY <1>8, <3>1
    <3> QED
      BY <1>14, <2>1, <3>1, <3>4, <3>5
  <2>2. CASE j = Len(exists) + 1
    <3>1. Places(heap[env], heap[env].size, base.uses)
      <4>1. Places(heap[env], Before(stack, 3), outer)
        BY <1>1, <1>3 DEF CInv, UsesOK, Inside
      <4>2. heap[env].size = Before(stack, 3)
        BY <1>1, <1>4 DEF Aligned, Placed
      <4> QED
        BY <1>13, <4>1, <4>2
    <3>2. RuleOK(heap', base, scopes[2])
      <4>1. /\ cmd = "define" /\ Len(stack) = 2 /\ base.vars = Len(heap) + 1
            /\ (2 = 2 => base.own = <<>>) /\ (2 = 3 => base.own = scopes[3])
        BY <1>1, <1>13
      <4> HIDE <1>1
      <4> QED
        BY <1>3, <1>6, <1>7, <1>12, <3>1, <4>1, CopyRule
    <3>3. \A s \in Sign : forms[s].lvars \in 0 .. Len(heap)
      BY DEF CInv, Owned
    <3>4. base.vars \in 1 .. Len(heap') /\ base.vars # env /\ base.vars \notin 0 .. Len(heap)
      BY <1>8, <1>13
    <3> QED
      BY <1>14, <2>2, <3>2, <3>3, <3>4
  <2>3. j \in 1 .. Len(exists) \/ j = Len(exists) + 1
    BY <1>11, <1>14
  <2> QED
    BY <2>1, <2>2, <2>3
<1>21. \A i \in 1 .. Len(preds') : i \in 1 .. Len(preds) \/ i = Len(preds) + 1
  BY <1>11, <1>16
<1>22. Owned'
  <2>1. /\ \A s \in Sign : forms[s].lvars \in 0 .. Len(heap) /\ forms[s].lvars # env
        /\ forms["pos"].lvars = 0 \/ forms["pos"].lvars # forms["neg"].lvars
    BY DEF CInv, Owned
  <2>2. \A s \in Sign : forms[s].lvars \in 0 .. Len(heap')
    <3>1. 0 .. Len(heap) \subseteq 0 .. Len(heap')
      BY <1>8
    <3> QED
      BY <2>1, <3>1
  <2>3. \A i \in 1 .. Len(preds') : \A j \in 1 .. Len(preds'[i].rules) :
          /\ preds'[i].rules[j].vars \in 1 .. Len(heap') /\ preds'[i].rules[j].vars # env
          /\ \A s \in Sign : preds'[i].rules[j].vars # forms[s].lvars
    <3> TAKE i \in 1 .. Len(preds')
    <3> TAKE j \in 1 .. Len(preds'[i].rules)
    <3>1. CASE i \in 1 .. Len(preds)
      <4>1. preds'[i] = preds[i] /\ j \in 1 .. Len(preds[i].rules)
        BY <1>16, <3>1
      <4>2. /\ preds[i].rules[j].vars \in 1 .. Len(heap) /\ preds[i].rules[j].vars # env
            /\ \A s \in Sign : preds[i].rules[j].vars # forms[s].lvars
        BY <3>1, <4>1 DEF CInv, Owned
      <4>3. 1 .. Len(heap) \subseteq 1 .. Len(heap')
        BY <1>8
      <4> QED
        BY <4>1, <4>2, <4>3
    <3>2. CASE i = Len(preds) + 1
      <4>1. preds'[i].rules = rules
        BY <1>15, <1>16, <3>2
      <4> QED
        BY <1>20, <4>1
    <3> QED
      BY <1>21, <3>1, <3>2
  <2>4. env' = env /\ forms' = forms /\ exists' = <<>> /\ Len(<<>>) = 0
    BY <1>1, <1>2
  <2>5. \A i \in 1 .. Len(exists') :
          /\ exists'[i].vars \in 1 .. Len(heap') /\ exists'[i].vars # env
          /\ \A s \in Sign : exists'[i].vars # forms[s].lvars
    BY <2>4
  <2> HIDE <1>8
  <2> QED
    BY <2>1, <2>2, <2>3, <2>4, <2>5 DEF Owned
<1>23. FormsOK'
  <2>1. forms' = forms /\ \A s \in Sign : count'[s] = count[s]
    BY <1>2
  <2> QED
    BY <1>8, <2>1, OthersStep
<1>24. PredsOK'
  <2> SUFFICES ASSUME NEW i \in 1 .. Len(preds')
               PROVE  /\ \A j \in 1 .. Len(preds'[i].rules) :
                           RuleOK(heap', preds'[i].rules[j], preds'[i].formals)
                      /\ Len(preds'[i].rules) >= 1
                      /\ preds'[i].vars = preds'[i].rules[1].vars
                      /\ preds'[i].fargs = Len(preds'[i].formals)
    BY DEF PredsOK
  <2>1. CASE i \in 1 .. Len(preds)
    <3>1. \A j \in 1 .. Len(preds[i].rules) : RuleOK(heap', preds[i].rules[j], preds[i].formals)
      <4>1. \A l \in 1 .. Len(heap) : l # env => heap'[l] = heap[l]
        BY <1>8
      <4> QED
        BY <2>1, <4>1, OthersKept
    <3>2. /\ Len(preds[i].rules) >= 1
          /\ preds[i].vars = preds[i].rules[1].vars
          /\ preds[i].fargs = Len(preds[i].formals)
      BY <2>1 DEF CInv, PredsOK
    <3>3. preds'[i] = preds[i]
      BY <1>16, <2>1
    <3> QED
      BY <3>1, <3>2, <3>3
  <2>2. CASE i = Len(preds) + 1
    <3>1. preds'[i] = p
      BY <1>16, <2>2
    <3>2. Len(rules) >= 1
      BY <1>11, <1>14
    <3>3. \A j \in 1 .. Len(rules) : RuleOK(heap', rules[j], scopes[2])
      BY <1>20
    <3> QED
      BY <1>15, <3>1, <3>2, <3>3
  <2> QED
    BY <1>21, <2>1, <2>2
<1>25. ExistsOK'
  BY <1>1 DEF ExistsOK
<1> QED
  BY <1>9, <1>17, <1>18, <1>19, <1>22, <1>23, <1>24, <1>25 DEF CInv

(* After an error only check-sat is read, but what predicates and formulas *)
(* have stays.                                                             *)
LEMMA DefineFailsStep ==
  ASSUME CInv, DefineFails
  PROVE  CInv'
<1>1. /\ declares = FALSE /\ parsing' = TRUE
      /\ heap' = [heap EXCEPT ![env].freed = TRUE]
      /\ cmd' = "top" /\ outer' = {} /\ exists' = <<>>
  BY DEF DefineFails, CInv, Types
<1>2. UNCHANGED <<env, stack, funs, declares, inner, preds, forms, scopes, count>>
  BY DEF DefineFails
<1>3. heap \in Seq(Array) /\ env \in 1 .. Len(heap)
  BY DEF CInv, Types
<1>4. /\ heap' \in Seq(Array) /\ Len(heap') = Len(heap)
      /\ \A i \in 1 .. Len(heap) : i # env => heap'[i] = heap[i]
  <2> DEFINE b == [heap[env] EXCEPT !.freed = TRUE]
  <2>1. heap[env] \in Array
    BY <1>3, ElementOfSeq
  <2>2. b \in Array
    BY <2>1 DEF Array
  <2>3. heap' = [heap EXCEPT ![env] = b]
    BY <1>1
  <2> HIDE DEF b
  <2> QED
    BY <1>3, <2>2, <2>3, ExceptSeq
<1>5. Types'
  <2>1. /\ stack \in Seq(Nat) /\ Len(stack) \in {1, 2, 3}
        /\ scopes \in Seq(Seq(Decl)) /\ Len(scopes) = Len(stack)
        /\ funs \subseteq GlobalNames /\ inner \subseteq Use
        /\ preds \in Seq(Pred) /\ forms \in [Sign -> Form]
        /\ count \in [{"decl", "pos", "neg"} -> Nat]
    BY DEF CInv, Types
  <2>2. exists' \in Seq(Rule) /\ outer' \subseteq Use
    BY <1>1
  <2>3. parsing' \in BOOLEAN /\ declares' \in BOOLEAN /\ cmd' \in {"top", "define", "assert", "exited"}
    BY <1>1, <1>2
  <2> QED
    BY <1>2, <1>3, <1>4, <2>1, <2>2, <2>3 DEF Types
<1>6. Control'
  <2>1. Len(scopes[1]) # 0 /\ scopes[1][1] = Nil
    BY DEF CInv, Control
  <2>2. declares' = FALSE
    BY <1>1, <1>2
  <2> QED
    BY <1>1, <1>2, <2>1, <2>2 DEF Control, Running
<1>7. Context' /\ UsesOK' /\ ExistsOK'
  BY <1>1 DEF Context, UsesOK, ExistsOK, Running
<1>8. PredsOK' /\ FormsOK'
  <2>1. forms' = forms /\ preds' = preds /\ \A s \in Sign : count'[s] = count[s]
    BY <1>2
  <2> QED
    BY <1>4, <2>1, OthersStep
<1>9. Owned'
  <2>1. \A i \in 1 .. Len(exists') :
          /\ exists'[i].vars \in 1 .. Len(heap') /\ exists'[i].vars # env
          /\ \A s \in Sign : exists'[i].vars # forms[s].lvars
    BY <1>1
  <2> QED
    BY <1>2, <1>4, <2>1 DEF CInv, Owned
<1> QED
  BY <1>5, <1>6, <1>7, <1>8, <1>9 DEF CInv

-----------------------------------------------------------------------------
(* An assertion: the formula takes the context's array, and the context    *)
(* goes on with a copy.                                                    *)

LEMMA CopiedContext ==
  ASSUME NEW a \in Array, NEW st \in Seq(Nat), NEW sc, NEW n \in 1 .. 3, Len(st) = n,
         Aligned(a, st, sc)
  PROVE  Aligned(New(Content(a)), st, sc)
<1> DEFINE b == New(Content(a))
<1>1. /\ b.size = a.size /\ \A k \in 1 .. a.size : b.data[k] = a.data[k]
  BY CopyContent
<1>2. a.size \in Nat
  BY ArrayFields
<1> HIDE DEF b
<1>3. /\ \A i \in 1 .. n : st[i] = Len(sc[i])
      /\ a.size = Before(st, n + 1)
      /\ \A i \in 1 .. n : \A j \in 1 .. st[i] : a.data[Before(st, i) + j] = sc[i][j]
  BY DEF Aligned, Placed
<1>4. \A i \in 1 .. n : st[i] \in Nat
  BY ElementOfSeq
<1>5. ASSUME NEW i \in 1 .. n, NEW j \in 1 .. st[i]
      PROVE  b.data[Before(st, i) + j] = sc[i][j]
  <2>1. Before(st, i) + st[i] <= Before(st, n + 1)
    BY <1>4, BeforeWithin
  <2>2. i \in 1 .. n + 1
    OBVIOUS
  <2>3. Before(st, i) \in Nat /\ st[i] \in Nat
    BY <1>4, <2>2, BeforeNext
  <2>4. Before(st, i) + j \in 1 .. a.size
    BY <1>2, <1>3, <2>1, <2>3
  <2> QED
    BY <1>1, <1>3, <2>4
<1>6. Aligned(b, st, sc)
  BY <1>1, <1>3, <1>5 DEF Aligned, Placed
<1> QED
  BY <1>6 DEF b

(* The heap after an assertion of the sign s. *)
LEMMA AssertHeap ==
  ASSUME CInv, NEW s \in Sign, Len(stack) = 1, Running,
         heap' = Restored(FreeOld(heap, forms[s])).heap,
         env' = Restored(FreeOld(heap, forms[s])).env
  PROVE  /\ heap' \in Seq(Array) /\ Len(heap') = Len(heap) + 1 /\ Len(heap) \in Nat
         /\ env' = Len(heap) + 1 /\ heap'[env'] = New(Content(heap[env]))
         /\ \A i \in 1 .. Len(heap) : i # forms[s].lvars => heap'[i] = heap[i]
         /\ forms[s].unsat = TRUE => \A i \in 1 .. Len(heap) : heap'[i] = heap[i]
<1> DEFINE g == FreeOld(heap, forms[s])
           c == New(Content(heap[env]))
<1>1. heap \in Seq(Array) /\ env \in 1 .. Len(heap) /\ Len(heap) \in Nat
  BY LenProperties DEF CInv, Types
<1>2. /\ heap[env] \in Array /\ Aligned(heap[env], stack, scopes) /\ stack \in Seq(Nat)
  BY ContextFacts
<1>3. stack[1] = heap[env].size
  <2>1. heap[env].size = Before(stack, 2)
    BY <1>2 DEF Aligned, Placed
  <2> QED
    BY <2>1 DEF Before
<1>4. forms[s].lvars \in 0 .. Len(heap) /\ forms[s].lvars # env
  BY DEF CInv, Owned
<1>5. forms[s].unsat \in BOOLEAN
  BY DEF CInv, Types, Form
<1>6. c \in Array
  BY <1>2, CopyContent
<1>7. /\ g \in Seq(Array) /\ Len(g) = Len(heap)
      /\ \A i \in 1 .. Len(heap) : i # forms[s].lvars => g[i] = heap[i]
      /\ forms[s].unsat = TRUE => g = heap
  <2>1. CASE forms[s].unsat \/ forms[s].lvars \in {0, env}
    BY <1>1, <2>1 DEF FreeOld
  <2>2. CASE ~(forms[s].unsat \/ forms[s].lvars \in {0, env})
    <3> DEFINE b == [heap[forms[s].lvars] EXCEPT !.freed = TRUE]
    <3>1. forms[s].lvars \in 1 .. Len(heap)
      BY <1>1, <1>4, <2>2
    <3>2. heap[forms[s].lvars] \in Array
      BY <1>1, <3>1, ElementOfSeq
    <3>3. b \in Array
      BY <3>2 DEF Array
    <3>4. g = [heap EXCEPT ![forms[s].lvars] = b]
      BY <2>2 DEF FreeOld
    <3>5. forms[s].unsat = FALSE
      BY <1>5, <2>2
    <3> HIDE DEF b, g
    <3> QED
      BY <1>1, <3>1, <3>3, <3>4, <3>5, ExceptSeq
  <2> QED
    BY <2>1, <2>2
<1> HIDE DEF g, c
<1>8. g[env] = heap[env]
  BY <1>1, <1>4, <1>7
<1>9. heap' = Append(g, New(SubSeq(g[env].data, 1, stack[1]))) /\ env' = Len(g) + 1
  BY DEF Restored, g
<1>10. New(SubSeq(g[env].data, 1, stack[1])) = c
  BY <1>3, <1>8 DEF c, Content
<1>11. heap' = Append(g, c)
  BY <1>9, <1>10
<1>12. /\ heap' \in Seq(Array) /\ Len(heap') = Len(g) + 1
       /\ \A i \in 1 .. Len(g) : heap'[i] = g[i]
       /\ heap'[Len(g) + 1] = c
  BY <1>6, <1>7, <1>11, AppendProperties
<1> QED
  BY <1>1, <1>7, <1>9, <1>12 DEF c

LEMMA AssertStep ==
  ASSUME CInv, NEW s \in Sign, NEW pure \in BOOLEAN, NEW unsat \in BOOLEAN,
         AssertTerm(s, pure, unsat)
  PROVE  CInv'
<1> DEFINE uses == outer \union UNION {exists[i].uses : i \in DOMAIN exists}
           f == Take(forms[s], uses, pure, unsat)
<1>1. /\ cmd = "assert" /\ declares = FALSE /\ Len(stack) = 1 /\ count[s] < MaxAsserts
      /\ forms' = [forms EXCEPT ![s] = f]
      /\ heap' = Restored(FreeOld(heap, forms[s])).heap
      /\ env' = Restored(FreeOld(heap, forms[s])).env
      /\ count' = [count EXCEPT ![s] = @ + 1]
      /\ cmd' = "top" /\ outer' = {} /\ exists' = <<>>
  BY DEF AssertTerm, CInv, Types
<1>2. UNCHANGED <<stack, funs, parsing, declares, inner, preds, scopes>>
  BY DEF AssertTerm
<1>3. Running /\ parsing = FALSE
  BY <1>1 DEF CInv, Control, Running, Types
<1>4. /\ heap[env] \in Array /\ heap[env].size \in Nat /\ heap[env].freed = FALSE
      /\ stack \in Seq(Nat) /\ scopes \in Seq(Seq(Decl)) /\ Len(scopes) = 1
      /\ Aligned(heap[env], stack, scopes)
  BY <1>1, <1>3, ContextFacts
<1>5. /\ inner = {} /\ Len(scopes[1]) # 0 /\ scopes[1][1] = Nil
      /\ TopExists = FALSE => exists = <<>>
  <2>1. Len(stack) # 2
    BY <1>1
  <2> QED
    BY <1>1, <1>3, <2>1, ControlFacts
<1>6. /\ heap' \in Seq(Array) /\ Len(heap') = Len(heap) + 1 /\ Len(heap) \in Nat
      /\ env' = Len(heap) + 1 /\ heap'[env'] = New(Content(heap[env]))
      /\ \A i \in 1 .. Len(heap) : i # forms[s].lvars => heap'[i] = heap[i]
      /\ forms[s].unsat = TRUE => \A i \in 1 .. Len(heap) : heap'[i] = heap[i]
  BY <1>1, <1>3, AssertHeap
<1>7. /\ forms \in [Sign -> Form] /\ count \in [{"decl", "pos", "neg"} -> Nat]
      /\ exists \in Seq(Rule) /\ outer \subseteq Use /\ env \in 1 .. Len(heap)
  BY DEF CInv, Types
<1>8. /\ \A t \in Sign : forms[t].lvars \in 0 .. Len(heap) /\ forms[t].lvars # env
      /\ forms["pos"].lvars = 0 \/ forms["pos"].lvars # forms["neg"].lvars
  BY DEF CInv, Owned
<1>9. uses \subseteq Use
  <2>1. \A i \in DOMAIN exists : exists[i].uses \subseteq Use
    <3> TAKE i \in DOMAIN exists
    <3>1. i \in 1 .. Len(exists)
      BY <1>7, LenProperties
    <3>2. exists[i] \in Rule
      BY <1>7, <3>1, ElementOfSeq
    <3> QED
      BY <3>2 DEF Rule
  <2> QED
    BY <1>7, <2>1
<1>10. /\ f \in Form
       /\ (f = forms[s] /\ forms[s].unsat = TRUE) \/ f.lvars = env
       /\ forms[s] = FormNew => f.uses = uses /\ f.psize \in {0, heap[env].size}
  <2>1. forms[s] \in Form
    BY <1>7
  <2>2. CASE forms[s].unsat
    <3>1. f = forms[s] /\ forms[s].unsat = TRUE /\ forms[s] # FormNew
      BY <2>1, <2>2 DEF Take, Form, FormNew
    <3> QED
      BY <2>1, <3>1
  <2>3. CASE ~forms[s].unsat
    <3>1. f = [lvars |-> env,
               psize |-> IF forms[s].psize = 0 /\ pure THEN heap[env].size ELSE forms[s].psize,
               uses  |-> forms[s].uses \union uses, unsat |-> unsat]
      BY <2>3 DEF Take
    <3> HIDE DEF uses, f
    <3>2. f \in Form
      <4>1. forms[s].psize \in Nat /\ forms[s].uses \subseteq Use
        BY <2>1 DEF Form
      <4>2. env \in Nat
        BY <1>6, <1>7
      <4>3. (IF forms[s].psize = 0 /\ pure THEN heap[env].size ELSE forms[s].psize) \in Nat
        BY <1>4, <4>1
      <4> QED
        BY <1>9, <3>1, <4>1, <4>2, <4>3 DEF Form
    <3>3. forms[s] = FormNew => f.uses = uses /\ f.psize \in {0, heap[env].size}
      <4> SUFFICES ASSUME forms[s] = FormNew
                   PROVE  f.uses = uses /\ f.psize \in {0, heap[env].size}
        OBVIOUS
      <4>1. forms[s].uses = {} /\ forms[s].psize = 0
        BY DEF FormNew
      <4> QED
        BY <3>1, <4>1
    <3> QED
      BY <3>1, <3>2, <3>3
  <2> QED
    BY <2>2, <2>3
<1> HIDE DEF uses, f
<1>11. /\ forms' \in [Sign -> Form] /\ forms'[s] = f
       /\ \A t \in Sign : t # s => forms'[t] = forms[t]
  BY <1>1, <1>7, <1>10
<1>12. /\ count' \in [{"decl", "pos", "neg"} -> Nat] /\ count'[s] # 0
       /\ \A t \in Sign : t # s => count'[t] = count[t]
  BY <1>1, <1>7 DEF Sign
<1>13. /\ \A t \in Sign : forms'[t].lvars \in 0 .. Len(heap)
       /\ \A t \in Sign : forms'[t].lvars = forms[t].lvars \/ forms'[t].lvars = env
       /\ forms'["pos"].lvars = 0 \/ forms'["pos"].lvars # forms'["neg"].lvars
  <2>1. env \in 0 .. Len(heap) /\ env # 0
    BY <1>6, <1>7
  <2>2. \A t \in Sign : forms'[t].lvars = forms[t].lvars \/ (t = s /\ forms'[t].lvars = env)
    BY <1>10, <1>11
  <2>3. \A t \in Sign : forms'[t].lvars \in 0 .. Len(heap)
    BY <1>8, <2>1, <2>2
  <2>4. forms'["pos"].lvars = 0 \/ forms'["pos"].lvars # forms'["neg"].lvars
    BY <1>8, <2>2 DEF Sign
  <2> QED
    BY <2>2, <2>3, <2>4
<1>14. Types'
  <2>1. /\ stack \in Seq(Nat) /\ Len(stack) \in {1, 2, 3}
        /\ scopes \in Seq(Seq(Decl)) /\ Len(scopes) = Len(stack)
        /\ funs \subseteq GlobalNames /\ inner \subseteq Use
        /\ preds \in Seq(Pred) /\ parsing \in BOOLEAN /\ declares \in BOOLEAN
    BY DEF CInv, Types
  <2>2. /\ exists' \in Seq(Rule) /\ outer' \subseteq Use
        /\ cmd' \in {"top", "define", "assert", "exited"}
    BY <1>1
  <2>3. env' \in 1 .. Len(heap')
    BY <1>6
  <2> HIDE <1>1, <1>7
  <2>4. /\ heap' \in Seq(Array) /\ forms' \in [Sign -> Form]
        /\ count' \in [{"decl", "pos", "neg"} -> Nat]
    BY <1>6, <1>11, <1>12
  <2> HIDE <1>6
  <2> QED
    BY <1>2, <2>1, <2>2, <2>3, <2>4 DEF Types
<1>15. Control'
  <2>1. inner' = {} /\ declares' = FALSE /\ parsing' = FALSE /\ Len(stack') = 1
        /\ scopes' = scopes
    BY <1>1, <1>2, <1>3, <1>5
  <2> QED
    BY <1>1, <1>5, <2>1 DEF Control
<1>16. Context'
  <2>1. Aligned(New(Content(heap[env])), stack, scopes)
    <3>1. 1 \in 1 .. 3 /\ Len(stack) = 1
      BY <1>1
    <3> QED
      BY <1>4, <3>1, CopiedContext
  <2>2. New(Content(heap[env])).freed = FALSE
    BY <1>4, CopyContent
  <2> QED
    BY <1>2, <1>6, <2>1, <2>2 DEF Context
<1>17. UsesOK'
  <2>1. inner' = {} /\ outer' = {}
    BY <1>1, <1>2, <1>5
  <2> QED
    BY <2>1 DEF UsesOK, Places
<1>18. ExistsOK'
  BY <1>1 DEF ExistsOK
<1>19. ASSUME NEW i \in 1 .. Len(preds), NEW j \in 1 .. Len(preds[i].rules)
       PROVE  /\ preds[i].rules[j].vars \in 1 .. Len(heap) /\ preds[i].rules[j].vars # env
              /\ \A t \in Sign : preds[i].rules[j].vars # forms[t].lvars
              /\ RuleOK(heap', preds[i].rules[j], preds[i].formals)
  <2>1. /\ preds[i].rules[j].vars \in 1 .. Len(heap) /\ preds[i].rules[j].vars # env
        /\ \A t \in Sign : preds[i].rules[j].vars # forms[t].lvars
    BY DEF CInv, Owned
  <2>2. RuleOK(heap, preds[i].rules[j], preds[i].formals)
    BY DEF CInv, PredsOK
  <2>3. heap'[preds[i].rules[j].vars] = heap[preds[i].rules[j].vars]
    BY <1>6, <2>1
  <2> QED
    BY <2>1, <2>2, <2>3 DEF RuleOK
<1>20. Owned'
  <2>1. /\ 1 .. Len(heap) \subseteq 1 .. Len(heap') /\ 0 .. Len(heap) \subseteq 0 .. Len(heap')
        /\ env' \notin 0 .. Len(heap) /\ env' \notin 1 .. Len(heap)
    BY <1>6
  <2>2. \A t \in Sign : forms'[t].lvars \in 0 .. Len(heap') /\ forms'[t].lvars # env'
    BY <1>13, <2>1
  <2>3. \A i \in 1 .. Len(preds) : \A j \in 1 .. Len(preds[i].rules) :
          /\ preds[i].rules[j].vars \in 1 .. Len(heap') /\ preds[i].rules[j].vars # env'
          /\ \A t \in Sign : preds[i].rules[j].vars # forms'[t].lvars
    <3> TAKE i \in 1 .. Len(preds)
    <3> TAKE j \in 1 .. Len(preds[i].rules)
    <3>1. /\ preds[i].rules[j].vars \in 1 .. Len(heap) /\ preds[i].rules[j].vars # env
          /\ \A t \in Sign : preds[i].rules[j].vars # forms[t].lvars
      BY <1>19
    <3>2. \A t \in Sign : preds[i].rules[j].vars # forms'[t].lvars
      BY <1>13, <3>1
    <3>3. preds[i].rules[j].vars \in 1 .. Len(heap') /\ preds[i].rules[j].vars # env'
      BY <2>1, <3>1
    <3> QED
      BY <3>2, <3>3
  <2>4. exists' = <<>> /\ preds' = preds
    BY <1>1, <1>2
  <2>5. \A i \in 1 .. Len(exists') :
          /\ exists'[i].vars \in 1 .. Len(heap') /\ exists'[i].vars # env'
          /\ \A t \in Sign : exists'[i].vars # forms'[t].lvars
    BY <2>4
  <2> HIDE <1>1, <1>6
  <2> QED
    BY <1>13, <2>2, <2>3, <2>4, <2>5 DEF Owned
<1>21. PredsOK'
  <2>1. \A i \in 1 .. Len(preds) :
          /\ Len(preds[i].rules) >= 1
          /\ preds[i].vars = preds[i].rules[1].vars
          /\ preds[i].fargs = Len(preds[i].formals)
    BY DEF CInv, PredsOK
  <2>2. preds' = preds
    BY <1>2
  <2> QED
    BY <1>19, <2>1, <2>2 DEF PredsOK
<1>22. \A t \in Sign : count'[t] = 0 => forms'[t] = FormNew
  <2>1. \A t \in Sign : count[t] = 0 => forms[t] = FormNew
    BY DEF CInv, FormsOK
  <2> QED
    BY <1>11, <1>12, <2>1
<1>23. ASSUME MaxAsserts <= 1, TopExists = FALSE, NEW t \in Sign, forms'[t].lvars # 0
       PROVE  /\ heap'[forms'[t].lvars].freed = FALSE
              /\ Places(heap'[forms'[t].lvars], heap'[forms'[t].lvars].size, forms'[t].uses)
              /\ forms'[t].psize \in {0, heap'[forms'[t].lvars].size}
  <2>1. forms[s] = FormNew
    <3>1. MaxAsserts \in Nat
      BY ContextAssumption
    <3>2. count[s] \in Nat
      BY <1>7 DEF Sign
    <3>3. count[s] = 0
      BY <1>1, <1>23, <3>1, <3>2
    <3> QED
      BY <3>3 DEF CInv, FormsOK
  <2>2. \A i \in 1 .. Len(heap) : heap'[i] = heap[i]
    <3>1. forms[s].lvars = 0
      BY <2>1 DEF FormNew
    <3>2. \A i \in 1 .. Len(heap) : i # 0
      OBVIOUS
    <3> QED
      BY <1>6, <3>1, <3>2
  <2>3. CASE t = s
    <3>1. f.lvars = env /\ f.uses = uses /\ f.psize \in {0, heap[env].size}
      <4>1. forms[s].unsat = FALSE
        BY <2>1 DEF FormNew
      <4> QED
        BY <1>10, <2>1, <4>1
    <3>2. uses = outer
      <4>1. exists = <<>>
        BY <1>5, <1>23
      <4>2. {exists[i].uses : i \in DOMAIN exists} = {}
        BY <4>1
      <4> QED
        BY <4>2 DEF uses
    <3>3. Places(heap[env], heap[env].size, outer)
      <4>1. Places(heap[env], Before(stack, 2), outer)
        BY <1>1, <1>3 DEF CInv, UsesOK, Inside
      <4>2. heap[env].size = Before(stack, 2)
        BY <1>1, <1>4 DEF Aligned, Placed
      <4> QED
        BY <4>1, <4>2
    <3>4. heap'[env] = heap[env]
      BY <1>7, <2>2
    <3>5. forms'[t] = f
      BY <1>11, <2>3
    <3> QED
      BY <1>4, <3>1, <3>2, <3>3, <3>4, <3>5
  <2>4. CASE t # s
    <3>1. forms'[t] = forms[t]
      BY <1>11, <2>4
    <3>2. forms[t].lvars \in 1 .. Len(heap)
      <4>1. forms[t].lvars \in 0 .. Len(heap) /\ forms[t].lvars # 0
        BY <1>8, <1>23, <3>1
      <4> QED
        BY <1>6, <4>1
    <3>3. heap'[forms[t].lvars] = heap[forms[t].lvars]
      BY <2>2, <3>2
    <3>4. /\ heap[forms[t].lvars].freed = FALSE
          /\ Places(heap[forms[t].lvars], heap[forms[t].lvars].size, forms[t].uses)
          /\ forms[t].psize \in {0, heap[forms[t].lvars].size}
      BY <1>23, <3>1 DEF CInv, FormsOK
    <3> QED
      BY <3>1, <3>3, <3>4
  <2> QED
    BY <2>3, <2>4
<1>24. FormsOK'
  BY <1>22, <1>23 DEF FormsOK
<1> QED
  BY <1>14, <1>15, <1>16, <1>17, <1>18, <1>20, <1>21, <1>24 DEF CInv

-----------------------------------------------------------------------------
LEMMA ContextStep == CInv /\ [Next]_vars => CInv'
<1> SUFFICES ASSUME CInv, [Next]_vars
             PROVE  CInv'
  OBVIOUS
<1>1. CASE \E n \in GlobalNames : DeclareFun(n)
  BY <1>1, DeclareStep
<1>2. CASE \E c \in {"define", "assert"}, n \in LocalNames : OpenScope(c, n)
  BY <1>2, OpenStep
<1>3. CASE \E n \in LocalNames : MoreVars(n)
  BY <1>3, MoreStep
<1>4. CASE \E c \in {"define", "assert"}, d \in InScope : UseVar(c, d)
  BY <1>4, UseStep
<1>5. CASE CloseExists
  BY <1>5, CloseStep
<1>6. CASE DefineFun
  BY <1>6, DefineStep
<1>7. CASE DefineFails
  BY <1>7, DefineFailsStep
<1>8. CASE \E s \in Sign, pure, unsat \in BOOLEAN : AssertTerm(s, pure, unsat)
  BY <1>8, AssertStep
<1>9. CASE \/ TooMuchNesting \/ EndOfVars \/ CheckSat \/ Exited \/ UNCHANGED vars
           \/ \E n \in GlobalNames : DeclareAgain(n)
  <2>1. UNCHANGED <<heap, env, stack, funs, parsing, outer, inner, exists, preds,
                    forms, scopes, count>>
    BY <1>9 DEF TooMuchNesting, EndOfVars, CheckSat, Exited, DeclareAgain, vars
  <2>2. \/ declares' = declares /\ cmd' = cmd
        \/ declares' = FALSE /\ cmd' = cmd
        \/ declares' = FALSE /\ cmd' = "exited"
    <3>1. CASE TooMuchNesting
      BY <3>1 DEF TooMuchNesting, CInv, Types
    <3>2. CASE EndOfVars
      BY <3>2 DEF EndOfVars
    <3>3. CASE CheckSat
      <4>1. cmd = "top" /\ declares' = declares /\ (cmd' = cmd \/ cmd' = "exited")
        BY <3>3 DEF CheckSat
      <4>2. declares = FALSE
        BY <4>1 DEF CInv, Control, Types
      <4> QED
        BY <4>1, <4>2
    <3>4. CASE Exited \/ UNCHANGED vars \/ \E n \in GlobalNames : DeclareAgain(n)
      BY <3>4 DEF Exited, DeclareAgain, vars
    <3> QED
      BY <1>9, <3>1, <3>2, <3>3, <3>4
  <2> QED
    BY <2>1, <2>2, QuietStep
<1> QED
  BY <1>1, <1>2, <1>3, <1>4, <1>5, <1>6, <1>7, <1>8, <1>9 DEF Next

LEMMA ContextInvariant == Spec => []CInv
<1>1. Init => CInv
  BY ContextInit
<1>2. CInv /\ [Next]_vars => CInv'
  BY ContextStep
<1> QED
  BY <1>1, <1>2, PTL DEF Spec

(* The shapes of the arrays, the scopes and the terms (noll.c).            *)
THEOREM ContextTypes == Spec => []TypeOK
<1>1. CInv => TypeOK
  <2> SUFFICES ASSUME CInv
               PROVE  TypeOK
    OBVIOUS
  <2>1. /\ heap \in Seq(Array) /\ env \in 1 .. Len(heap)
        /\ stack \in Seq(Nat) /\ Len(stack) \in {1, 2, 3}
        /\ Len(scopes) = Len(stack)
        /\ funs \subseteq GlobalNames
        /\ parsing \in BOOLEAN /\ declares \in BOOLEAN
        /\ cmd \in {"top", "define", "assert", "exited"}
        /\ outer \subseteq Use /\ inner \subseteq Use
        /\ exists \in Seq(Rule) /\ preds \in Seq(Pred)
        /\ count \in [{"decl", "pos", "neg"} -> Nat]
    BY DEF CInv, Types
  <2>2. DOMAIN heap = 1 .. Len(heap) /\ Len(heap) \in Nat
    BY <2>1, LenProperties
  <2>3. ASSUME NEW i \in DOMAIN heap
        PROVE  /\ heap[i].data \in Seq(Decl)
               /\ heap[i].size \in 0 .. Len(heap[i].data)
               /\ heap[i].freed \in BOOLEAN
    <3>1. heap[i] \in Array
      BY <2>1, <2>2, ElementOfSeq
    <3>2. /\ heap[i].data \in Seq(Decl) /\ heap[i].size \in Nat /\ heap[i].freed \in BOOLEAN
          /\ heap[i].size <= Len(heap[i].data) /\ Len(heap[i].data) \in Nat
      BY <3>1, ArrayFields
    <3> QED
      BY <3>2
  <2>4. \A i \in DOMAIN exists : exists[i].vars \in DOMAIN heap
    <3>1. DOMAIN exists = 1 .. Len(exists)
      BY <2>1, LenProperties
    <3> QED
      BY <2>2, <3>1 DEF CInv, Owned
  <2>5. \A i \in DOMAIN preds : preds[i].vars \in DOMAIN heap
    <3> TAKE i \in DOMAIN preds
    <3>1. i \in 1 .. Len(preds)
      BY <2>1, LenProperties
    <3>2. preds[i].vars = preds[i].rules[1].vars /\ Len(preds[i].rules) >= 1
      BY <3>1 DEF CInv, PredsOK
    <3>3. preds[i] \in Pred
      BY <2>1, <3>1, ElementOfSeq
    <3>4. preds[i].rules \in Seq(Rule)
      BY <3>3 DEF Pred
    <3>5. Len(preds[i].rules) \in Nat
      BY <3>4, LenProperties
    <3>6. 1 \in 1 .. Len(preds[i].rules)
      BY <3>2, <3>5
    <3> QED
      BY <2>2, <3>1, <3>2, <3>6 DEF CInv, Owned
  <2>6. \A s \in Sign : forms[s].lvars \in {0} \union DOMAIN heap
    <3> TAKE s \in Sign
    <3>1. forms[s].lvars \in 0 .. Len(heap)
      BY DEF CInv, Owned
    <3> QED
      BY <2>2, <3>1
  <2>7. Len(stack) \in 1 .. 3 /\ Len(scopes) \in 1 .. 3
    <3>1. PICK n \in {1, 2, 3} : n = Len(stack)
      BY <2>1
    <3>2. n \in 1 .. 3
      BY SmallNumber
    <3>3. Len(stack) = n /\ Len(scopes) = n
      BY <2>1, <3>1, Zenon
    <3> QED
      BY <3>2, <3>3
  <2> HIDE DEF CInv
  <2> QED
    BY <2>1, <2>2, <2>3, <2>4, <2>5, <2>6, <2>7 DEF TypeOK
<1> QED
  BY <1>1, ContextInvariant, PTL

(* Whatever scopes were opened, popped or replaced by an assertion, the    *)
(* context holds nil and the globals between two commands.                 *)
THEOREM ContextGlobals == Spec => []GlobalsKept
<1>1. CInv => GlobalsKept
  <2> SUFFICES ASSUME CInv, cmd = "top", ~parsing
               PROVE  /\ Len(stack) = 1
                      /\ heap[env].size = stack[1]
                      /\ ~heap[env].freed
                      /\ Content(heap[env]) = scopes[1]
    BY DEF GlobalsKept
  <2>1. Running
    BY DEF Running, CInv, Types
  <2>2. Len(stack) = 1
    BY <2>1, ControlFacts
  <2>3. /\ heap[env] \in Array /\ heap[env].size \in Nat /\ heap[env].freed = FALSE
        /\ Aligned(heap[env], stack, scopes) /\ scopes[1] \in Seq(Decl)
    <3>1. 1 \in 1 .. 1
      OBVIOUS
    <3> QED
      BY <2>1, <2>2, <3>1, ContextFacts
  <2>4. /\ stack[1] = Len(scopes[1]) /\ heap[env].size = Before(stack, 2)
        /\ \A j \in 1 .. stack[1] : heap[env].data[Before(stack, 1) + j] = scopes[1][j]
    <3>1. 1 \in 1 .. 1
      OBVIOUS
    <3> QED
      BY <2>2, <2>3, <3>1 DEF Aligned, Placed
  <2>5. Before(stack, 1) = 0 /\ Before(stack, 2) = stack[1]
    BY DEF Before
  <2>6. \A j \in 1 .. heap[env].size : heap[env].data[j] = scopes[1][j]
    <3> TAKE j \in 1 .. heap[env].size
    <3>1. heap[env].data[0 + j] = scopes[1][j]
      BY <2>4, <2>5
    <3>2. 0 + j = j
      BY <2>3
    <3> QED
      BY <3>1, <3>2
  <2>7. /\ Content(heap[env]) \in Seq(Decl) /\ Len(Content(heap[env])) = heap[env].size
        /\ \A k \in 1 .. heap[env].size : Content(heap[env])[k] = heap[env].data[k]
    BY <2>3, ContentSeq
  <2>8. Content(heap[env]) = scopes[1]
    <3>1. Len(Content(heap[env])) = Len(scopes[1])
      BY <2>4, <2>5, <2>7
    <3>2. \A k \in 1 .. Len(Content(heap[env])) : Content(heap[env])[k] = scopes[1][k]
      BY <2>6, <2>7
    <3> QED
      BY <2>3, <2>7, <3>1, <3>2, SeqEqual
  <2> QED
    BY <2>2, <2>3, <2>4, <2>5, <2>8
<1> QED
  BY <1>1, ContextInvariant, PTL

(* The first places of an array whose content begins with nil and p.       *)
LEMMA FirstPlaces ==
  ASSUME NEW a \in Array, NEW p \in Seq(Decl), NEW q \in Seq(Decl),
         Content(a) = <<Nil>> \o p \o q
  PROVE  SubSeq(a.data, 1, Len(p) + 1) = <<Nil>> \o p
<1> DEFINE m == Len(p) + 1
           x == <<Nil>> \o p
<1>1. <<Nil>> \in Seq(Decl) /\ Len(<<Nil>>) = 1
  BY NilDecl
<1>2. /\ x \in Seq(Decl) /\ Len(x) = 1 + Len(p) /\ Len(p) \in Nat /\ Len(q) \in Nat
  BY <1>1, ConcatProperties, LenProperties
<1> HIDE DEF x
<1>3. /\ x \o q \in Seq(Decl) /\ Len(x \o q) = Len(x) + Len(q)
      /\ \A i \in 1 .. Len(x) + Len(q) : (x \o q)[i] = IF i <= Len(x) THEN x[i] ELSE q[i - Len(x)]
  BY <1>2, ConcatProperties
<1>4. Content(a) = x \o q
  BY DEF x
<1>5. /\ a.size = Len(Content(a)) /\ a.data \in Seq(Decl)
      /\ \A k \in 1 .. a.size : Content(a)[k] = a.data[k]
      /\ \A k \in 1 .. a.size : a.data[k] \in Decl
  BY ContentSeq, ArrayFields
<1>6. a.size = m + Len(q) /\ m \in Nat /\ Len(x) = m
  BY <1>2, <1>3, <1>4, <1>5
<1> HIDE DEF m
<1>7. \A k \in 1 .. m : k \in 1 .. a.size
  BY <1>2, <1>6
<1>8. \A k \in 1 .. m : a.data[k] = x[k]
  <2> TAKE k \in 1 .. m
  <2>1. Content(a)[k] = a.data[k]
    BY <1>5, <1>7
  <2>2. (x \o q)[k] = x[k]
    BY <1>2, <1>3, <1>6
  <2> QED
    BY <1>4, <2>1, <2>2
<1>9. \A k \in 1 .. m : a.data[k] \in Decl
  BY <1>5, <1>7
<1>10. /\ SubSeq(a.data, 1, m) \in Seq(Decl)
       /\ Len(SubSeq(a.data, 1, m)) = IF 1 <= m THEN m - 1 + 1 ELSE 0
       /\ \A k \in 1 .. m - 1 + 1 : SubSeq(a.data, 1, m)[k] = a.data[1 + k - 1]
  BY <1>6, <1>9, SubSeqProperties, 1 \in Int, m \in Int
<1>11. /\ Len(SubSeq(a.data, 1, m)) = m
       /\ \A k \in 1 .. m : SubSeq(a.data, 1, m)[k] = a.data[k]
  <2>1. m - 1 + 1 = m /\ (~(1 <= m) => m = 0) /\ \A k \in 1 .. m : 1 + k - 1 = k
    BY <1>6
  <2> QED
    BY <1>10, <2>1
<1>12. SubSeq(a.data, 1, m) = x
  <2>1. \A k \in 1 .. Len(SubSeq(a.data, 1, m)) : SubSeq(a.data, 1, m)[k] = x[k]
    BY <1>8, <1>11
  <2>2. Len(SubSeq(a.data, 1, m)) = Len(x)
    BY <1>6, <1>11
  <2> QED
    BY <1>2, <1>10, <2>1, <2>2, SeqEqual
<1> QED
  BY <1>12 DEF m, x

(* Every rule's array is nil, the formal parameters and the variables of   *)
(* the rule, and the terms of the rule mean what was in scope (noll_preds). *)
THEOREM ContextRules == Spec => []PredsResolve
<1>1. CInv => PredsResolve
  <2> SUFFICES ASSUME CInv, NEW i \in DOMAIN preds
               PROVE  /\ \A j \in DOMAIN preds[i].rules :
                           /\ Resolves(heap[preds[i].rules[j].vars], preds[i].rules[j].uses)
                           /\ Content(heap[preds[i].rules[j].vars])
                                = <<Nil>> \o preds[i].formals \o preds[i].rules[j].own
                      /\ ~heap[preds[i].vars].freed
                      /\ SubSeq(heap[preds[i].vars].data, 1, preds[i].fargs + 1)
                           = <<Nil>> \o preds[i].formals
    BY DEF PredsResolve
  <2>1. heap \in Seq(Array) /\ preds \in Seq(Pred)
    BY DEF CInv, Types
  <2>2. i \in 1 .. Len(preds)
    BY <2>1, LenProperties
  <2>3. preds[i] \in Pred
    BY <2>1, <2>2, ElementOfSeq
  <2>4. preds[i].rules \in Seq(Rule) /\ preds[i].formals \in Seq(Decl)
    BY <2>3 DEF Pred
  <2>5. DOMAIN preds[i].rules = 1 .. Len(preds[i].rules) /\ Len(preds[i].rules) \in Nat
    BY <2>4, LenProperties
  <2>6. ASSUME NEW j \in 1 .. Len(preds[i].rules)
        PROVE  /\ RuleOK(heap, preds[i].rules[j], preds[i].formals)
               /\ heap[preds[i].rules[j].vars] \in Array /\ preds[i].rules[j].own \in Seq(Decl)
    <3>1. RuleOK(heap, preds[i].rules[j], preds[i].formals)
      BY <2>2 DEF CInv, PredsOK
    <3>2. preds[i].rules[j].vars \in 1 .. Len(heap)
      BY <2>2 DEF CInv, Owned
    <3>3. heap[preds[i].rules[j].vars] \in Array
      BY <2>1, <3>2, ElementOfSeq
    <3>4. preds[i].rules[j] \in Rule
      BY <2>4, ElementOfSeq
    <3> QED
      BY <3>1, <3>3, <3>4 DEF Rule
  <2>7. \A j \in DOMAIN preds[i].rules :
          /\ Resolves(heap[preds[i].rules[j].vars], preds[i].rules[j].uses)
          /\ Content(heap[preds[i].rules[j].vars])
               = <<Nil>> \o preds[i].formals \o preds[i].rules[j].own
    BY <2>5, <2>6 DEF RuleOK, Resolves, Places
  <2>8. /\ Len(preds[i].rules) >= 1 /\ preds[i].vars = preds[i].rules[1].vars
        /\ preds[i].fargs = Len(preds[i].formals)
    BY <2>2 DEF CInv, PredsOK
  <2>9. 1 \in 1 .. Len(preds[i].rules)
    BY <2>5, <2>8
  <2>10. /\ heap[preds[i].vars].freed = FALSE /\ heap[preds[i].vars] \in Array
         /\ preds[i].rules[1].own \in Seq(Decl)
         /\ Content(heap[preds[i].vars]) = <<Nil>> \o preds[i].formals \o preds[i].rules[1].own
    BY <2>6, <2>8, <2>9 DEF RuleOK
  <2>11. SubSeq(heap[preds[i].vars].data, 1, Len(preds[i].formals) + 1) = <<Nil>> \o preds[i].formals
    BY <2>4, <2>10, FirstPlaces
  <2> QED
    BY <2>7, <2>8, <2>10, <2>11
<1> QED
  BY <1>1, ContextInvariant, PTL

(* When no assertion is quantified or added to an earlier one, the terms   *)
(* of a formula mean what was in scope when they were read, and its pure   *)
(* matrix has a row for each variable (noll_exp_push_top).                 *)
THEOREM ContextForms ==
  (MaxAsserts <= 1 /\ TopExists = FALSE) => (Spec => []FormsResolve)
<1> SUFFICES ASSUME MaxAsserts <= 1, TopExists = FALSE
             PROVE  Spec => []FormsResolve
  OBVIOUS
<1>1. CInv => FormsResolve
  BY DEF CInv, FormsOK, FormsResolve, Resolves, Places
<1> QED
  BY <1>1, ContextInvariant, PTL

(* A step that leaves the arrays of formulas alone, and which formula an   *)
(* assertion may free the array of.                                        *)
Stable ==
  \A s \in Sign : (forms[s].lvars # 0 /\ forms'[s].lvars = forms[s].lvars) =>
                    heap'[forms[s].lvars] = heap[forms[s].lvars]

LEMMA OwnArrayStable ==
  ASSUME CInv, forms' = forms, \A i \in 1 .. Len(heap) : i # env => heap'[i] = heap[i]
  PROVE  Stable
BY OthersKept DEF Stable

LEMMA ExceptStable ==
  ASSUME CInv, NEW b, forms' = forms, heap' = [heap EXCEPT ![env] = b]
  PROVE  Stable
<1>1. heap \in Seq(Array)
  BY DEF CInv, Types
<1>2. \A i \in 1 .. Len(heap) : i # env => heap'[i] = heap[i]
  BY <1>1, LenProperties
<1> QED
  BY <1>2, OwnArrayStable

LEMMA PopStable ==
  ASSUME CInv, CloseExists \/ DefineFun
  PROVE  Stable
<1>1. forms' = forms
  BY DEF CloseExists, DefineFun
<1>2. PICK n \in 2 .. 3 : PoppedScope(n)
  <2>1. CASE CloseExists
    <3>1. /\ cmd \in {"define", "assert"} /\ Len(stack) > Level(cmd)
          /\ heap' = [Append(heap, New(Content(heap[env]))) EXCEPT ![env] = Popped(@, Last(stack))]
          /\ stack' = Front(stack) /\ scopes' = Front(scopes)
      BY <2>1 DEF CloseExists, QuantVars
    <3>2. Running
      BY <3>1 DEF CInv, Control, Running, Types
    <3>3. PICK n \in 1 .. 3 : Len(stack) = n /\ stack \in Seq(Nat)
      BY <3>2, ContextFacts
    <3>4. n \in 2 .. 3
      BY <3>1, <3>3 DEF Level
    <3>5. Last(stack) = stack[n]
      BY <3>3 DEF Last
    <3>6. heap' = [Append(heap, New(Content(heap[env]))) EXCEPT ![env] = Popped(@, stack[n])]
      BY <3>1, <3>5
    <3>7. PoppedScope(n)
      BY <3>1, <3>2, <3>3, <3>4, <3>6, PopHeap
    <3> QED
      BY <3>4, <3>7
  <2>2. CASE DefineFun
    <3>1. /\ cmd = "define" /\ Len(stack) = 2
          /\ heap' = Append([heap EXCEPT ![env] = Popped(@, stack[2])], New(Content(heap[env])))
          /\ stack' = Front(stack) /\ scopes' = Front(scopes)
      BY <2>2 DEF DefineFun
    <3>2. Running
      BY <3>1 DEF CInv, Control, Running, Types
    <3>3. 2 \in 2 .. 3
      OBVIOUS
    <3>4. PoppedScope(2)
      BY <3>1, <3>2, <3>3, PopHeap
    <3> QED
      BY <3>3, <3>4
  <2> QED
    BY <2>1, <2>2
<1>3. \A i \in 1 .. Len(heap) : i # env => heap'[i] = heap[i]
  BY <1>2 DEF PoppedScope
<1> QED
  BY <1>1, <1>3, OwnArrayStable

LEMMA AssertStable ==
  ASSUME CInv, NEW s \in Sign, NEW pure \in BOOLEAN, NEW unsat \in BOOLEAN,
         AssertTerm(s, pure, unsat)
  PROVE  Stable
<1> DEFINE f == Take(forms[s], outer \union UNION {exists[i].uses : i \in DOMAIN exists}, pure, unsat)
<1>1. /\ cmd = "assert" /\ Len(stack) = 1
      /\ forms' = [forms EXCEPT ![s] = f]
      /\ heap' = Restored(FreeOld(heap, forms[s])).heap
      /\ env' = Restored(FreeOld(heap, forms[s])).env
  BY DEF AssertTerm
<1>2. Running
  BY <1>1 DEF CInv, Control, Running, Types
<1>3. /\ \A i \in 1 .. Len(heap) : i # forms[s].lvars => heap'[i] = heap[i]
      /\ forms[s].unsat = TRUE => \A i \in 1 .. Len(heap) : heap'[i] = heap[i]
      /\ Len(heap) \in Nat
  BY <1>1, <1>2, AssertHeap
<1>4. /\ forms \in [Sign -> Form] /\ forms[s].unsat \in BOOLEAN
  BY DEF CInv, Types, Form
<1>5. /\ \A t \in Sign : forms[t].lvars \in 0 .. Len(heap) /\ forms[t].lvars # env
      /\ forms["pos"].lvars = 0 \/ forms["pos"].lvars # forms["neg"].lvars
  BY DEF CInv, Owned
<1>6. forms[s].unsat = FALSE => f.lvars = env
  BY DEF Take
<1>7. forms'[s] = f /\ \A t \in Sign : t # s => forms'[t] = forms[t]
  BY <1>1, <1>4
<1> HIDE DEF f
<1> SUFFICES ASSUME NEW t \in Sign, forms[t].lvars # 0, forms'[t].lvars = forms[t].lvars
             PROVE  heap'[forms[t].lvars] = heap[forms[t].lvars]
  BY DEF Stable
<1>8. forms[t].lvars \in 1 .. Len(heap)
  <2>1. forms[t].lvars \in 0 .. Len(heap)
    BY <1>5
  <2> QED
    BY <1>3, <2>1
<1>9. CASE t = s
  <2>1. forms[s].unsat = TRUE
    BY <1>4, <1>5, <1>6, <1>7, <1>9
  <2> QED
    BY <1>3, <1>8, <2>1
<1>10. CASE t # s
  <2>1. forms[t].lvars # forms[s].lvars
    BY <1>5, <1>10 DEF Sign
  <2> QED
    BY <1>3, <1>8, <2>1
<1> QED
  BY <1>9, <1>10

LEMMA StepStable == CInv /\ [Next]_vars => Stable
<1> SUFFICES ASSUME CInv, [Next]_vars
             PROVE  Stable
  OBVIOUS
<1>1. CASE \/ \E n \in GlobalNames : DeclareFun(n)
           \/ \E c \in {"define", "assert"}, n \in LocalNames : OpenScope(c, n)
           \/ \E n \in LocalNames : MoreVars(n)
           \/ DefineFails
  <2>1. forms' = forms
    BY <1>1 DEF DeclareFun, OpenScope, MoreVars, DefineFails
  <2>2. \E b : heap' = [heap EXCEPT ![env] = b]
    BY <1>1 DEF DeclareFun, OpenScope, MoreVars, PushVar, DefineFails
  <2> QED
    BY <2>1, <2>2, ExceptStable
<1>2. CASE CloseExists \/ DefineFun
  BY <1>2, PopStable
<1>3. CASE \E s \in Sign, pure, unsat \in BOOLEAN : AssertTerm(s, pure, unsat)
  BY <1>3, AssertStable
<1>4. CASE \/ TooMuchNesting \/ EndOfVars \/ CheckSat \/ Exited \/ UNCHANGED vars
           \/ \E n \in GlobalNames : DeclareAgain(n)
           \/ \E c \in {"define", "assert"}, d \in InScope : UseVar(c, d)
  <2>1. heap' = heap
    BY <1>4 DEF TooMuchNesting, EndOfVars, CheckSat, Exited, DeclareAgain, UseVar, vars
  <2> QED
    BY <2>1 DEF Stable
<1> QED
  BY <1>1, <1>2, <1>3, <1>4 DEF Next

(* The variables a formula was given are never pushed, popped or freed as  *)
(* long as it has them (noll_exp_push_top, noll_context_restore_global).   *)
THEOREM ContextStable == Spec => FormsStable
<1>1. CInv /\ [Next]_vars =>
        [\A s \in Sign : (forms[s].lvars # 0 /\ forms'[s].lvars = forms[s].lvars) =>
                          heap'[forms[s].lvars] = heap[forms[s].lvars]]_vars
  BY StepStable DEF Stable
<1> QED
  BY <1>1, ContextInvariant, PTL DEF Spec, FormsStable
=============================================================================
