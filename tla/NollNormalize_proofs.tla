------------------------ MODULE NollNormalize_proofs ------------------------
(***************************************************************************)
(* Theorems about normalisation.  The argument has three parts: the models *)
(* of F do not change once the file is written, and the matrix agrees with *)
(* each of them; every line of results_ that is not read yet is the answer *)
(* to the question that noll_normalize_incr takes it for; and every pair   *)
(* of used variables is still to be visited, still to be read, or settled. *)
(***************************************************************************)
EXTENDS NollNormalize, NollMatrix_proofs, SequenceTheorems, WellFoundedInduction

UsedPairs == {x \in Pairs : x[1] \in used /\ x[2] \in used}

(* What F implies about a pair. *)
AllEqual(x) == \A v \in models : v[x[1]] = v[x[2]]
AllApart(x) == \A v \in models : v[x[1]] # v[x[2]]

(* Nothing F implies about the pair is missing in the matrix. *)
Settled(x) == m[x] # "other" \/ (~AllEqual(x) /\ ~AllApart(x))

-----------------------------------------------------------------------------
(* The inductive invariant.                                                *)

(* Which variables are set in which phase. *)
Phases ==
  /\ phase = "build" => /\ models = {} /\ atoms = <<>> /\ queries = <<>>
                        /\ line = 1 /\ \A i \in Var : m[<<i, i>>] = "eq"
  /\ phase \in {"query", "solve", "read"} => models # {}
  /\ phase # "query" => todo = {}
  /\ phase \notin {"read", "done"} => line = 1
  /\ (phase = "done" /\ models # {}) => atoms = <<>>
  /\ todo \subseteq UsedPairs

(* Variables of different record types have no common model. *)
TypedModels == \A x \in UsedPairs : TypedApart(x) => AllApart(x)

(* The questions of the file inc_ are those of the queried pairs, in order. *)
InOrder ==
  phase \in {"query", "solve"} =>
    /\ Len(queries) = 2 * Len(atoms)
    /\ \A i \in 1 .. Len(atoms) :
         /\ queries[2 * i - 1] = [op |-> "eq", cell |-> atoms[i]]
         /\ queries[2 * i] = [op |-> "neq", cell |-> atoms[i]]

(* The lines not read yet answer the questions of the pairs not read yet.  *)
LinesMatch ==
  phase = "read" =>
    \A i \in 1 .. Len(atoms) :
      /\ 2 * i - line \in 1 .. Len(results)
           => (results[2 * i - line] <=> AllEqual(atoms[i]))
      /\ 2 * i - line + 1 \in 1 .. Len(results)
           => (results[2 * i - line + 1] <=> AllApart(atoms[i]))

(* With all answers there, none runs short and every pair is accounted for. *)
Accounted ==
  /\ (phase = "read" /\ ~truncated) => Len(results) = 2 * Len(atoms) - (line - 1)
  /\ (phase = "read" /\ line = 2 /\ atoms # <<>>)
       => (AllEqual(atoms[1]) => m[atoms[1]] # "other")
  /\ (phase \in {"query", "solve"} \/ (phase \in {"read", "done"} /\ ~truncated /\ models # {}))
       => \A x \in UsedPairs : \/ x \in todo
                               \/ \E i \in 1 .. Len(atoms) : atoms[i] = x
                               \/ Settled(x)

IInv == /\ TypeOK /\ Phases /\ TypedModels /\ InOrder /\ LinesMatch
        /\ EntriesHold /\ StaysSat /\ Accounted

-----------------------------------------------------------------------------
(* Adding an atom to the matrix.                                           *)

LEMMA AddEqAtom ==
  ASSUME NEW a \in [Cell -> Op], NEW x \in Var, NEW y \in Var, x # y
  PROVE  /\ AddEqMatrix(a, x, y) \in [Cell -> Op]
         /\ AddEqKind(a, x, y) \in Kind
         /\ \A z \in Cell : a[z] # "other" => AddEqMatrix(a, x, y)[z] = a[z]
         /\ a[<<Lo(x, y), Hi(x, y)>>] # "neq"
              => AddEqMatrix(a, x, y)[<<Lo(x, y), Hi(x, y)>>] = "eq"
         /\ \A v \in Interpretation :
              Agrees(v, a) /\ v[x] = v[y]
                => Agrees(v, AddEqMatrix(a, x, y)) /\ AddEqKind(a, x, y) = "sat"
<1> DEFINE l == Lo(x, y)
           c == Hi(x, y)
           b == Update(a, l, c, "eq")
<1>1. l \in Var /\ c \in Var /\ l < c /\ <<l, c>> \in Cell
  BY LoHi
<1>2. b \in [Cell -> Op]
  BY <1>1, UpdateType DEF Op
<1>3. AddEqMatrix(a, x, y) = CloseEq(b, l, c) /\ AddEqKind(a, x, y) = CloseEqKind(b, l, c)
  BY DEF AddEqMatrix, AddEqKind
<1>4. CloseEq(b, l, c) \in [Cell -> Op] /\ CloseEqKind(b, l, c) \in Kind
  BY <1>1, <1>2, CloseEqType DEF CloseEqKind, Kind
<1>5. ASSUME NEW z \in Cell, a[z] # "other"
      PROVE  CloseEq(b, l, c)[z] = a[z]
  <2>1. b[z] = a[z]
    BY <1>1, <1>5, UpdateKeeps
  <2> QED
    BY <1>1, <1>2, <1>5, <2>1, CloseEqKeeps
<1>6. a[<<l, c>>] # "neq" => CloseEq(b, l, c)[<<l, c>>] = "eq"
  <2>1. a[<<l, c>>] # "neq" => b[<<l, c>>] = "eq"
    BY <1>1 DEF Update, UpdateConflict, Opposite
  <2> QED
    BY <1>1, <1>2, <2>1, CloseEqKeeps
<1>7. ASSUME NEW v \in Interpretation, Agrees(v, a), v[x] = v[y]
      PROVE  Agrees(v, CloseEq(b, l, c)) /\ CloseEqKind(b, l, c) = "sat"
  <2>1. v \in [Var -> Location] /\ v[l] = v[c]
    BY <1>7 DEF Interpretation, Lo, Hi
  <2>2. Agrees(v, b)
    BY <1>1, <1>7, <2>1, UpdateAgrees DEF Op, Holds
  <2> QED
    BY <1>1, <1>2, <2>1, <2>2, CloseEqAgrees
<1> QED
  BY <1>3, <1>4, <1>5, <1>6, <1>7

LEMMA AddNeqAtom ==
  ASSUME NEW a \in [Cell -> Op], NEW x \in Var, NEW y \in Var, x # y
  PROVE  /\ AddNeqMatrix(a, x, y) \in [Cell -> Op]
         /\ AddNeqKind(a, x, y) \in Kind
         /\ \A z \in Cell : a[z] # "other" => AddNeqMatrix(a, x, y)[z] = a[z]
         /\ a[<<Lo(x, y), Hi(x, y)>>] # "eq"
              => AddNeqMatrix(a, x, y)[<<Lo(x, y), Hi(x, y)>>] = "neq"
         /\ \A v \in Interpretation :
              Agrees(v, a) /\ v[x] # v[y]
                => Agrees(v, AddNeqMatrix(a, x, y)) /\ AddNeqKind(a, x, y) = "sat"
<1> DEFINE l == Lo(x, y)
           c == Hi(x, y)
           b == Update(a, l, c, "neq")
<1>1. l \in Var /\ c \in Var /\ l < c /\ <<l, c>> \in Cell
  BY LoHi
<1>2. b \in [Cell -> Op]
  BY <1>1, UpdateType DEF Op
<1>3. AddNeqMatrix(a, x, y) = CloseNeq(b, l, c) /\ AddNeqKind(a, x, y) = CloseNeqKind(b, l, c)
  BY DEF AddNeqMatrix, AddNeqKind
<1>4. CloseNeq(b, l, c) \in [Cell -> Op] /\ CloseNeqKind(b, l, c) \in Kind
  BY <1>1, <1>2, CloseNeqType DEF CloseNeqKind, Kind
<1>5. ASSUME NEW z \in Cell, a[z] # "other"
      PROVE  CloseNeq(b, l, c)[z] = a[z]
  <2>1. b[z] = a[z]
    BY <1>1, <1>5, UpdateKeeps
  <2> QED
    BY <1>1, <1>2, <1>5, <2>1, CloseNeqKeeps
<1>6. a[<<l, c>>] # "eq" => CloseNeq(b, l, c)[<<l, c>>] = "neq"
  <2>1. a[<<l, c>>] # "eq" => b[<<l, c>>] = "neq"
    BY <1>1 DEF Update, UpdateConflict, Opposite
  <2> QED
    BY <1>1, <1>2, <2>1, CloseNeqKeeps
<1>7. ASSUME NEW v \in Interpretation, Agrees(v, a), v[x] # v[y]
      PROVE  Agrees(v, CloseNeq(b, l, c)) /\ CloseNeqKind(b, l, c) = "sat"
  <2>1. v \in [Var -> Location] /\ v[l] # v[c]
    BY <1>7 DEF Interpretation, Lo, Hi
  <2>2. Agrees(v, b)
    BY <1>1, <1>7, <2>1, UpdateAgrees DEF Op, Holds
  <2> QED
    BY <1>1, <1>2, <2>1, <2>2, CloseNeqAgrees
<1> QED
  BY <1>3, <1>4, <1>5, <1>6, <1>7

(* A pair of the loop is a cell of the matrix. *)
LEMMA PairCell ==
  ASSUME NEW x \in Pairs
  PROVE  /\ x \in Cell /\ x[1] \in Var /\ x[2] \in Var /\ x[1] # x[2]
         /\ Lo(x[1], x[2]) = x[1] /\ Hi(x[1], x[2]) = x[2]
         /\ x = <<x[1], x[2]>>
BY CellPair, SizeAssumption DEF Pairs, Lo, Hi, Var

(* A set of numbers has a least one. *)
LEMMA Least ==
  ASSUME NEW S, S \subseteq Nat, S # {}
  PROVE  \E a \in S : \A i \in S : ~ (i < a)
<1> DEFINE Lt == {ss \in Nat \X Nat : ss[1] < ss[2]}
<1>1. IsWellFoundedOn(Lt, Nat)
  BY NatLessThanWellFounded DEF OpToRel
<1>2. PICK a \in S : \A i \in S : ~ (<<i, a>> \in Lt)
  <2> HIDE DEF Lt
  <2> QED
    BY <1>1, WFMin
<1> QED
  BY <1>2

(* The loops of noll_normalize_incr have a next pair while one is left.    *)
LEMMA FirstInTodo ==
  ASSUME todo \subseteq Pairs, todo # {}
  PROVE  First \in todo
<1> DEFINE L == {x[1] : x \in todo}
<1>0. \A x \in todo : x[1] \in Nat /\ x[2] \in Nat /\ x = <<x[1], x[2]>>
  BY PairCell, SizeAssumption DEF Var
<1>1. PICK a \in L : \A i \in L : ~ (i < a)
  BY <1>0, Least
<1> DEFINE R == {x[2] : x \in {y \in todo : y[1] = a}}
<1>2. PICK b \in R : \A i \in R : ~ (i < b)
  <2>1. R \subseteq Nat /\ R # {}
    BY <1>0
  <2> HIDE DEF R
  <2> QED
    BY <2>1, Least
<1>3. PICK x \in todo : x[1] = a /\ x[2] = b
  OBVIOUS
<1>4. ASSUME NEW y \in todo \ {x}
      PROVE  Before(x, y)
  <2>1. x[1] \in Nat /\ x[2] \in Nat /\ y[1] \in Nat /\ y[2] \in Nat
    BY <1>0
  <2>2. y[1] # x[1] \/ y[2] # x[2]
    BY <1>0
  <2>3. ~(y[1] < x[1])
    BY <1>1, <1>3
  <2>4. y[1] = x[1] => ~(y[2] < x[2])
    BY <1>2, <1>3
  <2> QED
    BY <2>1, <2>2, <2>3, <2>4 DEF Before
<1> QED
  BY <1>4 DEF First

-----------------------------------------------------------------------------
(* Each action keeps the invariant.                                        *)

LEMMA InitOK == Init => IInv
<1> SUFFICES ASSUME Init PROVE IInv
  OBVIOUS
<1> USE DEF Init
<1>1. TypeOK
  <2>1. m \in [Cell -> Op]
    BY DEF PureNew, Op
  <2>2. rec \in [Var -> Records \union {"void"}]
    OBVIOUS
  <2>3. atoms \in Seq(Pairs) /\ queries \in Seq(Query) /\ results \in Seq(BOOLEAN)
    OBVIOUS
  <2> QED
    BY <2>1, <2>2, <2>3 DEF TypeOK, Kind, Phase
<1>2. Phases
  BY CellPair, SizeAssumption DEF Phases, PureNew, Var
<1>3. TypedModels /\ InOrder /\ LinesMatch /\ EntriesHold /\ StaysSat /\ Accounted
  BY DEF TypedModels, AllApart, InOrder, LinesMatch, EntriesHold, StaysSat, Accounted
<1> QED
  BY <1>1, <1>2, <1>3 DEF IInv

(* The additions of the translation. *)
LEMMA BuildOK ==
  ASSUME IInv,
         phase = "build", m' \in [Cell -> Op], kind' \in Kind, asserted' \subseteq Atom,
         \A z \in Cell : m[z] # "other" => m'[z] = m[z],
         UNCHANGED <<rec, spatial, phase, used, models, todo, atoms, queries,
                     results, line, truncated>>
  PROVE  IInv'
<1>1. TypeOK'
  BY DEF IInv, TypeOK
<1>2. Phases'
  BY CellPair, SizeAssumption DEF IInv, Phases, Var, UsedPairs
<1>3. models = {}
  BY DEF IInv, Phases
<1>4. (TypedModels /\ InOrder /\ LinesMatch /\ EntriesHold /\ StaysSat /\ Accounted)'
  BY <1>3 DEF TypedModels, AllApart, InOrder, LinesMatch, EntriesHold, StaysSat, Accounted
<1> QED
  BY <1>1, <1>2, <1>4 DEF IInv

LEMMA EncodeOK ==
  ASSUME IInv, NEW U \in SpatialVars, NEW S \in SpatialModels, Encode(U, S)
  PROVE  IInv'
<1> USE DEF IInv
<1>0. /\ 0 \in Var
      /\ used' = PureUsed \union U /\ models' = S \intersect PureModels(used')
      /\ m' = m /\ rec' = rec /\ line' = 1 /\ atoms' = <<>> /\ queries' = <<>>
      /\ truncated' = truncated /\ results' = results /\ asserted' = asserted
  BY SizeAssumption DEF Encode, Phases, Var
<1>1. used' \subseteq Var
  BY <1>0, PairCell, NormalizeAssumption DEF PureUsed
<1>2. CASE models' = {}
  <2>1. kind' = "unsat" /\ phase' = "done" /\ todo' = {}
    BY <1>2 DEF Encode
  <2>2. TypeOK'
    BY <1>0, <1>1, <1>2, <2>1, NormalizeAssumption
       DEF Encode, TypeOK, Kind, Phase
  <2>3. Phases'
    BY <1>0, <1>2, <2>1 DEF Phases
  <2>4. (TypedModels /\ InOrder /\ LinesMatch /\ EntriesHold /\ StaysSat /\ Accounted)'
    BY <1>2, <2>1 DEF TypedModels, AllApart, InOrder, LinesMatch, EntriesHold, StaysSat, Accounted
  <2> QED
    BY <2>2, <2>3, <2>4
<1>3. CASE models' # {}
  <2>1. kind' = kind /\ kind # "unsat" /\ phase' = "query" /\ todo' = UsedPairs'
    BY <1>3 DEF Encode, UsedPairs
  <2>2. TypeOK'
    BY <1>0, <1>1, <2>1, NormalizeAssumption
       DEF Encode, TypeOK, Phase, UsedPairs, PureModels
  <2>3. Phases'
    BY <1>0, <1>3, <2>1 DEF Phases
  <2>4. TypedModels'
    BY <1>0 DEF TypedModels, AllApart, TypedApart, UsedPairs, PureModels
  <2>5. EntriesHold'
    <3> SUFFICES ASSUME NEW v \in models', NEW x \in Cell
                 PROVE  /\ m[x] = "eq"  => v[x[1]] = v[x[2]]
                        /\ m[x] = "neq" => v[x[1]] # v[x[2]]
      BY <1>0 DEF EntriesHold, Agrees
    <3>1. x[1] \in Var /\ x[2] \in Var /\ x[1] <= x[2] /\ x = <<x[1], x[2]>>
      BY CellPair
    <3>2. CASE x[1] = x[2]
      <4>1. m[x] = "eq"
        BY <3>1, <3>2 DEF Phases, Encode
      <4> QED
        BY <3>2, <4>1
    <3>3. CASE x \in Pairs /\ m[x] # "other"
      <4>1. x[1] \in used' /\ x[2] \in used'
        BY <1>0, <3>3 DEF PureUsed
      <4> QED
        BY <1>0, <3>3, <4>1 DEF PureModels
    <3> QED
      BY <3>1, <3>2, <3>3, CellPair DEF Pairs
  <2>6. (InOrder /\ LinesMatch /\ StaysSat /\ Accounted)'
    <3>1. InOrder'
      BY <1>0 DEF InOrder
    <3>2. LinesMatch' /\ StaysSat'
      BY <2>1 DEF LinesMatch, StaysSat
    <3>3. Accounted'
      BY <2>1 DEF Accounted
    <3> QED
      BY <3>1, <3>2, <3>3
  <2> QED
    BY <2>2, <2>3, <2>4, <2>5, <2>6
<1> QED
  BY <1>2, <1>3

(* The types of the next pair, and what is known of it. *)
LEMMA QueryPairOK ==
  ASSUME IInv, QueryPair
  PROVE  IInv'
<1> USE DEF IInv
<1> DEFINE x == First
<1>0. /\ phase = "query" /\ todo' = todo \ {x} /\ models # {}
      /\ UNCHANGED <<kind, rec, asserted, spatial, phase, used, models, results,
                     line, truncated>>
  BY DEF QueryPair, Phases
<1>1. /\ x \in todo /\ x \in Pairs /\ x \in Cell /\ x \in UsedPairs
      /\ x[1] # x[2]
  <2>1. x \in todo
    BY FirstInTodo DEF TypeOK, QueryPair
  <2> QED
    BY <2>1, PairCell DEF TypeOK, Phases
<1>2. UsedPairs' = UsedPairs
  BY <1>0 DEF UsedPairs
<1>3. TypedModels'
  BY <1>0, <1>2 DEF TypedModels, AllApart, TypedApart
<1>4. LinesMatch' /\ StaysSat'
  BY <1>0 DEF LinesMatch, StaysSat
<1>5. \A i \in Var : <<i, i>> # x
  BY <1>1
<1>6. CASE m[x] = "other" /\ TypedApart(x)
  <2>1. m' = [m EXCEPT ![x] = "neq"] /\ atoms' = atoms /\ queries' = queries
    BY <1>6 DEF QueryPair
  <2>2. TypeOK'
    BY <1>0, <1>1, <2>1 DEF TypeOK, Op
  <2>3. Phases'
    BY <1>0, <1>2, <2>1 DEF Phases
  <2>4. InOrder'
    BY <1>0, <2>1 DEF InOrder
  <2>5. EntriesHold'
    <3>1. AllApart(x)
      BY <1>1, <1>6 DEF TypedModels
    <3> SUFFICES ASSUME NEW v \in models, NEW z \in Cell
                 PROVE  /\ m'[z] = "eq"  => v[z[1]] = v[z[2]]
                        /\ m'[z] = "neq" => v[z[1]] # v[z[2]]
      BY <1>0 DEF EntriesHold, Agrees
    <3>2. CASE z = x
      BY <1>1, <2>1, <3>1, <3>2 DEF AllApart, TypeOK
    <3>3. CASE z # x
      BY <2>1, <3>3 DEF EntriesHold, Agrees, TypeOK
    <3> QED
      BY <3>2, <3>3
  <2>6. Accounted'
    <3> SUFFICES ASSUME NEW z \in UsedPairs
                 PROVE  \/ z \in todo'
                        \/ \E i \in 1 .. Len(atoms) : atoms[i] = z
                        \/ Settled(z)'
      BY <1>0, <1>2, <2>1 DEF Accounted
    <3>1. CASE z = x
      BY <1>1, <2>1, <3>1 DEF Settled, TypeOK
    <3>2. CASE z # x
      <4>1. m'[z] = m[z]
        BY <2>1, <3>2 DEF TypeOK
      <4> QED
        BY <1>0, <3>2, <4>1 DEF Accounted, Settled, AllEqual, AllApart
    <3> QED
      BY <3>1, <3>2
  <2> QED
    BY <1>3, <1>4, <2>2, <2>3, <2>4, <2>5, <2>6
<1>7. CASE m[x] = "other" /\ ~TypedApart(x)
  <2>1. m' = m /\ atoms' = Append(atoms, x) /\ queries' = queries \o Questions(x)
    BY <1>7 DEF QueryPair
  <2>2. Questions(x) \in Seq(Query) /\ Len(Questions(x)) = 2
        /\ Questions(x)[1] = [op |-> "eq", cell |-> x]
        /\ Questions(x)[2] = [op |-> "neq", cell |-> x]
    BY <1>1 DEF Questions, Query
  <2>3. TypeOK'
    BY <1>0, <1>1, <2>1, <2>2 DEF TypeOK
  <2>4. Phases'
    BY <1>0, <1>2, <2>1 DEF Phases
  <2>5. InOrder'
    <3> DEFINE n == Len(atoms)
    <3>0. n \in Nat /\ Len(queries) = 2 * n
      BY <1>0 DEF TypeOK, InOrder
    <3>a. atoms \in Seq(Pairs) /\ queries \in Seq(Query)
      BY DEF TypeOK
    <3>1. /\ Len(atoms') = n + 1 /\ atoms'[n + 1] = x
          /\ \A i \in 1 .. n : atoms'[i] = atoms[i]
      BY <1>1, <2>1, <3>a, AppendProperties
    <3>2. /\ Len(queries') = Len(queries) + 2
          /\ \A k \in 1 .. Len(queries) + 2 :
               queries'[k] = IF k <= Len(queries) THEN queries[k] ELSE Questions(x)[k - Len(queries)]
      <4> DEFINE q == Questions(x)
      <4>1. q \in Seq(Query) /\ Len(q) = 2 /\ queries' = queries \o q
        BY <2>1, <2>2
      <4> HIDE DEF q
      <4>2. /\ Len(queries \o q) = Len(queries) + Len(q)
            /\ \A k \in 1 .. Len(queries) + Len(q) :
                 (queries \o q)[k] = IF k <= Len(queries) THEN queries[k] ELSE q[k - Len(queries)]
        BY <3>a, <4>1, ConcatProperties
      <4> QED
        BY <4>1, <4>2 DEF q
    <3>3. \A k \in 1 .. 2 * n : queries'[k] = queries[k]
      BY <3>0, <3>2
    <3>4. queries'[2 * n + 1] = Questions(x)[1] /\ queries'[2 * n + 2] = Questions(x)[2]
      <4>1. /\ 2 * n + 1 \in 1 .. 2 * n + 2 /\ ~(2 * n + 1 <= 2 * n) /\ 2 * n + 1 - 2 * n = 1
            /\ 2 * n + 2 \in 1 .. 2 * n + 2 /\ ~(2 * n + 2 <= 2 * n) /\ 2 * n + 2 - 2 * n = 2
        BY <3>0
      <4> QED
        BY <3>0, <3>2, <4>1
    <3> SUFFICES ASSUME NEW i \in 1 .. n + 1
                 PROVE  /\ queries'[2 * i - 1] = [op |-> "eq", cell |-> atoms'[i]]
                        /\ queries'[2 * i] = [op |-> "neq", cell |-> atoms'[i]]
      BY <3>0, <3>1, <3>2 DEF InOrder
    <3>5. CASE i = n + 1
      <4>1. 2 * i - 1 = 2 * n + 1 /\ 2 * i = 2 * n + 2
        BY <3>0, <3>5
      <4> QED
        BY <2>2, <3>1, <3>4, <3>5, <4>1
    <3>6. CASE i \in 1 .. n
      <4>1. 2 * i - 1 \in 1 .. 2 * n /\ 2 * i \in 1 .. 2 * n
        BY <3>0, <3>6
      <4> QED
        BY <1>0, <3>1, <3>3, <3>6, <4>1 DEF InOrder
    <3> QED
      BY <3>0, <3>5, <3>6
  <2>6. EntriesHold'
    BY <1>0, <2>1 DEF EntriesHold
  <2>7. Accounted'
    <3> SUFFICES ASSUME NEW z \in UsedPairs
                 PROVE  \/ z \in todo'
                        \/ \E i \in 1 .. Len(atoms') : atoms'[i] = z
                        \/ Settled(z)'
      BY <1>0, <1>2 DEF Accounted
    <3>1. /\ Len(atoms) \in Nat /\ Len(atoms') = Len(atoms) + 1
          /\ \A i \in 1 .. Len(atoms) : atoms'[i] = atoms[i]
          /\ atoms'[Len(atoms) + 1] = x
      BY <1>1, <2>1 DEF TypeOK
    <3>2. CASE z = x
      BY <3>1, <3>2
    <3>3. CASE z # x
      <4>1. CASE \E i \in 1 .. Len(atoms) : atoms[i] = z
        BY <3>1, <4>1
      <4>2. CASE z \in todo \/ Settled(z)
        BY <1>0, <2>1, <3>3, <4>2 DEF Settled, AllEqual, AllApart
      <4> QED
        BY <1>0, <4>1, <4>2 DEF Accounted
    <3> QED
      BY <3>2, <3>3
  <2> QED
    BY <1>3, <1>4, <2>3, <2>4, <2>5, <2>6, <2>7
<1>8. CASE m[x] # "other"
  <2>1. m' = m /\ atoms' = atoms /\ queries' = queries
    BY <1>8 DEF QueryPair
  <2>2. TypeOK' /\ Phases' /\ InOrder' /\ EntriesHold'
    BY <1>0, <1>2, <2>1 DEF TypeOK, Phases, InOrder, EntriesHold
  <2>3. Accounted'
    <3> SUFFICES ASSUME NEW z \in UsedPairs
                 PROVE  \/ z \in todo'
                        \/ \E i \in 1 .. Len(atoms) : atoms[i] = z
                        \/ Settled(z)
      BY <1>0, <1>2, <2>1 DEF Accounted, Settled, AllEqual, AllApart
    <3> QED
      BY <1>0, <1>8 DEF Accounted, Settled
  <2> QED
    BY <1>3, <1>4, <2>2, <2>3
<1> QED
  BY <1>6, <1>7, <1>8

LEMMA SolveOK ==
  ASSUME IInv, NEW n \in 0 .. Len(queries), Solve(n)
  PROVE  IInv'
<1> USE DEF IInv
<1>0. /\ phase = "solve" /\ phase' = "read" /\ models # {} /\ todo = {} /\ line = 1
      /\ results' = [i \in 1 .. n |-> Answer(queries[i])]
      /\ truncated' = (n < Len(queries))
      /\ UNCHANGED <<m, kind, rec, asserted, spatial, used, models, todo, atoms,
                     queries, line>>
  BY DEF Solve, Phases
<1>1. n \in Nat /\ Len(queries) \in Nat /\ Len(atoms) \in Nat /\ n <= Len(queries)
  BY DEF TypeOK
<1>2. results' \in Seq(BOOLEAN) /\ Len(results') = n
  <2>1. \A i \in 1 .. n : Answer(queries[i]) \in BOOLEAN
    BY DEF Answer
  <2> QED
    BY <1>0, <1>1, <2>1
<1>3. TypeOK'
  BY <1>0, <1>1, <1>2 DEF TypeOK, Phase
<1>4. UsedPairs' = UsedPairs
  BY <1>0 DEF UsedPairs
<1>5. Phases' /\ TypedModels' /\ InOrder' /\ EntriesHold' /\ StaysSat'
  BY <1>0, <1>4 DEF Phases, TypedModels, TypedApart, AllApart, InOrder, EntriesHold, StaysSat
<1>6. LinesMatch'
  <2> SUFFICES ASSUME NEW i \in 1 .. Len(atoms)
               PROVE  /\ 2 * i - 1 \in 1 .. n => (results'[2 * i - 1] <=> AllEqual(atoms[i]))
                      /\ 2 * i \in 1 .. n => (results'[2 * i] <=> AllApart(atoms[i]))
    <3>1. \A i \in 1 .. Len(atoms) : 2 * i - 1 + 1 = 2 * i
      BY <1>1
    <3> QED
      BY <1>0, <1>2, <3>1 DEF LinesMatch, AllEqual, AllApart
  <2>1. /\ queries[2 * i - 1] = [op |-> "eq", cell |-> atoms[i]]
        /\ queries[2 * i] = [op |-> "neq", cell |-> atoms[i]]
    BY <1>0 DEF InOrder
  <2>2. /\ Answer([op |-> "eq", cell |-> atoms[i]]) <=> AllEqual(atoms[i])
        /\ Answer([op |-> "neq", cell |-> atoms[i]]) <=> AllApart(atoms[i])
    BY DEF Answer, AllEqual, AllApart, Holds
  <2> QED
    BY <1>0, <2>1, <2>2
<1>7. Accounted'
  <2>1. ASSUME ~truncated'
        PROVE  Len(results') = 2 * Len(atoms') - (line' - 1)
    <3>1. ~(n < Len(queries))
      BY <1>0, <2>1, Zenon
    <3>2. Len(queries) = 2 * Len(atoms)
      BY <1>0 DEF InOrder
    <3> QED
      BY <1>0, <1>1, <1>2, <3>1, <3>2
  <2>2. ASSUME NEW z \in UsedPairs'
        PROVE  \/ z \in todo'
               \/ \E i \in 1 .. Len(atoms') : atoms'[i] = z
               \/ Settled(z)'
    BY <1>0, <1>4 DEF Accounted, Settled, AllEqual, AllApart
  <2> QED
    BY <1>0, <2>1, <2>2 DEF Accounted
<1> QED
  BY <1>3, <1>5, <1>6, <1>7

(* The first line of the pair that is read next. *)
LEMMA ReadEqOK ==
  ASSUME IInv, ReadEq
  PROVE  IInv'
<1> USE DEF IInv
<1> DEFINE x == atoms[1]
<1>0. /\ phase = "read" /\ line = 1 /\ line' = 2 /\ models # {} /\ todo = {}
      /\ atoms # <<>> /\ results # <<>> /\ results' = Tail(results)
      /\ UNCHANGED <<rec, asserted, spatial, used, models, todo, atoms, queries, truncated>>
  BY DEF ReadEq, Phases
<1>1. /\ results \in Seq(BOOLEAN) /\ atoms \in Seq(Pairs)
      /\ Len(results) \in Nat /\ Len(results) > 0 /\ Len(atoms) \in Nat /\ Len(atoms) > 0
      /\ Head(results) = results[1] /\ Head(atoms) = x
  BY <1>0 DEF TypeOK
<1>2. /\ results' \in Seq(BOOLEAN) /\ Len(results') = Len(results) - 1
      /\ \A i \in 1 .. Len(results') : results'[i] = results[i + 1]
  BY <1>0, <1>1, HeadTailProperties
<1>3. x \in Pairs /\ 1 \in 1 .. Len(atoms)
  BY <1>1
<1>4. results[1] <=> AllEqual(x)
  <2>1. 2 * 1 - 1 = 1 /\ 1 \in 1 .. Len(results)
    BY <1>1
  <2> QED
    BY <1>0, <1>3, <2>1 DEF LinesMatch
<1>5. /\ m' \in [Cell -> Op] /\ (kind' = "sat" \/ kind' = kind)
      /\ \A z \in Cell : m[z] # "other" => m'[z] = m[z]
      /\ phase' = "read" /\ EntriesHold' /\ kind' \in Kind
      /\ AllEqual(x) => m'[x] # "other"
  <2>1. CASE Head(results)
    <3>1. AllEqual(x)
      BY <1>1, <1>4, <2>1
    <3>2. /\ x \in Cell /\ x[1] \in Var /\ x[2] \in Var /\ x[1] # x[2]
          /\ x = <<Lo(x[1], x[2]), Hi(x[1], x[2])>>
      BY <1>3, PairCell
    <3>3. m' = AddEqMatrix(m, x[1], x[2]) /\ kind' = AddEqKind(m, x[1], x[2])
          /\ phase' = IF kind' = "unsat" THEN "done" ELSE phase
      BY <1>1, <2>1 DEF ReadEq
    <3>4. m \in [Cell -> Op] /\ models \subseteq Interpretation
      BY DEF TypeOK
    <3>5. \A v \in models : Agrees(v, m') /\ kind' = "sat"
      BY <3>1, <3>2, <3>3, <3>4, AddEqAtom DEF EntriesHold, AllEqual
    <3>6. m[x] # "neq"
      BY <1>0, <3>1, <3>2 DEF EntriesHold, Agrees, AllEqual
    <3>7. m' \in [Cell -> Op] /\ (\A z \in Cell : m[z] # "other" => m'[z] = m[z])
          /\ m'[x] = "eq"
      BY <3>2, <3>3, <3>4, <3>6, AddEqAtom
    <3>8. EntriesHold'
      BY <1>0, <3>5 DEF EntriesHold
    <3>9. kind' = "sat" /\ phase' = "read"
      BY <1>0, <3>3, <3>5
    <3> QED
      BY <3>7, <3>8, <3>9 DEF Kind
  <2>2. CASE ~Head(results)
    <3>1. m' = m /\ kind' = kind /\ phase' = phase
      BY <2>2 DEF ReadEq
    <3> QED
      BY <1>0, <1>1, <1>4, <2>2, <3>1 DEF TypeOK, EntriesHold
  <2> QED
    BY <2>1, <2>2
<1>6. TypeOK'
  BY <1>0, <1>2, <1>5 DEF TypeOK
<1>7. UsedPairs' = UsedPairs
  BY <1>0 DEF UsedPairs
<1>8. Phases' /\ TypedModels' /\ InOrder' /\ StaysSat'
  BY <1>0, <1>5, <1>7 DEF Phases, TypedModels, TypedApart, AllApart, InOrder, StaysSat
<1>9. LinesMatch'
  <2> SUFFICES ASSUME NEW i \in 1 .. Len(atoms)
               PROVE  /\ 2 * i - 2 \in 1 .. Len(results')
                           => (results'[2 * i - 2] <=> AllEqual(atoms[i]))
                      /\ 2 * i - 2 + 1 \in 1 .. Len(results')
                           => (results'[2 * i - 2 + 1] <=> AllApart(atoms[i]))
    BY <1>0 DEF LinesMatch, AllEqual, AllApart
  <2>1. /\ 2 * i - 1 \in 1 .. Len(results) => (results[2 * i - 1] <=> AllEqual(atoms[i]))
        /\ 2 * i - 1 + 1 \in 1 .. Len(results) => (results[2 * i - 1 + 1] <=> AllApart(atoms[i]))
    BY <1>0 DEF LinesMatch
  <2>2. i \in Nat /\ 2 * i - 2 + 1 = 2 * i - 1 /\ 2 * i - 2 + 1 + 1 = 2 * i - 1 + 1
        /\ (2 * i - 2 \in 1 .. Len(results) - 1 => 2 * i - 1 \in 1 .. Len(results))
        /\ (2 * i - 2 + 1 \in 1 .. Len(results) - 1 => 2 * i - 1 + 1 \in 1 .. Len(results))
    BY <1>1
  <2> QED
    BY <1>2, <2>1, <2>2
<1>10. Accounted'
  <2>1. ~truncated' => Len(results') = 2 * Len(atoms') - (line' - 1)
    BY <1>0, <1>1, <1>2 DEF Accounted
  <2>2. (AllEqual(atoms[1]) => m[atoms[1]] # "other")'
    BY <1>0, <1>5 DEF AllEqual
  <2>3. ASSUME NEW z \in UsedPairs', ~truncated
        PROVE  \/ z \in todo'
               \/ \E i \in 1 .. Len(atoms') : atoms'[i] = z
               \/ Settled(z)'
    <3>1. z \in Cell
      BY PairCell DEF UsedPairs
    <3>2. Settled(z) => Settled(z)'
      BY <1>0, <1>5, <3>1 DEF Settled, AllEqual, AllApart
    <3> QED
      BY <1>0, <1>7, <2>3, <3>2 DEF Accounted
  <2> QED
    BY <1>0, <1>5, <2>1, <2>2, <2>3 DEF Accounted
<1> QED
  BY <1>5, <1>6, <1>8, <1>9, <1>10

(* The second line: the next pair comes first after it. *)
LEMMA ReadNeqOK ==
  ASSUME IInv, ReadNeq
  PROVE  IInv'
<1> USE DEF IInv
<1> DEFINE x == atoms[1]
<1>0. /\ phase = "read" /\ line = 2 /\ line' = 1 /\ models # {} /\ todo = {}
      /\ atoms # <<>> /\ results # <<>> /\ results' = Tail(results) /\ atoms' = Tail(atoms)
      /\ UNCHANGED <<rec, asserted, spatial, used, models, todo, queries, truncated>>
  BY DEF ReadNeq, Phases
<1>1. /\ results \in Seq(BOOLEAN) /\ atoms \in Seq(Pairs)
      /\ Len(results) \in Nat /\ Len(results) > 0 /\ Len(atoms) \in Nat /\ Len(atoms) > 0
      /\ Head(results) = results[1] /\ Head(atoms) = x
  BY <1>0 DEF TypeOK
<1>2. /\ results' \in Seq(BOOLEAN) /\ Len(results') = Len(results) - 1
      /\ \A i \in 1 .. Len(results') : results'[i] = results[i + 1]
  BY <1>0, <1>1, HeadTailProperties
<1>3. /\ atoms' \in Seq(Pairs) /\ Len(atoms') = Len(atoms) - 1
      /\ \A i \in 1 .. Len(atoms') : atoms'[i] = atoms[i + 1]
  BY <1>0, <1>1, HeadTailProperties
<1>4. x \in Pairs /\ 1 \in 1 .. Len(atoms)
  BY <1>1
<1>5. results[1] <=> AllApart(x)
  <2>1. 2 * 1 - 2 + 1 = 1 /\ 1 \in 1 .. Len(results)
    BY <1>1
  <2> QED
    BY <1>0, <1>4, <2>1 DEF LinesMatch
<1>6. /\ m' \in [Cell -> Op] /\ (kind' = "sat" \/ kind' = kind)
      /\ \A z \in Cell : m[z] # "other" => m'[z] = m[z]
      /\ phase' = "read" /\ EntriesHold' /\ kind' \in Kind
      /\ AllApart(x) => m'[x] # "other"
  <2>1. CASE Head(results)
    <3>1. AllApart(x)
      BY <1>1, <1>5, <2>1
    <3>2. /\ x \in Cell /\ x[1] \in Var /\ x[2] \in Var /\ x[1] # x[2]
          /\ x = <<Lo(x[1], x[2]), Hi(x[1], x[2])>>
      BY <1>4, PairCell
    <3>3. m' = AddNeqMatrix(m, x[1], x[2]) /\ kind' = AddNeqKind(m, x[1], x[2])
          /\ phase' = IF kind' = "unsat" THEN "done" ELSE phase
      BY <1>1, <2>1 DEF ReadNeq
    <3>4. m \in [Cell -> Op] /\ models \subseteq Interpretation
      BY DEF TypeOK
    <3>5. \A v \in models : Agrees(v, m') /\ kind' = "sat"
      BY <3>1, <3>2, <3>3, <3>4, AddNeqAtom DEF EntriesHold, AllApart
    <3>6. m[x] # "eq"
      BY <1>0, <3>1, <3>2 DEF EntriesHold, Agrees, AllApart
    <3>7. m' \in [Cell -> Op] /\ (\A z \in Cell : m[z] # "other" => m'[z] = m[z])
      BY <3>2, <3>3, <3>4, AddNeqAtom
    <3>a. m'[x] = "neq"
      <4>1. m[<<Lo(x[1], x[2]), Hi(x[1], x[2])>>] # "eq"
              => m'[<<Lo(x[1], x[2]), Hi(x[1], x[2])>>] = "neq"
        BY <3>2, <3>3, <3>4, AddNeqAtom
      <4> QED
        BY <3>2, <3>6, <4>1
    <3>8. EntriesHold'
      BY <1>0, <3>5 DEF EntriesHold
    <3>9. kind' = "sat" /\ phase' = "read"
      BY <1>0, <3>3, <3>5
    <3> QED
      BY <3>1, <3>7, <3>8, <3>9, <3>a DEF Kind
  <2>2. CASE ~Head(results)
    <3>1. m' = m /\ kind' = kind /\ phase' = phase
      BY <2>2 DEF ReadNeq
    <3> QED
      BY <1>0, <1>1, <1>5, <2>2, <3>1 DEF TypeOK, EntriesHold
  <2> QED
    BY <2>1, <2>2
<1>7. TypeOK'
  BY <1>0, <1>2, <1>3, <1>6 DEF TypeOK
<1>8. UsedPairs' = UsedPairs
  BY <1>0 DEF UsedPairs
<1>9. Phases' /\ TypedModels' /\ InOrder' /\ StaysSat'
  BY <1>0, <1>6, <1>8 DEF Phases, TypedModels, TypedApart, AllApart, InOrder, StaysSat
<1>10. LinesMatch'
  <2> SUFFICES ASSUME NEW i \in 1 .. Len(atoms')
               PROVE  /\ 2 * i - 1 \in 1 .. Len(results')
                           => (results'[2 * i - 1] <=> AllEqual(atoms'[i]))
                      /\ 2 * i - 1 + 1 \in 1 .. Len(results')
                           => (results'[2 * i - 1 + 1] <=> AllApart(atoms'[i]))
    BY <1>0 DEF LinesMatch, AllEqual, AllApart
  <2>1. i + 1 \in 1 .. Len(atoms) /\ atoms'[i] = atoms[i + 1]
    BY <1>1, <1>3
  <2>2. /\ 2 * (i + 1) - 2 \in 1 .. Len(results)
             => (results[2 * (i + 1) - 2] <=> AllEqual(atoms[i + 1]))
        /\ 2 * (i + 1) - 2 + 1 \in 1 .. Len(results)
             => (results[2 * (i + 1) - 2 + 1] <=> AllApart(atoms[i + 1]))
    BY <1>0, <2>1 DEF LinesMatch
  <2>3. i \in Nat /\ 2 * (i + 1) - 2 = 2 * i - 1 + 1 /\ 2 * (i + 1) - 2 + 1 = 2 * i - 1 + 1 + 1
        /\ (2 * i - 1 \in 1 .. Len(results) - 1 => 2 * i - 1 + 1 \in 1 .. Len(results))
        /\ (2 * i - 1 + 1 \in 1 .. Len(results) - 1 => 2 * i - 1 + 1 + 1 \in 1 .. Len(results))
    BY <1>1, <1>3
  <2> QED
    BY <1>2, <2>1, <2>2, <2>3
<1>11. Accounted'
  <2>1. ~truncated' => Len(results') = 2 * Len(atoms') - (line' - 1)
    <3>1. ~truncated => Len(results) = 2 * Len(atoms) - 1
      BY <1>0, <1>1 DEF Accounted
    <3>2. Len(results) = 2 * Len(atoms) - 1 => Len(results') = 2 * Len(atoms') - (line' - 1)
      BY <1>0, <1>1, <1>2, <1>3
    <3>3. truncated' = truncated
      BY <1>0
    <3> QED
      BY <3>1, <3>2, <3>3, Zenon
  <2>2. AllEqual(x) => m[x] # "other"
    BY <1>0 DEF Accounted
  <2>3. ASSUME NEW z \in UsedPairs', ~truncated
        PROVE  \/ z \in todo'
               \/ \E i \in 1 .. Len(atoms') : atoms'[i] = z
               \/ Settled(z)'
    <3>1. z \in Cell
      BY PairCell DEF UsedPairs
    <3>2. CASE Settled(z)
      BY <1>0, <1>6, <3>1, <3>2 DEF Settled, AllEqual, AllApart
    <3>3. CASE z = x
      <4>1. m'[z] # "other" \/ (~AllEqual(z) /\ ~AllApart(z))
        <5>1. AllApart(z) => m'[z] # "other"
          BY <1>6, <3>3
        <5>2. AllEqual(z) => m'[z] # "other"
          BY <1>6, <2>2, <3>1, <3>3
        <5> QED
          BY <5>1, <5>2
      <4> QED
        BY <1>0, <4>1 DEF Settled, AllEqual, AllApart
    <3>4. ASSUME NEW i \in 1 .. Len(atoms), atoms[i] = z, i # 1
          PROVE  \E j \in 1 .. Len(atoms') : atoms'[j] = z
      <4>1. i - 1 \in 1 .. Len(atoms') /\ (i - 1) + 1 = i
        BY <1>1, <1>3, <3>4
      <4> QED
        BY <1>3, <3>4, <4>1
    <3> QED
      BY <1>0, <1>8, <2>3, <3>2, <3>3, <3>4 DEF Accounted
  <2> QED
    BY <1>0, <1>6, <2>1, <2>3 DEF Accounted
<1> QED
  BY <1>6, <1>7, <1>9, <1>10, <1>11

(* The other steps. *)
LEMMA ReadMissingOK ==
  ASSUME IInv, ReadMissing
  PROVE  IInv'
<1> USE DEF IInv
<1>0. /\ phase = "read" /\ phase' = "read" /\ line' = 1 /\ models # {} /\ todo = {}
      /\ atoms # <<>> /\ results = <<>> /\ atoms' = Tail(atoms)
      /\ UNCHANGED <<m, kind, rec, asserted, spatial, used, models, todo, queries,
                     results, truncated>>
  BY DEF ReadMissing, Phases
<1>1. atoms' \in Seq(Pairs) /\ Len(results) = 0 /\ Len(atoms) \in Nat /\ Len(atoms) > 0
  BY <1>0, HeadTailProperties DEF TypeOK
<1>2. TypeOK'
  BY <1>0, <1>1 DEF TypeOK
<1>3. UsedPairs' = UsedPairs
  BY <1>0 DEF UsedPairs
<1>4. Phases' /\ TypedModels' /\ InOrder' /\ EntriesHold' /\ StaysSat'
  BY <1>0, <1>3 DEF Phases, TypedModels, TypedApart, AllApart, InOrder, EntriesHold, StaysSat
<1>5. LinesMatch'
  <2>1. \A k : k \notin 1 .. Len(results')
    BY <1>0, <1>1
  <2> QED
    BY <2>1 DEF LinesMatch
<1>6. truncated /\ truncated'
  <2>1. ~truncated => 0 = 2 * Len(atoms) - (line - 1)
    BY <1>0, <1>1 DEF Accounted
  <2>2. line = 1 \/ line = 2
    BY DEF TypeOK
  <2> QED
    BY <1>0, <1>1, <2>1, <2>2
<1>7. Accounted'
  BY <1>0, <1>6 DEF Accounted
<1> QED
  BY <1>2, <1>4, <1>5, <1>7

LEMMA PhaseOK ==
  ASSUME IInv, NothingToDo \/ QueryEnd \/ ReadEnd \/ UNCHANGED vars
  PROVE  IInv'
<1> USE DEF IInv
<1>0. UNCHANGED <<m, kind, rec, asserted, spatial, used, models, todo, atoms, queries,
                  results, line, truncated>>
  BY DEF NothingToDo, QueryEnd, ReadEnd, vars
<1>1. UsedPairs' = UsedPairs
  BY <1>0 DEF UsedPairs
<1>2. TypedModels' /\ EntriesHold' /\ StaysSat'
  BY <1>0, <1>1 DEF TypedModels, TypedApart, AllApart, EntriesHold, StaysSat
<1>3. \A z : Settled(z)' <=> Settled(z)
  BY <1>0 DEF Settled, AllEqual, AllApart
<1>4. CASE NothingToDo
  <2>1. phase = "build" /\ phase' = "done" /\ models = {}
    BY <1>4 DEF NothingToDo, Phases
  <2> QED
    BY <1>0, <1>1, <1>2, <2>1 DEF TypeOK, Phase, Phases, InOrder, LinesMatch, Accounted
<1>5. CASE QueryEnd
  <2>1. phase = "query" /\ phase' = "solve" /\ todo = {}
    BY <1>5 DEF QueryEnd
  <2>2. TypeOK' /\ Phases' /\ InOrder' /\ LinesMatch'
    BY <1>0, <1>1, <2>1 DEF TypeOK, Phase, Phases, InOrder, LinesMatch
  <2>3. Accounted'
    BY <1>0, <1>1, <1>3, <2>1 DEF Accounted
  <2> QED
    BY <1>2, <2>2, <2>3
<1>6. CASE ReadEnd
  <2>1. phase = "read" /\ phase' = "done" /\ atoms = <<>>
    BY <1>6 DEF ReadEnd
  <2>2. TypeOK' /\ Phases' /\ InOrder' /\ LinesMatch'
    BY <1>0, <1>1, <2>1 DEF TypeOK, Phase, Phases, InOrder, LinesMatch
  <2>3. Accounted'
    BY <1>0, <1>1, <1>3, <2>1 DEF Accounted
  <2> QED
    BY <1>2, <2>2, <2>3
<1>7. CASE UNCHANGED vars
  <2>1. phase' = phase
    BY <1>7 DEF vars
  <2>2. TypeOK' /\ Phases'
    BY <1>0, <1>1, <2>1 DEF TypeOK, Phases
  <2>3. InOrder' /\ LinesMatch'
    BY <1>0, <2>1 DEF InOrder, LinesMatch, AllEqual, AllApart
  <2>4. Accounted'
    BY <1>0, <1>1, <1>3, <2>1 DEF Accounted, AllEqual
  <2> QED
    BY <1>2, <2>2, <2>3, <2>4
<1> QED
  BY <1>4, <1>5, <1>6, <1>7

LEMMA StepOK == IInv /\ [Next]_vars => IInv'
<1> SUFFICES ASSUME IInv, [Next]_vars
             PROVE  IInv'
  OBVIOUS
<1>1. ASSUME NEW x \in Var, NEW y \in Var, BuildEq(x, y)
      PROVE  IInv'
  <2>0. [op |-> "eq", x |-> Lo(x, y), y |-> Hi(x, y)] \in Atom
    BY LoHi DEF Atom
  <2>1. asserted' \subseteq Atom
    BY <1>1, <2>0 DEF BuildEq, IInv, TypeOK
  <2>2. m \in [Cell -> Op]
    BY DEF IInv, TypeOK
  <2> QED
    BY <1>1, <2>1, <2>2, AddEqAtom, BuildOK DEF BuildEq
<1>2. ASSUME NEW x \in Var, NEW y \in Var, BuildNeq(x, y)
      PROVE  IInv'
  <2>0. [op |-> "neq", x |-> Lo(x, y), y |-> Hi(x, y)] \in Atom
    BY LoHi DEF Atom
  <2>1. asserted' \subseteq Atom
    BY <1>2, <2>0 DEF BuildNeq, IInv, TypeOK
  <2>2. m \in [Cell -> Op]
    BY DEF IInv, TypeOK
  <2> QED
    BY <1>2, <2>1, <2>2, AddNeqAtom, BuildOK DEF BuildNeq
<1>3. ASSUME NEW op \in {"eq", "neq"}, NEW x \in Var, BuildSame(op, x)
      PROVE  IInv'
  <2>1. asserted' \subseteq Atom /\ kind' \in Kind /\ m' = m /\ m \in [Cell -> Op]
    BY <1>3 DEF BuildSame, IInv, TypeOK, Atom, Kind
  <2> QED
    BY <1>3, <2>1, BuildOK DEF BuildSame
<1>4. ASSUME NEW U \in SpatialVars, NEW S \in SpatialModels, Encode(U, S)
      PROVE  IInv'
  BY <1>4, EncodeOK
<1>5. ASSUME NEW n \in 0 .. Len(queries), Solve(n)
      PROVE  IInv'
  BY <1>5, SolveOK
<1>6. CASE QueryPair
  BY <1>6, QueryPairOK
<1>7. CASE ReadEq
  BY <1>7, ReadEqOK
<1>8. CASE ReadNeq
  BY <1>8, ReadNeqOK
<1>9. CASE ReadMissing
  BY <1>9, ReadMissingOK
<1>10. CASE NothingToDo \/ QueryEnd \/ ReadEnd \/ Returned \/ UNCHANGED vars
  BY <1>10, PhaseOK DEF Returned
<1> QED
  BY <1>1, <1>2, <1>3, <1>4, <1>5, <1>6, <1>7, <1>8, <1>9, <1>10 DEF Next

(* The invariant holds in every state of a normalisation, for every number *)
(* of variables, every interpretation of the rest of F and every point at  *)
(* which the incremental solver may stop.                                  *)
THEOREM Invariance == Spec => []IInv
BY InitOK, StepOK, PTL DEF Spec

-----------------------------------------------------------------------------
(* The variables of noll_normalize keep their types. *)
THEOREM NormalizeTypes == Spec => []TypeOK
<1>1. IInv => TypeOK
  BY DEF IInv
<1> QED
  BY <1>1, Invariance, PTL

(* Every entry of the matrix holds in every model of F, at each line that  *)
(* is read from results_: a line is never taken for the answer about       *)
(* another pair, or for the other question about the pair.                 *)
THEOREM EntriesAreImplied == Spec => []EntriesHold
<1>1. IInv => EntriesHold
  BY DEF IInv
<1> QED
  BY <1>1, Invariance, PTL

(* A satisfiable formula is never made UNSAT by its normalisation, so the  *)
(* early exits of noll_normalize_incr are never taken.                     *)
THEOREM SatIsKept == Spec => []StaysSat
<1>1. IInv => StaysSat
  BY DEF IInv
<1> QED
  BY <1>1, Invariance, PTL

(* With all answers there, normalisation leaves nothing unknown that F     *)
(* implies about two used variables.                                       *)
THEOREM NormalForm == Spec => []Complete
<1>1. IInv => Complete
  <2> SUFFICES ASSUME IInv, phase = "done", models # {}, ~truncated, NEW x \in UsedPairs
               PROVE  /\ AllEqual(x) => m[x] = "eq"
                      /\ AllApart(x) => m[x] = "neq"
    BY DEF Complete, UsedPairs, AllEqual, AllApart
  <2>1. todo = {} /\ atoms = <<>>
    BY DEF IInv, Phases
  <2>2. Settled(x)
    BY <2>1 DEF IInv, Accounted
  <2>3. x \in Cell /\ m[x] \in {"eq", "neq", "other"}
    BY PairCell DEF UsedPairs, IInv, TypeOK, Op
  <2>4. m[x] = "eq" => AllEqual(x)
    BY <2>3 DEF IInv, EntriesHold, Agrees, AllEqual
  <2>5. m[x] = "neq" => AllApart(x)
    BY <2>3 DEF IInv, EntriesHold, Agrees, AllApart
  <2>6. ~(AllEqual(x) /\ AllApart(x))
    BY DEF AllEqual, AllApart
  <2> QED
    BY <2>2, <2>3, <2>4, <2>5, <2>6 DEF Settled
<1> QED
  BY <1>1, Invariance, PTL
=============================================================================
