-------------------------- MODULE NollPure_proofs --------------------------
(***************************************************************************)
(* Theorems about the pure part of a formula.  The argument for Sound is   *)
(* that the matrix agrees with every interpretation of the atoms added so  *)
(* far: an interpretation that satisfies the new atom and agrees with the  *)
(* matrix agrees with the closed matrix too, and excludes a clash.         *)
(***************************************************************************)
EXTENDS NollPure, NollMatrix_proofs

(* The matrix, the kind and the history keep their types.                 *)
THEOREM TypeCorrect == Spec => []TypeOK
<1>1. Init => TypeOK
  BY DEF Init, TypeOK, PureNew, Op, Kind, Atom
<1>2. TypeOK /\ [Next]_vars => TypeOK'
  <2> SUFFICES ASSUME TypeOK, [Next]_vars
               PROVE  TypeOK'
    OBVIOUS
  <2> USE DEF TypeOK
  <2>1. ASSUME NEW x \in Var, NEW y \in Var, NEW op \in {"eq", "neq"}
        PROVE  Asserts(op, x, y) \in Atom
    BY LoHi DEF Asserts, Atom
  <2>2. ASSUME NEW x \in Var, NEW y \in Var, AddEq(x, y)
        PROVE  TypeOK'
    <3>1. m' \in [Cell -> Op]
      BY <2>2, LoHi, UpdateType, CloseEqType DEF AddEq, AddEqMatrix, Op
    <3>2. kind' \in Kind
      BY <2>2 DEF AddEq, AddEqKind, CloseEqKind, Kind
    <3> QED
      BY <2>1, <2>2, <3>1, <3>2 DEF AddEq
  <2>3. ASSUME NEW x \in Var, NEW y \in Var, AddNeq(x, y)
        PROVE  TypeOK'
    <3>1. m' \in [Cell -> Op]
      BY <2>3, LoHi, UpdateType, CloseNeqType DEF AddNeq, AddNeqMatrix, Op
    <3>2. kind' \in Kind
      BY <2>3 DEF AddNeq, AddNeqKind, CloseNeqKind, Kind
    <3> QED
      BY <2>1, <2>3, <3>1, <3>2 DEF AddNeq
  <2>4. ASSUME NEW x \in Var, AddEqSame(x)
        PROVE  TypeOK'
    BY <2>4 DEF AddEqSame, Kind
  <2>5. ASSUME NEW x \in Var, AddNeqSame(x)
        PROVE  TypeOK'
    BY <2>1, <2>5 DEF AddNeqSame, Kind
  <2>6. CASE AddIgnored \/ UNCHANGED vars
    BY <2>6 DEF AddIgnored, vars
  <2> QED
    BY <2>2, <2>3, <2>4, <2>5, <2>6 DEF Next
<1> QED
  BY <1>1, <1>2, PTL DEF Spec

(* Every reachable matrix follows from the atoms that were added, and UNSAT *)
(* is only reported for contradictory atoms, however the closure of         *)
(* noll_form_add_eq and noll_form_add_neq went.                             *)
THEOREM Soundness == Spec => []Sound
<1>1. Init => Sound
  BY CellPair DEF Init, Sound, PureNew, Agrees
<1>2. TypeOK /\ Sound /\ [Next]_vars => Sound'
  <2> SUFFICES ASSUME TypeOK, Sound, [Next]_vars
               PROVE  Sound'
    OBVIOUS
  <2> USE DEF TypeOK
  <2>0. SUFFICES ASSUME NEW v \in Interpretation, Satisfies(v, asserted')
                 PROVE  kind' # "unsat" /\ Agrees(v, m')
    BY DEF Sound
  <2>1. Satisfies(v, asserted) => kind # "unsat" /\ Agrees(v, m)
    BY DEF Sound
  <2>2. ASSUME NEW x \in Var, NEW y \in Var, AddEq(x, y)
        PROVE  kind' # "unsat" /\ Agrees(v, m')
    <3> DEFINE l == Lo(x, y)
               c == Hi(x, y)
               a == Update(m, l, c, "eq")
    <3>a. asserted' = asserted \union {[op |-> "eq", x |-> l, y |-> c]}
      BY <2>2 DEF AddEq, Asserts
    <3>b. Satisfies(v, asserted) /\ Holds(v, [op |-> "eq", x |-> l, y |-> c])
      BY <2>0, <3>a DEF Satisfies
    <3>1. v[l] = v[c]
      BY <3>b DEF Holds
    <3>2. l \in Var /\ c \in Var /\ l < c
      BY <2>2, LoHi DEF AddEq
    <3>3. a \in [Cell -> Op] /\ Agrees(v, a)
      BY <2>1, <3>b, <3>2, UpdateType, UpdateAgrees DEF Op, Interpretation
    <3>4. Agrees(v, CloseEq(a, l, c)) /\ CloseEqKind(a, l, c) = "sat"
      BY <3>1, <3>2, <3>3, CloseEqAgrees DEF Interpretation
    <3> QED
      BY <2>2, <3>4 DEF AddEq, AddEqMatrix, AddEqKind
  <2>3. ASSUME NEW x \in Var, NEW y \in Var, AddNeq(x, y)
        PROVE  kind' # "unsat" /\ Agrees(v, m')
    <3> DEFINE l == Lo(x, y)
               c == Hi(x, y)
               a == Update(m, l, c, "neq")
    <3>a. asserted' = asserted \union {[op |-> "neq", x |-> l, y |-> c]}
      BY <2>3 DEF AddNeq, Asserts
    <3>b. Satisfies(v, asserted) /\ Holds(v, [op |-> "neq", x |-> l, y |-> c])
      BY <2>0, <3>a DEF Satisfies
    <3>1. v[l] # v[c]
      BY <3>b DEF Holds
    <3>2. l \in Var /\ c \in Var /\ l < c
      BY <2>3, LoHi DEF AddNeq
    <3>3. a \in [Cell -> Op] /\ Agrees(v, a)
      BY <2>1, <3>b, <3>2, UpdateType, UpdateAgrees DEF Op, Interpretation
    <3>4. Agrees(v, CloseNeq(a, l, c)) /\ CloseNeqKind(a, l, c) = "sat"
      BY <3>1, <3>2, <3>3, CloseNeqAgrees DEF Interpretation
    <3> QED
      BY <2>3, <3>4 DEF AddNeq, AddNeqMatrix, AddNeqKind
  <2>4. ASSUME NEW x \in Var, AddEqSame(x)
        PROVE  kind' # "unsat" /\ Agrees(v, m')
    BY <2>0, <2>1, <2>4 DEF AddEqSame
  <2>5. ASSUME NEW x \in Var, AddNeqSame(x)
        PROVE  FALSE
    <3>1. ~ Holds(v, Asserts("neq", x, x))
      BY DEF Holds, Asserts, Lo, Hi
    <3> QED
      BY <2>0, <2>5, <3>1 DEF AddNeqSame, Satisfies
  <2>6. CASE AddIgnored \/ UNCHANGED vars
    BY <2>0, <2>1, <2>6 DEF AddIgnored, vars
  <2> QED
    BY <2>2, <2>3, <2>4, <2>5, <2>6 DEF Next
<1> QED
  BY <1>1, <1>2, TypeCorrect, PTL DEF Spec

(* An entry of the matrix is final: no addition weakens or flips it        *)
(* (noll_form_add_eq, noll_form_add_neq).                                  *)
THEOREM Permanence == Spec => NeverForgets
<1>1. TypeOK /\ [Next]_vars
        => [\A x \in Cell : m[x] # "other" => m'[x] = m[x]]_vars
  <2> SUFFICES ASSUME TypeOK, Next, NEW x \in Cell, m[x] # "other"
               PROVE  m'[x] = m[x]
    OBVIOUS
  <2> USE DEF TypeOK
  <2>1. ASSUME NEW u \in Var, NEW w \in Var, AddEq(u, w)
        PROVE  m'[x] = m[x]
    <3> DEFINE a == Update(m, Lo(u, w), Hi(u, w), "eq")
    <3>1. Lo(u, w) \in Var /\ Hi(u, w) \in Var /\ Lo(u, w) < Hi(u, w)
      BY <2>1, LoHi DEF AddEq
    <3>2. a \in [Cell -> Op] /\ a[x] = m[x]
      BY <3>1, UpdateType, UpdateKeeps DEF Op
    <3>3. CloseEq(a, Lo(u, w), Hi(u, w))[x] = a[x]
      BY <3>1, <3>2, CloseEqKeeps
    <3> QED
      BY <2>1, <3>2, <3>3 DEF AddEq, AddEqMatrix
  <2>2. ASSUME NEW u \in Var, NEW w \in Var, AddNeq(u, w)
        PROVE  m'[x] = m[x]
    <3> DEFINE a == Update(m, Lo(u, w), Hi(u, w), "neq")
    <3>1. Lo(u, w) \in Var /\ Hi(u, w) \in Var /\ Lo(u, w) < Hi(u, w)
      BY <2>2, LoHi DEF AddNeq
    <3>2. a \in [Cell -> Op] /\ a[x] = m[x]
      BY <3>1, UpdateType, UpdateKeeps DEF Op
    <3>3. CloseNeq(a, Lo(u, w), Hi(u, w))[x] = a[x]
      BY <3>1, <3>2, CloseNeqKeeps
    <3> QED
      BY <2>2, <3>2, <3>3 DEF AddNeq, AddNeqMatrix
  <2>3. ASSUME \/ \E u \in Var : AddEqSame(u) \/ AddNeqSame(u)
               \/ AddIgnored
        PROVE  m'[x] = m[x]
    BY <2>3 DEF AddEqSame, AddNeqSame, AddIgnored, vars
  <2> QED
    BY <2>1, <2>2, <2>3 DEF Next
<1> QED
  BY <1>1, TypeCorrect, PTL DEF Spec, NeverForgets

(* A closure without a clash goes through every j, and leaves the two rows *)
(* equal right of c and the cells between l and c copied to column c.      *)
LEMMA CloseEqRows ==
  ASSUME NEW a \in [Cell -> Op], NEW l \in Var, NEW c \in Var, l < c,
         CloseEqKind(a, l, c) = "sat"
  PROVE  LET b == CloseEq(a, l, c)
         IN  /\ \A j \in Var : j > c => b[<<l, j>>] = b[<<c, j>>]
             /\ \A j \in Var : l < j /\ j < c /\ b[<<l, j>>] # "other"
                               => b[<<j, c>>] = b[<<l, j>>]
<1>1. \A j \in Visited(l, c) : ~ EqClash(a, l, c, j)
  BY DEF CloseEqKind
<1>2. EqDone(a, l, c) = Visited(l, c)
  BY <1>1 DEF EqDone
<1>3. l \in Int /\ c \in Int /\ Var \subseteq Int
  BY SizeAssumption DEF Var
<1>4. ASSUME NEW j \in Var, j > c
      PROVE  CloseEq(a, l, c)[<<l, j>>] = CloseEq(a, l, c)[<<c, j>>]
  <2>1. <<l, j>> \in Cell /\ <<c, j>> \in Cell /\ j \in Visited(l, c) /\ l # c /\ j # c
    BY <1>3, <1>4 DEF Cell, Visited
  <2>2. ~ EqClash(a, l, c, j) /\ Other(j, c) = <<c, j>>
    BY <1>1, <1>3, <1>4, <2>1 DEF Other, Lo, Hi
  <2>3. a[<<l, j>>] \in Op /\ a[<<c, j>>] \in Op
    BY <2>1
  <2>4. CloseEq(a, l, c)[<<c, j>>]
          = IF a[<<l, j>>] # "other" THEN a[<<l, j>>] ELSE a[<<c, j>>]
    BY <1>2, <2>1 DEF CloseEq
  <2>5. CloseEq(a, l, c)[<<l, j>>]
          = IF a[<<c, j>>] # "other" THEN a[<<c, j>>] ELSE a[<<l, j>>]
    BY <1>2, <1>4, <2>1 DEF CloseEq
  <2> QED
    BY <2>2, <2>3, <2>4, <2>5 DEF EqClash, Op
<1>5. ASSUME NEW j \in Var, l < j, j < c, CloseEq(a, l, c)[<<l, j>>] # "other"
      PROVE  CloseEq(a, l, c)[<<j, c>>] = CloseEq(a, l, c)[<<l, j>>]
  <2>1. /\ <<l, j>> \in Cell /\ <<j, c>> \in Cell /\ j \in Visited(l, c)
        /\ l # c /\ j # c /\ l # j /\ ~(j > c)
    BY <1>3, <1>5 DEF Cell, Visited
  <2>2. CloseEq(a, l, c)[<<l, j>>] = a[<<l, j>>]
    BY <2>1 DEF CloseEq
  <2>3. a[<<l, j>>] # "other"
    BY <1>5, <2>2
  <2>4. CloseEq(a, l, c)[<<j, c>>] = a[<<l, j>>]
    BY <1>2, <2>1, <2>3 DEF CloseEq
  <2> QED
    BY <2>2, <2>4
<1> QED
  BY <1>4, <1>5

(* After an equality is entered without a conflict the rows of the two     *)
(* variables agree: the loops of noll_pure_close_eq skip no variable.      *)
THEOREM RowsClosed == Spec => EqClosesRows
<1>1. ASSUME TypeOK, NEW x \in Cell, x[1] < x[2], AddEq(x[1], x[2]), kind' = "sat"
      PROVE  /\ \A j \in Var : j > x[2] => m'[<<x[1], j>>] = m'[<<x[2], j>>]
             /\ \A j \in Var : x[1] < j /\ j < x[2] /\ m'[<<x[1], j>>] # "other"
                               => m'[<<j, x[2]>>] = m'[<<x[1], j>>]
  <2> DEFINE l == x[1]
             c == x[2]
             a == Update(m, l, c, "eq")
  <2>1. l \in Var /\ c \in Var /\ l < c /\ Lo(l, c) = l /\ Hi(l, c) = c
    BY <1>1 DEF Cell, Lo, Hi
  <2>2. a \in [Cell -> Op]
    BY <1>1, <2>1, UpdateType DEF TypeOK, Op
  <2>3. m' = CloseEq(a, l, c) /\ kind' = CloseEqKind(a, l, c)
    BY <1>1, <2>1 DEF AddEq, AddEqMatrix, AddEqKind
  <2> HIDE DEF a
  <2> QED
    BY <1>1, <2>1, <2>2, <2>3, CloseEqRows
<1>2. TypeOK /\ [Next]_vars
        => [\A x \in Cell :
              (x[1] < x[2] /\ AddEq(x[1], x[2]) /\ kind' = "sat" /\ m'[x] = "eq") =>
                /\ \A j \in Var : j > x[2] => m'[<<x[1], j>>] = m'[<<x[2], j>>]
                /\ \A j \in Var : x[1] < j /\ j < x[2] /\ m'[<<x[1], j>>] # "other"
                                    => m'[<<j, x[2]>>] = m'[<<x[1], j>>]]_vars
  BY <1>1
<1> QED
  BY <1>2, TypeCorrect, PTL DEF Spec, EqClosesRows

=============================================================================
