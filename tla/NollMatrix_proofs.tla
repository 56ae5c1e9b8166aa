-------------------------- MODULE NollMatrix_proofs --------------------------
(***************************************************************************)
(* Lemmas about the pure matrix for every number of variables and every    *)
(* set of locations: the closure keeps the matrix well typed, keeps every  *)
(* entry it finds, and says nothing that is false under an interpretation  *)
(* of the atom that was added.                                             *)
(***************************************************************************)
EXTENDS NollMatrix, TLAPS

-----------------------------------------------------------------------------
(* Cells, and the ones the closure of (l,c) looks at.                      *)

LEMMA CellPair ==
  /\ \A x \in Cell : /\ x[1] \in Var /\ x[2] \in Var /\ x[1] <= x[2]
                     /\ x = <<x[1], x[2]>>
  /\ \A i, j \in Var : i <= j => <<i, j>> \in Cell
  /\ Var \subseteq Int
BY SizeAssumption DEF Cell, Var

LEMMA LoHi ==
  ASSUME NEW x \in Var, NEW y \in Var
  PROVE  /\ Lo(x, y) \in Var /\ Hi(x, y) \in Var
         /\ x # y => Lo(x, y) < Hi(x, y)
         /\ Lo(x, y) <= Hi(x, y)
         /\ <<Lo(x, y), Hi(x, y)>> \in Cell
BY SizeAssumption, CellPair DEF Lo, Hi, Var

LEMMA VisitedCells ==
  ASSUME NEW l \in Var, NEW c \in Var, l < c, NEW j \in Visited(l, c)
  PROVE  /\ j \in Var /\ l < j
         /\ j < c \/ j > c
         /\ <<l, j>> \in Cell
         /\ Other(j, c) \in Cell
         /\ j < c => Other(j, c) = <<j, c>>
         /\ j > c => Other(j, c) = <<c, j>>
BY SizeAssumption, CellPair, LoHi DEF Visited, Other, Lo, Hi, Var

-----------------------------------------------------------------------------
(* Types.                                                                  *)

LEMMA UpdateType ==
  ASSUME NEW a \in [Cell -> Op], NEW l \in Var, NEW c \in Var, NEW op \in Op
  PROVE  Update(a, l, c, op) \in [Cell -> Op]
BY DEF Update

LEMMA CloseEqType ==
  ASSUME NEW a \in [Cell -> Op], NEW l \in Var, NEW c \in Var, l < c
  PROVE  CloseEq(a, l, c) \in [Cell -> Op]
<1> SUFFICES ASSUME NEW x \in Cell
             PROVE  CloseEq(a, l, c)[x] \in Op
  BY DEF CloseEq
<1>1. \A j \in EqDone(a, l, c) : j \in Visited(l, c)
  BY DEF EqDone
<1>2. \A j \in Visited(l, c) : a[<<l, j>>] \in Op /\ j \in Var
  BY VisitedCells
<1>3. \A j \in Var : j > c => a[<<c, j>>] \in Op
  BY CellPair
<1> QED
  BY <1>1, <1>2, <1>3, CellPair DEF CloseEq

LEMMA CloseNeqType ==
  ASSUME NEW a \in [Cell -> Op], NEW l \in Var, NEW c \in Var
  PROVE  CloseNeq(a, l, c) \in [Cell -> Op]
BY DEF CloseNeq, Op

-----------------------------------------------------------------------------
(* The closure under an interpretation.                                    *)

LEMMA UpdateAgrees ==
  ASSUME NEW a \in [Cell -> Op], NEW v \in [Var -> Location], Agrees(v, a),
         NEW l \in Var, NEW c \in Var, l < c, NEW op \in {"eq", "neq"},
         Holds(v, [op |-> op, x |-> l, y |-> c])
  PROVE  Agrees(v, Update(a, l, c, op))
<1> SUFFICES ASSUME NEW x \in Cell
             PROVE  /\ Update(a, l, c, op)[x] = "eq"  => v[x[1]] = v[x[2]]
                    /\ Update(a, l, c, op)[x] = "neq" => v[x[1]] # v[x[2]]
  BY DEF Agrees
<1>1. CASE x = <<l, c>>
  BY <1>1, CellPair DEF Agrees, Update, Holds
<1>2. CASE x # <<l, c>>
  BY <1>2 DEF Agrees, Update
<1> QED
  BY <1>1, <1>2

(* An interpretation with v[l] = v[c] agrees with the closed matrix. *)
LEMMA CloseEqAgrees ==
  ASSUME NEW a \in [Cell -> Op], NEW v \in [Var -> Location], Agrees(v, a),
         NEW l \in Var, NEW c \in Var, l < c, v[l] = v[c]
  PROVE  /\ Agrees(v, CloseEq(a, l, c))
         /\ CloseEqKind(a, l, c) = "sat"
<1> DEFINE b == CloseEq(a, l, c)
<1>1. ASSUME NEW j \in Visited(l, c)
      PROVE  /\ a[<<l, j>>] = "eq"  => v[c] = v[j]
             /\ a[<<l, j>>] = "neq" => v[c] # v[j]
             /\ a[Other(j, c)] = "eq"  => v[c] = v[j]
             /\ a[Other(j, c)] = "neq" => v[c] # v[j]
  <2>1. /\ a[<<l, j>>] = "eq"  => v[c] = v[j]
        /\ a[<<l, j>>] = "neq" => v[c] # v[j]
    BY VisitedCells DEF Agrees
  <2>2. CASE j < c
    BY <2>2, VisitedCells, <2>1 DEF Agrees
  <2>3. CASE j > c
    BY <2>3, VisitedCells, <2>1 DEF Agrees
  <2> QED
    BY <2>1, <2>2, <2>3, VisitedCells, CellPair
<1>2. CloseEqKind(a, l, c) = "sat"
  BY <1>1 DEF CloseEqKind, EqClash
<1>3. ASSUME NEW x \in Cell
      PROVE  /\ b[x] = "eq"  => v[x[1]] = v[x[2]]
             /\ b[x] = "neq" => v[x[1]] # v[x[2]]
  <2> DEFINE i == x[1]
             j == x[2]
             Done == EqDone(a, l, c)
  <2>0. Done \subseteq Visited(l, c)
    BY DEF EqDone
  <2>1. CASE j = c /\ i \in Done /\ a[<<l, i>>] # "other"
    <3>1. b[x] = a[<<l, i>>]
      BY <2>1 DEF CloseEq
    <3> QED
      BY <2>0, <2>1, <3>1, <1>1
  <2>2. CASE ~(j = c /\ i \in Done /\ a[<<l, i>>] # "other")
             /\ i = c /\ j \in Done /\ a[<<l, j>>] # "other"
    <3>1. b[x] = a[<<l, j>>]
      BY <2>2 DEF CloseEq
    <3> QED
      BY <2>0, <2>2, <3>1, <1>1
  <2>3. CASE /\ ~(j = c /\ i \in Done /\ a[<<l, i>>] # "other")
             /\ ~(i = c /\ j \in Done /\ a[<<l, j>>] # "other")
             /\ i = l /\ j > c /\ j \in Done /\ a[<<c, j>>] # "other"
    <3>1. b[x] = a[<<c, j>>]
      BY <2>3 DEF CloseEq
    <3>2. Other(j, c) = <<c, j>>
      BY <2>0, <2>3, VisitedCells
    <3> QED
      BY <2>0, <2>3, <3>1, <3>2, <1>1
  <2>4. CASE b[x] = a[x]
    BY <2>4 DEF Agrees
  <2> QED
    BY <2>1, <2>2, <2>3, <2>4 DEF CloseEq
<1> QED
  BY <1>2, <1>3 DEF Agrees

(* An interpretation with v[l] # v[c] agrees with the closed matrix. *)
LEMMA CloseNeqAgrees ==
  ASSUME NEW a \in [Cell -> Op], NEW v \in [Var -> Location], Agrees(v, a),
         NEW l \in Var, NEW c \in Var, l < c, v[l] # v[c]
  PROVE  /\ Agrees(v, CloseNeq(a, l, c))
         /\ CloseNeqKind(a, l, c) = "sat"
<1> DEFINE b == CloseNeq(a, l, c)
<1>1. ASSUME NEW j \in Visited(l, c)
      PROVE  /\ a[<<l, j>>] = "eq" => v[l] = v[j]
             /\ a[Other(j, c)] = "eq" => v[c] = v[j]
  <2>0. /\ j \in Var /\ <<l, j>> \in Cell /\ Other(j, c) \in Cell
        /\ j < c => Other(j, c) = <<j, c>>
        /\ j > c => Other(j, c) = <<c, j>>
    BY VisitedCells
  <2>1. j < c \/ j > c
    BY VisitedCells
  <2>2. a[<<l, j>>] = "eq" => v[l] = v[j]
    BY <2>0 DEF Agrees
  <2>3. a[Other(j, c)] = "eq" => v[Other(j, c)[1]] = v[Other(j, c)[2]]
    BY <2>0 DEF Agrees
  <2> QED
    BY <2>0, <2>1, <2>2, <2>3
<1>2. CloseNeqKind(a, l, c) = "sat"
  <2>1. \A j \in Visited(l, c) : ~ NeqClash(a, l, c, j)
    BY <1>1 DEF NeqClash
  <2> QED
    BY <2>1 DEF CloseNeqKind
<1>3. ASSUME NEW x \in Cell
      PROVE  /\ b[x] = "eq"  => v[x[1]] = v[x[2]]
             /\ b[x] = "neq" => v[x[1]] # v[x[2]]
  <2> DEFINE i == x[1]
             j == x[2]
             Done == NeqDone(a, l, c)
  <2>0. Done \subseteq Visited(l, c)
    BY DEF NeqDone
  <2>1. CASE j = c /\ i \in Done /\ a[<<l, i>>] = "eq"
    BY <2>0, <2>1, <1>1 DEF CloseNeq
  <2>2. CASE i = c /\ j \in Done /\ a[<<l, j>>] = "eq"
    BY <2>0, <2>2, <1>1 DEF CloseNeq
  <2>3. CASE i = l /\ j > c /\ j \in Done /\ a[<<c, j>>] = "eq"
    <3>1. Other(j, c) = <<c, j>>
      BY <2>0, <2>3, VisitedCells
    <3> QED
      BY <2>0, <2>3, <3>1, <1>1 DEF CloseNeq
  <2>4. CASE b[x] = a[x]
    BY <2>4 DEF Agrees
  <2> QED
    BY <2>1, <2>2, <2>3, <2>4 DEF CloseNeq
<1> QED
  BY <1>2, <1>3 DEF Agrees

-----------------------------------------------------------------------------
(* No entry is ever changed back.                                          *)

LEMMA UpdateKeeps ==
  ASSUME NEW a \in [Cell -> Op], NEW l \in Var, NEW c \in Var,
         NEW op \in {"eq", "neq"}, NEW x \in Cell, a[x] # "other"
  PROVE  Update(a, l, c, op)[x] = a[x]
BY DEF Update, UpdateConflict, Opposite, Op

(* A cell is filled only where the loop found no clash, so a cell that was *)
(* not "other" keeps its entry.                                            *)
LEMMA CloseEqKeeps ==
  ASSUME NEW a \in [Cell -> Op], NEW l \in Var, NEW c \in Var, l < c,
         NEW x \in Cell, a[x] # "other"
  PROVE  CloseEq(a, l, c)[x] = a[x]
<1> DEFINE i == x[1]
           j == x[2]
           Done == EqDone(a, l, c)
<1>1. ASSUME NEW k \in Done
      PROVE  /\ k \in Visited(l, c)
             /\ a[<<l, k>>] # "other" /\ a[Other(k, c)] # "other"
                  => a[<<l, k>>] = a[Other(k, c)]
  <2>1. k \in Visited(l, c) /\ (EqClash(a, l, c, k) => k < k)
    BY DEF EqDone
  <2>2. /\ ~(k < k)
        /\ a[<<l, k>>] \in Op /\ a[Other(k, c)] \in Op
    BY <2>1, VisitedCells, CellPair
  <2> QED
    BY <2>1, <2>2 DEF EqClash, Op
<1>2. i \in Var /\ j \in Var /\ i <= j /\ x = <<i, j>>
  BY CellPair
<1>3. CASE j = c /\ i \in Done /\ a[<<l, i>>] # "other"
  <2>1. Other(i, c) = x
    BY <1>1, <1>2, <1>3, VisitedCells, CellPair
  <2> QED
    BY <1>1, <1>3, <2>1 DEF CloseEq
<1>4. CASE i = c /\ j \in Done /\ a[<<l, j>>] # "other"
  <2>1. j # c
    BY <1>1, <1>4 DEF Visited
  <2>2. j > c
    BY <1>2, <1>4, <2>1, CellPair
  <2>3. Other(j, c) = x
    BY <1>1, <1>2, <1>4, <2>2, VisitedCells
  <2> QED
    BY <1>1, <1>4, <2>1, <2>3 DEF CloseEq
<1>5. CASE i = l /\ j > c /\ j \in Done /\ a[<<c, j>>] # "other"
  <2>1. Other(j, c) = <<c, j>>
    BY <1>1, <1>5, VisitedCells
  <2>2. a[<<c, j>>] = a[x]
    BY <1>1, <1>2, <1>5, <2>1
  <2>3. i # c /\ j # c
    BY <1>2, <1>5, CellPair
  <2> QED
    BY <1>5, <2>2, <2>3 DEF CloseEq
<1> QED
  BY <1>3, <1>4, <1>5 DEF CloseEq

LEMMA CloseNeqKeeps ==
  ASSUME NEW a \in [Cell -> Op], NEW l \in Var, NEW c \in Var, l < c,
         NEW x \in Cell, a[x] # "other"
  PROVE  CloseNeq(a, l, c)[x] = a[x]
<1> DEFINE i == x[1]
           j == x[2]
           Done == NeqDone(a, l, c)
<1>1. ASSUME NEW k \in Done
      PROVE  /\ k \in Visited(l, c)
             /\ a[<<l, k>>] = "eq" => a[Other(k, c)] # "eq"
  <2>1. k \in Visited(l, c) /\ (NeqClash(a, l, c, k) => k < k)
    BY DEF NeqDone
  <2>2. k \in 0 .. Size - 1
    BY <2>1 DEF Visited, Var
  <2>3. ~(k < k)
    BY <2>2, SizeAssumption
  <2> QED
    BY <2>1, <2>3 DEF NeqClash
<1>2. i \in Var /\ j \in Var /\ i <= j /\ x = <<i, j>>
  BY CellPair
<1>3. CASE j = c /\ i \in Done /\ a[<<l, i>>] = "eq"
  <2>1. Other(i, c) = x
    BY <1>1, <1>2, <1>3, VisitedCells, CellPair
  <2>2. a[x] = "neq"
    BY <1>1, <1>3, <2>1 DEF Op
  <2> QED
    BY <1>3, <2>2 DEF CloseNeq
<1>4. CASE i = c /\ j \in Done /\ a[<<l, j>>] = "eq"
  <2>1. j # c
    BY <1>1, <1>4 DEF Visited
  <2>2. j > c
    BY <1>2, <1>4, <2>1, CellPair
  <2>3. Other(j, c) = x
    BY <1>1, <1>2, <1>4, <2>2, VisitedCells
  <2>4. a[x] = "neq"
    BY <1>1, <1>4, <2>3 DEF Op
  <2> QED
    BY <1>4, <2>4 DEF CloseNeq
<1>5. CASE i = l /\ j > c /\ j \in Done /\ a[<<c, j>>] = "eq"
  <2>1. Other(j, c) = <<c, j>>
    BY <1>1, <1>5, VisitedCells
  <2>2. a[x] = "neq"
    BY <1>1, <1>2, <1>5, <2>1 DEF Op
  <2> QED
    BY <1>5, <2>2 DEF CloseNeq
<1> QED
  BY <1>3, <1>4, <1>5 DEF CloseNeq

=============================================================================
