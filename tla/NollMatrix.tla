------------------------------ MODULE NollMatrix ----------------------------
(***************************************************************************)
(* The pure part of a formula (noll_form.c): equalities and disequalities  *)
(* between location variables, kept as an upper triangular matrix, with    *)
(* the closure done each time an atom is added.  Variable 0 is nil.        *)
(*                                                                         *)
(* The two closure loops visit every j > l other than c in ascending order *)
(* and stop at the first conflict.  What they do at one j reads and writes *)
(* only the cells (l,j) and {j,c}, which no other j touches, so the result *)
(* is stated cell by cell: the cells of the j's before the first conflict  *)
(* are merged, all others are left as they are.                            *)
(***************************************************************************)
EXTENDS Integers

CONSTANTS
  Size,      \* pure->size, the number of location variables (with nil)
  Location   \* the values a location variable may take

ASSUME SizeAssumption == Size \in Nat \ {0}

Var  == 0 .. Size - 1
Cell == {x \in Var \X Var : x[1] <= x[2]}
Op   == {"eq", "neq", "other"}
Atom == [op : {"eq", "neq"}, x : Var, y : Var]
Kind == {"unsat", "sat", "valid"}

Lo(x, y) == IF x < y THEN x ELSE y
Hi(x, y) == IF x < y THEN y ELSE x

-----------------------------------------------------------------------------
(* MUTANT of PureNew: the cells off the diagonal are not initialised. *)
PureNewUnset == [x \in Cell |-> IF x[1] = x[2] THEN "eq" ELSE "unset"]

(* noll_pure_new: every variable equals itself, the rest is unknown. *)
PureNew == [x \in Cell |-> IF x[1] = x[2] THEN "eq" ELSE "other"]

Opposite(op) == IF op = "eq" THEN "neq" ELSE "eq"

(* noll_pure_update_eq and _neq: the opposite entry is a conflict, and     *)
(* then the matrix is left alone.                                          *)
UpdateConflict(a, l, c, op) == a[<<l, c>>] = Opposite(op)

(* MUTANT of Update: no test for a conflict. *)
UpdateBlind(a, l, c, op) == [a EXCEPT ![<<l, c>>] = op]

Update(a, l, c, op) ==
  IF UpdateConflict(a, l, c, op) THEN a ELSE [a EXCEPT ![<<l, c>>] = op]

(* MUTANT of Visited: the loop right of c is missing. *)
VisitedLeft(l, c) == {j \in Var : l < j /\ j < c}

(* The j's the loops of noll_pure_close_* go through for the cell (l,c). *)
Visited(l, c) == {j \in Var : l < j /\ j # c}

(* The cell of j and c that the loops compare with the cell (l,j). *)
Other(j, c) == <<Lo(j, c), Hi(j, c)>>

(* noll_pure_close_eq: l = c, so (l,j) and {j,c} may not disagree. *)
EqClash(a, l, c, j) ==
  {a[<<l, j>>], a[Other(j, c)]} = {"eq", "neq"}

EqDone(a, l, c) ==
  {j \in Visited(l, c) :
     \A k \in Visited(l, c) : EqClash(a, l, c, k) => j < k}

(* Left of c the cell (i,c) is filled from (l,i); right of c each of the   *)
(* cells (c,j) and (l,j) is filled from the other.                         *)
CloseEq(a, l, c) ==
  [x \in Cell |->
     LET i == x[1]
         j == x[2]
         Done == EqDone(a, l, c)
     IN  IF j = c /\ i \in Done /\ a[<<l, i>>] # "other" THEN a[<<l, i>>]
         ELSE IF i = c /\ j \in Done /\ a[<<l, j>>] # "other" THEN a[<<l, j>>]
         ELSE IF i = l /\ j > c /\ j \in Done /\ a[<<c, j>>] # "other" THEN a[<<c, j>>]
         ELSE a[x]]

CloseEqKind(a, l, c) ==
  IF \E j \in Visited(l, c) : EqClash(a, l, c, j) THEN "unsat" ELSE "sat"

(* MUTANT of NeqClash: two disequalities count as a conflict. *)
NeqClashBoth(a, l, c, j) == a[<<l, j>>] = "neq" /\ a[Other(j, c)] = "neq"

(* noll_pure_close_neq: l # c, so (l,j) and {j,c} may not both be "eq". *)
NeqClash(a, l, c, j) == a[<<l, j>>] = "eq" /\ a[Other(j, c)] = "eq"

NeqDone(a, l, c) ==
  {j \in Visited(l, c) :
     \A k \in Visited(l, c) : NeqClash(a, l, c, k) => j < k}

CloseNeq(a, l, c) ==
  [x \in Cell |->
     LET i == x[1]
         j == x[2]
         Done == NeqDone(a, l, c)
     IN  IF \/ j = c /\ i \in Done /\ a[<<l, i>>] = "eq"
            \/ i = c /\ j \in Done /\ a[<<l, j>>] = "eq"
            \/ i = l /\ j > c /\ j \in Done /\ a[<<c, j>>] = "eq"
         THEN "neq"
         ELSE a[x]]

CloseNeqKind(a, l, c) ==
  IF \E j \in Visited(l, c) : NeqClash(a, l, c, j) THEN "unsat" ELSE "sat"

-----------------------------------------------------------------------------
(* noll_pure_add_eq and _neq on distinct variables.  The closure runs on   *)
(* the matrix the update left, and its status replaces the update's.       *)
AddEqMatrix(a, x, y) ==
  LET l == Lo(x, y)
      c == Hi(x, y)
  IN  CloseEq(Update(a, l, c, "eq"), l, c)

AddEqKind(a, x, y) ==
  LET l == Lo(x, y)
      c == Hi(x, y)
  IN  CloseEqKind(Update(a, l, c, "eq"), l, c)

AddNeqMatrix(a, x, y) ==
  LET l == Lo(x, y)
      c == Hi(x, y)
  IN  CloseNeq(Update(a, l, c, "neq"), l, c)

AddNeqKind(a, x, y) ==
  LET l == Lo(x, y)
      c == Hi(x, y)
  IN  CloseNeqKind(Update(a, l, c, "neq"), l, c)

-----------------------------------------------------------------------------
(* An interpretation gives each variable a location.                       *)
Interpretation == [Var -> Location]

Holds(v, atom) ==
  IF atom.op = "eq" THEN v[atom.x] = v[atom.y] ELSE v[atom.x] # v[atom.y]

Satisfies(v, atoms) == \A atom \in atoms : Holds(v, atom)

(* The matrix a says nothing that is false under the interpretation v.     *)
Agrees(v, a) ==
  \A x \in Cell : /\ a[x] = "eq"  => v[x[1]] = v[x[2]]
                  /\ a[x] = "neq" => v[x[1]] # v[x[2]]

=============================================================================
