------------------------------ MODULE NollPure ------------------------------
(***************************************************************************)
(* The pure part of one formula while atoms are added to it, in any order: *)
(* noll_form_add_eq and noll_form_add_neq of noll_form.c.                  *)
(***************************************************************************)
EXTENDS NollMatrix

VARIABLES
  m,         \* form->pure->m, on the cells (i,j) with i <= j
  kind,      \* form->kind
  asserted   \* history: the atoms given to noll_form_add_eq / _neq

vars == <<m, kind, asserted>>

TypeOK == /\ m \in [Cell -> Op]
          /\ kind \in Kind
          /\ asserted \subseteq Atom

-----------------------------------------------------------------------------
(* The atom an addition asserts; the order of its arguments is no matter. *)
Asserts(op, x, y) == [op |-> op, x |-> Lo(x, y), y |-> Hi(x, y)]

(* noll_form_add_eq: the form's kind becomes the status of the addition. *)
AddEq(x, y) ==
  /\ kind # "unsat"
  /\ x # y
  /\ m' = AddEqMatrix(m, x, y)
  /\ kind' = AddEqKind(m, x, y)
  /\ asserted' = asserted \union {Asserts("eq", x, y)}

(* noll_form_add_neq. *)
AddNeq(x, y) ==
  /\ kind # "unsat"
  /\ x # y
  /\ m' = AddNeqMatrix(m, x, y)
  /\ kind' = AddNeqKind(m, x, y)
  /\ asserted' = asserted \union {Asserts("neq", x, y)}

(* The same variable on both sides: x = x says nothing, x # x cannot be. *)
AddEqSame(x) ==
  /\ kind # "unsat"
  /\ kind' = "sat"
  /\ UNCHANGED <<m, asserted>>

AddNeqSame(x) ==
  /\ kind # "unsat"
  /\ kind' = "unsat"
  /\ asserted' = asserted \union {Asserts("neq", x, x)}
  /\ UNCHANGED m

(* The early return of both functions on an unsatisfiable form. *)
AddIgnored ==
  /\ kind = "unsat"
  /\ UNCHANGED vars

Init == /\ m = PureNew
        /\ kind = "valid"
        /\ asserted = {}

Next == \/ \E x, y \in Var : AddEq(x, y) \/ AddNeq(x, y)
        \/ \E x \in Var : AddEqSame(x) \/ AddNeqSame(x)
        \/ AddIgnored

Spec == Init /\ [][Next]_vars

-----------------------------------------------------------------------------
(* Every entry of the matrix follows from the atoms that were added, also  *)
(* the entries the closure wrote in any order of additions, and a form     *)
(* marked UNSAT has contradictory atoms.  An entry that does not follow    *)
(* makes the prover answer about another formula than the one it was given *)
(* (noll_pure_close_eq, noll_pure_close_neq).                              *)
Sound ==
  \A v \in Interpretation :
    Satisfies(v, asserted) => kind # "unsat" /\ Agrees(v, m)

(* No addition weakens or flips an entry: what was derived stays, also     *)
(* when a later addition conflicts and its closure stops half way.         *)
NeverForgets == [][\A x \in Cell : m[x] # "other" => m'[x] = m[x]]_vars

(* An equality that was entered makes the two variables agree on every     *)
(* variable to the right of both, and passes what the smaller one knows    *)
(* of the variables between them on to the larger one: no j is skipped by  *)
(* the bounds of the two loops and both directions are copied              *)
(* (noll_pure_close_eq).                                                   *)
EqClosesRows ==
  [][\A x \in Cell :
       (x[1] < x[2] /\ AddEq(x[1], x[2]) /\ kind' = "sat" /\ m'[x] = "eq") =>
         /\ \A j \in Var : j > x[2] => m'[<<x[1], j>>] = m'[<<x[2], j>>]
         /\ \A j \in Var : x[1] < j /\ j < x[2] /\ m'[<<x[1], j>>] # "other"
                             => m'[<<j, x[2]>>] = m'[<<x[1], j>>]]_vars

=============================================================================
