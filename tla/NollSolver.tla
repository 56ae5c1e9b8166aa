------------------------------ MODULE NollSolver ----------------------------
(***************************************************************************)
(* The answers a solver gives on the abstraction F (noll2sat_is_eq and     *)
(* noll2sat_is_sat of noll2sat.c), compared with the heaps of the formula. *)
(***************************************************************************)
EXTENDS NollSat

(* noll2sat_is_eq and noll2sat_is_sat ask a solver, which is external:     *)
(* clauses are satisfiable if they are under one of the values of a        *)
(* literal, for which the literal of a unit clause is taken first.         *)
RECURSIVE Satisfiable(_)
Satisfiable(cs) ==
  LET opposite(l) == <<~l[1], l[2]>>
      assume(l)   == {c \ {opposite(l)} : c \in {d \in cs : l \notin d}}
      units       == {c \in cs : Cardinality(c) = 1}
      branch(l)   == \/ Satisfiable(assume(l))
                     \/ units = {} /\ Satisfiable(assume(opposite(l)))
  IN  \/ cs = {}
      \/ /\ {} \notin cs
         /\ \E l \in {CHOOSE k \in CHOOSE c \in IF units = {} THEN cs ELSE units : TRUE : TRUE} :
              branch(l)

IsEq(fs, cs, x, y, op) ==
  ~ Satisfiable(cs \union {{IF op = "eq" THEN Neg(GetBvarEq(fs, x, y)) ELSE Pos(GetBvarEq(fs, x, y))}})

-----------------------------------------------------------------------------
(* A formula that some heap satisfies is not answered "unsat": as it is    *)
(* stated of the abstraction, without the proviso.                         *)
StaysSat == pc = "done" /\ Worlds(form) # {} => Satisfiable(clauses)

(* The clauses say enough: what holds of two variables in all heaps of the *)
(* formula is what the solver answers to noll2sat_is_eq.  For segments in  *)
(* one direction, without sharing constraints.                             *)
Tight ==
  pc = "done" /\ form.share = {} /\ (\A i \in PredAtoms(form) : ~ TwoDir(form, i)) =>
    \E worlds \in {Worlds(form)} :
      IF worlds = {} THEN ~ Satisfiable(clauses)
      ELSE \A x, y \in fsat.used : x < y =>
             /\ (\A w \in worlds : w.s[x] = w.s[y]) => IsEq(fsat, clauses, x, y, "eq")
             /\ (\A w \in worlds : w.s[x] # w.s[y]) => IsEq(fsat, clauses, x, y, "neq")

=============================================================================
