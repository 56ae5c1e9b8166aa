----------------------------- MODULE NollVerdict -----------------------------
(***************************************************************************)
(* What SPEN promises of a session with its parser: formulas are asserted, *)
(* check-sat tells whether all of them hold together in some model, and    *)
(* neither "sat" nor "unsat" is ever a guess (noll_entl.h states the       *)
(* problem solved, noll_entl_solve_special and noll_entl_solve the codes   *)
(* of the answer).                                                         *)
(***************************************************************************)
CONSTANT Model   \* the models (store and heap) formulas are read in

VARIABLES
  goal,     \* the models of all formulas asserted so far
  answer    \* the last answer, or "none"

vars == <<goal, answer>>

Init == goal = Model /\ answer = "none"

(* assert (phi), or assert (not phi) *)
Assert(M) ==
  /\ goal' \in {goal \intersect M, goal \ M}
  /\ answer' = "none"

CheckSat ==
  /\ answer' \in {"sat", "unsat", "unknown"}
  /\ answer' = "sat" => goal # {}
  /\ answer' = "unsat" => goal = {}
  /\ UNCHANGED goal

Next == (\E M \in SUBSET Model : Assert(M)) \/ CheckSat

Spec == Init /\ [][Next]_vars
=============================================================================
