---------------------------- MODULE MCNormalize ----------------------------
(***************************************************************************)
(* Normalisation on a few variables.  An interpretation is stated by the   *)
(* least variable equal to each one, so that SpatialModels lists each      *)
(* equivalence of the variables once.                                      *)
(***************************************************************************)
EXTENDS NollNormalize, FiniteSetsExt

MCLocation == Var

Partitions ==
  {v \in [Var -> Var] : \A x \in Var : v[x] <= x /\ v[v[x]] = v[x]}

(* At most two equivalences, or all of them: what is implied of a pair is  *)
(* decided by single models, and two models are enough to make a pair      *)
(* unknown.                                                                *)
FewSpatial == UNION {kSubset(n, Partitions) : n \in 0 .. 2} \union {Partitions}

(* A spatial part over no variable, over some and over all of them. *)
FewVars == {{}, {0, 1, 3}, Var}
=============================================================================
