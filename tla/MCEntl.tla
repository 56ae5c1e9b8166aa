------------------------------- MODULE MCEntl -------------------------------
(***************************************************************************)
(* Sessions over two models.  MCTerms are the terms of the input format of *)
(* noll_entl.h: constraints and one spatial formula, or "false".           *)
(***************************************************************************)
EXTENDS NollEntl

Pure(M)  == [op |-> "pure", means |-> M]
Data(M)  == [op |-> "data", means |-> M]
Space(M) == [op |-> "space", means |-> M]
Never    == [op |-> "false", means |-> {}]

(* A formula with and without a constraint, in both orders; with data; and *)
(* with two atoms that contradict each other.                              *)
Conjunctions ==
  {<<Never>>}
    \union UNION {{<<Space(M)>>, <<Space(M), Never>>, <<Data(Emp), Space(M)>>,
                   <<Pure(Emp), Pure(Model \ Emp), Space(M)>>} : M \in SUBSET Model}
    \union {<<Space(M), Pure(N)>> : M \in SUBSET Model, N \in {Model \ Emp, Model}}

MCTerms == [neg : BOOLEAN, parts : Conjunctions]

ASSUME InFormat == InputFormat

=============================================================================
