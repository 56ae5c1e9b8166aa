------------------------------ MODULE NollEntl ------------------------------
(***************************************************************************)
(* The problem read by the parser and the pipeline that decides it:        *)
(* noll_assert and noll_check (noll.c), noll_entl.c, noll_sat.c.           *)
(*                                                                         *)
(* A formula keeps what the code keeps of it: its kind, its pure part and  *)
(* its spatial part.  Parts are stated by the models they hold in.  The    *)
(* normalisation (noll_norm.c) and the homomorphism check (noll_hom.c)     *)
(* may answer anything, crash or never return; NollNormalize, NollSat,     *)
(* NollHom and NollAutomata model them.  A history keeps which of them has *)
(* not done what it promises, for what an answer of the pipeline rests on. *)
(***************************************************************************)
EXTENDS Integers, FiniteSets, Sequences

CONSTANTS
  Model,      \* the models formulas are read in
  Emp,        \* the models of the empty heap
  Terms,      \* the terms that may be asserted: [neg, parts]
  MaxAsserts  \* bound: asserts of one sign

(* A part of a term, under the "and": "true" and "false", a constraint on  *)
(* locations ("pure"), on data ("data"), or a spatial formula ("space").   *)
Part == [op : {"true", "false", "pure", "data", "space"}, means : SUBSET Model]

ASSUME EntlAssumption == /\ Emp \subseteq Model /\ Emp # {}
                         /\ \A t \in Terms : t.neg \in BOOLEAN /\ t.parts \in Seq(Part)
                         /\ MaxAsserts \in Nat

(* The input format of noll_entl.h: a formula and a negated one, each with *)
(* one spatial formula or the constant "false".                            *)
SpacePart(t) == {i \in DOMAIN t.parts : t.parts[i].op = "space"}
FalsePart(t) == {i \in DOMAIN t.parts : t.parts[i].op = "false"}

InputFormat ==
  /\ MaxAsserts <= 1
  /\ \A t \in Terms : /\ \A i, j \in SpacePart(t) : i = j
                      /\ SpacePart(t) \union FalsePart(t) # {}

VARIABLES
  pform,    \* noll_prob->pform
  nform,    \* noll_prob->nform, a sequence of formulas
  parsing,  \* noll_error_parsing > 0
  phase,    \* where noll_check is; "parse" between two commands
  aux,      \* the members of noll_prob that are allocated
  step,     \* the negative formula a loop is at
  graphs,   \* noll_prob->ngraph: TRUE for a graph, FALSE for NULL
  res,      \* the result noll_entl_solve is about to return
  answer,   \* the response to the last command: a status or none
  given,    \* history: the terms asserted
  broken    \* history: the promises that were not kept

vars == <<pform, nform, parsing, phase, aux, step, graphs, res, answer, given, broken>>

Aux == {"pabstr", "nabstr", "pgraph", "ngraph", "hom"}

(* What a part of the program owes: a formula has the pure atoms asserted  *)
(* ("Atoms"), the normalisation loses no model of it ("Models"), finds out *)
(* that there is none ("Unsat"), and a homomorphism, or the lack of one,   *)
(* tells whether the entailment is valid ("Hom", "NoHom").                 *)
Promise == {"posAtoms", "negAtoms", "posModels", "negModels", "posUnsat", "hom", "noHom"}

Form == [kind : {"unsat", "sat", "valid"}, pure : SUBSET Model,
         space : {<<>>} \union {<<M>> : M \in SUBSET Model}]

Phase == {"parse", "sat", "special", "normalize", "normalizeNeg", "special2",
          "graph", "graphNeg", "hom", "end", "exited"}

TypeOK == /\ pform \in Form
          /\ nform \in Seq(Form)
          /\ parsing \in BOOLEAN
          /\ phase \in Phase
          /\ aux \subseteq Aux
          /\ step \in 1 .. Len(nform) + 1
          /\ graphs \in Seq(BOOLEAN) /\ Len(graphs) <= Len(nform)
          /\ res \in {-1, 0, 1}
          /\ answer \in {"none", "sat", "unsat", "unknown"}
          /\ Cardinality(given) <= 2 * MaxAsserts
          /\ broken \subseteq Promise

-----------------------------------------------------------------------------
(* noll_form_new: space = <<>> stands for a NULL space. *)
FormNew == [kind |-> "valid", pure |-> Model, space |-> <<>>]

(* The models of a formula, as it is stored. *)
Denotes(f) ==
  IF f.kind = "unsat" THEN {}
  ELSE f.pure \intersect (IF f.space = <<>> THEN Model ELSE f.space[1])

(* An equality or a disequality, noll_exp_push_pure.  The status of the    *)
(* update is replaced by the one of the closure, so a contradiction is     *)
(* noticed, which counts as a parsing error, or the atom is dropped: the   *)
(* matrix keeps what it had and what the closure makes of it.              *)
PushPure(f, M) ==
  IF M # {} THEN {<<[f EXCEPT !.pure = M, !.kind = "sat"], FALSE, FALSE>>}
  ELSE {<<[f EXCEPT !.pure = M, !.kind = "unsat"], TRUE, FALSE>>}
         \union {<<[f EXCEPT !.pure = N, !.kind = "sat"], FALSE, N # {}>> :
                   N \in SUBSET f.pure}

(* noll_exp_push_top on the parts of an "and": the results a part may      *)
(* have, each with the flag set by noll_error and whether an atom was      *)
(* dropped.  The spatial part is assigned, not conjoined.                  *)
PushPart(f, part) ==
  IF f.kind = "unsat" \/ part.op = "true" THEN {<<f, FALSE, FALSE>>}
  ELSE IF part.op = "false"
       THEN {<<[f EXCEPT !.kind = "unsat", !.space = <<>>], FALSE, FALSE>>}
  ELSE IF part.op = "pure" THEN PushPure(f, f.pure \intersect part.means)
  ELSE IF part.op = "data"
       THEN {<<[f EXCEPT !.pure = @ \intersect part.means], FALSE, FALSE>>}
  ELSE {<<[f EXCEPT !.space = <<part.means>>, !.kind = "sat"], FALSE, FALSE>>}

Push(f, parts) ==
  LET after[k \in 0 .. Len(parts)] ==
        IF k = 0 THEN {<<f, FALSE, FALSE>>}
        ELSE UNION {{<<q[1], r[2] \/ q[2], r[3] \/ q[3]>> : q \in PushPart(r[1], parts[k])} :
                      r \in after[k - 1]}
  IN  after[Len(parts)]

(* The promise, when it is not kept. *)
Unless(kept, promise) == IF kept THEN {} ELSE {promise}

(* noll_entl_get_nform_last: there is at most one negative formula, and    *)
(* every negated term goes into it.                                        *)
NformLast == IF nform = <<>> THEN FormNew ELSE nform[Len(nform)]

Init == /\ pform = FormNew
        /\ nform = <<>>
        /\ parsing = FALSE
        /\ phase = "parse"
        /\ aux = {}
        /\ step = 1
        /\ graphs = <<>>
        /\ res = 0
        /\ answer = "none"
        /\ given = {}
        /\ broken = {}

(* noll_assert, noll_exp_push *)
AssertPos(t) ==
  /\ phase = "parse" /\ ~t.neg
  /\ \E r \in Push(pform, t.parts) :
       /\ pform' = r[1] /\ parsing' = (parsing \/ r[2])
       /\ broken' = broken \union Unless(~r[3], "posAtoms")
  /\ given' = given \union {t}
  /\ answer' = "none"
  /\ UNCHANGED <<nform, phase, aux, step, graphs, res>>

AssertNeg(t) ==
  /\ phase = "parse" /\ t.neg
  /\ \E r \in Push(NformLast, t.parts) :
       /\ nform' = <<r[1]>> /\ parsing' = (parsing \/ r[2])
       /\ broken' = broken \union Unless(~r[3], "negAtoms")
  /\ given' = given \union {t}
  /\ answer' = "none"
  /\ UNCHANGED <<pform, phase, aux, step, graphs, res>>

-----------------------------------------------------------------------------
(* noll_check: a parsing error ends the program without an answer. *)
CheckStops ==
  /\ phase = "parse" /\ parsing
  /\ phase' = "exited"
  /\ UNCHANGED <<pform, nform, parsing, aux, step, graphs, res, answer, given, broken>>

(* noll_entl_is_sat chooses between the two problems.  What this check     *)
(* finds out is searched anew.                                             *)
CheckStarts ==
  /\ phase = "parse" /\ ~parsing
  /\ phase' = IF nform = <<>> THEN "sat" ELSE "special"
  /\ answer' = "none"
  /\ broken' = broken \ {"posUnsat", "hom", "noHom"}
  /\ UNCHANGED <<pform, nform, parsing, aux, step, graphs, res, given>>

Status(r) == IF r = 1 THEN "sat" ELSE IF r = 0 THEN "unsat" ELSE "unknown"

(* The status is printed, and the parser goes on with the next command. *)
Respond(r) == answer' = Status(r) /\ phase' = "parse"

(* What noll_normalize may make of a formula: it is UNSAT, or has entries  *)
(* more, each of which leaves fewer models to the pure part.               *)
Normalized(f) ==
  IF f.kind = "unsat" THEN {f}
  ELSE {[f EXCEPT !.kind = "unsat"]}
         \union {[f EXCEPT !.pure = N] : N \in SUBSET f.pure}
         \union {[f EXCEPT !.pure = N, !.kind = "sat"] : N \in SUBSET f.pure}

KeepsModels(f, g) == Denotes(f) \subseteq Denotes(g)
FindsUnsat(f) == Denotes(f) = {} => f.kind = "unsat"

(* noll_sat_solve: the abstraction is freed before the answer. *)
SatSolve ==
  /\ phase = "sat"
  /\ pform' \in Normalized(pform)
  /\ broken' = broken \union Unless(KeepsModels(pform, pform'), "posModels")
                      \union Unless(FindsUnsat(pform'), "posUnsat")
  /\ Respond(IF pform'.kind = "unsat" THEN 0 ELSE 1)
  /\ UNCHANGED <<nform, parsing, aux, step, graphs, res, given>>

SomeValid == \E i \in DOMAIN nform : nform[i].kind = "valid"
AllUnsat == \A i \in DOMAIN nform : nform[i].kind = "unsat"

(* MUTANT of SolveSpecial: the unsatisfiable negative formulas are not     *)
(* looked for.                                                             *)
SolveSpecialNoUnsat(isSyn) ==
  IF pform.kind = "unsat" THEN 0 ELSE IF SomeValid THEN 1 ELSE -1

(* noll_entl_solve_special: -1 when the case is not special. *)
SolveSpecial(isSyn) ==
  IF pform.kind = "unsat" THEN 0
  ELSE IF SomeValid THEN 1
  ELSE IF ~isSyn /\ AllUnsat THEN 1
  ELSE -1

(* Before normalisation a special case returns at once. *)
Special ==
  /\ phase = "special"
  /\ IF SolveSpecial(TRUE) # -1
     THEN Respond(SolveSpecial(TRUE))
     ELSE phase' = "normalize" /\ UNCHANGED answer
  /\ UNCHANGED <<pform, nform, parsing, aux, step, graphs, res, given, broken>>

(* noll_entl_normalize: noll_normalize gives no abstraction of a formula   *)
(* that is UNSAT already.                                                  *)
NormalizePos ==
  /\ phase = "normalize"
  /\ pform' \in Normalized(pform)
  /\ broken' = broken \union Unless(KeepsModels(pform, pform'), "posModels")
                      \union Unless(FindsUnsat(pform'), "posUnsat")
  /\ aux' = aux \union (IF pform.kind = "unsat" THEN {} ELSE {"pabstr"})
                \union {"nabstr"}
  /\ step' = 1
  /\ phase' = "normalizeNeg"
  /\ UNCHANGED <<nform, parsing, graphs, res, answer, given>>

(* That a negative formula without models is not found out is left to the  *)
(* search, which answers the same.                                         *)
NormalizeNeg ==
  /\ phase = "normalizeNeg"
  /\ IF step <= Len(nform)
     THEN /\ \E f \in Normalized(nform[step]) :
               /\ nform' = [nform EXCEPT ![step] = f]
               /\ broken' = broken \union Unless(KeepsModels(nform[step], f), "negModels")
          /\ step' = step + 1
          /\ UNCHANGED phase
     ELSE /\ phase' = "special2"
          /\ step' = 1
          /\ UNCHANGED <<nform, broken>>
  /\ UNCHANGED <<pform, parsing, aux, graphs, res, answer, given>>

(* MUTANT of Special2: it returns as before the normalisation. *)
Special2Returns ==
  /\ phase = "special2"
  /\ IF SolveSpecial(FALSE) # -1
     THEN Respond(SolveSpecial(FALSE))
     ELSE phase' = "graph" /\ UNCHANGED answer
  /\ UNCHANGED <<pform, nform, parsing, aux, step, graphs, res, given, broken>>

(* After it the result is kept until the end of noll_entl_solve. *)
Special2 ==
  /\ phase = "special2"
  /\ res' = SolveSpecial(FALSE)
  /\ phase' = IF res' # -1 THEN "end" ELSE "graph"
  /\ UNCHANGED <<pform, nform, parsing, aux, step, graphs, answer, given, broken>>

(* noll_entl_to_graph: noll_graph_of_form gives NULL for an UNSAT formula. *)
GraphPos ==
  /\ phase = "graph"
  /\ aux' = aux \union (IF pform.kind = "unsat" THEN {} ELSE {"pgraph"})
                \union {"ngraph"}
  /\ graphs' = <<>>
  /\ phase' = "graphNeg"
  /\ UNCHANGED <<pform, nform, parsing, step, res, answer, given, broken>>

GraphNeg ==
  /\ phase = "graphNeg"
  /\ IF Len(graphs) < Len(nform)
     THEN /\ graphs' = Append(graphs, nform[Len(graphs) + 1].kind # "unsat")
          /\ UNCHANGED phase
     ELSE phase' = "hom" /\ UNCHANGED graphs
  /\ UNCHANGED <<pform, nform, parsing, aux, step, res, answer, given, broken>>

(* The graph of a formula without spatial part is the one of emp. *)
GraphDenotes(f) ==
  f.pure \intersect (IF f.space = <<>> THEN Emp ELSE f.space[1])

(* noll_hom_build_1: 1 if a homomorphism is found, 0 if there is none, -1  *)
(* if the search was incomplete.  Either may be wrong (HomRest and         *)
(* AutomataEmpty find a homomorphism without an entailment).               *)
HomResult == {-1, 0, 1}

Entails(i) == GraphDenotes(pform) \subseteq GraphDenotes(nform[i])

(* MUTANTS of ResultOfHom: the result is passed on; the incomplete search  *)
(* has no case of its own.                                                 *)
ResultOfHomSame(r) == r
ResultOfHomNoDefault(r) == 1 - r

(* noll_hom_build stops at the first homomorphism.  A homomorphism means   *)
(* that the entailment is valid, and the problem unsatisfiable.            *)
ResultOfHom(r) == IF r = -1 THEN -1 ELSE 1 - r

Hom ==
  /\ phase = "hom"
  /\ step <= Len(nform)
  /\ \E r \in HomResult :
       /\ broken' = broken \union Unless(r = 1 => Entails(step), "hom")
                           \union Unless(r = 0 => ~Entails(step), "noHom")
       /\ IF r = 1 \/ step = Len(nform)
          THEN /\ res' = ResultOfHom(r)
               /\ aux' = aux \union {"hom"}
               /\ phase' = "end"
               /\ step' = 1
          ELSE step' = step + 1 /\ UNCHANGED <<res, aux, phase>>
  /\ UNCHANGED <<pform, nform, parsing, graphs, answer, given>>

(* The typing, the normalisation and the search may crash or never return; *)
(* then there is no answer and no further command.                         *)
Fails ==
  /\ phase \in {"sat", "normalize", "normalizeNeg", "hom"}
  /\ phase' = "exited"
  /\ UNCHANGED <<pform, nform, parsing, aux, step, graphs, res, answer, given, broken>>

(* noll_entl_free_aux, and the answer is printed.  The homomorphism is not *)
(* released.                                                               *)
End ==
  /\ phase = "end"
  /\ aux' = aux \intersect {"hom"}
  /\ graphs' = <<>>
  /\ Respond(res)
  /\ UNCHANGED <<pform, nform, parsing, step, res, given, broken>>

-----------------------------------------------------------------------------
(* The sessions: the positive formula comes first, as noll_entl.h has it,  *)
(* and each term is asserted once.                                         *)
MayAssert(t) ==
  /\ t \notin given
  /\ t.neg => \E u \in given : ~u.neg
  /\ Cardinality({u \in given : u.neg = t.neg}) < MaxAsserts

Exited == phase = "exited" /\ UNCHANGED vars

Solving == \/ SatSolve \/ Special \/ NormalizePos \/ NormalizeNeg \/ Special2
           \/ GraphPos \/ GraphNeg \/ Hom \/ End

Next == \/ \E t \in Terms : MayAssert(t) /\ (AssertPos(t) \/ AssertNeg(t))
        \/ CheckStops \/ CheckStarts
        \/ Solving
        \/ Fails
        \/ Exited

Spec == Init /\ [][Next]_vars

-----------------------------------------------------------------------------
(* The models of what was asserted. *)
PartMeans(part) ==
  IF part.op = "true" THEN Model ELSE IF part.op = "false" THEN {} ELSE part.means

Meaning(t) ==
  LET M == {x \in Model : \A i \in DOMAIN t.parts : x \in PartMeans(t.parts[i])}
  IN  IF t.neg THEN Model \ M ELSE M

Goal == {x \in Model : \A t \in given : x \in Meaning(t)}

(* What an answer rests on.  "sat": what the formulas are read as has a    *)
(* model, and it is one of what was asserted.  "unsat": no model of what   *)
(* was asserted has been lost on the way.                                  *)
RestsOn(a) ==
  IF a = "sat" THEN {"posAtoms", "negModels", "posUnsat", "noHom"}
  ELSE IF a = "unsat" THEN {"negAtoms", "posModels", "hom"}
  ELSE {}

(* The answer, as long as what it rests on was kept. *)
Trusted == IF RestsOn(answer) \intersect broken = {} THEN answer ELSE "unknown"

(* No answer is wrong by the pipeline's own doing: "sat" is answered only  *)
(* when the formulas asserted so far have a model and "unsat" only when    *)
(* they have none, through any interleaving of asserts and check-sat, but  *)
(* for a promise that this very answer rests on and that was not kept      *)
(* (noll_entl_solve, noll_sat_solve).                                      *)
V == INSTANCE NollVerdict WITH goal <- Goal, answer <- Trusted

Refines == V!Init /\ [][V!Next]_V!vars

(* When the homomorphism is searched every formula has its graph;          *)
(* noll_hom_build_1 uses them without a test.                              *)
GraphsExist ==
  phase = "hom" => /\ "pgraph" \in aux
                   /\ Len(graphs) = Len(nform)
                   /\ \A i \in DOMAIN graphs : graphs[i]

(* Whatever way noll_check returns, the abstractions and the graphs are    *)
(* released: the next check-sat overwrites the pointers.  The homomorphism *)
(* (noll_hom.c:339) is left, and lost at the next search.                  *)
AuxReleased == phase = "parse" => aux \subseteq {"hom"}

=============================================================================
