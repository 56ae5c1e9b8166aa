--------------------------- MODULE NollEntl_proofs --------------------------
(***************************************************************************)
(* Theorems about the pipeline of noll_check, for every set of models, of  *)
(* terms, and every number of asserts.  That every formula has its graph   *)
(* when the homomorphism is searched rests on there being one negative     *)
(* formula at most: the special case after the normalisation only rules    *)
(* out that all of them are unsatisfiable.                                 *)
(*                                                                         *)
(* For the input format of noll_entl.h the pipeline implements NollVerdict *)
(* up to the promises that were not kept (VerdictRefined): SInv says that  *)
(* the formulas have at least the models of the terms asserted unless the  *)
(* normalisation lost some, at most these unless an atom was dropped, and  *)
(* a spatial part unless they are unsatisfiable, so the graph of a formula *)
(* has the models of the formula.                                          *)
(***************************************************************************)
EXTENDS NollEntl, NollInduction, FiniteSetTheorems, TLAPS

(* Every negated term goes into the same formula. *)
OneNegative == nform = <<>> \/ \E f : nform = <<f>>

(* What noll_prob has allocated between the commands: the homomorphism of  *)
(* an earlier one.                                                         *)
NothingAllocated ==
  phase \in {"parse", "sat", "special", "normalize"} => aux \subseteq {"hom"}

(* The formulas that are translated into graphs are satisfiable. *)
Satisfiable ==
  phase \in {"graph", "graphNeg", "hom"} =>
    pform.kind # "unsat" /\ \A i \in DOMAIN nform : nform[i].kind # "unsat"

(* The graphs made so far, the one of the positive formula first. *)
GraphsMade ==
  /\ phase \in {"graphNeg", "hom"} =>
       /\ "pgraph" \in aux
       /\ graphs = <<>> \/ (graphs = <<TRUE>> /\ nform # <<>>)
  /\ phase = "hom" => Len(graphs) = Len(nform)

EInv == /\ OneNegative /\ NothingAllocated /\ Satisfiable /\ GraphsMade
        /\ step \in Nat \ {0}

LEMMA EntlInit == Init => EInv
BY DEF Init, EInv, OneNegative, NothingAllocated, Satisfiable, GraphsMade

(* A sequence with one element. *)
LEMMA Single ==
  ASSUME NEW b
  PROVE  /\ Len(<<b>>) = 1 /\ DOMAIN <<b>> = {1} /\ <<b>>[1] = b
         /\ Append(<<>>, b) = <<b>>
OBVIOUS

(* The parser and the commands without a graph. *)
LEMMA EntlParse ==
  ASSUME EInv,
         \/ \E t \in Terms : AssertPos(t) \/ AssertNeg(t)
         \/ CheckStops \/ CheckStarts \/ SatSolve \/ Special \/ Fails \/ UNCHANGED vars
  PROVE  EInv'
<1> USE DEF EInv
<1>1. ASSUME NEW t \in Terms, AssertPos(t) \/ AssertNeg(t)
      PROVE  EInv'
  <2>1. OneNegative'
    BY <1>1 DEF AssertPos, AssertNeg, OneNegative
  <2>2. phase = "parse" /\ phase' = "parse" /\ aux' = aux /\ step' = step
    BY <1>1 DEF AssertPos, AssertNeg
  <2> QED
    BY <2>1, <2>2 DEF NothingAllocated, Satisfiable, GraphsMade
<1>2. CASE CheckStops \/ CheckStarts
  <2>1. phase = "parse" /\ phase' \in {"exited", "sat", "special"}
        /\ nform' = nform /\ aux' = aux /\ step' = step
    BY <1>2 DEF CheckStops, CheckStarts
  <2> QED
    BY <2>1 DEF OneNegative, NothingAllocated, Satisfiable, GraphsMade
<1>3. CASE SatSolve \/ Special
  <2>1. phase \in {"sat", "special"} /\ phase' \in {"parse", "normalize"}
        /\ nform' = nform /\ aux' = aux /\ step' = step
    BY <1>3 DEF SatSolve, Special, Respond
  <2> QED
    BY <2>1 DEF OneNegative, NothingAllocated, Satisfiable, GraphsMade
<1>4. CASE Fails \/ UNCHANGED vars
  <2>1. CASE Fails
    <3>1. phase' = "exited" /\ nform' = nform /\ step' = step
      BY <2>1 DEF Fails
    <3> QED
      BY <3>1 DEF OneNegative, NothingAllocated, Satisfiable, GraphsMade
  <2>2. CASE UNCHANGED vars
    BY <2>2 DEF vars, OneNegative, NothingAllocated, Satisfiable, GraphsMade
  <2> QED
    BY <1>4, <2>1, <2>2
<1> QED
  BY <1>1, <1>2, <1>3, <1>4

(* The normalisation keeps the number of formulas. *)
LEMMA EntlNormalize ==
  ASSUME EInv, NormalizePos \/ NormalizeNeg
  PROVE  EInv'
<1> USE DEF EInv
<1>1. CASE NormalizePos
  <2>1. phase' = "normalizeNeg" /\ nform' = nform /\ step' = 1
    BY <1>1 DEF NormalizePos
  <2> QED
    BY <2>1 DEF OneNegative, NothingAllocated, Satisfiable, GraphsMade
<1>2. CASE NormalizeNeg
  <2>1. phase' \in {"normalizeNeg", "special2"} /\ step' \in Nat \ {0}
    BY <1>2 DEF NormalizeNeg
  <2>2. OneNegative'
    <3>1. CASE step <= Len(nform)
      <4>1. PICK f : nform = <<f>>
        <5>1. nform # <<>>
          BY <3>1
        <5> QED
          BY <5>1 DEF OneNegative
      <4>2. step = 1
        BY <3>1, <4>1
      <4>3. PICK g \in Normalized(nform[step]) : nform' = [nform EXCEPT ![step] = g]
        BY <1>2, <3>1 DEF NormalizeNeg
      <4>4. nform' = <<g>>
        BY <4>1, <4>2, <4>3
      <4> QED
        BY <4>4 DEF OneNegative
    <3>2. CASE ~(step <= Len(nform))
      BY <1>2, <3>2 DEF NormalizeNeg, OneNegative
    <3> QED
      BY <3>1, <3>2
  <2> QED
    BY <2>1, <2>2 DEF NothingAllocated, Satisfiable, GraphsMade
<1> QED
  BY <1>1, <1>2

(* The graphs, and the search. *)
LEMMA EntlGraphs ==
  ASSUME EInv, Special2 \/ GraphPos \/ GraphNeg \/ Hom \/ End
  PROVE  EInv'
<1> USE DEF EInv
<1>0. nform' = nform /\ pform' = pform /\ OneNegative'
  BY DEF Special2, GraphPos, GraphNeg, Hom, End, OneNegative
<1>1. CASE Special2
  <2>1. phase' \in {"end", "graph"} /\ step' = step
    BY <1>1 DEF Special2
  <2>2. ASSUME phase' = "graph"
        PROVE  pform.kind # "unsat" /\ \A i \in DOMAIN nform : nform[i].kind # "unsat"
    <3>1. pform.kind # "unsat" /\ ~AllUnsat
      BY <1>1, <2>2 DEF Special2, SolveSpecial
    <3>2. PICK f : nform = <<f>>
      BY <3>1 DEF OneNegative, AllUnsat
    <3>3. DOMAIN nform = {1} /\ nform[1] = f
      BY <3>2
    <3> QED
      BY <3>1, <3>3 DEF AllUnsat
  <2> QED
    BY <1>0, <2>1, <2>2 DEF NothingAllocated, Satisfiable, GraphsMade
<1>2. CASE GraphPos
  <2>1. phase = "graph" /\ phase' = "graphNeg" /\ graphs' = <<>> /\ step' = step
    BY <1>2 DEF GraphPos
  <2>2. "pgraph" \in aux'
    BY <1>2, <2>1 DEF GraphPos, Satisfiable
  <2> QED
    BY <1>0, <2>1, <2>2 DEF NothingAllocated, Satisfiable, GraphsMade
<1>3. CASE GraphNeg
  <2>1. phase = "graphNeg" /\ phase' \in {"graphNeg", "hom"} /\ step' = step /\ aux' = aux
    BY <1>3 DEF GraphNeg
  <2>2. CASE Len(graphs) < Len(nform)
    <3>1. PICK f : nform = <<f>>
      <4>1. nform # <<>>
        BY <2>1, <2>2 DEF GraphsMade
      <4> QED
        BY <4>1 DEF OneNegative
    <3>2. graphs = <<>>
      <4>1. graphs # <<TRUE>>
        <5>1. Len(graphs) < 1
          BY <2>2, <3>1
        <5>2. Len(<<TRUE>>) = 1
          BY Single
        <5>3. ~(1 < 1)
          OBVIOUS
        <5> QED
          BY <5>1, <5>2, <5>3, Zenon
      <4> QED
        BY <2>1, <4>1 DEF GraphsMade
    <3>3. f.kind # "unsat"
      <4>1. 1 \in DOMAIN nform /\ nform[1] = f
        BY <3>1
      <4> QED
        BY <2>1, <4>1 DEF Satisfiable
    <3>4. graphs' = <<TRUE>> /\ phase' = phase
      <4>1. graphs' = Append(graphs, nform[Len(graphs) + 1].kind # "unsat") /\ phase' = phase
        BY <1>3, <2>2 DEF GraphNeg
      <4>2. Len(graphs) + 1 = 1 /\ nform[1] = f
        BY <3>1, <3>2
      <4>3. (nform[Len(graphs) + 1].kind # "unsat") = TRUE
        BY <3>3, <4>2
      <4> QED
        BY <3>2, <4>1, <4>3, Single, Zenon
    <3>5. nform # <<>>
      BY <3>1
    <3> QED
      BY <1>0, <2>1, <3>4, <3>5 DEF NothingAllocated, Satisfiable, GraphsMade
  <2>3. CASE ~(Len(graphs) < Len(nform))
    <3>1. phase' = "hom" /\ graphs' = graphs
      BY <1>3, <2>3 DEF GraphNeg
    <3>2. Len(graphs) = Len(nform)
      <4>1. CASE nform = <<>>
        <5>1. graphs = <<>>
          BY <2>1, <4>1 DEF GraphsMade
        <5> QED
          BY <4>1, <5>1
      <4>2. ASSUME NEW f, nform = <<f>>
            PROVE  Len(graphs) = Len(nform)
        <5>1. graphs # <<>>
          BY <2>3, <4>2
        <5>2. graphs = <<TRUE>>
          BY <2>1, <5>1 DEF GraphsMade
        <5> QED
          BY <4>2, <5>2
      <4> QED
        BY <4>1, <4>2 DEF OneNegative
    <3> QED
      BY <1>0, <2>1, <3>1, <3>2 DEF NothingAllocated, Satisfiable, GraphsMade
  <2> QED
    BY <2>2, <2>3
<1>4. CASE Hom
  <2>1. phase = "hom" /\ phase' \in {"hom", "end"} /\ graphs' = graphs
        /\ (phase' = "hom" => aux' = aux)
    BY <1>4 DEF Hom
  <2>2. step' \in Nat \ {0}
    BY <1>4 DEF Hom
  <2> QED
    BY <1>0, <2>1, <2>2 DEF NothingAllocated, Satisfiable, GraphsMade
<1>5. CASE End
  <2>1. phase' = "parse" /\ aux' \subseteq {"hom"} /\ step' = step
    BY <1>5 DEF End, Respond
  <2> QED
    BY <1>0, <2>1 DEF NothingAllocated, Satisfiable, GraphsMade
<1> QED
  BY <1>1, <1>2, <1>3, <1>4, <1>5

THEOREM EntlInvariance == Spec => []EInv
<1>1. EInv /\ [Next]_vars => EInv'
  BY EntlParse, EntlNormalize, EntlGraphs DEF Next, Solving, Exited
<1> QED
  BY <1>1, EntlInit, PTL DEF Spec

-----------------------------------------------------------------------------
(* noll_hom_build_1 finds a graph for the positive and for each negative   *)
(* formula, and dereferences no NULL: noll_entl_to_graph is only reached   *)
(* with satisfiable formulas.                                              *)
THEOREM GraphsAreThere == Spec => []GraphsExist
<1>1. EInv => GraphsExist
  <2> SUFFICES ASSUME EInv, phase = "hom"
               PROVE  /\ "pgraph" \in aux
                      /\ Len(graphs) = Len(nform)
                      /\ \A i \in DOMAIN graphs : graphs[i]
    BY DEF GraphsExist
  <2>1. /\ "pgraph" \in aux /\ Len(graphs) = Len(nform)
        /\ graphs = <<>> \/ graphs = <<TRUE>>
    BY DEF EInv, GraphsMade
  <2>2. CASE graphs = <<>>
    BY <2>1, <2>2
  <2>3. CASE graphs = <<TRUE>>
    <3>1. \A i \in DOMAIN graphs : graphs[i]
      BY <2>3, Single, Zenon
    <3> QED
      BY <2>1, <3>1
  <2> QED
    BY <2>1, <2>2, <2>3
<1> QED
  BY <1>1, EntlInvariance, PTL

(* On no way through noll_check an abstraction or a graph is left, which   *)
(* the next one would overwrite.  Of the homomorphism this is not claimed. *)
THEOREM AuxIsReleased == Spec => []AuxReleased
<1>1. EInv => AuxReleased
  BY DEF EInv, NothingAllocated, AuxReleased
<1> QED
  BY <1>1, EntlInvariance, PTL

-----------------------------------------------------------------------------
(* The parts of an "and": what noll_exp_push_top makes of a formula.         *)
PartsResult == Form \X BOOLEAN \X BOOLEAN

LEMMA PairResult ==
  ASSUME NEW f \in Form, NEW b \in BOOLEAN, NEW d \in BOOLEAN
  PROVE  <<f, b, d>> \in PartsResult
BY DEF PartsResult

LEMMA PushPartType ==
  ASSUME NEW f \in Form, NEW part \in Part
  PROVE  PushPart(f, part) \in SUBSET PartsResult
<1>1. part.op \in {"true", "false", "pure", "data", "space"} /\ part.means \in SUBSET Model
  BY DEF Part
<1>2. f.kind \in {"unsat", "sat", "valid"} /\ f.pure \in SUBSET Model
      /\ f.space \in {<<>>} \union {<<M>> : M \in SUBSET Model}
      /\ f = [kind |-> f.kind, pure |-> f.pure, space |-> f.space]
  BY DEF Form
<1>3. ASSUME NEW M \in SUBSET Model, NEW K \in {"unsat", "sat", "valid"},
             NEW sp \in {<<>>} \union {<<N>> : N \in SUBSET Model}
      PROVE  /\ [f EXCEPT !.pure = M] \in Form
             /\ [f EXCEPT !.pure = M, !.kind = K] \in Form
             /\ [f EXCEPT !.space = sp, !.kind = K] \in Form
             /\ [f EXCEPT !.kind = K, !.space = sp] \in Form
  BY DEF Form
<1> DEFINE live == ~(f.kind = "unsat" \/ part.op = "true")
           M == f.pure \intersect part.means
<1>6. M \in SUBSET Model
  BY <1>1, <1>2
<1>7. CASE ~live
  BY <1>7, PairResult DEF PushPart
<1>8. CASE live /\ part.op = "false"
  <2>1. PushPart(f, part) = {<<[f EXCEPT !.kind = "unsat", !.space = <<>>], FALSE, FALSE>>}
    BY <1>8 DEF PushPart
  <2>2. [f EXCEPT !.kind = "unsat", !.space = <<>>] \in Form
    BY <1>2, <1>3
  <2> QED
    BY <2>1, <2>2, PairResult
<1>9. CASE live /\ part.op = "pure"
  <2>1. PushPart(f, part) = PushPure(f, M)
    BY <1>9 DEF PushPart
  <2>2. \A N \in SUBSET Model, K \in {"sat", "unsat"} : [f EXCEPT !.pure = N, !.kind = K] \in Form
    BY <1>3, <1>2
  <2>3. M \in SUBSET Model /\ SUBSET f.pure \subseteq SUBSET Model
    BY <1>2, <1>6
  <2> HIDE DEF M
  <2>4. CASE M # {}
    <3>1. PushPart(f, part) = {<<[f EXCEPT !.pure = M, !.kind = "sat"], FALSE, FALSE>>}
      BY <2>1, <2>4 DEF PushPure
    <3>2. [f EXCEPT !.pure = M, !.kind = "sat"] \in Form
      BY <2>2, <2>3
    <3> QED
      BY <3>1, <3>2, PairResult
  <2>5. CASE M = {}
    <3>1. ASSUME NEW N \in SUBSET f.pure
          PROVE  <<[f EXCEPT !.pure = N, !.kind = "sat"], FALSE, N # {}>> \in PartsResult
      <4>1. [f EXCEPT !.pure = N, !.kind = "sat"] \in Form
        BY <2>2, <2>3
      <4>2. (N # {}) \in BOOLEAN
        OBVIOUS
      <4> QED
        BY <4>1, <4>2, PairResult
    <3>2. <<[f EXCEPT !.pure = M, !.kind = "unsat"], TRUE, FALSE>> \in PartsResult
      BY <2>2, <2>3, PairResult
    <3>3. PushPart(f, part) =
            {<<[f EXCEPT !.pure = M, !.kind = "unsat"], TRUE, FALSE>>}
              \union {<<[f EXCEPT !.pure = N, !.kind = "sat"], FALSE, N # {}>> :
                        N \in SUBSET f.pure}
      BY <2>1, <2>5, Zenon DEF PushPure
    <3>4. PushPart(f, part) \subseteq PartsResult
      BY <3>1, <3>2, <3>3, Zenon
    <3> QED
      BY <3>4, Zenon
  <2> QED
    BY <2>4, <2>5
<1>10. CASE live /\ part.op = "data"
  <2>1. PushPart(f, part) = {<<[f EXCEPT !.pure = M], FALSE, FALSE>>}
    BY <1>10 DEF PushPart
  <2>2. [f EXCEPT !.pure = M] \in Form
    BY <1>2, <1>3, <1>6
  <2> HIDE DEF M
  <2> QED
    BY <2>1, <2>2, PairResult
<1>11. CASE live /\ part.op = "space"
  <2>1. PushPart(f, part) = {<<[f EXCEPT !.space = <<part.means>>, !.kind = "sat"], FALSE, FALSE>>}
    BY <1>11 DEF PushPart
  <2>2. [f EXCEPT !.space = <<part.means>>, !.kind = "sat"] \in Form
    BY <1>1, <1>2, <1>3
  <2> QED
    BY <2>1, <2>2, PairResult
<1> QED
  BY <1>1, <1>7, <1>8, <1>9, <1>10, <1>11

PushParts(R, part) ==
  UNION {{<<q[1], r[2] \/ q[2], r[3] \/ q[3]>> : q \in PushPart(r[1], part)} : r \in R}

LEMMA PushUnfolds ==
  ASSUME NEW f \in Form, NEW parts \in Seq(Part)
  PROVE  \E a \in [0 .. Len(parts) -> SUBSET PartsResult] :
           /\ Push(f, parts) = a[Len(parts)]
           /\ a[0] = {<<f, FALSE, FALSE>>}
           /\ \A k \in 1 .. Len(parts) : a[k] = PushParts(a[k - 1], parts[k])
<1> DEFINE n == Len(parts)
           S == SUBSET PartsResult
           E == [k \in 1 .. n |-> [R \in S |-> PushParts(R, parts[k])]]
           after[k \in 0 .. Len(parts)] ==
             IF k = 0 THEN {<<f, FALSE, FALSE>>}
             ELSE UNION {{<<q[1], r[2] \/ q[2], r[3] \/ q[3]>> : q \in PushPart(r[1], parts[k])} :
                           r \in after[k - 1]}
<1>1. n \in Nat /\ {<<f, FALSE, FALSE>>} \in S /\ \A k \in 1 .. n : parts[k] \in Part
  <2>1. <<f, FALSE, FALSE>> \in PartsResult
    BY DEF PartsResult
  <2> QED
    BY <2>1
<1>2. ASSUME NEW R \in S, NEW part \in Part
      PROVE  PushParts(R, part) \in S
  <2>1. ASSUME NEW r \in R, NEW q \in PushPart(r[1], part)
        PROVE  <<q[1], r[2] \/ q[2], r[3] \/ q[3]>> \in PartsResult
    <3>1. r[1] \in Form /\ r[2] \in BOOLEAN /\ r[3] \in BOOLEAN
      BY DEF PartsResult
    <3>2. q \in PartsResult
      BY <3>1, PushPartType
    <3> QED
      BY <3>1, <3>2 DEF PartsResult
  <2> QED
    BY <2>1 DEF PushParts
<1>3. E \in [1 .. n -> [S -> S]]
  BY <1>1, <1>2
<1>4. PICK a \in [0 .. n -> S] :
             a[0] = {<<f, FALSE, FALSE>>} /\ \A k \in 1 .. n : a[k] = E[k][a[k - 1]]
  <2>1. n \in Nat /\ {<<f, FALSE, FALSE>>} \in S
    BY <1>1
  <2> DEFINE b == {<<f, FALSE, FALSE>>}
  <2>2. n \in Nat /\ b \in S
    BY <2>1
  <2>3. PICK a : Iteration(a, S, b, n, E)
    <3> HIDE DEF n, S, E, b
    <3> QED
      BY <1>3, <2>2, Iterates
  <2> HIDE DEF n, S, E
  <2> QED
    BY <2>3 DEF Iteration
<1>5. \A k \in 1 .. n : a[k] = PushParts(a[k - 1], parts[k])
  <2> TAKE k \in 1 .. n
  <2>1. k - 1 \in 0 .. n
    BY <1>1
  <2> HIDE DEF S
  <2>2. a[k - 1] \in S
    BY <2>1
  <2> QED
    BY <1>4, <2>2
<1>6. a = [k \in 0 .. Len(parts) |->
             IF k = 0 THEN {<<f, FALSE, FALSE>>}
             ELSE UNION {{<<q[1], r[2] \/ q[2], r[3] \/ q[3]>> : q \in PushPart(r[1], parts[k])} :
                           r \in a[k - 1]}]
  <2> DEFINE c == [k \in 0 .. Len(parts) |->
             IF k = 0 THEN {<<f, FALSE, FALSE>>}
             ELSE UNION {{<<q[1], r[2] \/ q[2], r[3] \/ q[3]>> : q \in PushPart(r[1], parts[k])} :
                           r \in a[k - 1]}]
  <2>1. ASSUME NEW k \in 0 .. Len(parts)
        PROVE  a[k] = c[k]
    <3>1. CASE k = 0
      BY <1>4, <3>1
    <3>2. CASE k # 0
      <4>1. a[k] = PushParts(a[k - 1], parts[k]) 
        BY <1>1, <1>5, <3>2
      <4>2. c[k] = PushParts(a[k - 1], parts[k])
        BY <3>2 DEF PushParts
      <4> QED
        BY <4>1, <4>2
    <3> QED
      BY <3>1, <3>2
  <2>2. a = [k \in 0 .. Len(parts) |-> a[k]] /\ c = [k \in 0 .. Len(parts) |-> c[k]]
    BY <1>4
  <2>3. a = c
    <3> HIDE DEF c
    <3> QED
      BY <2>1, <2>2
  <2> QED
    BY <2>3
<1>7. after = [k \in 0 .. Len(parts) |->
             IF k = 0 THEN {<<f, FALSE, FALSE>>}
             ELSE UNION {{<<q[1], r[2] \/ q[2], r[3] \/ q[3]>> : q \in PushPart(r[1], parts[k])} :
                           r \in after[k - 1]}]
  BY <1>6, Zenon
<1>8. Push(f, parts) = after[Len(parts)]
  BY DEF Push
<1> HIDE DEF after
<1>9. ASSUME NEW k \in 0 .. n
      PROVE  after[k] = a[k]
  <2> DEFINE Bad == {i \in 0 .. n : after[i] # a[i]}
  <2> SUFFICES ASSUME Bad # {} PROVE FALSE
    OBVIOUS
  <2>1. PICK i \in Bad : \A j \in Bad : ~ (j < i)
    <3>1. Bad \subseteq Nat
      BY <1>1
    <3> HIDE DEF Bad
    <3> QED
      BY <3>1, Least
  <2>2. i \in 0 .. n /\ after[i] # a[i]
    OBVIOUS
  <2>3. after[0] = a[0]
    BY <1>1, <1>4, <1>7
  <2>4. i - 1 \in 0 .. n /\ i - 1 < i /\ i \in 1 .. n
    BY <1>1, <2>2, <2>3
  <2>5. after[i - 1] = a[i - 1]
    BY <2>1, <2>4
  <2>6. after[i] = PushParts(after[i - 1], parts[i])
    <3>1. i \in 0 .. Len(parts) /\ i # 0
      BY <2>2, <2>3
    <3>2. after[i] = UNION {{<<q[1], r[2] \/ q[2], r[3] \/ q[3]>> : q \in PushPart(r[1], parts[i])} :
                               r \in after[i - 1]}
      BY <1>7, <3>1
    <3> QED
      BY <3>2 DEF PushParts
  <2>7. after[i] = PushParts(a[i - 1], parts[i])
    BY <2>5, <2>6
  <2>8. a[i] = PushParts(a[i - 1], parts[i])
    BY <1>5, <2>4
  <2> QED
    BY <2>2, <2>7, <2>8
<1>10. Push(f, parts) = a[Len(parts)]
  <2>1. n \in 0 .. n
    BY <1>1
  <2> QED
    BY <1>8, <1>9, <2>1
<1>11. a \in [0 .. Len(parts) -> SUBSET PartsResult] /\ a[0] = {<<f, FALSE, FALSE>>}
  BY <1>4
<1> HIDE DEF n
<1> QED
  BY <1>5, <1>10, <1>11 DEF n

(* What is pushed on a formula gives formulas.                             *)
LEMMA PushType ==
  ASSUME NEW f \in Form, NEW parts \in Seq(Part), NEW r \in Push(f, parts)
  PROVE  r[1] \in Form /\ r[2] \in BOOLEAN /\ r[3] \in BOOLEAN
<1>1. PICK a \in [0 .. Len(parts) -> SUBSET PartsResult] : Push(f, parts) = a[Len(parts)]
  BY PushUnfolds
<1>2. Len(parts) \in 0 .. Len(parts)
  OBVIOUS
<1>3. r \in PartsResult
  BY <1>1, <1>2
<1> QED
  BY <1>3 DEF PartsResult

-----------------------------------------------------------------------------
(* What a formula denotes when a part is pushed.                           *)
Spaced(f) == f.kind = "unsat" \/ (f.kind = "sat" /\ f.space # <<>>)

LEMMA PushPartMeans ==
  ASSUME NEW f \in Form, NEW part \in Part, NEW r \in PushPart(f, part),
         part.op = "space" => f.kind = "unsat" \/ f.space = <<>>
  PROVE  /\ Denotes(f) \intersect PartMeans(part) \subseteq Denotes(r[1])
         /\ r[3] \/ Denotes(r[1]) \subseteq Denotes(f) \intersect PartMeans(part)
         /\ Spaced(f) \/ part.op \in {"space", "false"} => Spaced(r[1])
         /\ part.op # "space" /\ (f.kind = "unsat" \/ f.space = <<>>)
              => r[1].kind = "unsat" \/ r[1].space = <<>>
<1>1. part.op \in {"true", "false", "pure", "data", "space"} /\ part.means \in SUBSET Model
  BY DEF Part
<1>2. f.kind \in {"unsat", "sat", "valid"} /\ f.pure \in SUBSET Model
      /\ f.space \in {<<>>} \union {<<M>> : M \in SUBSET Model}
  BY DEF Form
<1>3. ASSUME NEW M \in SUBSET Model, NEW K \in {"unsat", "sat", "valid"},
             NEW sp \in {<<>>} \union {<<N>> : N \in SUBSET Model}
      PROVE  /\ [f EXCEPT !.pure = M].kind = f.kind
             /\ [f EXCEPT !.pure = M].pure = M
             /\ [f EXCEPT !.pure = M].space = f.space
             /\ [f EXCEPT !.pure = M, !.kind = K].kind = K
             /\ [f EXCEPT !.pure = M, !.kind = K].pure = M
             /\ [f EXCEPT !.pure = M, !.kind = K].space = f.space
             /\ [f EXCEPT !.space = sp, !.kind = K].kind = K
             /\ [f EXCEPT !.space = sp, !.kind = K].pure = f.pure
             /\ [f EXCEPT !.space = sp, !.kind = K].space = sp
             /\ [f EXCEPT !.kind = K, !.space = sp].kind = K
             /\ [f EXCEPT !.kind = K, !.space = sp].space = sp
  BY DEF Form
<1>4. Denotes(f) \subseteq Model
  BY <1>2 DEF Denotes
<1> DEFINE M == f.pure \intersect part.means
<1>5. M \in SUBSET Model
  BY <1>1, <1>2
<1>6. CASE f.kind = "unsat" 
  BY <1>6 DEF PushPart, Denotes, Spaced
<1>7. CASE part.op = "true"
  BY <1>4, <1>7 DEF PushPart, PartMeans
<1>8. CASE f.kind # "unsat" /\ part.op = "false"
  <2>1. r[1] = [f EXCEPT !.kind = "unsat", !.space = <<>>]
    BY <1>8 DEF PushPart
  <2>2. r[1].kind = "unsat" /\ r[1].space = <<>>
    BY <1>2, <1>3, <2>1
  <2> QED
    BY <1>8, <2>2 DEF Denotes, PartMeans, Spaced
<1>9. CASE f.kind # "unsat" /\ part.op = "pure"
  <2>1. r \in PushPure(f, M)
    BY <1>9 DEF PushPart
  <2>2. PartMeans(part) = part.means
    BY <1>9 DEF PartMeans
  <2> DEFINE s1 == [f EXCEPT !.pure = M, !.kind = "sat"]
             s2 == [f EXCEPT !.pure = M, !.kind = "unsat"]
             s3(N) == [f EXCEPT !.pure = N, !.kind = "sat"]
  <2>3. /\ s1.pure = M /\ s1.space = f.space /\ s1.kind = "sat"
        /\ s2.pure = M /\ s2.space = f.space /\ s2.kind = "unsat"
    BY <1>2, <1>3, <1>5
  <2>4. CASE M # {}
    <3>1. r = <<s1, FALSE, FALSE>>
      BY <2>1, <2>4 DEF PushPure
    <3>2. r[1] = s1
      BY <3>1
    <3>3. r[1].pure = M /\ r[1].space = f.space /\ r[1].kind = "sat"
      BY <2>3, <3>2
    <3>4. Denotes(r[1]) = Denotes(f) \intersect part.means
      BY <1>1, <1>2, <1>9, <3>3 DEF Denotes
    <3> QED
      BY <1>9, <2>2, <3>3, <3>4 DEF Spaced
  <2>5. CASE M = {}
    <3>0. Denotes(f) \intersect part.means = {}
      BY <2>5 DEF Denotes
    <3>1. r = <<s2, TRUE, FALSE>> \/ \E N \in SUBSET f.pure : r = <<s3(N), FALSE, N # {}>>
      BY <2>1, <2>5, Zenon DEF PushPure
    <3>2. CASE r = <<s2, TRUE, FALSE>>
      <4>1. r[1] = s2
        BY <3>2
      <4>2. r[1].space = f.space /\ r[1].kind = "unsat"
        BY <2>3, <4>1
      <4> QED
        BY <1>9, <2>2, <3>0, <4>2 DEF Denotes, Spaced
    <3>3. ASSUME NEW N \in SUBSET f.pure, r = <<s3(N), FALSE, N # {}>>
          PROVE  /\ r[1].pure = N /\ r[1].space = f.space /\ r[1].kind = "sat"
                 /\ r[3] = (N # {})
      <4>1. N \in SUBSET Model
        BY <1>2
      <4>2. s3(N).pure = N /\ s3(N).space = f.space /\ s3(N).kind = "sat"
        BY <1>2, <1>3, <4>1
      <4>3. r[1] = s3(N) /\ r[3] = (N # {})
        BY <3>3
      <4> QED
        BY <4>2, <4>3
    <3>4. ASSUME NEW N \in SUBSET f.pure, r = <<s3(N), FALSE, N # {}>>
          PROVE  r[3] \/ Denotes(r[1]) = {}
      <4>1. CASE N = {}
        BY <3>3, <3>4, <4>1 DEF Denotes
      <4>2. CASE N # {}
        BY <3>3, <3>4, <4>2
      <4> QED
        BY <4>1, <4>2
    <3>5. CASE \E N \in SUBSET f.pure : r = <<s3(N), FALSE, N # {}>>
      <4>1. r[1].space = f.space /\ r[1].kind = "sat"
        BY <3>3, <3>5
      <4>2. r[3] \/ Denotes(r[1]) = {}
        BY <3>4, <3>5
      <4> QED
        BY <1>9, <2>2, <3>0, <4>1, <4>2 DEF Spaced
    <3> QED
      BY <3>1, <3>2, <3>5
  <2> QED
    BY <2>4, <2>5
<1>10. CASE f.kind # "unsat" /\ part.op = "data"
  <2>1. r[1] = [f EXCEPT !.pure = M]
    BY <1>10 DEF PushPart
  <2>2. r[1].pure = M /\ r[1].space = f.space /\ r[1].kind = f.kind
    BY <1>2, <1>3, <1>5, <2>1
  <2>3. PartMeans(part) = part.means
    BY <1>10 DEF PartMeans
  <2> QED
    BY <1>1, <1>2, <1>10, <2>2, <2>3 DEF Denotes, Spaced
<1>11. CASE f.kind # "unsat" /\ part.op = "space"
  <2>1. r[1] = [f EXCEPT !.space = <<part.means>>, !.kind = "sat"]
    BY <1>11 DEF PushPart
  <2>2. r[1].pure = f.pure /\ r[1].space = <<part.means>> /\ r[1].kind = "sat"
    BY <1>1, <1>2, <1>3, <2>1
  <2>3. PartMeans(part) = part.means /\ f.space = <<>>
    BY <1>11 DEF PartMeans
  <2>4. r[1].space # <<>> /\ r[1].space[1] = part.means
    BY <2>2
  <2> QED
    BY <1>1, <1>2, <1>11, <2>2, <2>3, <2>4 DEF Denotes, Spaced
<1> QED
  BY <1>1, <1>6, <1>7, <1>8, <1>9, <1>10, <1>11

(* The models of the first k parts. *)
MeansOf(parts, k) == {x \in Model : \A i \in 1 .. k : x \in PartMeans(parts[i])}

LEMMA PushMeans ==
  ASSUME NEW f \in Form, f.kind = "unsat" \/ f.space = <<>>,
         NEW parts \in Seq(Part), NEW r \in Push(f, parts),
         \A i, j \in DOMAIN parts : parts[i].op = "space" /\ parts[j].op = "space" => i = j
  PROVE  /\ Denotes(f) \intersect MeansOf(parts, Len(parts)) \subseteq Denotes(r[1])
         /\ r[3] \/ Denotes(r[1]) \subseteq MeansOf(parts, Len(parts))
         /\ (\E i \in DOMAIN parts : parts[i].op \in {"space", "false"}) => Spaced(r[1])
<1> DEFINE n == Len(parts)
           Inv(k, q) ==
             /\ q \in PartsResult
             /\ Denotes(f) \intersect MeansOf(parts, k) \subseteq Denotes(q[1])
             /\ q[3] \/ Denotes(q[1]) \subseteq MeansOf(parts, k)
             /\ (\E i \in 1 .. k : parts[i].op \in {"space", "false"}) => Spaced(q[1])
             /\ (\A i \in 1 .. k : parts[i].op # "space")
                  => q[1].kind = "unsat" \/ q[1].space = <<>>
<1>1. n \in Nat /\ DOMAIN parts = 1 .. n /\ \A k \in 1 .. n : parts[k] \in Part
  OBVIOUS
<1>3. PICK a \in [0 .. n -> SUBSET PartsResult] :
           /\ Push(f, parts) = a[n]
           /\ a[0] = {<<f, FALSE, FALSE>>}
           /\ \A k \in 1 .. n : a[k] = PushParts(a[k - 1], parts[k])
  BY PushUnfolds
<1>4. \A q \in a[0] : Inv(0, q)
  <2> SUFFICES Inv(0, <<f, FALSE, FALSE>>)
    BY <1>3
  <2>1. MeansOf(parts, 0) = Model
    BY DEF MeansOf
  <2>2. Denotes(f) \subseteq Model
    BY DEF Denotes, Form
  <2>3. <<f, FALSE, FALSE>> \in PartsResult
    BY PairResult
  <2>4. <<f, FALSE, FALSE>>[1] = f
    OBVIOUS
  <2> QED
    BY <2>1, <2>2, <2>3, <2>4
<1>5. ASSUME NEW k \in 1 .. n, \A q \in a[k - 1] : Inv(k - 1, q), NEW s \in a[k]
      PROVE  Inv(k, s)
  <2>1. PICK q \in a[k - 1] :
          \E p \in PushPart(q[1], parts[k]) : s = <<p[1], q[2] \/ p[2], q[3] \/ p[3]>>
    BY <1>3 DEF PushParts
  <2>0. PICK p \in PushPart(q[1], parts[k]) : s = <<p[1], q[2] \/ p[2], q[3] \/ p[3]>>
    BY <2>1
  <2>2. q[1] \in Form /\ parts[k] \in Part /\ Inv(k - 1, q)
    <3>1. k - 1 \in 0 .. n
      BY <1>1
    <3>2. q \in PartsResult
      BY <1>3, <3>1
    <3> QED
      BY <1>1, <1>5, <3>2 DEF PartsResult
  <2>3. s[1] = p[1] /\ s[3] = (q[3] \/ p[3]) /\ s \in PartsResult
    <3>1. k \in 0 .. n
      BY <1>1
    <3> QED
      BY <1>3, <2>0, <3>1
  <2>4. 1 .. k = (1 .. k - 1) \union {k}
    BY <1>1
  <2>5. parts[k].op = "space" => \A i \in 1 .. k - 1 : parts[i].op # "space"
    BY <1>1
  <2>6. parts[k].op = "space" => q[1].kind = "unsat" \/ q[1].space = <<>>
    BY <2>2, <2>5
  <2>7. /\ Denotes(q[1]) \intersect PartMeans(parts[k]) \subseteq Denotes(p[1])
        /\ p[3] \/ Denotes(p[1]) \subseteq Denotes(q[1]) \intersect PartMeans(parts[k])
        /\ Spaced(q[1]) \/ parts[k].op \in {"space", "false"} => Spaced(p[1])
        /\ parts[k].op # "space" /\ (q[1].kind = "unsat" \/ q[1].space = <<>>)
             => p[1].kind = "unsat" \/ p[1].space = <<>>
    BY <2>2, <2>6, PushPartMeans
  <2>8. MeansOf(parts, k) = MeansOf(parts, k - 1) \intersect PartMeans(parts[k])
    BY <2>4 DEF MeansOf
  <2>9. Denotes(f) \intersect MeansOf(parts, k) \subseteq Denotes(s[1])
    BY <2>2, <2>3, <2>7, <2>8
  <2>10. s[3] \/ Denotes(s[1]) \subseteq MeansOf(parts, k)
    <3>1. CASE q[3] \/ p[3]
      BY <2>3, <3>1
    <3>2. CASE ~(q[3] \/ p[3])
      BY <2>2, <2>3, <2>7, <2>8, <3>2
    <3> QED
      BY <3>1, <3>2
  <2>11. (\E i \in 1 .. k : parts[i].op \in {"space", "false"}) => Spaced(s[1])
    BY <2>2, <2>3, <2>4, <2>7
  <2>12. (\A i \in 1 .. k : parts[i].op # "space") => s[1].kind = "unsat" \/ s[1].space = <<>>
    BY <2>2, <2>3, <2>4, <2>7
  <2> QED
    BY <2>3, <2>9, <2>10, <2>11, <2>12
<1> DEFINE Bad == {k \in 0 .. n : ~ \A q \in a[k] : Inv(k, q)}
<1>6. Bad = {}
  <2> SUFFICES ASSUME Bad # {} PROVE FALSE
    OBVIOUS
  <2>1. PICK k \in Bad : \A i \in Bad : ~ (i < k)
    <3>1. Bad \subseteq Nat
      BY <1>1
    <3> HIDE DEF Bad
    <3> QED
      BY <3>1, Least
  <2> HIDE DEF Inv
  <2>2. k \in 0 .. n /\ ~ \A q \in a[k] : Inv(k, q)
    OBVIOUS
  <2>3. k # 0
    BY <1>4, <2>2
  <2>4. k \in 1 .. n /\ k - 1 \in 0 .. n /\ k - 1 < k
    BY <1>1, <2>2, <2>3
  <2> QED
    BY <1>5, <2>1, <2>2, <2>4
<1>7. Inv(n, r)
  <2> HIDE DEF Inv
  <2>1. n \in 0 .. n
    BY <1>1
  <2> QED
    BY <1>3, <1>6, <2>1
<1> QED
  BY <1>1, <1>7

-----------------------------------------------------------------------------
(* The types.  The terms are counted by their sign.                        *)
Side(b) == {u \in given : u.neg = b}

TInv == /\ TypeOK /\ OneNegative
        /\ given \subseteq Terms /\ IsFiniteSet(given)
        /\ \A b \in BOOLEAN : Cardinality(Side(b)) <= MaxAsserts

LEMMA NormalizedType ==
  ASSUME NEW f \in Form, NEW g \in Normalized(f)
  PROVE  g \in Form
<1>1. /\ f.kind \in {"unsat", "sat", "valid"} /\ f.pure \subseteq Model
      /\ \A k \in {"unsat", "sat", "valid"}, N \in SUBSET Model :
           /\ [f EXCEPT !.kind = k] \in Form /\ [f EXCEPT !.pure = N] \in Form
           /\ [f EXCEPT !.pure = N, !.kind = k] \in Form
  BY DEF Form
<1>2. CASE f.kind = "unsat"
  BY <1>2 DEF Normalized
<1>3. CASE f.kind # "unsat"
  <2>1. \/ g = [f EXCEPT !.kind = "unsat"]
        \/ \E N \in SUBSET f.pure : g = [f EXCEPT !.pure = N]
        \/ \E N \in SUBSET f.pure : g = [f EXCEPT !.pure = N, !.kind = "sat"]
    BY <1>3 DEF Normalized
  <2> QED
    BY <1>1, <2>1
<1> QED
  BY <1>2, <1>3

LEMMA PromiseType ==
  ASSUME broken \subseteq Promise, NEW q \in Promise, NEW k
  PROVE  broken \union Unless(k, q) \subseteq Promise
BY DEF Unless

LEMMA PromisesNamed ==
  \A q \in {"posAtoms", "negAtoms", "posModels", "negModels", "posUnsat", "hom", "noHom"} :
    q \in Promise
BY DEF Promise

LEMMA LenNform ==
  ASSUME OneNegative
  PROVE  \/ nform = <<>> /\ Len(nform) = 0
         \/ nform = <<nform[1]>> /\ Len(nform) = 1
<1>1. CASE nform = <<>>
  <2>1. Len(nform) = 0
    BY <1>1
  <2> QED
    BY <1>1, <2>1
<1>2. ASSUME NEW f, nform = <<f>>
      PROVE  nform = <<nform[1]>> /\ Len(nform) = 1
  BY <1>2
<1> QED
  BY <1>1, <1>2 DEF OneNegative

(* A term more. *)
LEMMA GivenCounted ==
  ASSUME TInv, NEW t \in Terms, MayAssert(t), given' = given \union {t}
  PROVE  /\ given' \subseteq Terms /\ IsFiniteSet(given')
         /\ (\A b \in BOOLEAN : Cardinality(Side(b)) <= MaxAsserts)'
         /\ Cardinality(given') <= 2 * MaxAsserts
<1>1. IsFiniteSet(given) /\ given \subseteq Terms /\ MaxAsserts \in Nat /\ t.neg \in BOOLEAN
      /\ \A u \in Terms : u.neg \in BOOLEAN
  BY EntlAssumption DEF TInv
<1>2. IsFiniteSet(given')
  BY <1>1, FS_AddElement
<1> DEFINE S(b) == {u \in given : u.neg = b}
           N(b) == {u \in given' : u.neg = b}
<1>3. ASSUME NEW b \in BOOLEAN
      PROVE  /\ IsFiniteSet(S(b)) /\ IsFiniteSet(N(b)) /\ Cardinality(S(b)) \in Nat
             /\ Cardinality(N(b)) \in Nat /\ Cardinality(N(b)) <= MaxAsserts
  <2>1. IsFiniteSet(S(b)) /\ IsFiniteSet(N(b))
    <3>1. S(b) \subseteq given /\ N(b) \subseteq given'
      OBVIOUS
    <3> QED
      BY <1>1, <1>2, <3>1, FS_Subset
  <2>2. Cardinality(S(b)) \in Nat /\ Cardinality(N(b)) \in Nat
    BY <2>1, FS_CardinalityType
  <2>3. CASE t.neg = b
    <3>1. N(b) = S(b) \union {t} /\ t \notin S(b) /\ Cardinality(S(b)) < MaxAsserts
      BY <2>3 DEF MayAssert
    <3>2. Cardinality(N(b)) = Cardinality(S(b)) + 1
      <4> HIDE DEF S, N
      <4> QED
        BY <2>1, <3>1, FS_AddElement
    <3> HIDE DEF S, N
    <3> QED
      BY <1>1, <2>1, <2>2, <3>1, <3>2
  <2>4. CASE t.neg # b
    <3>1. N(b) = S(b)
      BY <2>4
    <3>2. Cardinality(S(b)) <= MaxAsserts
      BY DEF TInv, Side
    <3> QED
      BY <2>1, <2>2, <3>1, <3>2
  <2> QED
    BY <2>3, <2>4
<1>4. Cardinality(given') <= 2 * MaxAsserts
  <2> DEFINE P == N(TRUE)
             Q == N(FALSE)
  <2>1. given' = P \union Q /\ P \intersect Q = {}
    BY <1>1
  <2>2. /\ IsFiniteSet(P) /\ Cardinality(P) \in Nat /\ Cardinality(P) <= MaxAsserts
        /\ IsFiniteSet(Q) /\ Cardinality(Q) \in Nat /\ Cardinality(Q) <= MaxAsserts
    BY <1>3
  <2> HIDE DEF P, Q
  <2>3. Cardinality(P \union Q) = Cardinality(P) + Cardinality(Q) - Cardinality(P \intersect Q)
    BY <2>2, FS_Union
  <2>4. Cardinality({}) = 0
    BY FS_EmptySet
  <2>5. Cardinality(given') = Cardinality(P) + Cardinality(Q)
    <3>1. Cardinality(P \intersect Q) = 0
      BY <2>1, <2>4, Zenon
    <3>2. Cardinality(given') = Cardinality(P \union Q)
      BY <2>1, Zenon
    <3> QED
      BY <2>2, <2>3, <3>1, <3>2
  <2>6. 2 * MaxAsserts = MaxAsserts + MaxAsserts
    BY <1>1
  <2> QED
    BY <1>1, <2>2, <2>5, <2>6
<1> QED
  BY <1>1, <1>2, <1>3, <1>4 DEF Side

LEMMA TypesInit == Init => TInv
<1> SUFFICES ASSUME Init PROVE TInv
  OBVIOUS
<1>1. given = {} /\ IsFiniteSet({}) /\ Cardinality({}) = 0
  BY FS_EmptySet DEF Init
<1>2. \A b \in BOOLEAN : Side(b) = {}
  BY <1>1 DEF Side
<1>3. FormNew \in Form
  BY DEF FormNew, Form
<1>4. pform \in Form /\ nform = <<>> /\ parsing = FALSE /\ phase = "parse" /\ aux = {}
      /\ step = 1 /\ graphs = <<>> /\ res = 0 /\ answer = "none" /\ broken = {}
  BY <1>3 DEF Init
<1>5. nform \in Seq(Form) /\ graphs \in Seq(BOOLEAN) /\ Len(nform) = 0 /\ Len(graphs) = 0
  BY <1>4
<1>6. MaxAsserts \in Nat /\ 0 <= MaxAsserts /\ 0 <= 2 * MaxAsserts
  BY EntlAssumption
<1>7. phase \in Phase /\ aux \subseteq Aux /\ step \in 1 .. Len(nform) + 1
  BY <1>4, <1>5 DEF Phase
<1>8. TypeOK
  <2>1. Cardinality(given) <= 2 * MaxAsserts
    BY <1>1, <1>6
  <2>2. Len(graphs) <= Len(nform)
    BY <1>5
  <2>3. broken \subseteq Promise /\ res \in {-1, 0, 1} /\ answer \in {"none", "sat", "unsat", "unknown"} /\ parsing \in BOOLEAN
    BY <1>4
  <2> QED
    BY <1>4, <1>5, <1>7, <2>1, <2>2, <2>3, Zenon DEF TypeOK
<1>9. \A b \in BOOLEAN : Cardinality(Side(b)) <= MaxAsserts
  BY <1>1, <1>2, <1>6
<1> QED
  BY <1>1, <1>4, <1>8, <1>9 DEF TInv, OneNegative

LEMMA TypesAssert ==
  ASSUME TInv, NEW t \in Terms, MayAssert(t), AssertPos(t) \/ AssertNeg(t)
  PROVE  TInv'
<1>1. given' = given \union {t}
  BY DEF AssertPos, AssertNeg
<1>2. t.parts \in Seq(Part)
  BY EntlAssumption
<1>3. CASE AssertPos(t)
  <2>1. PICK r \in Push(pform, t.parts) :
               /\ pform' = r[1] /\ parsing' = (parsing \/ r[2])
               /\ broken' = broken \union Unless(~r[3], "posAtoms")
    BY <1>3 DEF AssertPos
  <2>2. pform' \in Form /\ parsing' \in BOOLEAN /\ broken' \subseteq Promise
    BY <1>2, <2>1, PushType, PromiseType, PromisesNamed DEF TInv, TypeOK
  <2>3. UNCHANGED <<nform, phase, aux, step, graphs, res>> /\ answer' = "none"
    BY <1>3 DEF AssertPos
  <2> QED
    BY <1>1, <2>2, <2>3, GivenCounted DEF TInv, TypeOK, OneNegative
<1>4. CASE AssertNeg(t)
  <2>1. NformLast \in Form
    <3>1. FormNew \in Form
      BY DEF FormNew, Form
    <3>2. nform # <<>> => nform[Len(nform)] \in Form
      BY LenNform DEF TInv, TypeOK
    <3> QED
      BY <3>1, <3>2 DEF NformLast
  <2>2. PICK r \in Push(NformLast, t.parts) :
               /\ nform' = <<r[1]>> /\ parsing' = (parsing \/ r[2])
               /\ broken' = broken \union Unless(~r[3], "negAtoms")
    BY <1>4 DEF AssertNeg
  <2>3. nform' \in Seq(Form) /\ Len(nform') = 1 /\ parsing' \in BOOLEAN /\ broken' \subseteq Promise
    BY <1>2, <2>1, <2>2, PushType, PromiseType, PromisesNamed DEF TInv, TypeOK
  <2>4. UNCHANGED <<pform, phase, aux, step, graphs, res>> /\ answer' = "none"
    BY <1>4 DEF AssertNeg
  <2>5. OneNegative'
    BY <2>2 DEF OneNegative
  <2>6. step' \in 1 .. Len(nform') + 1 /\ Len(graphs') <= Len(nform')
    <3>1. Len(nform) \in {0, 1}
      BY LenNform DEF TInv
    <3>2. step \in 1 .. Len(nform) + 1 /\ Len(graphs) <= Len(nform) /\ Len(graphs) \in Nat
      BY DEF TInv, TypeOK
    <3>3. Len(nform') = 1 /\ step' = step /\ Len(graphs') = Len(graphs)
      BY <2>3, <2>4
    <3>4. step \in 1 .. 2 /\ Len(graphs) <= 1
      <4>1. CASE Len(nform) = 0
        BY <3>2, <4>1
      <4>2. CASE Len(nform) = 1
        BY <3>2, <4>2
      <4> QED
        BY <3>1, <4>1, <4>2
    <3> QED
      BY <3>3, <3>4
  <2> QED
    BY <1>1, <2>3, <2>4, <2>5, <2>6, GivenCounted DEF TInv, TypeOK
<1> QED
  BY <1>3, <1>4

LEMMA TypesCheck ==
  ASSUME TInv, CheckStops \/ CheckStarts \/ Solving \/ Fails \/ UNCHANGED vars
  PROVE  TInv'
<1>1. given' = given /\ (Side(TRUE) = Side(TRUE)')
  BY DEF CheckStops, CheckStarts, Solving, Fails, vars, SatSolve, Special, NormalizePos,
         NormalizeNeg, Special2, GraphPos, GraphNeg, Hom, End, Side
<1>2. /\ given' \subseteq Terms /\ IsFiniteSet(given') /\ Cardinality(given') <= 2 * MaxAsserts
      /\ (\A b \in BOOLEAN : Cardinality(Side(b)) <= MaxAsserts)'
  BY <1>1 DEF TInv, TypeOK, Side
<1>3. CASE CheckStops \/ CheckStarts \/ Fails \/ UNCHANGED vars
  BY <1>2, <1>3 DEF CheckStops, CheckStarts, Fails, vars, TInv, TypeOK, OneNegative, Phase
<1>4. CASE SatSolve \/ Special \/ NormalizePos
  <2>1. /\ \A g \in Normalized(pform) : g \in Form
        /\ broken' \subseteq Promise
    <3>1. \A g \in Normalized(pform) : g \in Form
      BY NormalizedType DEF TInv, TypeOK
    <3>2. broken \subseteq Promise
      BY DEF TInv, TypeOK
    <3>3. \A k, l : broken \union Unless(k, "posModels") \union Unless(l, "posUnsat") \subseteq Promise
      BY <3>2, PromisesNamed DEF Unless
    <3>4. CASE SatSolve
      BY <3>1, <3>3, <3>4 DEF SatSolve
    <3>5. CASE Special
      BY <3>1, <3>2, <3>5 DEF Special
    <3>6. CASE NormalizePos
      BY <3>1, <3>3, <3>6 DEF NormalizePos
    <3> QED
      BY <1>4, <3>4, <3>5, <3>6
  <2>2. /\ pform' \in Form /\ phase' \in Phase /\ aux' \subseteq Aux
        /\ answer' \in {"none", "sat", "unsat", "unknown"}
        /\ UNCHANGED <<nform, parsing, graphs, res>> /\ step' \in {1, step}
    BY <1>4, <2>1 DEF SatSolve, Special, NormalizePos, Respond, Status, TInv, TypeOK, Phase, Aux
  <2>3. OneNegative' /\ step' \in 1 .. Len(nform') + 1
    BY <2>2, LenNform DEF TInv, TypeOK, OneNegative
  <2> QED
    BY <1>2, <2>1, <2>2, <2>3 DEF TInv, TypeOK
<1>5. CASE NormalizeNeg
  <2>1. OneNegative' /\ nform' \in Seq(Form) /\ Len(nform') = Len(nform)
        /\ step' \in 1 .. Len(nform) + 1
    <3>1. CASE step <= Len(nform)
      <4>0. step \in Nat \ {0} /\ nform \in Seq(Form) /\ Len(nform) # 0
        BY <3>1 DEF TInv, TypeOK
      <4>5. Len(nform) = 1 /\ nform = <<nform[1]>>
        BY <4>0, LenNform DEF TInv
      <4>1. nform = <<nform[1]>> /\ Len(nform) = 1 /\ step = 1 /\ nform[1] \in Form
        BY <3>1, <4>0, <4>5
      <4>2. PICK g \in Normalized(nform[1]) : nform' = [nform EXCEPT ![1] = g] /\ step' = step + 1
        BY <1>5, <3>1, <4>1 DEF NormalizeNeg
      <4>3. nform' = <<g>>
        BY <4>1, <4>2
      <4>4. g \in Form
        BY <4>1, NormalizedType
      <4> QED
        BY <4>1, <4>2, <4>3, <4>4 DEF OneNegative
    <3>2. CASE ~(step <= Len(nform))
      BY <1>5, <3>2, LenNform DEF NormalizeNeg, TInv, TypeOK, OneNegative
    <3> QED
      BY <3>1, <3>2
  <2>2. UNCHANGED <<pform, parsing, aux, graphs, res, answer, given>> /\ phase' \in Phase
    BY <1>5 DEF NormalizeNeg, Phase
  <2>3. broken' \subseteq Promise
    BY <1>5, PromisesNamed DEF NormalizeNeg, Unless, TInv, TypeOK
  <2> QED
    BY <1>2, <2>1, <2>2, <2>3 DEF TInv, TypeOK
<1>6. CASE Special2
  <2>1. res' \in {-1, 0, 1}
    BY <1>6 DEF Special2, SolveSpecial
  <2> QED
    BY <1>2, <1>6, <2>1 DEF Special2, TInv, TypeOK, Phase, OneNegative
<1>7. CASE GraphPos
  <2>1. graphs' \in Seq(BOOLEAN) /\ Len(graphs') <= Len(nform)
    BY <1>7, LenNform DEF GraphPos, TInv, TypeOK
  <2>2. aux' \subseteq Aux /\ phase' \in Phase
        /\ UNCHANGED <<pform, nform, parsing, step, res, answer, given, broken>>
    BY <1>7 DEF GraphPos, TInv, TypeOK, Phase, Aux
  <2> QED
    BY <1>2, <2>1, <2>2 DEF TInv, TypeOK, OneNegative
<1>8. CASE GraphNeg
  <2>1. graphs' \in Seq(BOOLEAN) /\ Len(graphs') <= Len(nform)
    <3>1. CASE Len(graphs) < Len(nform)
      <4>1. graphs' = Append(graphs, nform[Len(graphs) + 1].kind # "unsat")
        BY <1>8, <3>1 DEF GraphNeg
      <4>2. graphs \in Seq(BOOLEAN) /\ (nform[Len(graphs) + 1].kind # "unsat") \in BOOLEAN
        BY DEF TInv, TypeOK
      <4> QED
        BY <3>1, <4>1, <4>2, LenNform DEF TInv
    <3>2. CASE ~(Len(graphs) < Len(nform))
      BY <1>8, <3>2 DEF GraphNeg, TInv, TypeOK
    <3> QED
      BY <3>1, <3>2
  <2>2. phase' \in Phase
        /\ UNCHANGED <<pform, nform, parsing, aux, step, res, answer, given, broken>>
    BY <1>8 DEF GraphNeg, TInv, TypeOK, Phase
  <2> QED
    BY <1>2, <2>1, <2>2 DEF TInv, TypeOK, OneNegative
<1>9. CASE Hom
  <2>1. PICK r \in HomResult :
          /\ broken' = broken \union Unless(r = 1 => Entails(step), "hom")
                              \union Unless(r = 0 => ~Entails(step), "noHom")
          /\ IF r = 1 \/ step = Len(nform)
             THEN res' = ResultOfHom(r) /\ aux' = aux \union {"hom"} /\ phase' = "end" /\ step' = 1
             ELSE step' = step + 1 /\ UNCHANGED <<res, aux, phase>>
    BY <1>9 DEF Hom
  <2>2. r \in {-1, 0, 1} /\ step <= Len(nform)
    BY <1>9 DEF Hom, HomResult
  <2>3. res' \in {-1, 0, 1} /\ phase' \in Phase /\ step' \in 1 .. Len(nform) + 1 /\ aux' \subseteq Aux
    BY <2>1, <2>2, LenNform DEF ResultOfHom, TInv, TypeOK, Phase, Aux
  <2>4. UNCHANGED <<pform, nform, parsing, graphs, answer, given>>
    BY <1>9 DEF Hom
  <2>5. broken' \subseteq Promise
    BY <2>1, PromisesNamed DEF Unless, TInv, TypeOK
  <2> QED
    BY <1>2, <2>3, <2>4, <2>5 DEF TInv, TypeOK, OneNegative
<1>10. CASE End
  <2>1. graphs' \in Seq(BOOLEAN) /\ Len(graphs') <= Len(nform) /\ aux' \subseteq Aux
    BY <1>10, LenNform DEF End, TInv, TypeOK
  <2>2. answer' \in {"none", "sat", "unsat", "unknown"} /\ phase' \in Phase
        /\ UNCHANGED <<pform, nform, parsing, step, res, given, broken>>
    BY <1>10 DEF End, Respond, Status, Phase
  <2> QED
    BY <1>2, <2>1, <2>2 DEF TInv, TypeOK, OneNegative
<1> QED
  BY <1>3, <1>4, <1>5, <1>6, <1>7, <1>8, <1>9, <1>10 DEF Solving

LEMMA TypesInvariance == Spec => []TInv
<1>1. TInv /\ [Next]_vars => TInv'
  BY TypesAssert, TypesCheck DEF Next, Exited
<1> QED
  BY <1>1, TypesInit, PTL DEF Spec

(* What noll_prob, the loops and the answer hold is well-formed at every    *)
(* point of noll_check: step and graphs stay within the negative formulas. *)
THEOREM EntlTypes == Spec => []TypeOK
<1>1. TInv => TypeOK
  BY DEF TInv
<1> QED
  BY <1>1, TypesInvariance, PTL

-----------------------------------------------------------------------------
(* The refinement.  The models of the parts of a term.                     *)
Body(t) == MeansOf(t.parts, Len(t.parts))

LEMMA MeaningBody ==
  ASSUME NEW t \in Terms
  PROVE  /\ Meaning(t) = IF t.neg THEN Model \ Body(t) ELSE Body(t)
         /\ Body(t) \subseteq Model
<1>1. t.parts \in Seq(Part) /\ DOMAIN t.parts = 1 .. Len(t.parts)
  BY EntlAssumption
<1>2. Body(t) = {x \in Model : \A i \in DOMAIN t.parts : x \in PartMeans(t.parts[i])}
  BY <1>1 DEF Body, MeansOf
<1> QED
  BY <1>2 DEF Meaning

(* A term of the input format, pushed on a formula without spatial part:   *)
(* no model of the two is lost, and none is added unless an atom was       *)
(* dropped.                                                                *)
Pushable(f) == f.kind = "unsat" \/ f.space = <<>>

LEMMA PushTerm ==
  ASSUME InputFormat, NEW t \in Terms, NEW f \in Form, Pushable(f), NEW r \in Push(f, t.parts)
  PROVE  /\ Denotes(f) \intersect Body(t) \subseteq Denotes(r[1])
         /\ r[3] \/ Denotes(r[1]) \subseteq Body(t)
         /\ Spaced(r[1])
<1>1. t.parts \in Seq(Part)
  BY EntlAssumption
<1>2. \A i, j \in DOMAIN t.parts : t.parts[i].op = "space" /\ t.parts[j].op = "space" => i = j
  BY DEF InputFormat, SpacePart
<1>3. \E i \in DOMAIN t.parts : t.parts[i].op \in {"space", "false"}
  BY DEF InputFormat, SpacePart, FalsePart
<1> QED
  BY <1>1, <1>2, <1>3, PushMeans DEF Body, Pushable

(* How a formula stands for the models M that were asserted: it has all of *)
(* them unless some were lost, and no others unless an atom was dropped.   *)
Reads(f, M, models, atoms) ==
  /\ models \notin broken => M \subseteq Denotes(f)
  /\ atoms \notin broken => Denotes(f) \subseteq M

ReadsPos(M) == Reads(pform, M, "posModels", "posAtoms")
ReadsNeg(M) == Reads(nform[1], M, "negModels", "negAtoms")

(* What the formulas hold of the terms asserted. *)
Stored ==
  /\ \A t \in given : ~t.neg => ReadsPos(Body(t)) /\ Spaced(pform)
  /\ \A t \in given : t.neg => nform # <<>> /\ ReadsNeg(Body(t)) /\ Spaced(nform[1])
  /\ nform # <<>> => \E t \in given : t.neg
  /\ (\A t \in given : t.neg) => given = {} /\ ReadsPos(Model) /\ Pushable(pform)
  /\ \A t, u \in given : t.neg = u.neg => t = u

(* A result is right when what it rests on was kept. *)
Decides(r) == /\ r = 1 /\ RestsOn("sat") \intersect broken = {} => Goal # {}
              /\ r = 0 /\ RestsOn("unsat") \intersect broken = {} => Goal = {}

(* Which formulas there are in which phase, and what the result says. *)
Deciding == {"special", "normalize", "normalizeNeg", "special2", "graph", "graphNeg", "hom"}

Pipeline ==
  /\ phase = "sat" => nform = <<>>
  /\ phase \in Deciding => nform # <<>>
  /\ phase \in {"normalizeNeg", "special2", "graph", "graphNeg", "hom"} =>
       "posUnsat" \in broken \/ FindsUnsat(pform)
  /\ phase = "end" => Decides(res)
  /\ phase \in Deciding \union {"sat", "end"} => answer = "none"

SInv == TInv /\ Stored /\ Pipeline

LEMMA Normalizes ==
  ASSUME NEW f \in Form, NEW g \in Normalized(f)
  PROVE  /\ Denotes(g) \subseteq Denotes(f)
         /\ Spaced(f) => Spaced(g)
         /\ Pushable(f) => Pushable(g)
<1>1. f.kind \in {"unsat", "sat", "valid"} /\ f.pure \subseteq Model
  BY DEF Form
<1>2. \A N \in SUBSET Model :
        /\ [f EXCEPT !.kind = "unsat"].kind = "unsat"
        /\ [f EXCEPT !.pure = N].kind = f.kind /\ [f EXCEPT !.pure = N].pure = N
        /\ [f EXCEPT !.pure = N].space = f.space
        /\ [f EXCEPT !.pure = N, !.kind = "sat"].kind = "sat"
        /\ [f EXCEPT !.pure = N, !.kind = "sat"].pure = N
        /\ [f EXCEPT !.pure = N, !.kind = "sat"].space = f.space
  BY DEF Form
<1>3. CASE f.kind = "unsat"
  BY <1>3 DEF Normalized
<1>4. CASE f.kind # "unsat"
  <2>1. \/ g = [f EXCEPT !.kind = "unsat"]
        \/ \E N \in SUBSET f.pure : g = [f EXCEPT !.pure = N]
        \/ \E N \in SUBSET f.pure : g = [f EXCEPT !.pure = N, !.kind = "sat"]
    BY <1>4 DEF Normalized
  <2>2. \/ g.kind = "unsat"
        \/ g.kind \in {f.kind, "sat"} /\ g.pure \subseteq f.pure /\ g.space = f.space
    <3>1. CASE g = [f EXCEPT !.kind = "unsat"]
      BY <3>1 DEF Form
    <3>2. ASSUME NEW N \in SUBSET f.pure, g = [f EXCEPT !.pure = N]
          PROVE  g.kind = f.kind /\ g.pure = N /\ g.space = f.space
      <4>1. N \in SUBSET Model
        BY <1>1
      <4> QED
        BY <1>2, <3>2, <4>1
    <3>3. ASSUME NEW N \in SUBSET f.pure, g = [f EXCEPT !.pure = N, !.kind = "sat"]
          PROVE  g.kind = "sat" /\ g.pure = N /\ g.space = f.space
      <4>1. N \in SUBSET Model
        BY <1>1
      <4> QED
        BY <1>2, <3>3, <4>1
    <3> QED
      BY <2>1, <3>1, <3>2, <3>3
  <2> QED
    BY <1>4, <2>2 DEF Denotes, Spaced, Pushable
<1> QED
  BY <1>3, <1>4

LEMMA FormNewDenotes == FormNew \in Form /\ Denotes(FormNew) = Model /\ Pushable(FormNew)
BY DEF FormNew, Form, Denotes, Pushable

LEMMA BodyType == \A t : Body(t) \in SUBSET Model
BY DEF Body, MeansOf

(* The goal is the positive formula without the negative one. *)
LEMMA GoalStored ==
  ASSUME TInv, Stored
  PROVE  /\ pform \in Form
         /\ nform = <<>> => ReadsPos(Goal)
         /\ nform # <<>> => /\ \E P, N \in SUBSET Model :
                                 Goal = P \ N /\ ReadsPos(P) /\ ReadsNeg(N)
                            /\ Spaced(pform) /\ Spaced(nform[1])
                            /\ nform[1] \in Form
<1>1. given \subseteq Terms /\ pform \in Form /\ \A t \in given : t.neg \in BOOLEAN
  BY EntlAssumption DEF TInv, TypeOK
<1>2. ASSUME nform # <<>> PROVE nform[1] \in Form
  <2>1. Len(nform) = 1
    BY <1>2, LenNform DEF TInv
  <2>2. nform \in Seq(Form)
    BY DEF TInv, TypeOK
  <2> QED
    BY <2>1, <2>2
<1>3. CASE given = {}
  <2>1. nform = <<>> /\ ReadsPos(Model)
    BY <1>3 DEF Stored
  <2>2. Goal = Model
    BY <1>3 DEF Goal
  <2> QED
    BY <1>1, <2>1, <2>2
<1>4. CASE given # {}
  <2>1. PICK p \in given : ~p.neg
    BY <1>4 DEF Stored
  <2>2. ReadsPos(Body(p)) /\ Spaced(pform) /\ Meaning(p) = Body(p) /\ Body(p) \in SUBSET Model
    BY <1>1, <2>1, MeaningBody DEF Stored
  <2>3. \A t \in given : ~t.neg => t = p
    BY <1>1, <2>1 DEF Stored
  <2>4. CASE nform = <<>>
    <3>1. \A t \in given : t = p
      BY <1>1, <2>3, <2>4 DEF Stored
    <3>2. Goal = Meaning(p)
      BY <2>1, <2>2, <3>1 DEF Goal
    <3> QED
      BY <1>1, <2>2, <2>4, <3>2
  <2>5. CASE nform # <<>>
    <3>1. PICK q \in given : q.neg
      BY <2>5 DEF Stored
    <3>2. \A t \in given : t.neg => t = q
      BY <1>1, <3>1 DEF Stored
    <3>3. /\ ReadsNeg(Body(q)) /\ Spaced(nform[1]) /\ Meaning(q) = Model \ Body(q)
          /\ Body(q) \in SUBSET Model
      BY <1>1, <3>1, MeaningBody DEF Stored
    <3>4. Goal = Meaning(p) \intersect Meaning(q)
      <4>1. given = {p, q}
        BY <2>1, <2>3, <3>1, <3>2
      <4> QED
        BY <2>2, <4>1 DEF Goal
    <3>5. Goal = Body(p) \ Body(q)
      BY <2>2, <3>3, <3>4
    <3> QED
      BY <1>1, <1>2, <2>2, <2>5, <3>3, <3>5
  <2> QED
    BY <2>4, <2>5
<1> QED
  BY <1>3, <1>4

-----------------------------------------------------------------------------
(* Nothing is asserted at first. *)
LEMMA StoredInit == Init => Stored /\ Pipeline
<1> SUFFICES ASSUME Init PROVE Stored /\ Pipeline
  OBVIOUS
<1>1. ReadsPos(Model) /\ Pushable(pform)
  BY FormNewDenotes DEF Init, ReadsPos, Reads
<1> QED
  BY <1>1 DEF Init, Stored, Pipeline, Deciding

(* A term is asserted on a formula that has nothing of its sign yet.       *)
LEMMA StoredAssert ==
  ASSUME InputFormat, SInv, NEW t \in Terms, MayAssert(t), AssertPos(t) \/ AssertNeg(t)
  PROVE  Stored' /\ Pipeline'
<1>1. given \subseteq Terms /\ IsFiniteSet(given) /\ \A u \in Terms : u.neg \in BOOLEAN
  BY EntlAssumption DEF SInv, TInv
<1>2. \A u \in given : u.neg # t.neg
  <2> DEFINE S == {u \in given : u.neg = t.neg}
  <2>1. IsFiniteSet(S) /\ Cardinality(S) \in Nat
    <3>1. S \subseteq given
      OBVIOUS
    <3>2. IsFiniteSet(S)
      BY <1>1, <3>1, FS_Subset
    <3> QED
      BY <3>2, FS_CardinalityType
  <2>2. Cardinality(S) < MaxAsserts /\ MaxAsserts <= 1 /\ MaxAsserts \in Nat
    BY EntlAssumption DEF MayAssert, InputFormat
  <2> HIDE DEF S
  <2>3. Cardinality(S) = 0
    BY <2>1, <2>2
  <2>4. S = {}
    BY <2>1, <2>3, FS_EmptySet
  <2> QED
    BY <2>4 DEF S
<1>3. phase = "parse" /\ phase' = "parse" /\ given' = given \union {t}
  BY DEF AssertPos, AssertNeg
<1>4. Pipeline'
  BY <1>3 DEF Pipeline, Deciding
<1>5. CASE AssertPos(t)
  <2>1. ~t.neg /\ nform' = nform
    BY <1>5 DEF AssertPos
  <2>2. \A u \in given : u.neg
    BY <1>1, <1>2, <2>1
  <2>3. given = {} /\ ReadsPos(Model) /\ Pushable(pform) /\ pform \in Form
    BY <2>2 DEF SInv, Stored, TInv, TypeOK
  <2>4. nform = <<>> /\ given' = {t}
    BY <1>3, <2>3 DEF SInv, Stored
  <2>5. PICK r \in Push(pform, t.parts) :
               pform' = r[1] /\ broken' = broken \union Unless(~r[3], "posAtoms")
    BY <1>5 DEF AssertPos
  <2>6. /\ Denotes(pform) \intersect Body(t) \subseteq Denotes(r[1])
        /\ r[3] \/ Denotes(r[1]) \subseteq Body(t)
        /\ Spaced(r[1])
    BY <2>3, <2>5, PushTerm
  <2>7. "posModels" \notin broken' => Body(t) \subseteq Denotes(pform')
    <3>1. "posModels" \notin broken' => Model \subseteq Denotes(pform)
      BY <2>3, <2>5 DEF ReadsPos, Reads
    <3>2. Body(t) \subseteq Model
      BY BodyType
    <3> QED
      BY <2>5, <2>6, <3>1, <3>2
  <2>8. "posAtoms" \notin broken' => Denotes(pform') \subseteq Body(t)
    BY <2>5, <2>6 DEF Unless
  <2>9. (ReadsPos(Body(t)))'
    BY <2>7, <2>8 DEF ReadsPos, Reads
  <2>10. Spaced(pform')
    BY <2>5, <2>6
  <2> QED
    BY <1>4, <2>1, <2>4, <2>9, <2>10 DEF Stored
<1>6. CASE AssertNeg(t)
  <2>1. t.neg /\ pform' = pform /\ \E u \in given : ~u.neg
    BY <1>6 DEF AssertNeg, MayAssert
  <2>2. \A u \in given : ~u.neg
    BY <1>1, <1>2, <2>1
  <2>3. nform = <<>>
    BY <2>2 DEF SInv, Stored
  <2>4. PICK r \in Push(FormNew, t.parts) :
               nform' = <<r[1]>> /\ broken' = broken \union Unless(~r[3], "negAtoms")
    BY <1>6, <2>3 DEF AssertNeg, NformLast
  <2>5. /\ Body(t) \subseteq Denotes(r[1])
        /\ r[3] \/ Denotes(r[1]) \subseteq Body(t)
        /\ Spaced(r[1])
    BY <2>4, PushTerm, FormNewDenotes, BodyType
  <2>6. nform' # <<>> /\ nform'[1] = r[1]
    BY <2>4
  <2>7. \A u \in given' : u.neg => u = t
    BY <1>3, <2>2
  <2>8. \A u \in given' : ~u.neg => u \in given
    BY <1>3, <2>1
  <2>9. \A u \in given' : u.neg => nform' # <<>> /\ (ReadsNeg(Body(u)))' /\ Spaced(nform'[1])
    <3>1. (ReadsNeg(Body(t)))'
      <4>1. "negAtoms" \notin broken' => ~r[3]
        BY <2>4 DEF Unless
      <4> QED
        BY <2>5, <2>6, <4>1 DEF ReadsNeg, Reads
    <3> QED
      BY <2>5, <2>6, <2>7, <3>1
  <2>10. \A u \in given' : ~u.neg => (ReadsPos(Body(u)))' /\ Spaced(pform')
    <3>1. "posModels" \in broken' <=> "posModels" \in broken
      BY <2>4 DEF Unless
    <3>2. "posAtoms" \in broken' <=> "posAtoms" \in broken
      BY <2>4 DEF Unless
    <3>3. ASSUME NEW u \in given, ~u.neg PROVE (ReadsPos(Body(u)))' /\ Spaced(pform')
      <4>1. ReadsPos(Body(u)) /\ Spaced(pform)
        BY <3>3 DEF SInv, Stored
      <4> QED
        BY <2>1, <3>1, <3>2, <4>1 DEF ReadsPos, Reads
    <3> QED
      BY <2>8, <3>3
  <2>11. \A u, v \in given' : u.neg = v.neg => u = v
    BY <1>2, <1>3 DEF SInv, Stored
  <2>12. ~ \A u \in given' : u.neg
    BY <1>3, <2>1
  <2>13. \E u \in given' : u.neg
    BY <1>3, <2>1
  <2> QED
    BY <1>4, <2>9, <2>10, <2>11, <2>12, <2>13 DEF Stored
<1> QED
  BY <1>5, <1>6

(* Formulas that still stand for the same models are as good.              *)
LEMMA StoredKept ==
  ASSUME Stored, given' = given,
         \A M \in SUBSET Model : ReadsPos(M) => (ReadsPos(M))',
         Pushable(pform) => Pushable(pform'), Spaced(pform) => Spaced(pform'),
         nform = <<>> => nform' = <<>>,
         nform # <<>> => /\ nform' # <<>>
                         /\ \A M \in SUBSET Model : ReadsNeg(M) => (ReadsNeg(M))'
                         /\ Spaced(nform[1]) => Spaced(nform'[1])
  PROVE  Stored' /\ Goal' = Goal
<1>1. Goal' = Goal
  BY DEF Goal
<1>2. (\A t \in given : ~t.neg => ReadsPos(Body(t)) /\ Spaced(pform))'
  <2>1. \A t \in given : ~t.neg => (ReadsPos(Body(t)))' /\ Spaced(pform')
    BY BodyType DEF Stored
  <2> QED
    BY <2>1
<1>3. (\A t \in given : t.neg => nform # <<>> /\ ReadsNeg(Body(t)) /\ Spaced(nform[1]))'
  <2>1. \A t \in given : t.neg => nform' # <<>> /\ (ReadsNeg(Body(t)))' /\ Spaced(nform'[1])
    BY BodyType DEF Stored
  <2> QED
    BY <2>1
<1>4. ((\A t \in given : t.neg) => given = {} /\ ReadsPos(Model) /\ Pushable(pform))'
  <2>1. (\A t \in given : t.neg) => given = {} /\ (ReadsPos(Model))' /\ Pushable(pform')
    BY DEF Stored
  <2> QED
    BY <2>1
<1> QED
  BY <1>1, <1>2, <1>3, <1>4 DEF Stored

(* What a step after an assert leaves alone. *)
Keeps == given' = given /\ pform' = pform /\ nform' = nform

LEMMA StoredSame ==
  ASSUME Stored, Keeps,
         \A q \in {"posModels", "posAtoms", "negModels", "negAtoms"} : q \in broken' <=> q \in broken
  PROVE  Stored' /\ Goal' = Goal
<1>1. \A M : (ReadsPos(M) => (ReadsPos(M))') /\ (ReadsNeg(M) => (ReadsNeg(M))')
  BY DEF Keeps, ReadsPos, ReadsNeg, Reads
<1> QED
  BY <1>1, StoredKept DEF Keeps

(* The decision after the normalisation, and the one by the search. *)
LEMMA SpecialDecides ==
  ASSUME SInv, nform # <<>>
  PROVE  /\ Decides(SolveSpecial(TRUE))
         /\ "posUnsat" \in broken \/ FindsUnsat(pform) => Decides(SolveSpecial(FALSE))
         /\ SolveSpecial(TRUE) \in {-1, 0} /\ SolveSpecial(FALSE) \in {-1, 0, 1}
<1>1. /\ Spaced(pform) /\ Spaced(nform[1]) /\ pform \in Form /\ nform[1] \in Form
      /\ \E P, N \in SUBSET Model : Goal = P \ N /\ ReadsPos(P) /\ ReadsNeg(N)
  BY GoalStored DEF SInv
<1>2. PICK P, N \in SUBSET Model : Goal = P \ N /\ ReadsPos(P) /\ ReadsNeg(N)
  BY <1>1
<1>3. DOMAIN nform = {1}
  <2>1. nform = <<nform[1]>>
    BY LenNform DEF SInv, TInv
  <2> QED
    BY <2>1
<1>4. ~SomeValid
  BY <1>1, <1>3 DEF SomeValid, Spaced
<1>5. AllUnsat => Denotes(nform[1]) = {}
  BY <1>3 DEF AllUnsat, Denotes
<1>6. pform.kind = "unsat" => Denotes(pform) = {}
  BY DEF Denotes
<1>7. pform.kind = "unsat" => Decides(0)
  BY <1>2, <1>6 DEF Decides, RestsOn, ReadsPos, Reads
<1>8. AllUnsat /\ pform.kind # "unsat" /\ ("posUnsat" \in broken \/ FindsUnsat(pform)) => Decides(1)
  <2> SUFFICES ASSUME AllUnsat, pform.kind # "unsat", FindsUnsat(pform),
                      RestsOn("sat") \intersect broken = {}
               PROVE  Goal # {}
    BY DEF Decides, RestsOn
  <2>1. "posAtoms" \notin broken /\ "negModels" \notin broken
    BY DEF RestsOn
  <2>2. Denotes(pform) # {} /\ Denotes(pform) \subseteq P
    BY <1>2, <2>1 DEF FindsUnsat, ReadsPos, Reads
  <2>3. N = {}
    BY <1>2, <1>5, <2>1 DEF ReadsNeg, Reads
  <2> QED
    BY <1>2, <2>2, <2>3
<1>9. Decides(-1)
  BY DEF Decides
<1> QED
  BY <1>4, <1>7, <1>8, <1>9 DEF SolveSpecial

(* A formula with a spatial part has the graph of its models. *)
LEMMA HomDecides ==
  ASSUME SInv, EInv, Hom
  PROVE  /\ phase' = "end" /\ (Decides(res))'
         /\ Stored' /\ Goal' = Goal /\ answer' = answer
<1>1. phase = "hom" /\ step <= Len(nform) /\ nform # <<>>
  BY DEF Hom, SInv, Pipeline, Deciding
<1>2. Len(nform) = 1 /\ step = 1
  <2>1. Len(nform) = 1
    BY <1>1, LenNform DEF SInv, TInv
  <2> QED
    BY <1>1, <2>1 DEF EInv
<1>3. /\ Spaced(pform) /\ Spaced(nform[1]) /\ pform \in Form /\ nform[1] \in Form
      /\ \E P, N \in SUBSET Model : Goal = P \ N /\ ReadsPos(P) /\ ReadsNeg(N)
  BY <1>1, GoalStored DEF SInv
<1>4. PICK P, N \in SUBSET Model : Goal = P \ N /\ ReadsPos(P) /\ ReadsNeg(N)
  BY <1>3
<1>5. pform.kind # "unsat" /\ nform[1].kind # "unsat"
  <2>1. 1 \in DOMAIN nform
    BY <1>2
  <2> QED
    BY <1>1, <2>1 DEF EInv, Satisfiable
<1>6. GraphDenotes(pform) = Denotes(pform) /\ GraphDenotes(nform[1]) = Denotes(nform[1])
  BY <1>3, <1>5 DEF GraphDenotes, Denotes, Spaced
<1>7. PICK r \in HomResult :
        /\ broken' = broken \union Unless(r = 1 => Entails(step), "hom")
                            \union Unless(r = 0 => ~Entails(step), "noHom")
        /\ IF r = 1 \/ step = Len(nform)
           THEN res' = ResultOfHom(r) /\ aux' = aux \union {"hom"} /\ phase' = "end" /\ step' = 1
           ELSE step' = step + 1 /\ UNCHANGED <<res, aux, phase>>
  BY DEF Hom
<1>8. res' = ResultOfHom(r) /\ phase' = "end" /\ r \in {-1, 0, 1}
  BY <1>2, <1>7 DEF HomResult
<1>9. Keeps /\ answer' = answer
  BY DEF Hom, Keeps
<1>10. \A q \in {"posModels", "posAtoms", "negModels", "negAtoms"} : q \in broken' <=> q \in broken
  BY <1>7 DEF Unless
<1>11. Stored' /\ Goal' = Goal
  BY <1>9, <1>10, StoredSame DEF SInv
<1>12. Entails(1) <=> Denotes(pform) \subseteq Denotes(nform[1])
  BY <1>6 DEF Entails
<1>13. res' = 1 /\ RestsOn("sat") \intersect broken' = {} => Goal # {}
  <2> SUFFICES ASSUME res' = 1, RestsOn("sat") \intersect broken' = {} PROVE Goal # {}
    OBVIOUS
  <2>1. r = 0
    BY <1>8 DEF ResultOfHom
  <2>2. {"posAtoms", "negModels", "noHom"} \intersect broken' = {}
    BY DEF RestsOn
  <2>3. ~Entails(1)
    BY <1>2, <1>7, <2>1, <2>2 DEF Unless
  <2>4. Denotes(pform) \subseteq P /\ N \subseteq Denotes(nform[1])
    BY <1>4, <1>10, <2>2 DEF ReadsPos, ReadsNeg, Reads
  <2> QED
    BY <1>4, <1>12, <2>3, <2>4
<1>14. res' = 0 /\ RestsOn("unsat") \intersect broken' = {} => Goal = {}
  <2> SUFFICES ASSUME res' = 0, RestsOn("unsat") \intersect broken' = {} PROVE Goal = {}
    OBVIOUS
  <2>1. r = 1
    BY <1>8 DEF ResultOfHom
  <2>2. {"negAtoms", "posModels", "hom"} \intersect broken' = {}
    BY DEF RestsOn
  <2>3. Entails(1)
    BY <1>2, <1>7, <2>1, <2>2 DEF Unless
  <2>4. P \subseteq Denotes(pform) /\ Denotes(nform[1]) \subseteq N
    BY <1>4, <1>10, <2>2 DEF ReadsPos, ReadsNeg, Reads
  <2> QED
    BY <1>4, <1>12, <2>3, <2>4
<1>15. (Decides(res))'
  BY <1>11, <1>13, <1>14 DEF Decides, RestsOn
<1> QED
  BY <1>8, <1>9, <1>11, <1>15

-----------------------------------------------------------------------------
(* A command: the formulas keep what they hold, and the answer is allowed. *)
Allowed == [V!Next]_(V!vars)

LEMMA Silent ==
  ASSUME Goal' = Goal, answer' = answer, broken' = broken \/ answer = "none"
  PROVE  Allowed
<1>1. Trusted' = Trusted
  <2>1. CASE broken' = broken
    BY <2>1 DEF Trusted, RestsOn
  <2>2. CASE answer = "none"
    BY <2>2 DEF Trusted, RestsOn
  <2> QED
    BY <2>1, <2>2
<1> QED
  BY <1>1 DEF Allowed, V!vars

LEMMA Answered ==
  ASSUME Goal' = Goal, NEW r \in {-1, 0, 1}, (Decides(r))', answer' = Status(r)
  PROVE  Allowed
<1>1. answer' \in {"sat", "unsat", "unknown"}
  BY DEF Status
<1>2. Trusted' \in {"sat", "unsat", "unknown"}
  BY <1>1 DEF Trusted
<1>3. Trusted' = "sat" => r = 1 /\ RestsOn("sat") \intersect broken' = {}
  BY DEF Trusted, Status, RestsOn
<1>4. Trusted' = "unsat" => r = 0 /\ RestsOn("unsat") \intersect broken' = {}
  BY DEF Trusted, Status, RestsOn
<1>5. (Trusted' = "sat" => Goal # {}) /\ (Trusted' = "unsat" => Goal = {})
  BY <1>3, <1>4 DEF Decides, RestsOn
<1>6. V!CheckSat
  BY <1>2, <1>5 DEF V!CheckSat
<1> QED
  BY <1>6 DEF Allowed, V!Next

LEMMA AssertRefines ==
  ASSUME SInv, NEW t \in Terms, AssertPos(t) \/ AssertNeg(t)
  PROVE  Allowed
<1>1. given' = given \union {t} /\ answer' = "none"
  BY DEF AssertPos, AssertNeg
<1>2. Goal' = Goal \intersect Meaning(t)
  BY <1>1 DEF Goal
<1>3. Meaning(t) \in SUBSET Model
  BY MeaningBody
<1>4. Trusted' = "none"
  BY <1>1 DEF Trusted, RestsOn
<1>5. V!Assert(Meaning(t))
  BY <1>2, <1>4 DEF V!Assert
<1> QED
  BY <1>3, <1>5 DEF Allowed, V!Next

(* A check starts: the last answer is none of this one. *)
LEMMA StoredStarts ==
  ASSUME SInv, CheckStarts
  PROVE  Stored' /\ Pipeline' /\ Allowed
<1>1. Keeps /\ answer' = "none" /\ broken' = broken \ {"posUnsat", "hom", "noHom"}
  BY DEF CheckStarts, Keeps
<1>2. Stored' /\ Goal' = Goal
  BY <1>1, StoredSame DEF SInv
<1>3. phase' = IF nform = <<>> THEN "sat" ELSE "special"
  BY DEF CheckStarts
<1>4. Pipeline'
  BY <1>1, <1>3 DEF Pipeline, Keeps, Deciding
<1>5. Trusted' = "none"
  BY <1>1 DEF Trusted, RestsOn
<1>6. Goal' = Goal \intersect Model
  BY <1>2 DEF Goal
<1>7. V!Assert(Model)
  BY <1>5, <1>6 DEF V!Assert
<1>8. Allowed
  BY <1>7 DEF Allowed, V!Next
<1> QED
  BY <1>2, <1>4, <1>8

LEMMA StoredStops ==
  ASSUME SInv, CheckStops \/ Fails \/ UNCHANGED vars
  PROVE  Stored' /\ Pipeline' /\ Allowed
<1>1. Keeps /\ answer' = answer /\ broken' = broken
  BY DEF CheckStops, Fails, vars, Keeps
<1>2. Stored' /\ Goal' = Goal
  BY <1>1, StoredSame DEF SInv
<1>3. Allowed
  BY <1>1, <1>2, Silent
<1>4. CASE CheckStops \/ Fails
  <2>1. phase' = "exited"
    BY <1>4 DEF CheckStops, Fails
  <2> QED
    BY <1>2, <1>3, <2>1 DEF Pipeline, Deciding
<1>5. CASE UNCHANGED vars
  <2>1. phase' = phase /\ res' = res
    BY <1>5 DEF vars
  <2>2. Pipeline
    BY DEF SInv
  <2> QED
    BY <1>1, <1>2, <1>3, <2>1, <2>2 DEF Pipeline, Keeps, Deciding, Decides, RestsOn, FindsUnsat
<1> QED
  BY <1>4, <1>5

LEMMA StoredSat ==
  ASSUME SInv, SatSolve
  PROVE  Stored' /\ Pipeline' /\ Allowed
<1>1. /\ phase = "sat" /\ pform' \in Normalized(pform) /\ phase' = "parse"
      /\ answer' = Status(IF pform'.kind = "unsat" THEN 0 ELSE 1)
      /\ given' = given /\ nform' = nform
      /\ broken' = broken \union Unless(KeepsModels(pform, pform'), "posModels")
                          \union Unless(FindsUnsat(pform'), "posUnsat")
  BY DEF SatSolve, Respond
<1>2. nform = <<>> /\ pform \in Form /\ ReadsPos(Goal)
  BY <1>1, GoalStored DEF SInv, Pipeline
<1>3. /\ Denotes(pform') \subseteq Denotes(pform)
      /\ (Spaced(pform) => Spaced(pform')) /\ (Pushable(pform) => Pushable(pform'))
  BY <1>1, <1>2, Normalizes
<1>4. \A M : ReadsPos(M) => (ReadsPos(M))'
  <2>1. "posModels" \notin broken' => "posModels" \notin broken /\ Denotes(pform) \subseteq Denotes(pform')
    BY <1>1 DEF Unless, KeepsModels
  <2>2. "posAtoms" \notin broken' => "posAtoms" \notin broken
    BY <1>1
  <2> QED
    BY <1>3, <2>1, <2>2 DEF ReadsPos, Reads
<1>5. Stored' /\ Goal' = Goal
  BY <1>1, <1>2, <1>3, <1>4, StoredKept DEF SInv
<1>6. Pipeline'
  BY <1>1 DEF Pipeline, Deciding
<1>7. "posModels" \in broken' \/ Goal \subseteq Denotes(pform')
  BY <1>2, <1>4 DEF ReadsPos, Reads
<1>8. "posAtoms" \in broken' \/ Denotes(pform') \subseteq Goal
  BY <1>2, <1>4 DEF ReadsPos, Reads
<1>9. CASE pform'.kind = "unsat"
  <2>1. answer' = Status(0) /\ Denotes(pform') = {}
    BY <1>1, <1>9 DEF Denotes
  <2>2. (Decides(0))'
    BY <1>5, <1>7, <2>1 DEF Decides, RestsOn
  <2>3. Allowed
    BY <1>5, <2>1, <2>2, Answered
  <2> QED
    BY <1>5, <1>6, <2>3
<1>10. CASE pform'.kind # "unsat"
  <2>1. answer' = Status(1)
    BY <1>1, <1>10
  <2>2. "posUnsat" \in broken' \/ Denotes(pform') # {}
    BY <1>1, <1>10 DEF Unless, FindsUnsat
  <2>3. (Decides(1))'
    BY <1>5, <1>8, <2>2 DEF Decides, RestsOn
  <2>4. Allowed
    BY <1>5, <2>1, <2>3, Answered
  <2> QED
    BY <1>5, <1>6, <2>4
<1> QED
  BY <1>9, <1>10

LEMMA StoredNormalize ==
  ASSUME SInv, EInv, NormalizePos \/ NormalizeNeg
  PROVE  Stored' /\ Pipeline' /\ Allowed
<1>1. CASE NormalizePos
  <2>1. /\ phase = "normalize" /\ phase' = "normalizeNeg" /\ pform' \in Normalized(pform)
        /\ nform' = nform /\ given' = given /\ answer' = answer
        /\ broken' = broken \union Unless(KeepsModels(pform, pform'), "posModels")
                            \union Unless(FindsUnsat(pform'), "posUnsat")
    BY <1>1 DEF NormalizePos
  <2>2. nform # <<>> /\ answer = "none" /\ pform \in Form
    BY <2>1, GoalStored DEF SInv, Pipeline, Deciding
  <2>3. /\ Denotes(pform') \subseteq Denotes(pform)
        /\ (Spaced(pform) => Spaced(pform')) /\ (Pushable(pform) => Pushable(pform'))
    BY <2>1, <2>2, Normalizes
  <2>4. \A M : (ReadsPos(M) => (ReadsPos(M))') /\ (ReadsNeg(M) => (ReadsNeg(M))')
    <3>1. "posModels" \notin broken' =>
            "posModels" \notin broken /\ Denotes(pform) \subseteq Denotes(pform')
      BY <2>1 DEF Unless, KeepsModels
    <3>2. \A q \in {"posAtoms", "negAtoms", "negModels"} : q \in broken' <=> q \in broken
      BY <2>1 DEF Unless
    <3> QED
      BY <2>1, <2>3, <3>1, <3>2 DEF ReadsPos, ReadsNeg, Reads
  <2>5. Stored' /\ Goal' = Goal
    BY <2>1, <2>3, <2>4, StoredKept DEF SInv
  <2>6. "posUnsat" \in broken' \/ FindsUnsat(pform')
    BY <2>1 DEF Unless
  <2>7. Pipeline'
    BY <2>1, <2>2, <2>6 DEF Pipeline, Deciding
  <2> QED
    BY <2>1, <2>2, <2>5, <2>7, Silent
<1>2. CASE NormalizeNeg
  <2>1. /\ phase = "normalizeNeg" /\ phase' \in {"normalizeNeg", "special2"} /\ pform' = pform
        /\ given' = given /\ answer' = answer
    BY <1>2 DEF NormalizeNeg
  <2>2. nform # <<>> /\ answer = "none" /\ ("posUnsat" \in broken \/ FindsUnsat(pform))
    BY <2>1 DEF SInv, Pipeline, Deciding
  <2>3. Len(nform) = 1 /\ nform = <<nform[1]>> /\ nform[1] \in Form
    BY <2>2, LenNform, GoalStored DEF SInv, TInv
  <2>4. /\ nform' # <<>>
        /\ Denotes(nform'[1]) \subseteq Denotes(nform[1])
        /\ Spaced(nform[1]) => Spaced(nform'[1])
        /\ "negModels" \notin broken' =>
             "negModels" \notin broken /\ Denotes(nform[1]) \subseteq Denotes(nform'[1])
        /\ \A q \in {"posModels", "posAtoms", "negAtoms", "posUnsat"} : q \in broken' <=> q \in broken
    <3>1. CASE step <= Len(nform)
      <4>1. step = 1
        BY <2>3, <3>1 DEF EInv
      <4>2. PICK f \in Normalized(nform[1]) :
              /\ nform' = [nform EXCEPT ![1] = f]
              /\ broken' = broken \union Unless(KeepsModels(nform[1], f), "negModels")
        BY <1>2, <3>1, <4>1 DEF NormalizeNeg
      <4>3. nform' = <<f>>
        BY <2>3, <4>2
      <4>4. nform' # <<>> /\ nform'[1] = f
        BY <4>3
      <4>5. Denotes(f) \subseteq Denotes(nform[1]) /\ (Spaced(nform[1]) => Spaced(f))
        BY <2>3, Normalizes
      <4> QED
        BY <4>2, <4>4, <4>5 DEF Unless, KeepsModels
    <3>2. CASE ~(step <= Len(nform))
      BY <1>2, <2>2, <3>2 DEF NormalizeNeg
    <3> QED
      BY <3>1, <3>2
  <2>5. \A M : (ReadsPos(M) => (ReadsPos(M))') /\ (ReadsNeg(M) => (ReadsNeg(M))')
    BY <2>1, <2>4 DEF ReadsPos, ReadsNeg, Reads
  <2>6. Stored' /\ Goal' = Goal
    BY <2>1, <2>2, <2>4, <2>5, StoredKept DEF SInv
  <2>7. "posUnsat" \in broken' \/ FindsUnsat(pform')
    BY <2>1, <2>2, <2>4
  <2>8. Pipeline'
    BY <2>1, <2>2, <2>4, <2>7 DEF Pipeline, Deciding
  <2> QED
    BY <2>1, <2>2, <2>6, <2>8, Silent
<1> QED
  BY <1>1, <1>2

LEMMA StoredSolve ==
  ASSUME SInv, EInv, Special \/ Special2 \/ GraphPos \/ GraphNeg \/ Hom \/ End
  PROVE  Stored' /\ Pipeline' /\ Allowed
<1>1. CASE Hom
  <2>1. phase = "hom" /\ answer = "none"
    BY <1>1 DEF Hom, SInv, Pipeline, Deciding
  <2>2. phase' = "end" /\ (Decides(res))' /\ Stored' /\ Goal' = Goal /\ answer' = answer
    BY <1>1, HomDecides
  <2>3. Pipeline'
    BY <2>1, <2>2 DEF Pipeline, Deciding
  <2> QED
    BY <2>1, <2>2, <2>3, Silent
<1>2. ASSUME ~Hom
      PROVE  Keeps /\ broken' = broken
  BY <1>2 DEF Special, Special2, GraphPos, GraphNeg, End, Keeps
<1>3. ASSUME ~Hom
      PROVE  /\ Stored' /\ Goal' = Goal
             /\ \A r : Decides(r) => (Decides(r))'
             /\ "posUnsat" \in broken \/ FindsUnsat(pform) =>
                  "posUnsat" \in broken' \/ FindsUnsat(pform')
  <2>1. Stored' /\ Goal' = Goal
    BY <1>2, <1>3, StoredSame DEF SInv
  <2>2. \A r : Decides(r) => (Decides(r))'
    BY <1>2, <1>3, <2>1 DEF Decides, RestsOn
  <2> QED
    BY <1>2, <1>3, <2>1, <2>2 DEF Keeps
<1>4. CASE Special /\ ~Hom
  <2>1. /\ phase = "special" /\ nform # <<>> /\ answer = "none"
        /\ phase' \in {"normalize", "parse"} /\ (phase' = "normalize" => answer' = answer)
    BY <1>4 DEF Special, Respond, SInv, Pipeline, Deciding
  <2>2. Pipeline'
    BY <1>2, <1>4, <2>1 DEF Pipeline, Keeps, Deciding
  <2>3. Decides(SolveSpecial(TRUE)) /\ SolveSpecial(TRUE) \in {-1, 0}
    BY <2>1, SpecialDecides
  <2>4. answer' = answer \/ answer' = Status(SolveSpecial(TRUE))
    BY <1>4 DEF Special, Respond
  <2>5. PICK r \in {-1, 0, 1} : r = SolveSpecial(TRUE)
    BY <2>3
  <2>6. (Decides(r))'
    BY <1>3, <1>4, <2>3, <2>5
  <2>7. Allowed
    BY <1>2, <1>3, <1>4, <2>4, <2>5, <2>6, Silent, Answered
  <2> QED
    BY <1>3, <1>4, <2>2, <2>7
<1>5. CASE Special2 /\ ~Hom
  <2>1. phase = "special2" /\ nform # <<>> /\ answer = "none"
        /\ ("posUnsat" \in broken \/ FindsUnsat(pform))
    BY <1>5 DEF Special2, SInv, Pipeline, Deciding
  <2>2. PICK r : r = SolveSpecial(FALSE)
    OBVIOUS
  <2>3. (Decides(r))' /\ res' = r
    <3>1. res' = SolveSpecial(FALSE)
      BY <1>5 DEF Special2
    <3>2. Decides(r)
      BY <2>1, <2>2, SpecialDecides
    <3> QED
      BY <1>3, <1>5, <2>2, <3>1, <3>2
  <2>4. (Decides(res))'
    BY <2>3 DEF Decides
  <2>5. phase' \in {"graph", "end"} /\ answer' = answer
    BY <1>5 DEF Special2
  <2>6. Pipeline'
    BY <1>2, <1>3, <1>5, <2>1, <2>4, <2>5 DEF Pipeline, Keeps, Deciding
  <2> QED
    BY <1>2, <1>3, <1>5, <2>5, <2>6, Silent
<1>6. CASE (GraphPos \/ GraphNeg) /\ ~Hom
  <2>1. phase \in {"graph", "graphNeg"} /\ phase' \in {"graphNeg", "hom"} /\ answer' = answer
    BY <1>6 DEF GraphPos, GraphNeg
  <2>2. nform # <<>> /\ answer = "none" /\ ("posUnsat" \in broken \/ FindsUnsat(pform))
    BY <2>1 DEF SInv, Pipeline, Deciding
  <2>3. Pipeline'
    BY <1>2, <1>3, <1>6, <2>1, <2>2 DEF Pipeline, Keeps, Deciding
  <2> QED
    BY <1>2, <1>3, <1>6, <2>1, <2>3, Silent
<1>7. CASE End /\ ~Hom
  <2>1. phase = "end" /\ phase' = "parse" /\ answer' = Status(res)
    BY <1>7 DEF End, Respond
  <2>2. Decides(res) /\ res \in {-1, 0, 1}
    BY <2>1 DEF SInv, Pipeline, TInv, TypeOK
  <2>3. PICK r \in {-1, 0, 1} : r = res
    BY <2>2
  <2>4. (Decides(r))'
    BY <1>3, <1>7, <2>2, <2>3
  <2>5. Pipeline'
    BY <2>1 DEF Pipeline, Deciding
  <2>6. Allowed
    BY <1>3, <1>7, <2>1, <2>3, <2>4, Answered
  <2> QED
    BY <1>3, <1>7, <2>5, <2>6
<1> QED
  BY <1>1, <1>4, <1>5, <1>6, <1>7

LEMMA SessionStep ==
  ASSUME InputFormat, SInv, EInv, [Next]_vars
  PROVE  SInv' /\ Allowed
<1>1. TInv'
  BY TypesAssert, TypesCheck DEF Next, Exited, SInv
<1>2. ASSUME NEW t \in Terms, MayAssert(t), AssertPos(t) \/ AssertNeg(t)
      PROVE  Stored' /\ Pipeline' /\ Allowed
  BY <1>2, StoredAssert, AssertRefines
<1>3. ASSUME CheckStops \/ CheckStarts \/ Fails \/ UNCHANGED vars
      PROVE  Stored' /\ Pipeline' /\ Allowed
  BY <1>3, StoredStarts, StoredStops
<1>4. ASSUME Solving
      PROVE  Stored' /\ Pipeline' /\ Allowed
  BY <1>4, StoredSat, StoredNormalize, StoredSolve DEF Solving
<1>5. Stored' /\ Pipeline' /\ Allowed
  BY <1>2, <1>3, <1>4 DEF Next, Exited
<1> QED
  BY <1>1, <1>5 DEF SInv

(* Every answer is one that NollVerdict allows, or rests on a promise that *)
(* was not kept: "sat" only when what was asserted has a model, "unsat"    *)
(* only when it has none, whatever the normalisation and the search do,    *)
(* whatever the models, the terms of the format and the order of the       *)
(* commands (noll_entl_solve, noll_sat_solve).                             *)
THEOREM VerdictRefined == InputFormat => (Spec => Refines)
<1> SUFFICES ASSUME InputFormat
             PROVE  Spec => Refines
  OBVIOUS
<1>1. Init => SInv
  BY TypesInit, StoredInit DEF SInv
<1>2. Init => V!Init
  <2>1. ASSUME Init PROVE Goal = Model /\ Trusted = "none"
    BY <2>1 DEF Init, Goal, Trusted, RestsOn
  <2> QED
    BY <2>1 DEF V!Init
<1>3. SInv /\ EInv /\ [Next]_vars => SInv'
  BY SessionStep
<1>4. SInv /\ EInv /\ [Next]_vars => [V!Next]_(V!vars)
  BY SessionStep DEF Allowed
<1>5. Spec => [](SInv /\ EInv)
  BY <1>1, <1>3, EntlInvariance, PTL DEF Spec
<1> QED
  BY <1>2, <1>4, <1>5, PTL DEF Spec, Refines
=============================================================================
