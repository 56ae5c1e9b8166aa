--------------------------- MODULE NollHom_proofs ---------------------------
(***************************************************************************)
(* What MCHom checks on small formulas, for every formula that has a heap: *)
(*   HomTypes         the graphs, the node map and the marks are well      *)
(*                    formed,                                              *)
(*   HomSeparated     an edge of the left side stays with the edge of the  *)
(*                    right side it was given to,                          *)
(*   HomSound         what is found is an entailment, when what the        *)
(*                    predicate edges were given are unfoldings of them;   *)
(* and, of the segments that the formulas speak of,                        *)
(*   SegmentsUnfold, SegmentsUnique   they are the only ones that their    *)
(*                    rules unfold to,                                     *)
(*   SegmentsCompose  two in a row are one when the second does not end    *)
(*                    inside the first.                                    *)
(* noll_shom_build_pto marks an edge without a look at the mark it had, so *)
(* HomSeparated is a fact about the graphs: two points-to atoms of a       *)
(* normal form start from different locations in each of its heaps, so a   *)
(* difference edge joins their sources, and the map keeps it.              *)
(***************************************************************************)
EXTENDS NollHom, NollInduction, SequenceTheorems, TLAPS

-----------------------------------------------------------------------------
(* Heaps and normal forms.                                                 *)

LEMMA VarFacts == 0 \in Var /\ Var \subseteq Nat /\ IsFiniteSet(Var)
BY SizeAssumption, FS_Interval DEF Var

LEMMA SpaceTypes ==
  ASSUME NEW sp \in Spaces
  PROVE  sp \in Seq(Range(sp)) /\ \A i \in DOMAIN sp : AtomOK(sp[i])
BY HomAssumption

LEMMA StackTypes ==
  ASSUME NEW s \in Stack
  PROVE  s \in [Var -> Location] /\ s[0] = 0
BY DEF Stack, Interpretation

LEMMA HeapTypes ==
  ASSUME NEW h \in Heap
  PROVE  DOMAIN h \subseteq Location /\ 0 \notin DOMAIN h
BY DEF Heap

LEMMA ModelHolds ==
  ASSUME NEW sp \in Spaces, NEW m \in ModelsOf(sp)
  PROVE  /\ m[1] \in Stack /\ m[2] \in Heap /\ m = <<m[1], m[2]>>
         /\ SepHolds(sp, m[1], m[2], DOMAIN m[2], Segments(m[2]))
<1>1. PICK e \in {d \in SpaceModels : d[1] = sp} : m \in e[2]
  BY DEF ModelsOf
<1>2. PICK sq \in Spaces :
         e = <<sq, {<<w[1], w[2][1]>> : w \in {n \in Stack \X HeapSegments :
                     SepHolds(sq, n[1], n[2][1], DOMAIN n[2][1], n[2][2])}}>>
  BY <1>1 DEF SpaceModels
<1>3. sq = sp
  BY <1>1, <1>2
<1>4. PICK w \in Stack \X HeapSegments :
         /\ SepHolds(sp, w[1], w[2][1], DOMAIN w[2][1], w[2][2])
         /\ m = <<w[1], w[2][1]>>
  BY <1>1, <1>2, <1>3
<1>5. PICK h \in Heap : w[2] = <<h, Segments(h)>>
  BY <1>4 DEF HeapSegments
<1>6. w[1] \in Stack /\ w[2][1] = h /\ w[2][2] = Segments(h) /\ m[1] = w[1] /\ m[2] = h
  BY <1>4, <1>5
<1> QED
  BY <1>4, <1>6

LEMMA HoldsModel ==
  ASSUME NEW sp \in Spaces, NEW s \in Stack, NEW h \in Heap,
         SepHolds(sp, s, h, DOMAIN h, Segments(h))
  PROVE  <<s, h>> \in ModelsOf(sp)
<1> DEFINE holds(q) == {n \in Stack \X HeapSegments : SepHolds(q, n[1], n[2][1], DOMAIN n[2][1], n[2][2])}
           models(q) == {<<m[1], m[2][1]>> : m \in holds(q)}
           w == <<s, <<h, Segments(h)>>>>
<1>1. w \in Stack \X HeapSegments
  BY DEF HeapSegments
<1>2. w \in holds(sp)
  BY <1>1
<1>3. <<s, h>> \in models(sp)
  <2>1. w[1] = s /\ w[2][1] = h
    OBVIOUS
  <2> HIDE DEF holds, w
  <2> QED
    BY <1>2, <2>1
<1>4. SpaceModels = {<<q, models(q)>> : q \in Spaces}
  BY DEF SpaceModels
<1> HIDE DEF models
<1>5. <<sp, models(sp)>> \in SpaceModels
  BY <1>4
<1> DEFINE e == <<sp, models(sp)>>
<1>6. e \in {d \in SpaceModels : d[1] = sp} /\ e[2] = models(sp)
  BY <1>5
<1> HIDE DEF e
<1> QED
  BY <1>3, <1>6 DEF ModelsOf

(* The heaps of a normal form: there is one, and the matrix says what all  *)
(* of them say.                                                            *)
Normal(f, ms) ==
  /\ ms # {} /\ ms \subseteq ModelsOf(f.space) /\ f.space \in Spaces
  /\ f.pure \in [Cell -> Op]
  /\ \A x \in Cell : /\ f.pure[x] = "eq" <=> \A m \in ms : m[1][x[1]] = m[1][x[2]]
                     /\ f.pure[x] = "neq" <=> \A m \in ms : m[1][x[1]] # m[1][x[2]]

LEMMA NormalFormsHaveHeaps ==
  ASSUME NEW f \in NormalForms(Pures)
  PROVE  \E ms : Normal(f, ms)
<1> DEFINE of(pure, sp) == {m \in ModelsOf(sp) : Satisfies(m[1], pure)}
<1>1. PICK c \in Pures \X Spaces : of(c[1], c[2]) # {} /\ f = NormalForm(c[2], of(c[1], c[2]))
  BY DEF NormalForms
<1> DEFINE ms == of(c[1], c[2])
<1>2. ms # {} /\ ms \subseteq ModelsOf(c[2]) /\ c[2] \in Spaces
  BY <1>1
<1> HIDE DEF ms
<1>3. /\ f.space = c[2]
      /\ f.pure = [x \in Cell |-> IF \A m \in ms : m[1][x[1]] = m[1][x[2]] THEN "eq"
                                  ELSE IF \A m \in ms : m[1][x[1]] # m[1][x[2]] THEN "neq"
                                  ELSE "other"]
  BY <1>1 DEF NormalForm, ms
<1>4. f.pure \in [Cell -> Op]
  BY <1>3 DEF Op
<1>5. ASSUME NEW x \in Cell
      PROVE  /\ f.pure[x] = "eq" <=> \A m \in ms : m[1][x[1]] = m[1][x[2]]
             /\ f.pure[x] = "neq" <=> \A m \in ms : m[1][x[1]] # m[1][x[2]]
  <2>1. ~ ((\A m \in ms : m[1][x[1]] = m[1][x[2]]) /\ (\A m \in ms : m[1][x[1]] # m[1][x[2]]))
    BY <1>2
  <2>2. f.pure[x] = IF \A m \in ms : m[1][x[1]] = m[1][x[2]] THEN "eq"
                    ELSE IF \A m \in ms : m[1][x[1]] # m[1][x[2]] THEN "neq"
                    ELSE "other"
    BY <1>3
  <2> QED
    BY <2>1, <2>2
<1> QED
  BY <1>2, <1>3, <1>4, <1>5 DEF Normal

(* A segment is empty exactly when its ends are equal, and otherwise       *)
(* allocates its first argument.                                           *)
SegOK(c) == \/ c[2][1] = c[2][2] /\ c[3] = {}
            \/ c[2][1] # c[2][2] /\ c[2][1] \in c[3]

LEMMA CandidateTypes ==
  ASSUME NEW h, NEW c \in Candidates(h)
  PROVE  /\ c[1] \in DOMAIN Preds /\ c[2] \in [1 .. Preds[c[1]].fargs -> Location]
         /\ c[3] \subseteq DOMAIN h
<1>1. PICK pid \in DOMAIN Preds :
         c \in {<<pid, vals, D>> : vals \in [1 .. Preds[pid].fargs -> Location], D \in SUBSET (DOMAIN h)}
  BY DEF Candidates
<1> QED
  BY <1>1

(* The values of the parameters in a rule. *)
LEMMA ParameterValues ==
  ASSUME NEW n \in Nat, NEW vals \in [1 .. n -> Location], NEW ex, NEW k \in 1 .. n
  PROVE  Values(vals, ex)[k] = vals[k]
BY DEF Values

LEMMA CandidateIs ==
  ASSUME NEW h, NEW pid \in DOMAIN Preds, NEW vals \in [1 .. Preds[pid].fargs -> Location],
         NEW D \in SUBSET DOMAIN h
  PROVE  <<pid, vals, D>> \in Candidates(h)
<1> DEFINE Of(p) == {<<p, v, E>> : v \in [1 .. Preds[p].fargs -> Location], E \in SUBSET (DOMAIN h)}
<1>1. <<pid, vals, D>> \in Of(pid) /\ Candidates(h) = UNION {Of(p) : p \in DOMAIN Preds}
  BY DEF Candidates
<1> HIDE DEF Of
<1> QED
  BY <1>1

LEMMA Fargs ==
  ASSUME NEW pid \in DOMAIN Preds
  PROVE  /\ Preds[pid].fargs \in Nat /\ Preds[pid].fargs >= 2
         /\ 1 \in 1 .. Preds[pid].fargs /\ 2 \in 1 .. Preds[pid].fargs
<1> DEFINE n == Preds[pid].fargs
<1>1. n \in Nat /\ n >= 2
  BY HomAssumption DEF PredOK
<1> HIDE DEF n
<1>2. 1 \in 1 .. n /\ 2 \in 1 .. n
  BY <1>1
<1> QED
  BY <1>1, <1>2 DEF n

LEMMA UnfoldingOK ==
  ASSUME NEW h, NEW c \in Candidates(h), NEW segs, RuleHolds(c[1], c[2], h, c[3], segs)
  PROVE  SegOK(c)
<1> DEFINE pid == c[1]
           vals == c[2]
           D == c[3]
           n == Preds[pid].fargs
<1>1. pid \in DOMAIN Preds /\ vals \in [1 .. n -> Location]
  BY CandidateTypes
<1>2. n \in Nat /\ 1 \in 1 .. n /\ 2 \in 1 .. n
  <2>1. n \in Nat /\ n >= 2
    BY <1>1, HomAssumption DEF PredOK
  <2> HIDE DEF n
  <2> QED
    BY <2>1
<1> HIDE DEF n, pid, vals, D
<1>3. Values(vals, <<>>)[1] = vals[1] /\ Values(vals, <<>>)[2] = vals[2]
  BY <1>1, <1>2, ParameterValues
<1>4. \/ /\ D = {}
         /\ \E base \in Range(Preds[pid].base) : Satisfies(Values(vals, <<>>), base)
      \/ \E rule \in Range(Preds[pid].rec) :
           /\ Values(vals, <<>>)[rule.pto.src] \in D
           /\ \E ex : Satisfies(Values(vals, ex), rule.pure)
  BY DEF RuleHolds, n, pid, vals, D
<1>5. ASSUME NEW base \in Range(Preds[pid].base), Satisfies(Values(vals, <<>>), base)
      PROVE  vals[1] = vals[2]
  <2> DEFINE at == [op |-> "eq", x |-> 1, y |-> 2]
  <2>1. at \in base
    BY <1>1, HomAssumption DEF PredOK
  <2>2. Holds(Values(vals, <<>>), at)
    BY <1>5, <2>1 DEF Satisfies
  <2> QED
    BY <1>3, <2>2 DEF Holds
<1>6. ASSUME NEW rule \in Range(Preds[pid].rec), Values(vals, <<>>)[rule.pto.src] \in D,
             NEW ex, Satisfies(Values(vals, ex), rule.pure)
      PROVE  vals[1] \in D /\ vals[1] # vals[2]
  <2> DEFINE at == [op |-> "neq", x |-> 1, y |-> 2]
  <2>1. rule.pto.src = 1 /\ at \in rule.pure
    BY <1>1, HomAssumption DEF PredOK
  <2>2. Values(vals, ex)[1] # Values(vals, ex)[2]
    BY <1>6, <2>1 DEF Satisfies, Holds
  <2>3. Values(vals, ex)[1] = vals[1] /\ Values(vals, ex)[2] = vals[2]
    BY <1>1, <1>2, ParameterValues
  <2> QED
    BY <1>3, <1>6, <2>1, <2>2, <2>3
<1> QED
  BY <1>4, <1>5, <1>6 DEF SegOK, vals, D

(* What the rules give of a set of segments. *)
Unfolded(h, segs) == {c \in Candidates(h) : RuleHolds(c[1], c[2], h, c[3], segs)}

LEMMA HeapSize ==
  ASSUME NEW h \in Heap
  PROVE  /\ Cardinality(DOMAIN h) \in Nat
         /\ \A D \in SUBSET DOMAIN h : /\ IsFiniteSet(D) /\ Cardinality(D) \in Nat
                                       /\ Cardinality(D) < Cardinality(DOMAIN h) + 1
<1>1. IsFiniteSet(DOMAIN h) /\ Cardinality(DOMAIN h) \in Nat
  BY HeapTypes, HomAssumption, FS_Subset, FS_CardinalityType
<1>2. ASSUME NEW D \in SUBSET DOMAIN h
      PROVE  /\ IsFiniteSet(D) /\ Cardinality(D) \in Nat
             /\ Cardinality(D) < Cardinality(DOMAIN h) + 1
  <2>1. IsFiniteSet(D) /\ Cardinality(D) \in Nat /\ Cardinality(D) <= Cardinality(DOMAIN h)
    BY <1>1, <1>2, FS_Subset, FS_CardinalityType
  <2> QED
    BY <1>1, <2>1
<1> QED
  BY <1>1, <1>2


(* The segments of a heap are the last of the rounds that unfold, from the *)
(* empty set, one more time than the heap has locations.                   *)
LEMMA Rounds ==
  ASSUME NEW h \in Heap
  PROVE  \E up : /\ up[0] = {}
                 /\ \A n \in 1 .. Cardinality(DOMAIN h) + 1 : up[n] = Unfolded(h, up[n - 1])
                 /\ Segments(h) = up[Cardinality(DOMAIN h) + 1]
<1> DEFINE N == Cardinality(DOMAIN h) + 1
           C == Candidates(h)
           Step(segs) == {c \in C : RuleHolds(c[1], c[2], h, c[3], segs)}
           E == [n \in 1 .. N |-> [segs \in SUBSET C |-> Step(segs)]]
<1>1. N \in Nat
  <2>1. DOMAIN h \subseteq Location
    BY DEF Heap
  <2> QED
    BY <2>1, HomAssumption, FS_Subset, FS_CardinalityType
<1>2. E \in [1 .. N -> [SUBSET C -> SUBSET C]]
  OBVIOUS
<1>3. PICK g : Iteration(g, SUBSET C, {}, N, E)
  <2> HIDE DEF E, N
  <2>1. {} \in SUBSET C
    OBVIOUS
  <2> HIDE DEF C
  <2> QED
    BY <1>1, <1>2, <2>1, Iterates
<1>4. g \in [0 .. N -> SUBSET C] /\ g[0] = {} /\ \A n \in 1 .. N : g[n] = E[n][g[n - 1]]
  BY <1>3 DEF Iteration
<1> HIDE DEF C, N
<1>5. ASSUME NEW n \in 1 .. N PROVE g[n] = Step(g[n - 1])
  <2>1. n - 1 \in 0 .. N
    BY <1>1
  <2>2. g[n - 1] \in SUBSET C
    BY <1>4, <2>1
  <2>3. E[n] = [segs \in SUBSET C |-> Step(segs)]
    OBVIOUS
  <2> QED
    BY <1>4, <2>2, <2>3
<1> HIDE DEF E, Step
<1> DEFINE Body(f) == [n \in 0 .. N |-> IF n = 0 THEN {} ELSE Step(f[n - 1])]
           upto == CHOOSE f : f = Body(f)
<1>6. g = Body(g)
  <2>1. \A n \in 0 .. N : g[n] = IF n = 0 THEN {} ELSE Step(g[n - 1])
    BY <1>1, <1>4, <1>5
  <2> QED
    BY <1>4, <2>1
<1>7. upto = Body(upto)
  <2> HIDE DEF Body
  <2> QED
    BY <1>6
<1>8. Segments(h) = upto[N]
  BY DEF Segments, Step, C, N
<1>9. upto[0] = {} /\ \A n \in 1 .. N : upto[n] = Step(upto[n - 1])
  <2> HIDE DEF upto
  <2>1. \A n \in 0 .. N : Body(upto)[n] = IF n = 0 THEN {} ELSE Step(upto[n - 1])
    OBVIOUS
  <2> HIDE DEF Body
  <2> QED
    BY <1>1, <1>7, <2>1
<1>10. \A segs : Step(segs) = Unfolded(h, segs)
  BY DEF Step, C, Unfolded
<1> HIDE DEF upto, Step
<1>11. upto[0] = {} /\ \A n \in 1 .. N : upto[n] = Unfolded(h, upto[n - 1])
  BY <1>9, <1>10
<1> QED
  BY <1>8, <1>11 DEF N

(* So they are what one more unfolding gives of a set of candidates. *)
LEMMA LastUnfolding ==
  ASSUME NEW h \in Heap
  PROVE  \E segs : Segments(h) = {c \in Candidates(h) : RuleHolds(c[1], c[2], h, c[3], segs)}
<1> DEFINE N == Cardinality(DOMAIN h) + 1
<1>1. PICK up : /\ \A n \in 1 .. N : up[n] = Unfolded(h, up[n - 1])
                /\ Segments(h) = up[N]
  BY Rounds
<1>2. N \in 1 .. N
  BY HeapSize
<1> HIDE DEF N
<1>3. Segments(h) = Unfolded(h, up[N - 1])
  BY <1>1, <1>2
<1> QED
  BY <1>3 DEF Unfolded

(* Each of them has that shape. *)
LEMMA SegmentsOK ==
  ASSUME NEW h \in Heap
  PROVE  \A c \in Segments(h) : SegOK(c) /\ c \in Candidates(h)
<1>1. PICK segs : Segments(h) = {c \in Candidates(h) : RuleHolds(c[1], c[2], h, c[3], segs)}
  BY LastUnfolding
<1> QED
  BY <1>1, UnfoldingOK

(* The segment between equal ends. *)
LEMMA EmptySegment ==
  ASSUME EqualEndsEmpty, NEW h \in Heap, NEW pid \in DOMAIN Preds,
         NEW vals \in [1 .. Preds[pid].fargs -> Location], vals[1] = vals[2]
  PROVE  <<pid, vals, {}>> \in Segments(h)
<1> DEFINE c == <<pid, vals, {}>>
           n == Preds[pid].fargs
<1>1. c \in Candidates(h)
  <2>1. {} \in SUBSET (DOMAIN h)
    OBVIOUS
  <2>2. c \in {<<pid, v, D>> : v \in [1 .. Preds[pid].fargs -> Location], D \in SUBSET (DOMAIN h)}
    BY <2>1
  <2> DEFINE Of(p) == {<<p, v, D>> : v \in [1 .. Preds[p].fargs -> Location], D \in SUBSET (DOMAIN h)}
  <2>3. c \in Of(pid) /\ Candidates(h) = UNION {Of(p) : p \in DOMAIN Preds}
    BY <2>2 DEF Candidates
  <2> HIDE DEF Of, c
  <2> QED
    BY <2>3
<1>2. PICK base \in Range(Preds[pid].base) : base = {[op |-> "eq", x |-> 1, y |-> 2]}
  BY DEF EqualEndsEmpty
<1>3. n \in Nat /\ 1 \in 1 .. n /\ 2 \in 1 .. n
  <2>1. n \in Nat /\ n >= 2
    BY HomAssumption DEF PredOK
  <2> HIDE DEF n
  <2> QED
    BY <2>1
<1>4. Values(vals, <<>>)[1] = vals[1] /\ Values(vals, <<>>)[2] = vals[2]
  <2>1. vals \in [1 .. n -> Location]
    OBVIOUS
  <2> HIDE DEF n
  <2> QED
    BY <1>3, <2>1, ParameterValues
<1>5. Satisfies(Values(vals, <<>>), base)
  <2> DEFINE V == Values(vals, <<>>)
  <2>1. V[1] = V[2]
    BY <1>4
  <2> HIDE DEF V
  <2> QED
    BY <1>2, <2>1 DEF Satisfies, Holds, V
<1>6. \A segs : RuleHolds(pid, vals, h, {}, segs)
  BY <1>5 DEF RuleHolds
<1>7. PICK segs : Segments(h) = {d \in Candidates(h) : RuleHolds(d[1], d[2], h, d[3], segs)}
  BY LastUnfolding
<1>8. RuleHolds(c[1], c[2], h, c[3], segs)
  BY <1>6
<1> HIDE DEF c
<1> QED
  BY <1>1, <1>7, <1>8 DEF c

-----------------------------------------------------------------------------
(* The atoms of a rule: its points-to atom takes the first parameter, so   *)
(* that the calls share out what is left.                                  *)
Atoms(rule) == <<rule.pto>> \o rule.calls

LEMMA RuleAtoms ==
  ASSUME NEW pid \in DOMAIN Preds, NEW rule \in Range(Preds[pid].rec)
  PROVE  /\ DOMAIN Atoms(rule) = 1 .. Len(rule.calls) + 1
         /\ Len(rule.calls) \in Nat /\ DOMAIN rule.calls = 1 .. Len(rule.calls)
         /\ Atoms(rule)[1] = rule.pto
         /\ \A i \in DOMAIN rule.calls : Atoms(rule)[i + 1] = rule.calls[i]
<1>1. rule.calls \in Seq(Range(rule.calls))
  BY HomAssumption DEF PredOK
<1> DEFINE calls == rule.calls
           pto == rule.pto
<1>2. calls \in Seq(Range(calls))
  BY <1>1
<1>3. Atoms(rule) = <<pto>> \o calls
  BY DEF Atoms
<1> HIDE DEF calls, pto
<1>4. /\ DOMAIN Atoms(rule) = 1 .. Len(calls) + 1
      /\ Len(calls) \in Nat /\ DOMAIN calls = 1 .. Len(calls)
      /\ Atoms(rule)[1] = pto
      /\ \A i \in DOMAIN calls : Atoms(rule)[i + 1] = calls[i]
  BY <1>2, <1>3
<1> QED
  BY <1>4 DEF calls, pto

LEMMA PartsOfRule ==
  ASSUME NEW h, NEW pid \in DOMAIN Preds, NEW rule \in Range(Preds[pid].rec),
         NEW V, NEW D, NEW segs, NEW part \in [DOMAIN Atoms(rule) -> SUBSET D],
         Splits(part, Atoms(rule), V, h, D, segs)
  PROVE  /\ part[1] = {V[1]} /\ V[1] \in D
         /\ \A i \in DOMAIN Atoms(rule) : i # 1 => V[1] \notin part[i]
<1>1. 1 \in DOMAIN Atoms(rule) /\ Atoms(rule)[1] = rule.pto
  BY RuleAtoms
<1>2. rule.pto.kind = "pto" /\ rule.pto.src = 1
  BY HomAssumption DEF PredOK
<1>3. AtomHolds(Atoms(rule)[1], V, h, part[1], segs)
  BY <1>1 DEF Splits
<1>4. part[1] = {V[1]}
  BY <1>1, <1>2, <1>3 DEF AtomHolds
<1>5. part[1] \in SUBSET D
  BY <1>1
<1>6. ASSUME NEW i \in DOMAIN Atoms(rule), i # 1 PROVE V[1] \notin part[i]
  <2>1. DOMAIN part = DOMAIN Atoms(rule)
    OBVIOUS
  <2>2. part[i] \intersect part[1] = {}
    BY <1>1, <1>6, <2>1 DEF Splits, Disjoint
  <2> QED
    BY <1>4, <2>2
<1> QED
  BY <1>4, <1>5, <1>6

(* Whether a rule holds of fewer than k + 1 locations depends only on the  *)
(* segments of fewer than k.                                               *)
AgreeBelow(h, k, A, B) ==
  \A c \in Candidates(h) : Cardinality(c[3]) < k => (c \in A <=> c \in B)

LEMMA RuleBelow ==
  ASSUME NEW h \in Heap, NEW k \in Nat, NEW A \in SUBSET Candidates(h), NEW B,
         AgreeBelow(h, k, A, B),
         NEW c \in Candidates(h), Cardinality(c[3]) < k + 1,
         RuleHolds(c[1], c[2], h, c[3], A)
  PROVE  RuleHolds(c[1], c[2], h, c[3], B)
<1> DEFINE pid == c[1]
           vals == c[2]
           D == c[3]
           fargs == Preds[pid].fargs
<1>1. pid \in DOMAIN Preds /\ D \subseteq DOMAIN h
  BY CandidateTypes
<1>2. IsFiniteSet(D) /\ Cardinality(D) \in Nat
  BY <1>1, HeapTypes, HomAssumption, FS_Subset, FS_CardinalityType
<1>3. ASSUME D = {},
             \E base \in Range(Preds[pid].base) : Satisfies(Values(vals, <<>>), base)
      PROVE  RuleHolds(pid, vals, h, D, B)
  BY <1>3 DEF RuleHolds
<1>4. ASSUME NEW rule \in Range(Preds[pid].rec),
             Values(vals, <<>>)[rule.pto.src] \in D,
             NEW ex \in [fargs + 1 .. fargs + rule.exists -> Location],
             Satisfies(Values(vals, ex), rule.pure),
             SepHolds(Atoms(rule), Values(vals, ex), h, D, A)
      PROVE  RuleHolds(pid, vals, h, D, B)
  <2> DEFINE V == Values(vals, ex)
             atoms == Atoms(rule)
  <2>1. PICK part \in [DOMAIN atoms -> SUBSET D] : Splits(part, atoms, V, h, D, A)
    BY <1>4 DEF SepHolds
  <2>2. /\ V[1] \in D
        /\ \A i \in DOMAIN atoms : i # 1 => V[1] \notin part[i]
    <3> HIDE DEF V, pid, D
    <3> QED
      BY <1>1, <1>4, <2>1, PartsOfRule
  <2>3. ASSUME NEW i \in DOMAIN atoms PROVE AtomHolds(atoms[i], V, h, part[i], B)
    <3>1. AtomHolds(atoms[i], V, h, part[i], A)
      BY <2>1 DEF Splits
    <3>2. CASE atoms[i].kind = "pto"
      <4> HIDE DEF V, atoms
      <4> QED
        BY <3>1, <3>2 DEF AtomHolds
    <3>3. CASE atoms[i].kind # "pto"
      <4> DEFINE d == <<atoms[i].pid, [j \in DOMAIN atoms[i].args |-> V[atoms[i].args[j]]], part[i]>>
      <4>1. d \in A
        BY <3>1, <3>3 DEF AtomHolds
      <4>2. i # 1
        <5>1. 1 \in DOMAIN Atoms(rule) /\ Atoms(rule)[1] = rule.pto
          BY <1>1, <1>4, RuleAtoms
        <5>2. rule.pto.kind = "pto"
          BY <1>1, <1>4, HomAssumption DEF PredOK
        <5> QED
          BY <3>3, <5>1, <5>2
      <4>3. part[i] \subseteq D \ {V[1]}
        BY <2>2, <4>2
      <4>4. Cardinality(part[i]) < k
        <5> HIDE DEF V, atoms, D
        <5>1. IsFiniteSet(D \ {V[1]}) /\ Cardinality(D \ {V[1]}) = Cardinality(D) - 1
          BY <1>2, <2>2, FS_RemoveElement
        <5>2. /\ Cardinality(part[i]) \in Nat
              /\ Cardinality(part[i]) <= Cardinality(D \ {V[1]})
          BY <4>3, <5>1, FS_Subset, FS_CardinalityType
        <5>3. Cardinality(D) < k + 1
          BY DEF D
        <5> QED
          BY <1>2, <5>1, <5>2, <5>3
      <4>5. d \in Candidates(h) /\ d[3] = part[i]
        BY <4>1
      <4> HIDE DEF d
      <4>6. d \in B
        BY <4>1, <4>4, <4>5 DEF AgreeBelow
      <4> QED
        BY <3>3, <4>6 DEF AtomHolds, d
    <3> QED
      BY <3>2, <3>3
  <2>4. Splits(part, atoms, V, h, D, B)
    BY <2>1, <2>3 DEF Splits
  <2>5. SepHolds(atoms, V, h, D, B)
    BY <2>4 DEF SepHolds
  <2> QED
    BY <1>4, <2>5 DEF RuleHolds, Atoms
<1>5. \/ /\ D = {}
         /\ \E base \in Range(Preds[pid].base) : Satisfies(Values(vals, <<>>), base)
      \/ \E rule \in Range(Preds[pid].rec) :
           /\ Values(vals, <<>>)[rule.pto.src] \in D
           /\ \E ex \in [fargs + 1 .. fargs + rule.exists -> Location] :
                /\ Satisfies(Values(vals, ex), rule.pure)
                /\ SepHolds(Atoms(rule), Values(vals, ex), h, D, A)
  BY DEF RuleHolds, Atoms
<1> HIDE DEF pid, vals, D, fargs
<1>6. RuleHolds(pid, vals, h, D, B)
  BY <1>3, <1>4, <1>5
<1> QED
  BY <1>6 DEF pid, vals, D

LEMMA UnfoldedBelow ==
  ASSUME NEW h \in Heap, NEW k \in Nat,
         NEW A \in SUBSET Candidates(h), NEW B \in SUBSET Candidates(h),
         AgreeBelow(h, k, A, B)
  PROVE  AgreeBelow(h, k + 1, Unfolded(h, A), Unfolded(h, B))
<1> SUFFICES ASSUME NEW c \in Candidates(h), Cardinality(c[3]) < k + 1
             PROVE  c \in Unfolded(h, A) <=> c \in Unfolded(h, B)
  BY DEF AgreeBelow
<1>1. RuleHolds(c[1], c[2], h, c[3], A) => RuleHolds(c[1], c[2], h, c[3], B)
  BY RuleBelow
<1>2. AgreeBelow(h, k, B, A)
  BY DEF AgreeBelow
<1>3. RuleHolds(c[1], c[2], h, c[3], B) => RuleHolds(c[1], c[2], h, c[3], A)
  BY <1>2, RuleBelow
<1> QED
  BY <1>1, <1>3 DEF Unfolded

(* Two sequences of rounds agree on what has fewer locations than rounds   *)
(* have passed, wherever they begin.                                       *)
LEMMA RoundsAgree ==
  ASSUME NEW h \in Heap, NEW N \in Nat,
         NEW X \in [0 .. N -> SUBSET Candidates(h)], NEW Y \in [0 .. N -> SUBSET Candidates(h)],
         \A n \in 1 .. N : X[n] = Unfolded(h, X[n - 1]) /\ Y[n] = Unfolded(h, Y[n - 1])
  PROVE  \A n \in 0 .. N : AgreeBelow(h, n, X[n], Y[n])
<1> DEFINE Bad == {n \in 0 .. N : ~ AgreeBelow(h, n, X[n], Y[n])}
<1> SUFFICES ASSUME Bad # {} PROVE FALSE
  OBVIOUS
<1>1. PICK n \in Bad : \A i \in Bad : ~ (i < n)
  <2>1. Bad \subseteq Nat
    OBVIOUS
  <2> HIDE DEF Bad
  <2> QED
    BY <2>1, Least
<1>2. n # 0
  <2>1. \A c \in Candidates(h) : ~ (Cardinality(c[3]) < 0)
    BY CandidateTypes, HeapSize
  <2>2. AgreeBelow(h, 0, X[0], Y[0])
    BY <2>1 DEF AgreeBelow
  <2> QED
    BY <1>1, <2>2
<1>3. n \in 1 .. N /\ n - 1 \in 0 .. N /\ n - 1 \in Nat /\ n - 1 < n /\ (n - 1) + 1 = n
  BY <1>1, <1>2
<1>4. AgreeBelow(h, n - 1, X[n - 1], Y[n - 1])
  BY <1>1, <1>3
<1>5. AgreeBelow(h, (n - 1) + 1, Unfolded(h, X[n - 1]), Unfolded(h, Y[n - 1]))
  <2>1. X[n - 1] \in SUBSET Candidates(h) /\ Y[n - 1] \in SUBSET Candidates(h)
    BY <1>3
  <2> HIDE DEF Bad
  <2> QED
    BY <1>3, <1>4, <2>1, UnfoldedBelow
<1>6. AgreeBelow(h, n, X[n], Y[n])
  BY <1>3, <1>5
<1> QED
  BY <1>1, <1>6

LEMMA AgreeAll ==
  ASSUME NEW h \in Heap, NEW A \in SUBSET Candidates(h), NEW B \in SUBSET Candidates(h),
         AgreeBelow(h, Cardinality(DOMAIN h) + 1, A, B)
  PROVE  A = B
<1>1. \A c \in Candidates(h) : c \in A <=> c \in B
  <2> TAKE c \in Candidates(h)
  <2>1. c[3] \in SUBSET DOMAIN h
    BY CandidateTypes
  <2>2. Cardinality(c[3]) < Cardinality(DOMAIN h) + 1
    BY <2>1, HeapSize
  <2> QED
    BY <2>2 DEF AgreeBelow
<1> QED
  BY <1>1

(* The segments of a heap are exactly those that their rules unfold to:    *)
(* the rounds of Segments are as many as it takes, whatever the rules.     *)
THEOREM SegmentsUnfold == \A h \in Heap : Segments(h) = Unfolded(h, Segments(h))
<1> TAKE h \in Heap
<1> DEFINE M == Cardinality(DOMAIN h)
<1>1. M \in Nat
  BY HeapSize
<1>2. PICK up : /\ up[0] = {}
                /\ \A n \in 1 .. M + 1 : up[n] = Unfolded(h, up[n - 1])
                /\ Segments(h) = up[M + 1]
  BY Rounds
<1> HIDE DEF M
<1>3. \A n \in 0 .. M + 1 : up[n] \in SUBSET Candidates(h)
  <2> TAKE n \in 0 .. M + 1
  <2>1. CASE n = 0
    BY <1>2, <2>1
  <2>2. CASE n # 0
    <3>1. n \in 1 .. M + 1
      BY <1>1, <2>2
    <3> QED
      BY <1>2, <3>1 DEF Unfolded
  <2> QED
    BY <2>1, <2>2
<1> DEFINE X == [n \in 0 .. M |-> up[n]]
           Y == [n \in 0 .. M |-> up[n + 1]]
<1>4. \A n \in 0 .. M : X[n] = up[n] /\ Y[n] = up[n + 1]
  OBVIOUS
<1>5. X \in [0 .. M -> SUBSET Candidates(h)] /\ Y \in [0 .. M -> SUBSET Candidates(h)]
  <2>1. \A n \in 0 .. M : n \in 0 .. M + 1 /\ n + 1 \in 0 .. M + 1
    BY <1>1
  <2> QED
    BY <1>3, <2>1
<1> HIDE DEF X, Y
<1>6. \A n \in 1 .. M : X[n] = Unfolded(h, X[n - 1]) /\ Y[n] = Unfolded(h, Y[n - 1])
  <2> TAKE n \in 1 .. M
  <2>1. /\ n \in 0 .. M /\ n - 1 \in 0 .. M
        /\ n \in 1 .. M + 1 /\ n + 1 \in 1 .. M + 1
        /\ (n - 1) + 1 = n /\ (n + 1) - 1 = n
    BY <1>1
  <2>2. up[n] = Unfolded(h, up[n - 1]) /\ up[n + 1] = Unfolded(h, up[(n + 1) - 1])
    BY <1>2, <2>1
  <2> QED
    BY <1>4, <2>1, <2>2
<1>7. AgreeBelow(h, M, X[M], Y[M])
  <2>1. M \in 0 .. M
    BY <1>1
  <2> QED
    BY <1>1, <1>5, <1>6, <2>1, RoundsAgree
<1>8. M \in 0 .. M /\ M + 1 \in 1 .. M + 1 /\ (M + 1) - 1 = M /\ M \in 0 .. M + 1 /\ M + 1 \in 0 .. M + 1
  BY <1>1
<1>9. AgreeBelow(h, M + 1, Unfolded(h, up[M]), Unfolded(h, up[M + 1]))
  <2>1. AgreeBelow(h, M, up[M], up[M + 1])
    BY <1>4, <1>7, <1>8
  <2> QED
    BY <1>1, <1>3, <1>8, <2>1, UnfoldedBelow
<1>10. up[M + 1] = Unfolded(h, up[M])
  BY <1>2, <1>8
<1>11. Unfolded(h, up[M]) \in SUBSET Candidates(h) /\ Unfolded(h, up[M + 1]) \in SUBSET Candidates(h)
  BY DEF Unfolded
<1>12. Unfolded(h, up[M]) = Unfolded(h, up[M + 1])
  BY <1>9, <1>11, AgreeAll DEF M
<1> QED
  BY <1>2, <1>10, <1>12

(* And no other set of segments is one that its rules unfold to.           *)
THEOREM SegmentsUnique ==
  \A h \in Heap : \A S \in SUBSET Candidates(h) : S = Unfolded(h, S) => S = Segments(h)
<1> SUFFICES ASSUME NEW h \in Heap, NEW S \in SUBSET Candidates(h), S = Unfolded(h, S)
             PROVE  S = Segments(h)
  OBVIOUS
<1>1. Segments(h) \in SUBSET Candidates(h) /\ Segments(h) = Unfolded(h, Segments(h))
  BY SegmentsUnfold DEF Unfolded
<1> DEFINE N == Cardinality(DOMAIN h) + 1
           X == [n \in 0 .. N |-> S]
           Y == [n \in 0 .. N |-> Segments(h)]
<1>2. N \in Nat /\ N \in 0 .. N
  BY HeapSize
<1> HIDE DEF N
<1>3. \A n \in 0 .. N : X[n] = S /\ Y[n] = Segments(h)
  OBVIOUS
<1>4. X \in [0 .. N -> SUBSET Candidates(h)] /\ Y \in [0 .. N -> SUBSET Candidates(h)]
  BY <1>1
<1>5. \A n \in 1 .. N : X[n] = Unfolded(h, X[n - 1]) /\ Y[n] = Unfolded(h, Y[n - 1])
  <2> HIDE DEF X, Y
  <2> TAKE n \in 1 .. N
  <2>1. n \in 0 .. N /\ n - 1 \in 0 .. N
    BY <1>2
  <2> QED
    BY <1>1, <1>3, <2>1
<1>6. AgreeBelow(h, N, X[N], Y[N])
  <2> HIDE DEF X, Y
  <2> QED
    BY <1>2, <1>4, <1>5, RoundsAgree
<1>7. AgreeBelow(h, N, S, Segments(h))
  BY <1>2, <1>3, <1>6
<1> QED
  BY <1>1, <1>7, AgreeAll DEF N

-----------------------------------------------------------------------------
(* Two segments in a row.                                                  *)

(* A list: a rule goes on with a call from its first own variable to the   *)
(* second parameter, which it names nowhere else than where it says that   *)
(* the ends differ.                                                        *)
Chained(pid) ==
  \A rule \in Range(Preds[pid].rec) :
    LET fargs  == Preds[pid].fargs
        others == (0 .. fargs + rule.exists) \ {2}
    IN  /\ rule.exists \in Nat \ {0}
        /\ \A at \in rule.pure : at = [op |-> "neq", x |-> 1, y |-> 2] \/ {at.x, at.y} \subseteq others
        /\ \A i \in DOMAIN rule.pto.fields : rule.pto.fields[i][2] \in others
        /\ \E r \in DOMAIN rule.calls :
             /\ rule.calls[r] = [kind |-> "ls", pid |-> pid,
                                 args |-> [k \in 1 .. fargs |-> IF k = 1 THEN fargs + 1 ELSE k]]
             /\ \A i \in DOMAIN rule.calls \ {r} :
                  /\ rule.calls[i].kind = "ls"
                  /\ \A k \in DOMAIN rule.calls[i].args : rule.calls[i].args[k] \in others

(* The second one begins where the first one ends, allocates none of its   *)
(* locations and does not end inside of it.                                *)
InRow(c, d) ==
  /\ c[1] = d[1] /\ c[2][2] = d[2][1]
  /\ \A k \in 3 .. Preds[c[1]].fargs : c[2][k] = d[2][k]
  /\ c[3] \intersect d[3] = {}
  /\ d[2][2] \notin c[3]

Joined(c, d) == <<c[1], [c[2] EXCEPT ![2] = d[2][2]], c[3] \union d[3]>>

LEMMA JoinedEmpty ==
  ASSUME NEW h \in Heap, NEW c \in Segments(h), NEW d \in Segments(h), InRow(c, d), c[3] = {}
  PROVE  Joined(c, d) = d
<1> DEFINE n == Preds[c[1]].fargs
<1>1. /\ c \in Candidates(h) /\ d \in Candidates(h) /\ SegOK(c)
  BY SegmentsOK
<1>2. c[1] \in DOMAIN Preds /\ c[2] \in [1 .. n -> Location] /\ d[2] \in [1 .. n -> Location]
  BY <1>1, CandidateTypes DEF InRow
<1>3. d = <<d[1], d[2], d[3]>>
  <2>1. PICK pid \in DOMAIN Preds :
           d \in {<<pid, v, D>> : v \in [1 .. Preds[pid].fargs -> Location], D \in SUBSET (DOMAIN h)}
    BY <1>1 DEF Candidates
  <2> QED
    BY <2>1
<1>4. c[2][1] = d[2][1]
  BY <1>1 DEF SegOK, InRow
<1>5. n \in Nat /\ n >= 2
  BY <1>2, Fargs
<1>6. \A k \in 3 .. n : c[2][k] = d[2][k]
  BY DEF InRow
<1> HIDE DEF n
<1>7. [c[2] EXCEPT ![2] = d[2][2]] = d[2]
  <2> DEFINE w == [c[2] EXCEPT ![2] = d[2][2]]
  <2>1. DOMAIN w = 1 .. n /\ DOMAIN d[2] = 1 .. n
    BY <1>2
  <2>2. ASSUME NEW k \in 1 .. n PROVE w[k] = d[2][k]
    <3>1. k = 1 \/ k = 2 \/ k \in 3 .. n
      BY <1>5
    <3>2. k = 2 => w[k] = d[2][2]
      BY <1>2
    <3>3. k # 2 => w[k] = c[2][k]
      BY <1>2
    <3> QED
      BY <1>4, <1>6, <3>1, <3>2, <3>3
  <2>3. w = [k \in 1 .. n |-> w[k]] /\ d[2] = [k \in 1 .. n |-> d[2][k]]
    BY <1>2, <2>1
  <2> HIDE DEF w
  <2>4. w = d[2]
    BY <2>2, <2>3
  <2> QED
    BY <2>4 DEF w
<1>8. c[3] \union d[3] = d[3]
  OBVIOUS
<1> QED
  BY <1>3, <1>7, <1>8 DEF Joined, InRow

LEMMA FirstTwo ==
  \A i \in Nat : \A k \in 1 .. i : k = 1 \/ k = 2 \/ (k \in 3 .. i /\ k # 2)
OBVIOUS

(* The recursive call of the first segment's rule, joined with the second. *)
LEMMA JoinedCall ==
  ASSUME NEW h \in Heap, NEW c \in Segments(h), NEW d \in Segments(h), InRow(c, d),
         NEW n, n = Preds[c[1]].fargs,
         NEW u \in [1 .. n -> Location], NEW w \in [1 .. n -> Location],
         \A k \in 2 .. n : u[k] = c[2][k],
         w[1] = u[1], w[2] = d[2][2], \A k \in 3 .. n : w[k] = u[k],
         NEW P \in SUBSET c[3], NEW x \in c[3], x \notin P,
         \A e \in Segments(h) :
           InRow(e, d) /\ Cardinality(e[3]) < Cardinality(c[3]) => Joined(e, d) \in Segments(h),
         <<c[1], u, P>> \in Segments(h)
  PROVE  <<c[1], w, P \union d[3]>> \in Segments(h)
<1> DEFINE e == <<c[1], u, P>>
<1>1. c \in Candidates(h)
  BY SegmentsOK
<1>2. c[1] \in DOMAIN Preds /\ c[3] \in SUBSET DOMAIN h
  BY <1>1, CandidateTypes
<1>3. n \in Nat /\ n >= 2 /\ 1 \in 1 .. n /\ 2 \in 1 .. n
  BY <1>2, Fargs
<1>4. e \in Segments(h) /\ e[1] = c[1] /\ e[2] = u /\ e[3] = P
  OBVIOUS
<1>5. InRow(e, d)
  <2>1. \A k \in 3 .. Preds[c[1]].fargs : c[2][k] = d[2][k]
    BY DEF InRow
  <2>2. \A k \in 3 .. n : c[2][k] = d[2][k]
    BY <2>1
  <2>3. \A k \in 3 .. n : u[k] = d[2][k]
    <3> TAKE k \in 3 .. n
    <3>1. k \in 2 .. n
      BY <1>3
    <3> QED
      BY <2>2, <3>1
  <2>4. u[2] = d[2][1]
    <3>1. 2 \in 2 .. n
      BY <1>3
    <3> QED
      BY <3>1 DEF InRow
  <2>5. P \intersect d[3] = {} /\ d[2][2] \notin P /\ c[1] = d[1]
    BY DEF InRow
  <2>6. \A k \in 3 .. Preds[e[1]].fargs : e[2][k] = d[2][k]
    BY <1>4, <2>3
  <2> HIDE DEF e
  <2> QED
    BY <1>4, <2>4, <2>5, <2>6 DEF InRow
<1>6. Cardinality(P) < Cardinality(c[3])
  <2>1. IsFiniteSet(c[3]) /\ Cardinality(c[3]) \in Nat
    BY <1>2, HeapSize
  <2>2. IsFiniteSet(c[3] \ {x}) /\ Cardinality(c[3] \ {x}) = Cardinality(c[3]) - 1
    BY <2>1, FS_RemoveElement
  <2>3. P \subseteq c[3] \ {x}
    OBVIOUS
  <2>4. Cardinality(P) \in Nat /\ Cardinality(P) <= Cardinality(c[3] \ {x})
    BY <2>2, <2>3, FS_Subset, FS_CardinalityType
  <2> QED
    BY <2>1, <2>2, <2>4
<1> HIDE DEF e
<1>7. Joined(e, d) \in Segments(h)
  BY <1>4, <1>5, <1>6
<1>8. [u EXCEPT ![2] = d[2][2]] = w
  <2> DEFINE z == [u EXCEPT ![2] = d[2][2]]
  <2>1. /\ z = [k \in 1 .. n |-> z[k]] /\ w = [k \in 1 .. n |-> w[k]]
        /\ z[2] = d[2][2] /\ \A k \in 1 .. n : k # 2 => z[k] = u[k]
    BY <1>3
  <2> HIDE DEF z
  <2>2. ASSUME NEW k \in 1 .. n PROVE z[k] = w[k]
    <3>1. k = 1 \/ k = 2 \/ (k \in 3 .. n /\ k # 2)
      BY <1>3, FirstTwo
    <3>2. CASE k = 1
      BY <1>3, <2>1, <3>2
    <3>3. CASE k = 2
      BY <2>1, <3>3
    <3>4. CASE (k \in 3 .. n /\ k # 2)
      BY <2>1, <3>4
    <3> QED
      BY <3>1, <3>2, <3>3, <3>4
  <2>3. z = w
    BY <2>1, <2>2
  <2> QED
    BY <2>3 DEF z
<1> QED
  BY <1>4, <1>7, <1>8 DEF Joined

LEMMA JoinedRule ==
  ASSUME NEW h \in Heap, NEW c \in Segments(h), NEW d \in Segments(h), InRow(c, d),
         Chained(c[1]), c[3] # {},
         \A e \in Segments(h) :
           InRow(e, d) /\ Cardinality(e[3]) < Cardinality(c[3]) => Joined(e, d) \in Segments(h)
  PROVE  Joined(c, d) \in Segments(h)
<1> DEFINE pid == c[1]
           v == c[2]
           D == c[3]
           F == d[2][2]
           n == Preds[pid].fargs
           z == [v EXCEPT ![2] = F]
           segs == Segments(h)
<1>1. c \in Candidates(h) /\ d \in Candidates(h)
  BY SegmentsOK
<1>2. /\ pid \in DOMAIN Preds /\ v \in [1 .. n -> Location] /\ D \in SUBSET DOMAIN h
      /\ d[2] \in [1 .. n -> Location] /\ d[3] \in SUBSET DOMAIN h
  BY <1>1, CandidateTypes DEF InRow
<1>3. n \in Nat /\ n >= 2 /\ 1 \in 1 .. n /\ 2 \in 1 .. n
  BY <1>2, Fargs
<1>4. F \in Location /\ F \notin D
  BY <1>2, <1>3 DEF InRow
<1>5. RuleHolds(pid, v, h, D, segs)
  BY SegmentsUnfold DEF Unfolded
<1> HIDE DEF segs
<1>6. PICK rule \in Range(Preds[pid].rec) :
           /\ Values(v, <<>>)[rule.pto.src] \in D
           /\ \E ex \in [n + 1 .. n + rule.exists -> Location] :
                /\ Satisfies(Values(v, ex), rule.pure)
                /\ SepHolds(Atoms(rule), Values(v, ex), h, D, segs)
  BY <1>5 DEF RuleHolds, Atoms
<1>7. PICK ex \in [n + 1 .. n + rule.exists -> Location] :
                /\ Satisfies(Values(v, ex), rule.pure)
                /\ SepHolds(Atoms(rule), Values(v, ex), h, D, segs)
  BY <1>6
<1> DEFINE V == Values(v, ex)
           W == Values(z, ex)
           atoms == Atoms(rule)
           others == (0 .. n + rule.exists) \ {2}
           E == D \union d[3]
<1>8. PICK part \in [DOMAIN atoms -> SUBSET D] : Splits(part, atoms, V, h, D, segs)
  BY <1>7 DEF SepHolds
<1>9. /\ rule.exists \in Nat \ {0}
      /\ \A at \in rule.pure : at = [op |-> "neq", x |-> 1, y |-> 2] \/ {at.x, at.y} \subseteq others
      /\ \A i \in DOMAIN rule.pto.fields : rule.pto.fields[i][2] \in others
      /\ \E r \in DOMAIN rule.calls :
             /\ rule.calls[r] = [kind |-> "ls", pid |-> pid,
                                 args |-> [k \in 1 .. n |-> IF k = 1 THEN n + 1 ELSE k]]
             /\ \A i \in DOMAIN rule.calls \ {r} :
                  /\ rule.calls[i].kind = "ls"
                  /\ \A k \in DOMAIN rule.calls[i].args : rule.calls[i].args[k] \in others
  BY DEF Chained
<1>10. PICK r \in DOMAIN rule.calls :
             /\ rule.calls[r] = [kind |-> "ls", pid |-> pid,
                                 args |-> [k \in 1 .. n |-> IF k = 1 THEN n + 1 ELSE k]]
             /\ \A i \in DOMAIN rule.calls \ {r} :
                  /\ rule.calls[i].kind = "ls"
                  /\ \A k \in DOMAIN rule.calls[i].args : rule.calls[i].args[k] \in others
  BY <1>9
<1>11. /\ DOMAIN atoms = 1 .. Len(rule.calls) + 1
       /\ Len(rule.calls) \in Nat /\ DOMAIN rule.calls = 1 .. Len(rule.calls)
       /\ atoms[1] = rule.pto
       /\ \A i \in DOMAIN rule.calls : atoms[i + 1] = rule.calls[i]
  BY <1>2, RuleAtoms
<1>12. rule.pto.kind = "pto" /\ rule.pto.src = 1
  BY <1>2, HomAssumption DEF PredOK
<1>13. /\ part[1] = {V[1]} /\ V[1] \in D
       /\ \A i \in DOMAIN atoms : i # 1 => V[1] \notin part[i]
  <2> HIDE DEF V, D, pid
  <2> QED
    BY <1>2, <1>8, PartsOfRule
<1> HIDE DEF atoms, pid, D, v, F
<1>14. z \in [1 .. n -> Location] /\ W[2] = F /\ \A k \in others : W[k] = V[k]
  <2> DEFINE e == rule.exists
  <2>1. e \in Nat /\ ex \in [n + 1 .. n + e -> Location]
    BY <1>7, <1>9
  <2>2. z \in [1 .. n -> Location] /\ z[2] = F /\ \A k \in 1 .. n : k # 2 => z[k] = v[k]
    BY <1>2, <1>3, <1>4
  <2> HIDE DEF n, e, z
  <2>3. Values(z, ex)[2] = F
    BY <1>3, <2>2, ParameterValues
  <2>4. \A k \in (0 .. n + e) \ {2} : Values(z, ex)[k] = Values(v, ex)[k]
    <3> TAKE k \in (0 .. n + e) \ {2}
    <3>1. k = 0 \/ (k \in 1 .. n /\ k # 2) \/ (k \in n + 1 .. n + e /\ k # 0 /\ k \notin 1 .. n)
      BY <1>3, <2>1
    <3>2. CASE k = 0
      BY <3>2 DEF Values
    <3>3. CASE k \in 1 .. n /\ k # 2
      <4>1. Values(z, ex)[k] = z[k]
        BY <1>3, <2>2, <3>3, ParameterValues
      <4>2. Values(v, ex)[k] = v[k]
        BY <1>2, <1>3, <3>3, ParameterValues
      <4> QED
        BY <2>2, <3>3, <4>1, <4>2
    <3>4. CASE k \in n + 1 .. n + e /\ k # 0 /\ k \notin 1 .. n
      <4>1. DOMAIN z = 1 .. n /\ DOMAIN v = 1 .. n /\ DOMAIN ex = n + 1 .. n + e
        BY <1>2, <2>1, <2>2
      <4> QED
        BY <3>4, <4>1 DEF Values
    <3> QED
      BY <3>1, <3>2, <3>3, <3>4
  <2> QED
    BY <2>2, <2>3, <2>4 DEF e
<1>15. /\ \A k \in 1 .. n : V[k] = v[k] /\ W[k] = z[k]
       /\ Values(z, <<>>)[1] = z[1] /\ z[1] = v[1]
  <2> HIDE DEF n, z
  <2>1. \A k \in 1 .. n : V[k] = v[k] /\ W[k] = z[k]
    BY <1>2, <1>3, <1>14, ParameterValues
  <2>2. Values(z, <<>>)[1] = z[1]
    BY <1>3, <1>14, ParameterValues
  <2>3. z[1] = v[1]
    BY <1>2, <1>3 DEF z
  <2> QED
    BY <2>1, <2>2, <2>3
<1> HIDE DEF n, z, V, W
<1>16. 1 \in others /\ n + 1 \in others /\ \A k \in 3 .. n : k \in others
  BY <1>3, <1>9
<1> HIDE DEF others
<1>17. Satisfies(W, rule.pure)
  <2> SUFFICES ASSUME NEW at \in rule.pure PROVE Holds(W, at)
    BY DEF Satisfies
  <2>1. Holds(V, at)
    BY <1>7 DEF Satisfies, V
  <2>2. CASE at = [op |-> "neq", x |-> 1, y |-> 2]
    <3>1. W[1] # W[2]
      BY <1>4, <1>13, <1>14, <1>16
    <3> QED
      BY <2>2, <3>1 DEF Holds
  <2>3. CASE {at.x, at.y} \subseteq others
    <3>1. W[at.x] = V[at.x] /\ W[at.y] = V[at.y]
      BY <1>14, <2>3
    <3> QED
      BY <2>1, <3>1 DEF Holds
  <2> QED
    BY <1>9, <2>2, <2>3
<1>18. r + 1 \in DOMAIN atoms /\ r + 1 # 1 /\ 1 \in DOMAIN atoms
  BY <1>11
<1> DEFINE new == [part EXCEPT ![r + 1] = @ \union d[3]]
<1>19. /\ new \in [DOMAIN atoms -> SUBSET E]
       /\ new[r + 1] = part[r + 1] \union d[3]
       /\ \A i \in DOMAIN atoms : i # r + 1 => new[i] = part[i]
  BY <1>8, <1>18
<1> HIDE DEF new
<1>20. AtomHolds(atoms[1], W, h, new[1], segs)
  <2>1. AtomHolds(atoms[1], V, h, part[1], segs)
    BY <1>8, <1>18 DEF Splits
  <2>2. /\ part[1] = {V[1]}
        /\ \A i \in DOMAIN rule.pto.fields : h[V[1]][rule.pto.fields[i][1]] = V[rule.pto.fields[i][2]]
    BY <1>11, <1>12, <2>1 DEF AtomHolds
  <2>3. new[1] = part[1] /\ W[1] = V[1]
    BY <1>14, <1>16, <1>18, <1>19
  <2>4. \A i \in DOMAIN rule.pto.fields : h[W[1]][rule.pto.fields[i][1]] = W[rule.pto.fields[i][2]]
    BY <1>9, <1>14, <2>2, <2>3
  <2> QED
    BY <1>11, <1>12, <2>2, <2>3, <2>4 DEF AtomHolds
<1>21. ASSUME NEW i \in DOMAIN rule.calls, i # r
       PROVE  AtomHolds(atoms[i + 1], W, h, new[i + 1], segs)
  <2>1. i + 1 \in DOMAIN atoms /\ i + 1 # r + 1 /\ atoms[i + 1] = rule.calls[i]
    BY <1>11, <1>21
  <2>2. AtomHolds(rule.calls[i], V, h, part[i + 1], segs)
    BY <1>8, <2>1 DEF Splits
  <2> DEFINE call == rule.calls[i]
  <2>3. call.kind = "ls" /\ \A k \in DOMAIN call.args : call.args[k] \in others
    BY <1>10, <1>21
  <2>4. <<call.pid, [k \in DOMAIN call.args |-> V[call.args[k]]], part[i + 1]>> \in segs
    BY <2>2, <2>3 DEF AtomHolds
  <2>5. [k \in DOMAIN call.args |-> V[call.args[k]]] = [k \in DOMAIN call.args |-> W[call.args[k]]]
    BY <1>14, <2>3
  <2>6. AtomHolds(call, W, h, part[i + 1], segs)
    BY <2>3, <2>4, <2>5 DEF AtomHolds
  <2> QED
    BY <1>19, <2>1, <2>6
<1>22. AtomHolds(atoms[r + 1], W, h, new[r + 1], segs)
  <2> DEFINE args == [k \in 1 .. n |-> IF k = 1 THEN n + 1 ELSE k]
             call == rule.calls[r]
  <2>1. atoms[r + 1] = call /\ call.kind = "ls" /\ call.pid = pid /\ call.args = args
    BY <1>10, <1>11
  <2>2. AtomHolds(call, V, h, part[r + 1], segs)
    BY <1>8, <1>18, <2>1 DEF Splits
  <2> HIDE DEF args, call
  <2>3. <<pid, [k \in DOMAIN args |-> V[args[k]]], part[r + 1]>> \in segs
    BY <2>1, <2>2 DEF AtomHolds
  <2>4. part[r + 1] \in SUBSET D /\ V[1] \notin part[r + 1]
    BY <1>8, <1>13, <1>18
  <2>5. /\ \A k \in 2 .. n : V[k] = v[k]
        /\ \A k \in 3 .. n : W[k] = V[k]
        /\ n + 1 \in Nat /\ n + 1 > n /\ W[n + 1] = V[n + 1]
    BY <1>3, <1>14, <1>15, <1>16
  <2>6. <<pid, [k \in DOMAIN args |-> W[args[k]]], part[r + 1] \union d[3]>> \in segs
    <3> DEFINE u == [k \in DOMAIN args |-> V[args[k]]]
               w == [k \in DOMAIN args |-> W[args[k]]]
               P == part[r + 1]
               x == V[1]
    <3>1. DOMAIN args = 1 .. n /\ args[1] = n + 1 /\ \A k \in 2 .. n : args[k] = k
      BY <1>3 DEF args
    <3>2. u[1] = V[n + 1] /\ w[1] = W[n + 1] /\ \A k \in 2 .. n : u[k] = V[k] /\ w[k] = W[k]
      BY <1>3, <3>1
    <3>3. u = [k \in 1 .. n |-> u[k]] /\ w = [k \in 1 .. n |-> w[k]]
      BY <3>1
    <3>4. <<c[1], u, P>> \in Segments(h)
      BY <2>3 DEF pid, segs
    <3>5. P \in SUBSET c[3] /\ x \in c[3] /\ x \notin P
      BY <1>13, <2>4 DEF D
    <3> HIDE DEF u, w, P, x
    <3>6. u \in [1 .. n -> Location]
      <4>1. <<c[1], u, P>> \in Candidates(h)
        BY <3>4, SegmentsOK
      <4> QED
        BY <4>1, CandidateTypes DEF n, pid
    <3>7. 2 \in 2 .. n /\ \A k \in 3 .. n : k \in 2 .. n
      BY <1>3
    <3>8. w[1] = u[1] /\ w[2] = d[2][2] /\ \A k \in 3 .. n : w[k] = u[k]
      BY <1>14, <2>5, <3>2, <3>7 DEF F
    <3>9. \A k \in 2 .. n : u[k] = c[2][k]
      BY <2>5, <3>2 DEF v
    <3>10. w \in [1 .. n -> Location]
      <4>1. ASSUME NEW k \in 1 .. n PROVE w[k] \in Location
        <5>1. k = 1 \/ k = 2 \/ k \in 3 .. n
          BY <1>3
        <5>2. w[k] = u[k] \/ w[k] = F
          BY <3>8, <5>1 DEF F
        <5> QED
          BY <1>4, <3>6, <5>2
      <4> QED
        BY <3>3, <4>1
    <3>11. n = Preds[c[1]].fargs
      BY DEF n, pid
    <3>12. <<c[1], w, P \union d[3]>> \in Segments(h)
      BY <3>4, <3>5, <3>6, <3>8, <3>9, <3>10, <3>11, JoinedCall
    <3> QED
      BY <3>12 DEF P, pid, segs, w
  <2> QED
    BY <1>19, <2>1, <2>6 DEF AtomHolds
<1>23. Splits(new, atoms, W, h, E, segs)
  <2>1. ASSUME NEW i \in DOMAIN atoms PROVE AtomHolds(atoms[i], W, h, new[i], segs)
    <3>1. i = 1 \/ (i - 1 \in DOMAIN rule.calls /\ (i - 1) + 1 = i)
      BY <1>11
    <3>2. CASE i = 1
      BY <1>20, <3>2
    <3>3. CASE i - 1 \in DOMAIN rule.calls /\ (i - 1) + 1 = i
      BY <1>21, <1>22, <3>3
    <3> QED
      BY <3>1, <3>2, <3>3
  <2>2. DOMAIN new = DOMAIN atoms /\ DOMAIN part = DOMAIN atoms
    BY <1>8, <1>19
  <2>3. UNION Range(new) = E
    <3>1. UNION Range(part) = D
      BY <1>8 DEF Splits
    <3>2. \A y : y \in UNION Range(part) <=> \E i \in DOMAIN atoms : y \in part[i]
      BY <2>2 DEF Range
    <3>3. \A y : y \in UNION Range(new) <=> \E i \in DOMAIN atoms : y \in new[i]
      BY <2>2 DEF Range
    <3>4. \A y : (\E i \in DOMAIN atoms : y \in new[i]) <=> (\E i \in DOMAIN atoms : y \in part[i]) \/ y \in d[3]
      BY <1>18, <1>19
    <3> QED
      BY <3>1, <3>2, <3>3, <3>4
  <2>4. Disjoint(new)
    <3>1. \A i, j \in DOMAIN atoms : i # j => part[i] \intersect part[j] = {}
      BY <1>8, <2>2 DEF Splits, Disjoint
    <3>2. D \intersect d[3] = {}
      BY DEF InRow, D
    <3>3. \A i \in DOMAIN atoms : part[i] \intersect d[3] = {}
      BY <1>8, <3>2
    <3>4. \A i, j \in DOMAIN atoms : i # j => new[i] \intersect new[j] = {}
      BY <1>18, <1>19, <3>1, <3>3
    <3> QED
      BY <2>2, <3>4 DEF Disjoint
  <2> QED
    BY <2>1, <2>3, <2>4 DEF Splits
<1>24. SepHolds(atoms, W, h, E, segs)
  BY <1>19, <1>23 DEF SepHolds
<1>25. Values(z, <<>>)[rule.pto.src] \in E
  BY <1>12, <1>13, <1>15, <1>3
<1>26. RuleHolds(pid, z, h, E, segs)
  BY <1>17, <1>24, <1>25 DEF RuleHolds, Atoms, atoms, W, n
<1>27. <<pid, z, E>> \in Candidates(h)
  BY <1>2, <1>14, CandidateIs DEF n
<1>28. <<pid, z, E>> \in segs
  BY <1>26, <1>27, SegmentsUnfold DEF Unfolded, segs
<1> QED
  BY <1>28 DEF Joined, pid, z, v, F, D, segs

(* Two segments of a list predicate in a row are one, when the second does *)
(* not end at a location of the first: what noll_shom_select_wf_1 is to    *)
(* find out, and why it looks for what allocates the end.                  *)
THEOREM SegmentsCompose ==
  \A h \in Heap : \A c, d \in Segments(h) :
    Chained(c[1]) /\ InRow(c, d) => Joined(c, d) \in Segments(h)
<1> SUFFICES ASSUME NEW h \in Heap, NEW d \in Segments(h)
             PROVE  \A c \in Segments(h) : Chained(c[1]) /\ InRow(c, d) => Joined(c, d) \in Segments(h)
  OBVIOUS
<1> DEFINE Wrong(c) == Chained(c[1]) /\ InRow(c, d) /\ Joined(c, d) \notin Segments(h)
           Bad == {Cardinality(c[3]) : c \in {b \in Segments(h) : Wrong(b)}}
<1> SUFFICES ASSUME NEW b \in Segments(h), Wrong(b) PROVE FALSE
  OBVIOUS
<1>1. \A c \in Segments(h) : Cardinality(c[3]) \in Nat
  BY SegmentsOK, CandidateTypes, HeapSize
<1>2. PICK m \in Bad : \A i \in Bad : ~ (i < m)
  <2>1. Bad \subseteq Nat
    BY <1>1
  <2>2. Bad # {}
    OBVIOUS
  <2> HIDE DEF Bad
  <2> QED
    BY <2>1, <2>2, Least
<1>3. PICK c \in Segments(h) : Wrong(c) /\ Cardinality(c[3]) = m
  BY <1>2
<1>4. \A e \in Segments(h) :
        InRow(e, d) /\ Cardinality(e[3]) < Cardinality(c[3]) => Joined(e, d) \in Segments(h)
  <2> TAKE e \in Segments(h)
  <2>1. ~ (Wrong(e) /\ Cardinality(e[3]) < m)
    BY <1>2
  <2>2. InRow(e, d) => Chained(e[1])
    BY <1>3 DEF InRow
  <2> QED
    BY <1>3, <2>1, <2>2
<1>5. Joined(c, d) \in Segments(h)
  <2>1. CASE c[3] = {}
    BY <1>3, <2>1, JoinedEmpty
  <2>2. CASE c[3] # {}
    BY <1>3, <1>4, <2>2, JoinedRule
  <2> QED
    BY <2>1, <2>2
<1> QED
  BY <1>3, <1>5

-----------------------------------------------------------------------------
(* What the atoms of a formula say in each of its heaps: a points-to atom  *)
(* allocates its source, two of them have different ones, and a segment    *)
(* that is not empty allocates its source.                                 *)
LEMMA AtomsAllocate ==
  ASSUME NEW sp \in Spaces, NEW m \in ModelsOf(sp)
  PROVE  /\ \A i \in DOMAIN sp : sp[i].kind = "pto" => m[1][sp[i].src] # 0
         /\ \A i, j \in DOMAIN sp :
              sp[i].kind = "pto" /\ sp[j].kind = "pto" /\ i # j => m[1][sp[i].src] # m[1][sp[j].src]
         /\ \A i \in DOMAIN sp :
              sp[i].kind = "ls" => \/ m[1][sp[i].args[1]] = m[1][sp[i].args[2]]
                                   \/ m[1][sp[i].args[1]] # 0
<1> DEFINE s == m[1]
<1>1. PICK h \in Heap : SepHolds(sp, s, h, DOMAIN h, Segments(h))
  BY ModelHolds
<1>2. 0 \notin DOMAIN h
  BY HeapTypes
<1> HIDE DEF s
<1>3. PICK part \in [DOMAIN sp -> SUBSET (DOMAIN h)] :
         /\ \A i \in DOMAIN sp : AtomHolds(sp[i], s, h, part[i], Segments(h))
         /\ Disjoint(part)
  BY <1>1 DEF SepHolds, Splits
<1>4. ASSUME NEW i \in DOMAIN sp, sp[i].kind = "pto"
      PROVE  part[i] = {s[sp[i].src]} /\ s[sp[i].src] \in DOMAIN h
  <2>1. part[i] = {s[sp[i].src]}
    BY <1>3, <1>4 DEF AtomHolds
  <2> QED
    BY <1>3, <2>1
<1>5. ASSUME NEW i \in DOMAIN sp, NEW j \in DOMAIN sp,
             sp[i].kind = "pto", sp[j].kind = "pto", i # j
      PROVE  s[sp[i].src] # s[sp[j].src]
  <2>1. part[i] \intersect part[j] = {}
    BY <1>3, <1>5 DEF Disjoint
  <2> QED
    BY <1>4, <1>5, <2>1
<1>6. ASSUME NEW i \in DOMAIN sp, sp[i].kind = "ls"
      PROVE  s[sp[i].args[1]] = s[sp[i].args[2]] \/ s[sp[i].args[1]] # 0
  <2> DEFINE at == sp[i]
             v == [k \in DOMAIN at.args |-> s[at.args[k]]]
             c == <<at.pid, v, part[i]>>
  <2>1. c \in Segments(h)
    BY <1>3, <1>6 DEF AtomHolds
  <2>2. SegOK(c)
    BY <2>1, SegmentsOK
  <2>3. 1 \in DOMAIN at.args /\ 2 \in DOMAIN at.args
    <3>1. AtomOK(at)
      BY SpaceTypes
    <3>2. at.args \in Seq(Var) /\ Len(at.args) \in Nat /\ Len(at.args) >= 2
      BY <1>6, <3>1, HomAssumption DEF AtomOK, PredOK
    <3> QED
      BY <3>2
  <2>4. v[1] = s[at.args[1]] /\ v[2] = s[at.args[2]]
    BY <2>3
  <2>5. v[1] = v[2] \/ v[1] \in part[i]
    BY <2>2 DEF SegOK
  <2>6. part[i] \subseteq DOMAIN h
    BY <1>3
  <2> QED
    BY <1>2, <2>4, <2>5, <2>6
<1> QED
  BY <1>2, <1>4, <1>5, <1>6 DEF s

-----------------------------------------------------------------------------
(* The nodes of the graph of a normal form.                                *)

(* Two variables are the same location in each heap.                       *)
Same(ms, i, j) == \A m \in ms : m[1][i] = m[1][j]

LEMMA SameCell ==
  ASSUME NEW f, NEW ms, Normal(f, ms), NEW j \in Var, NEW i \in Var, j <= i
  PROVE  /\ f.pure[<<j, i>>] = "eq" <=> Same(ms, j, i)
         /\ f.pure[<<j, i>>] = "neq" <=> \A m \in ms : m[1][j] # m[1][i]
<1>1. <<j, i>> \in Cell
  BY DEF Cell
<1> QED
  BY <1>1 DEF Normal, Same

(* The first variable a variable is equal to.                              *)
LEMMA LeastSame ==
  ASSUME NEW f, NEW ms, Normal(f, ms), NEW i \in Var
  PROVE  LET min == CHOOSE j \in 0 .. i : /\ f.pure[<<j, i>>] = "eq"
                                          /\ \A k \in 0 .. j - 1 : f.pure[<<k, i>>] # "eq"
         IN  /\ min \in 0 .. i /\ min \in Var /\ Same(ms, min, i)
             /\ \A k \in 0 .. min - 1 : ~ Same(ms, k, i)
<1> DEFINE P(j) == /\ f.pure[<<j, i>>] = "eq"
                   /\ \A k \in 0 .. j - 1 : f.pure[<<k, i>>] # "eq"
           S == {j \in 0 .. i : Same(ms, j, i)}
<1>1. i \in Nat /\ \A j \in 0 .. i : j \in Var /\ j <= i
  BY SizeAssumption DEF Var
<1>2. \A j \in 0 .. i : f.pure[<<j, i>>] = "eq" <=> Same(ms, j, i)
  BY <1>1, SameCell
<1>3. S \subseteq Nat /\ i \in S
  BY <1>1 DEF Same
<1>4. PICK j \in S : \A k \in S : ~ (k < j)
  <2> HIDE DEF S
  <2> QED
    BY <1>3, Least
<1>5. j \in 0 .. i /\ Same(ms, j, i) /\ \A k \in 0 .. j - 1 : k \in 0 .. i /\ ~ Same(ms, k, i)
  <2>1. j \in 0 .. i /\ Same(ms, j, i)
    OBVIOUS
  <2>2. \A k \in 0 .. j - 1 : k \in 0 .. i /\ k < j
    BY <1>1, <2>1
  <2> QED
    BY <1>4, <2>1, <2>2
<1>6. P(j)
  BY <1>2, <1>5
<1> DEFINE min == CHOOSE l \in 0 .. i : P(l)
<1>7. min \in 0 .. i /\ P(min)
  <2> HIDE DEF P
  <2> QED
    BY <1>5, <1>6
<1> HIDE DEF min
<1>8. \A k \in 0 .. min - 1 : k \in 0 .. i
  BY <1>1, <1>7
<1>9. /\ min \in 0 .. i /\ min \in Var /\ Same(ms, min, i)
      /\ \A k \in 0 .. min - 1 : ~ Same(ms, k, i)
  BY <1>1, <1>2, <1>7, <1>8
<1> QED
  BY <1>9 DEF min

LEMMA Classes ==
  ASSUME NEW f, NEW ms, Normal(f, ms)
  PROVE  LET class == ClassOf(f.pure)
         IN  /\ \A i \in Var : class[i] \in Var /\ class[class[i]] = class[i]
             /\ \A i, j \in Var : class[i] = class[j] <=> Same(ms, i, j)
<1> DEFINE min(i) == CHOOSE j \in 0 .. i : /\ f.pure[<<j, i>>] = "eq"
                                           /\ \A k \in 0 .. j - 1 : f.pure[<<k, i>>] # "eq"
           Body(c) == [i \in Var |-> IF min(i) = i THEN i ELSE c[min(i)]]
           class == CHOOSE c : c = Body(c)
           g == [i \in Var |-> min(i)]
<1>1. ASSUME NEW i \in Var
      PROVE  /\ min(i) \in 0 .. i /\ min(i) \in Var /\ Same(ms, min(i), i)
             /\ \A k \in 0 .. min(i) - 1 : ~ Same(ms, k, i)
  BY LeastSame
<1> HIDE DEF min
<1>2. ASSUME NEW i \in Var, NEW j \in Var, Same(ms, i, j)
      PROVE  min(i) = min(j)
  <2>1. Same(ms, min(i), j) /\ Same(ms, min(j), i)
    BY <1>1, <1>2 DEF Same
  <2>2. min(i) \in Int /\ min(j) \in Int /\ min(i) >= 0 /\ min(j) >= 0
    BY <1>1, VarFacts
  <2>3. ~ (min(i) < min(j))
    <3> SUFFICES ASSUME min(i) < min(j) PROVE FALSE
      OBVIOUS
    <3>1. min(i) \in 0 .. min(j) - 1
      BY <2>2
    <3> QED
      BY <1>1, <2>1, <3>1
  <2>4. ~ (min(j) < min(i))
    <3> SUFFICES ASSUME min(j) < min(i) PROVE FALSE
      OBVIOUS
    <3>1. min(j) \in 0 .. min(i) - 1
      BY <2>2
    <3> QED
      BY <1>1, <2>1, <3>1
  <2> QED
    BY <2>2, <2>3, <2>4
<1>3. \A i \in Var : min(min(i)) = min(i)
  BY <1>1, <1>2
<1>4. \A i \in Var : g[i] = IF min(i) = i THEN i ELSE g[min(i)]
  BY <1>1, <1>3
<1>5. g = Body(g)
  <2> HIDE DEF g
  <2>1. g = [i \in Var |-> g[i]]
    BY DEF g
  <2> QED
    BY <1>4, <2>1
<1>6. class = Body(class)
  <2> HIDE DEF Body
  <2> QED
    BY <1>5
<1>7. \A i \in Var : class[i] = IF min(i) = i THEN i ELSE class[min(i)]
  <2> HIDE DEF class
  <2> QED
    BY <1>6
<1> HIDE DEF class, Body
<1>8. \A i \in Var : class[i] = min(i)
  BY <1>1, <1>3, <1>7
<1>9. \A i \in Var : class[i] \in Var /\ class[class[i]] = class[i]
  BY <1>1, <1>3, <1>8
<1>10. ASSUME NEW i \in Var, NEW j \in Var, class[i] = class[j]
       PROVE  Same(ms, i, j)
  <2>1. Same(ms, min(i), i) /\ Same(ms, min(i), j)
    BY <1>1, <1>8, <1>10
  <2> QED
    BY <2>1 DEF Same
<1>11. \A i, j \in Var : class[i] = class[j] <=> Same(ms, i, j)
  BY <1>2, <1>8, <1>10
<1>12. class = ClassOf(f.pure)
  BY DEF ClassOf, class, Body, min
<1> QED
  BY <1>9, <1>11, <1>12

(* Nodes are numbered from 0 without gaps, one for each class.             *)
LEMMA NodesOfNormal ==
  ASSUME NEW f, NEW ms, Normal(f, ms)
  PROVE  LET node == NodesOfForm(f.pure)
             nodes == {node[i] : i \in Var}
         IN  /\ node \in [Var -> nodes] /\ IsFiniteSet(nodes)
             /\ nodes = 0 .. Cardinality(nodes) - 1 /\ nodes \subseteq Nat
             /\ \A i, j \in Var : node[i] = node[j] <=> Same(ms, i, j)
<1> DEFINE class == ClassOf(f.pure)
           node == NodesOfForm(f.pure)
           nodes == {node[i] : i \in Var}
           S == {k \in Var : class[k] = k}
           R == {c \in S \X S : c[1] < c[2]}
           N == Cardinality(S)
<1>1. /\ \A i \in Var : class[i] \in Var /\ class[class[i]] = class[i]
      /\ \A i, j \in Var : class[i] = class[j] <=> Same(ms, i, j)
  BY Classes
<1> HIDE DEF class
<1>2. S \subseteq Var /\ IsFiniteSet(S)
  BY VarFacts, FS_Subset
<1>3. \A i \in Var : class[i] \in S
  BY <1>1
<1>4. Orders(R, S)
  <2>1. \A a, b \in S : a \in Int /\ b \in Int
    BY <1>2, VarFacts
  <2>2. \A a, b \in S : <<a, b>> \in R <=> a < b
    OBVIOUS
  <2> HIDE DEF R, S
  <2> QED
    BY <2>1, <2>2 DEF Orders
<1>5. \A i \in Var : node[i] = Rank(class[i], S, R)
  <2> SUFFICES ASSUME NEW i \in Var PROVE node[i] = Rank(class[i], S, R)
    OBVIOUS
  <2>1. node[i] = Cardinality({k \in Var : k < class[i] /\ class[k] = k})
    BY DEF NodesOfForm, class
  <2>2. {k \in Var : k < class[i] /\ class[k] = k} = Below(class[i], S, R)
    BY <1>3 DEF Below
  <2> QED
    BY <2>1, <2>2 DEF Rank
<1> HIDE DEF R
<1>6. /\ N \in Nat
      /\ \A e \in S : Rank(e, S, R) \in 0 .. N - 1
      /\ \A d, e \in S : Rank(d, S, R) = Rank(e, S, R) => d = e
      /\ \A n \in 0 .. N - 1 : \E e \in S : Rank(e, S, R) = n
  <2> HIDE DEF S
  <2> QED
    BY <1>2, <1>4, RankNumbers
<1>7. nodes = 0 .. N - 1
  <2>1. \A i \in Var : node[i] \in 0 .. N - 1
    <3> HIDE DEF N, S
    <3> QED
      BY <1>3, <1>5, <1>6
  <2>2. \A n \in 0 .. N - 1 : \E i \in Var : node[i] = n
    <3> SUFFICES ASSUME NEW n \in 0 .. N - 1 PROVE \E i \in Var : node[i] = n
      OBVIOUS
    <3>1. PICK e \in S : Rank(e, S, R) = n
      BY <1>6
    <3>2. e \in Var /\ node[e] = n
      BY <1>5, <3>1
    <3> QED
      BY <3>2
  <2> HIDE DEF node, N
  <2> QED
    BY <2>1, <2>2
<1>8. Cardinality(nodes) = N /\ IsFiniteSet(nodes)
  <2> HIDE DEF N, nodes
  <2> QED
    BY <1>6, <1>7, FS_Interval
<1>9. node \in [Var -> nodes]
  BY DEF NodesOfForm
<1>10. ASSUME NEW i \in Var, NEW j \in Var PROVE node[i] = node[j] <=> Same(ms, i, j)
  <2>1. node[i] = node[j] <=> class[i] = class[j]
    <3> HIDE DEF node, S
    <3> QED
      BY <1>3, <1>5, <1>6
  <2> QED
    BY <1>1, <2>1
<1> HIDE DEF node, nodes, N
<1>11. nodes = 0 .. Cardinality(nodes) - 1 /\ nodes \subseteq Nat
  BY <1>6, <1>7, <1>8
<1> QED
  BY <1>8, <1>9, <1>10, <1>11 DEF node, nodes

-----------------------------------------------------------------------------
(* The edges of the graph of a normal form.                                *)

(* Each element of flat stands for one position of the first n of seqs,    *)
(* and each of these positions has an element.                             *)
Origins(flat, seqs, n, a, k) ==
  /\ \A p \in DOMAIN flat : /\ a[p] \in 1 .. n /\ k[p] \in DOMAIN seqs[a[p]]
                            /\ flat[p] = seqs[a[p]][k[p]]
  /\ \A p, q \in DOMAIN flat : p # q => a[p] # a[q] \/ k[p] # k[q]
  /\ \A i \in 1 .. n : \A j \in DOMAIN seqs[i] : \E p \in DOMAIN flat : a[p] = i /\ k[p] = j

LEMMA OneMore ==
  ASSUME NEW T, NEW seqs \in Seq(Seq(T)), NEW n \in Nat, n + 1 \in DOMAIN seqs,
         NEW flat \in Seq(T), \E a, k : Origins(flat, seqs, n, a, k)
  PROVE  /\ flat \o seqs[n + 1] \in Seq(T)
         /\ \E a, k : Origins(flat \o seqs[n + 1], seqs, n + 1, a, k)
<1> DEFINE new == seqs[n + 1]
           all == flat \o new
           L == Len(flat)
<1>1. PICK a, k : Origins(flat, seqs, n, a, k)
  OBVIOUS
<1>2. new \in Seq(T) /\ L \in Nat /\ Len(new) \in Nat /\ DOMAIN flat = 1 .. L
  OBVIOUS
<1>3. /\ all \in Seq(T) /\ DOMAIN all = 1 .. L + Len(new)
      /\ \A p \in DOMAIN all : all[p] = IF p <= L THEN flat[p] ELSE new[p - L]
  BY <1>2
<1> DEFINE b == [p \in DOMAIN all |-> IF p <= L THEN a[p] ELSE n + 1]
           l == [p \in DOMAIN all |-> IF p <= L THEN k[p] ELSE p - L]
<1> HIDE DEF new, all, L
<1>4. ASSUME NEW p \in DOMAIN all
      PROVE  IF p <= L THEN /\ p \in DOMAIN flat /\ b[p] = a[p] /\ l[p] = k[p] /\ b[p] \in 1 .. n
                       ELSE /\ p - L \in DOMAIN new /\ b[p] = n + 1 /\ l[p] = p - L
  <2>1. p \in 1 .. L + Len(new)
    BY <1>3
  <2>2. CASE p <= L
    <3>1. p \in DOMAIN flat
      BY <1>2, <2>1, <2>2
    <3> QED
      BY <1>1, <2>2, <3>1 DEF Origins
  <2>3. CASE ~ (p <= L)
    <3>1. p - L \in 1 .. Len(new) /\ DOMAIN new = 1 .. Len(new)
      BY <1>2, <2>1, <2>3
    <3> QED
      BY <2>3, <3>1
  <2> QED
    BY <2>2, <2>3
<1> HIDE DEF b, l
<1>5. ASSUME NEW p \in DOMAIN all
      PROVE  /\ b[p] \in 1 .. n + 1 /\ l[p] \in DOMAIN seqs[b[p]]
             /\ all[p] = seqs[b[p]][l[p]]
  <2>1. CASE p <= L
    <3>1. p \in DOMAIN flat /\ b[p] = a[p] /\ l[p] = k[p] /\ b[p] \in 1 .. n /\ all[p] = flat[p]
      BY <1>3, <1>4, <2>1
    <3>2. k[p] \in DOMAIN seqs[a[p]] /\ flat[p] = seqs[a[p]][k[p]]
      BY <1>1, <3>1 DEF Origins
    <3>3. b[p] \in 1 .. n + 1
      BY <3>1
    <3> QED
      BY <3>1, <3>2, <3>3
  <2>2. CASE ~ (p <= L)
    BY <1>3, <1>4, <2>2 DEF new
  <2> QED
    BY <2>1, <2>2
<1>6. ASSUME NEW p \in DOMAIN all, NEW q \in DOMAIN all, p # q
      PROVE  b[p] # b[q] \/ l[p] # l[q]
  <2>1. p \in Int /\ q \in Int
    BY <1>2, <1>3
  <2>2. CASE p <= L /\ q <= L
    BY <1>1, <1>4, <1>6, <2>2 DEF Origins
  <2>3. CASE ~ (p <= L) /\ ~ (q <= L)
    <3>1. l[p] = p - L /\ l[q] = q - L
      BY <1>4, <2>3
    <3> QED
      BY <1>2, <1>6, <2>1, <3>1
  <2>4. CASE p <= L /\ ~ (q <= L)
    <3>1. b[p] \in 1 .. n /\ b[q] = n + 1
      BY <1>4, <2>4
    <3> QED
      BY <3>1
  <2>5. CASE ~ (p <= L) /\ q <= L
    <3>1. b[q] \in 1 .. n /\ b[p] = n + 1
      BY <1>4, <2>5
    <3> QED
      BY <3>1
  <2> QED
    BY <2>2, <2>3, <2>4, <2>5
<1>7. ASSUME NEW i \in 1 .. n + 1, NEW j \in DOMAIN seqs[i]
      PROVE  \E p \in DOMAIN all : b[p] = i /\ l[p] = j
  <2>1. CASE i \in 1 .. n
    <3>1. PICK p \in DOMAIN flat : a[p] = i /\ k[p] = j
      BY <1>1, <2>1 DEF Origins
    <3>2. p \in DOMAIN all /\ p <= L
      BY <1>2, <1>3, <3>1
    <3> QED
      BY <1>4, <3>1, <3>2
  <2>2. CASE i = n + 1
    <3>1. j \in 1 .. Len(new) /\ DOMAIN new = 1 .. Len(new)
      BY <1>2, <2>2 DEF new
    <3>2. L + j \in DOMAIN all /\ ~ (L + j <= L) /\ (L + j) - L = j
      BY <1>2, <1>3, <3>1
    <3>3. b[L + j] = n + 1 /\ l[L + j] = j
      BY <1>4, <3>2
    <3> QED
      BY <2>2, <3>2, <3>3
  <2> QED
    BY <2>1, <2>2
<1>8. Origins(all, seqs, n + 1, b, l)
  BY <1>5, <1>6, <1>7 DEF Origins
<1>9. all \in Seq(T) /\ \E c, d : Origins(all, seqs, n + 1, c, d)
  BY <1>3, <1>8
<1> QED
  BY <1>9 DEF all, new

(* FlattenSeq puts sequences one after another.                            *)
LEMMA Flattened ==
  ASSUME NEW T, NEW seqs \in Seq(Seq(T))
  PROVE  /\ FlattenSeq(seqs) \in Seq(T)
         /\ \E a, k : Origins(FlattenSeq(seqs), seqs, Len(seqs), a, k)
<1> DEFINE N == Len(seqs)
           E == [n \in 1 .. N |-> [x \in Seq(T) |-> x \o seqs[n]]]
<1>1. N \in Nat /\ DOMAIN seqs = 1 .. N /\ \A n \in 1 .. N : seqs[n] \in Seq(T)
  OBVIOUS
<1>2. CASE N = 0
  <2>1. FlattenSeq(seqs) = seqs /\ seqs = <<>>
    BY <1>2 DEF FlattenSeq
  <2>2. 1 .. N = {} /\ DOMAIN <<>> = {}
    BY <1>2
  <2> HIDE DEF N
  <2>3. Origins(<<>>, seqs, N, <<>>, <<>>)
    BY <2>2 DEF Origins
  <2> QED
    BY <1>2, <2>1, <2>3 DEF N
<1>3. CASE N # 0
  <2> HIDE DEF N
  <2>1. E \in [1 .. N -> [Seq(T) -> Seq(T)]]
    <3>1. \A n \in 1 .. N : \A x \in Seq(T) : x \o seqs[n] \in Seq(T)
      BY <1>1
    <3> QED
      BY <3>1
  <2>2. PICK g : Iteration(g, Seq(T), <<>>, N, E)
    <3>1. <<>> \in Seq(T)
      OBVIOUS
    <3> HIDE DEF E
    <3> QED
      BY <1>1, <2>1, <3>1, Iterates
  <2>3. g \in [0 .. N -> Seq(T)] /\ g[0] = <<>>
    BY <2>2 DEF Iteration
  <2>4. ASSUME NEW n \in 1 .. N PROVE g[n] = g[n - 1] \o seqs[n] /\ g[n - 1] \in Seq(T)
    <3>1. n - 1 \in 0 .. N
      BY <1>1
    <3>2. g[n - 1] \in Seq(T)
      BY <2>3, <3>1
    <3>3. g[n] = E[n][g[n - 1]]
      BY <2>2 DEF Iteration
    <3> QED
      BY <3>2, <3>3
  <2> HIDE DEF E
  <2> DEFINE Body(f) == [i \in 1 .. N |-> IF i = 1 THEN seqs[i] ELSE f[i - 1] \o seqs[i]]
             flatten == CHOOSE f : f = Body(f)
             h == [i \in 1 .. N |-> g[i]]
  <2>5. g[1] = seqs[1]
    <3>1. 1 \in 1 .. N
      BY <1>1, <1>3
    <3>2. g[1] = g[1 - 1] \o seqs[1]
      BY <2>4, <3>1
    <3>3. 1 - 1 = 0 /\ <<>> \o seqs[1] = seqs[1]
      BY <1>1, <3>1
    <3>4. g[1 - 1] = <<>>
      BY <2>3, <3>3
    <3> HIDE DEF E
    <3> QED
      BY <3>2, <3>3, <3>4
  <2>6. h = Body(h)
    <3>1. ASSUME NEW i \in 1 .. N PROVE h[i] = IF i = 1 THEN seqs[i] ELSE h[i - 1] \o seqs[i]
      <4>1. i # 1 => i - 1 \in 1 .. N
        BY <1>1
      <4>2. i # 1 => h[i - 1] = g[i - 1]
        BY <4>1
      <4>3. h[i] = g[i]
        OBVIOUS
      <4> HIDE DEF h
      <4> QED
        BY <2>4, <2>5, <4>2, <4>3
    <3>2. h = [i \in 1 .. N |-> h[i]]
      OBVIOUS
    <3> HIDE DEF h
    <3> QED
      BY <3>1, <3>2
  <2>7. flatten = Body(flatten)
    <3> HIDE DEF Body
    <3> QED
      BY <2>6
  <2>8. \A i \in 1 .. N : flatten[i] = IF i = 1 THEN seqs[i] ELSE flatten[i - 1] \o seqs[i]
    <3> HIDE DEF flatten
    <3> QED
      BY <2>7
  <2>9. FlattenSeq(seqs) = flatten[N]
    BY <1>3 DEF FlattenSeq, N
  <2> HIDE DEF flatten, Body
  <2> DEFINE Good(i) == /\ flatten[i] \in Seq(T)
                        /\ \E a, k : Origins(flatten[i], seqs, i, a, k)
             Bad == {i \in 1 .. N : ~ Good(i)}
  <2>10. Good(1)
    <3>1. 1 \in DOMAIN seqs /\ 0 \in Nat /\ 0 + 1 = 1 /\ <<>> \in Seq(T)
      BY <1>1, <1>3
    <3>2. Origins(<<>>, seqs, 0, <<>>, <<>>)
      BY DEF Origins
    <3>3. <<>> \o seqs[1] \in Seq(T) /\ \E a, k : Origins(<<>> \o seqs[1], seqs, 1, a, k)
      <4>1. <<>> \o seqs[0 + 1] \in Seq(T) /\ \E a, k : Origins(<<>> \o seqs[0 + 1], seqs, 0 + 1, a, k)
        BY <3>1, <3>2, OneMore
      <4> QED
        BY <3>1, <4>1
    <3>4. flatten[1] = seqs[1] /\ <<>> \o seqs[1] = seqs[1]
      BY <1>1, <2>8, <3>1
    <3> QED
      BY <3>3, <3>4
  <2>11. ASSUME NEW i \in 1 .. N, i # 1, Good(i - 1) PROVE Good(i)
    <3>1. i - 1 \in Nat /\ (i - 1) + 1 = i /\ i \in DOMAIN seqs
      BY <1>1
    <3>2. flatten[i] = flatten[i - 1] \o seqs[i]
      BY <2>8, <2>11
    <3>3. /\ flatten[i - 1] \o seqs[(i - 1) + 1] \in Seq(T)
          /\ \E a, k : Origins(flatten[i - 1] \o seqs[(i - 1) + 1], seqs, (i - 1) + 1, a, k)
      BY <2>11, <3>1, OneMore
    <3> QED
      BY <3>1, <3>2, <3>3
  <2>12. Bad = {}
    <3> SUFFICES ASSUME Bad # {} PROVE FALSE
      OBVIOUS
    <3>1. PICK i \in Bad : \A j \in Bad : ~ (j < i)
      <4>1. Bad \subseteq Nat
        BY <1>1
      <4> HIDE DEF Bad
      <4> QED
        BY <4>1, Least
    <3>2. i \in 1 .. N /\ ~ Good(i)
      OBVIOUS
    <3> HIDE DEF Good
    <3>3. i # 1
      BY <2>10, <3>2
    <3>4. i - 1 \in 1 .. N /\ i - 1 < i
      BY <1>1, <3>2, <3>3
    <3>5. Good(i - 1)
      BY <3>1, <3>4
    <3> QED
      BY <2>11, <3>2, <3>3, <3>5
  <2>13. Good(N)
    <3>1. N \in 1 .. N
      BY <1>1, <1>3
    <3> HIDE DEF Good
    <3> QED
      BY <2>12, <3>1
  <2> QED
    BY <2>9, <2>13 DEF N
<1> QED
  BY <1>2, <1>3

(* What every graph of a normal form is like. *)
GraphOK(g) ==
  /\ IsFiniteSet(g.nodes) /\ g.nodes = 0 .. Cardinality(g.nodes) - 1
  /\ g.node \in [Var -> g.nodes] /\ \A n \in g.nodes : \E v \in Var : g.node[v] = n
  /\ \A d \in g.diff : d[1] \in g.nodes /\ d[2] \in g.nodes /\ d[2] < d[1]
  /\ g.edges \in Seq(Range(g.edges))
  /\ \A i \in DOMAIN g.edges :
       /\ g.edges[i].kind \in {"pto", "pred"}
       /\ g.edges[i].kind = "pred" => g.edges[i].label \in Int
       /\ g.edges[i].args \in Seq(g.nodes) /\ Len(g.edges[i].args) >= 2
       /\ g.edges[i].args[1] # g.node[0]
  /\ \A i, j \in DOMAIN g.edges :
       /\ i # j /\ g.edges[i].kind = "pto" /\ g.edges[j].kind = "pto"
       /\ g.edges[i].label = g.edges[j].label
       => IsDiff(g, g.edges[i].args[1], g.edges[j].args[1])

(* The edges of one atom.                                                  *)
Edges(nodes) == [kind : {"pto", "pred"}, label : Fields \union DOMAIN Preds, args : Seq(nodes)]

EdgeOf(e, k, at, node) ==
  IF at.kind = "pto"
  THEN /\ k \in DOMAIN at.fields
       /\ e.kind = "pto" /\ e.label = at.fields[k][1]
       /\ Len(e.args) = 2 /\ e.args[1] = node[at.src]
       /\ e.args[2] = node[at.fields[k][2]]
  ELSE /\ k = 1 /\ e.kind = "pred" /\ e.label = at.pid /\ e.label \in Int
       /\ e.args = [i \in DOMAIN at.args |-> node[at.args[i]]]
       /\ Len(e.args) >= 2 /\ e.args[1] = node[at.args[1]]
       /\ node[at.args[1]] # node[at.args[2]]

(* The numbers of these edges. *)
EdgeNumbers(at, node) ==
  IF at.kind = "pto" THEN DOMAIN at.fields
  ELSE IF node[at.args[1]] = node[at.args[2]] THEN {} ELSE {1}

LEMMA SegmentAtom ==
  ASSUME NEW at, AtomOK(at), at.kind # "pto"
  PROVE  /\ at.kind = "ls" /\ at.pid \in DOMAIN Preds /\ at.pid \in Int
         /\ at.args \in Seq(Var) /\ Len(at.args) \in Nat /\ Len(at.args) >= 2
         /\ at.args[1] \in Var /\ at.args[2] \in Var
<1>1. /\ at.kind = "ls" /\ at.pid \in DOMAIN Preds /\ at.pid \in Int
      /\ at.args \in Seq(Var) /\ Len(at.args) \in Nat /\ Len(at.args) >= 2
  BY HomAssumption DEF AtomOK, PredOK
<1> QED
  BY <1>1

LEMMA AtomEdges ==
  ASSUME NEW at, AtomOK(at), NEW nodes, NEW node \in [Var -> nodes]
  PROVE  /\ EdgesOfAtom(node, at) \in Seq(Edges(nodes))
         /\ DOMAIN EdgesOfAtom(node, at) = EdgeNumbers(at, node)
         /\ \A k \in DOMAIN EdgesOfAtom(node, at) : EdgeOf(EdgesOfAtom(node, at)[k], k, at, node)
<1> DEFINE es == EdgesOfAtom(node, at)
           Edge == Edges(nodes)
<1>1. CASE at.kind = "pto"
  <2>1. at.src \in Var /\ at.fields \in Seq(Fields \X Var)
    BY <1>1 DEF AtomOK
  <2> DEFINE edge(i) == [kind |-> "pto", label |-> at.fields[i][1],
                         args |-> <<node[at.src], node[at.fields[i][2]]>>]
  <2>2. es = [i \in DOMAIN at.fields |-> edge(i)]
    BY <1>1 DEF EdgesOfAtom
  <2>3. ASSUME NEW k \in DOMAIN at.fields
        PROVE  /\ edge(k) \in Edge /\ Len(edge(k).args) = 2 /\ edge(k).args[1] = node[at.src]
               /\ edge(k).args[2] = node[at.fields[k][2]]
    <3>1. at.fields[k] \in Fields \X Var
      BY <2>1
    <3>2. at.fields[k][1] \in Fields /\ node[at.fields[k][2]] \in nodes /\ node[at.src] \in nodes
      BY <2>1, <3>1
    <3>3. <<node[at.src], node[at.fields[k][2]]>> \in Seq(nodes)
      BY <3>2
    <3> QED
      BY <3>2, <3>3 DEF Edges
  <2>4. DOMAIN at.fields = 1 .. Len(at.fields) /\ Len(at.fields) \in Nat
    BY <2>1
  <2>5. \A k \in DOMAIN at.fields : edge(k).kind = "pto" /\ edge(k).label = at.fields[k][1]
    OBVIOUS
  <2> HIDE DEF edge, es, Edge
  <2>6. es \in Seq(Edge)
    BY <2>2, <2>3, <2>4
  <2>7. \A k \in DOMAIN es : k \in DOMAIN at.fields /\ es[k] = edge(k)
    BY <2>2
  <2>8. \A k \in DOMAIN es : EdgeOf(es[k], k, at, node)
    BY <1>1, <2>3, <2>5, <2>7 DEF EdgeOf
  <2>9. DOMAIN es = EdgeNumbers(at, node)
    BY <1>1, <2>2 DEF EdgeNumbers
  <2> QED
    BY <1>1, <2>6, <2>8, <2>9 DEF es, Edge
<1>2. CASE at.kind # "pto"
  <2>1. /\ at.pid \in DOMAIN Preds /\ at.pid \in Int /\ at.args \in Seq(Var)
        /\ Len(at.args) \in Nat /\ Len(at.args) >= 2
    BY <1>2, SegmentAtom
  <2> DEFINE args == [i \in DOMAIN at.args |-> node[at.args[i]]]
             edge == [kind |-> "pred", label |-> at.pid, args |-> args]
  <2>2. args \in Seq(nodes) /\ Len(args) = Len(at.args) /\ args[1] = node[at.args[1]]
    <3>1. DOMAIN at.args = 1 .. Len(at.args) /\ 1 \in DOMAIN at.args
      BY <2>1
    <3>2. \A i \in DOMAIN at.args : node[at.args[i]] \in nodes
      BY <2>1
    <3>3. args \in [1 .. Len(at.args) -> nodes]
      BY <3>1, <3>2
    <3>4. args[1] = node[at.args[1]]
      BY <3>1
    <3> HIDE DEF args
    <3> QED
      BY <2>1, <3>3, <3>4
  <2> HIDE DEF args
  <2>3. /\ edge \in Edge /\ edge.kind = "pred" /\ edge.label = at.pid /\ edge.label \in Int
        /\ edge.args = args
        /\ Len(edge.args) >= 2 /\ edge.args[1] = node[at.args[1]]
    BY <2>1, <2>2 DEF Edges
  <2>4. es = IF node[at.args[1]] = node[at.args[2]] THEN <<>> ELSE <<edge>>
    BY <1>2 DEF EdgesOfAtom, args
  <2> HIDE DEF edge, es, Edge
  <2>5. CASE node[at.args[1]] = node[at.args[2]]
    <3>1. es = <<>>
      BY <2>4, <2>5
    <3>2. DOMAIN es = EdgeNumbers(at, node)
      BY <1>2, <2>5, <3>1 DEF EdgeNumbers
    <3> QED
      BY <1>2, <3>1, <3>2 DEF es, Edge
  <2>6. CASE node[at.args[1]] # node[at.args[2]]
    <3>1. es = <<edge>>
      BY <2>4, <2>6
    <3>2. es \in Seq(Edge) /\ \A k \in DOMAIN es : k = 1 /\ es[k] = edge
      BY <2>3, <3>1
    <3>3. \A k \in DOMAIN es : EdgeOf(es[k], k, at, node)
      BY <1>2, <2>3, <2>6, <3>2 DEF EdgeOf, args
    <3>4. DOMAIN es = EdgeNumbers(at, node)
      <4>1. DOMAIN es = {1}
        BY <3>1
      <4> QED
        BY <1>2, <2>6, <4>1 DEF EdgeNumbers
    <3> QED
      BY <1>2, <3>2, <3>3, <3>4 DEF es, Edge
  <2> QED
    BY <2>5, <2>6
<1> QED
  BY <1>1, <1>2

(* Two nodes of variables that differ in each heap. *)
LEMMA DiffNodes ==
  ASSUME NEW f, NEW ms, Normal(f, ms), NEW x \in Var, NEW y \in Var,
         \A m \in ms : m[1][x] # m[1][y]
  PROVE  LET node == NodesOfForm(f.pure)
         IN  <<Hi(node[x], node[y]), Lo(node[x], node[y])>> \in GraphOfPure(node, f.pure)
<1> DEFINE node == NodesOfForm(f.pure)
           nodes == {node[i] : i \in Var}
           c == <<Lo(x, y), Hi(x, y)>>
<1>1. x \in Int /\ y \in Int /\ \A i \in Var : node[i] \in Int
  <2>1. node \in [Var -> nodes] /\ nodes \subseteq Nat
    BY NodesOfNormal
  <2> HIDE DEF node, nodes
  <2>2. \A n \in nodes : n \in Int
    BY <2>1
  <2>3. \A i \in Var : i \in Int
    BY VarFacts
  <2> QED
    BY <2>1, <2>2, <2>3
<1>2. c \in Cell /\ f.pure[c] = "neq"
  <2>1. CASE x <= y
    <3>1. c = <<x, y>> /\ <<x, y>> \in Cell
      BY <1>1, <2>1 DEF Lo, Hi, Cell
    <3>2. f.pure[<<x, y>>] = "neq"
      BY <2>1, SameCell
    <3> QED
      BY <3>1, <3>2
  <2>2. CASE ~ (x <= y)
    <3>1. y <= x
      BY <1>1, <2>2
    <3>2. c = <<y, x>> /\ <<y, x>> \in Cell
      BY <1>1, <2>2 DEF Lo, Hi, Cell
    <3>3. f.pure[<<y, x>>] = "neq"
      BY <3>1, SameCell
    <3> QED
      BY <3>2, <3>3
  <2> QED
    BY <2>1, <2>2
<1> HIDE DEF node
<1>3. /\ Hi(node[c[1]], node[c[2]]) = Hi(node[x], node[y])
      /\ Lo(node[c[1]], node[c[2]]) = Lo(node[x], node[y])
  BY <1>1 DEF Hi, Lo
<1> HIDE DEF c
<1>4. <<Hi(node[x], node[y]), Lo(node[x], node[y])>> \in GraphOfPure(node, f.pure)
  BY <1>2, <1>3 DEF GraphOfPure
<1> QED
  BY <1>4 DEF node

(* Each edge of a graph is of an atom, and each atom has its edges.        *)
Owned(g, sp, a, k) ==
  /\ \A p \in DOMAIN g.edges : /\ a[p] \in DOMAIN sp /\ AtomOK(sp[a[p]])
                               /\ EdgeOf(g.edges[p], k[p], sp[a[p]], g.node)
  /\ \A p, q \in DOMAIN g.edges : p # q => a[p] # a[q] \/ k[p] # k[q]
  /\ \A i \in DOMAIN sp : \A j \in EdgeNumbers(sp[i], g.node) :
       \E p \in DOMAIN g.edges : a[p] = i /\ k[p] = j

LEMMA Owners ==
  ASSUME NEW f \in NormalForms(Pures)
  PROVE  LET g == GraphOfForm(f)
         IN  /\ g.edges \in Seq(Edges(g.nodes))
             /\ \E a, k : Owned(g, f.space, a, k)
<1>1. PICK ms : Normal(f, ms)
  BY NormalFormsHaveHeaps
<1> DEFINE g == GraphOfForm(f)
           node == NodesOfForm(f.pure)
           nodes == {node[i] : i \in Var}
           sp == f.space
           Edge == Edges(nodes)
           seqs == [i \in DOMAIN sp |-> EdgesOfAtom(node, sp[i])]
           flat == FlattenSeq(seqs)
<1>2. node \in [Var -> nodes]
  BY <1>1, NodesOfNormal
<1>3. g.nodes = nodes /\ g.node = node /\ g.edges = flat
  BY DEF GraphOfForm, GraphOfSpace
<1>4. sp \in Seq(Range(sp)) /\ \A i \in DOMAIN sp : AtomOK(sp[i])
  BY <1>1, SpaceTypes DEF Normal
<1> HIDE DEF g, node, nodes
<1>5. ASSUME NEW i \in DOMAIN sp
      PROVE  /\ seqs[i] \in Seq(Edge) /\ DOMAIN seqs[i] = EdgeNumbers(sp[i], node)
             /\ \A k \in DOMAIN seqs[i] : EdgeOf(seqs[i][k], k, sp[i], node)
  <2>1. seqs[i] = EdgesOfAtom(node, sp[i]) /\ AtomOK(sp[i])
    BY <1>4
  <2> HIDE DEF seqs, sp
  <2> QED
    BY <1>2, <2>1, AtomEdges
<1>6. seqs \in Seq(Seq(Edge)) /\ Len(seqs) = Len(sp) /\ DOMAIN sp = 1 .. Len(sp)
  <2>1. DOMAIN sp = 1 .. Len(sp) /\ Len(sp) \in Nat
    BY <1>4
  <2>2. seqs \in [1 .. Len(sp) -> Seq(Edge)]
    <3>1. DOMAIN seqs = DOMAIN sp /\ seqs = [i \in DOMAIN sp |-> seqs[i]]
      OBVIOUS
    <3> HIDE DEF seqs, sp, Edge
    <3> QED
      BY <1>5, <2>1, <3>1
  <2> HIDE DEF seqs, sp, Edge
  <2> QED
    BY <2>1, <2>2
<1> HIDE DEF seqs, sp
<1>7. flat \in Seq(Edge) /\ \E a, k : Origins(flat, seqs, Len(seqs), a, k)
  <2> HIDE DEF Edge
  <2> QED
    BY <1>6, Flattened
<1> HIDE DEF flat
<1>8. PICK a, k : Origins(flat, seqs, Len(seqs), a, k)
  BY <1>7
<1>9. ASSUME NEW p \in DOMAIN flat
      PROVE  /\ a[p] \in DOMAIN sp /\ AtomOK(sp[a[p]])
             /\ EdgeOf(flat[p], k[p], sp[a[p]], node)
  <2>1. a[p] \in DOMAIN sp /\ k[p] \in DOMAIN seqs[a[p]] /\ flat[p] = seqs[a[p]][k[p]]
    BY <1>6, <1>8 DEF Origins
  <2> HIDE DEF Edge
  <2> QED
    BY <1>4, <1>5, <2>1
<1>10. \A i \in DOMAIN sp : \A j \in EdgeNumbers(sp[i], node) :
         \E p \in DOMAIN flat : a[p] = i /\ k[p] = j
  <2> SUFFICES ASSUME NEW i \in DOMAIN sp, NEW j \in EdgeNumbers(sp[i], node)
               PROVE  \E p \in DOMAIN flat : a[p] = i /\ k[p] = j
    OBVIOUS
  <2>1. j \in DOMAIN seqs[i] /\ i \in 1 .. Len(seqs)
    BY <1>5, <1>6
  <2> QED
    BY <1>8, <2>1 DEF Origins
<1>11. \A p, q \in DOMAIN flat : p # q => a[p] # a[q] \/ k[p] # k[q]
  BY <1>8 DEF Origins
<1>12. Owned(g, sp, a, k)
  BY <1>3, <1>9, <1>10, <1>11 DEF Owned
<1> HIDE DEF Edge
<1>13. g.edges \in Seq(Edges(g.nodes))
  BY <1>3, <1>7 DEF Edge
<1> QED
  BY <1>12, <1>13 DEF g, sp

(* The points-to edges of two atoms start from nodes that differ.          *)
LEMMA TwoSources ==
  ASSUME NEW f \in NormalForms(Pures), NEW a, NEW k, Owned(GraphOfForm(f), f.space, a, k),
         NEW p \in DOMAIN GraphOfForm(f).edges, NEW q \in DOMAIN GraphOfForm(f).edges,
         GraphOfForm(f).edges[p].kind = "pto", GraphOfForm(f).edges[q].kind = "pto", a[p] # a[q]
  PROVE  IsDiff(GraphOfForm(f), GraphOfForm(f).edges[p].args[1], GraphOfForm(f).edges[q].args[1])
<1> DEFINE g == GraphOfForm(f)
           node == NodesOfForm(f.pure)
           sp == f.space
           x == sp[a[p]].src
           y == sp[a[q]].src
<1>1. PICK ms : Normal(f, ms)
  BY NormalFormsHaveHeaps
<1>2. g.node = node /\ g.diff = GraphOfPure(node, f.pure)
  BY DEF GraphOfForm
<1>3. sp \in Spaces /\ \A m \in ms : m \in ModelsOf(sp)
  BY <1>1 DEF Normal
<1>4. /\ a[p] \in DOMAIN sp /\ AtomOK(sp[a[p]]) /\ EdgeOf(g.edges[p], k[p], sp[a[p]], g.node)
      /\ a[q] \in DOMAIN sp /\ AtomOK(sp[a[q]]) /\ EdgeOf(g.edges[q], k[q], sp[a[q]], g.node)
  BY DEF Owned
<1> HIDE DEF g, sp
<1>5. sp[a[p]].kind = "pto" /\ sp[a[q]].kind = "pto"
  BY <1>4 DEF EdgeOf, g
<1>6. g.edges[p].args[1] = node[x] /\ g.edges[q].args[1] = node[y] /\ x \in Var /\ y \in Var
  BY <1>2, <1>4, <1>5 DEF EdgeOf, AtomOK
<1>7. \A m \in ms : m[1][x] # m[1][y]
  BY <1>3, <1>4, <1>5, AtomsAllocate
<1>8. <<Hi(node[x], node[y]), Lo(node[x], node[y])>> \in g.diff
  <2> HIDE DEF x, y
  <2> QED
    BY <1>1, <1>2, <1>6, <1>7, DiffNodes
<1> QED
  BY <1>6, <1>8 DEF IsDiff, g

LEMMA GraphOfNormal ==
  ASSUME NEW f \in NormalForms(Pures)
  PROVE  GraphOK(GraphOfForm(f))
<1>1. PICK ms : Normal(f, ms)
  BY NormalFormsHaveHeaps
<1> DEFINE g == GraphOfForm(f)
           node == NodesOfForm(f.pure)
           nodes == {node[i] : i \in Var}
           sp == f.space
           Edge == Edges(nodes)
           flat == g.edges
<1>2. /\ node \in [Var -> nodes] /\ IsFiniteSet(nodes)
      /\ nodes = 0 .. Cardinality(nodes) - 1 /\ nodes \subseteq Nat
      /\ \A i, j \in Var : node[i] = node[j] <=> Same(ms, i, j)
  BY <1>1, NodesOfNormal
<1>3. /\ g.nodes = nodes /\ g.node = node
      /\ g.diff = GraphOfPure(node, f.pure)
  BY DEF GraphOfForm
<1>4. /\ sp \in Seq(Range(sp)) /\ sp \in Spaces
      /\ \A i \in DOMAIN sp : AtomOK(sp[i])
      /\ \E m \in ms : TRUE
      /\ \A m \in ms : m \in ModelsOf(sp)
  BY <1>1, SpaceTypes DEF Normal
<1> HIDE DEF g, node
<1>5. ASSUME NEW n \in nodes PROVE \E v \in Var : node[v] = n
  OBVIOUS
<1> HIDE DEF nodes
<1>6. ASSUME NEW d \in g.diff PROVE d[1] \in nodes /\ d[2] \in nodes /\ d[2] < d[1]
  <2>1. PICK x \in Cell : f.pure[x] = "neq" /\ d = <<Hi(node[x[1]], node[x[2]]), Lo(node[x[1]], node[x[2]])>>
    BY <1>3 DEF GraphOfPure
  <2>2. x[1] \in Var /\ x[2] \in Var /\ node[x[1]] \in nodes /\ node[x[2]] \in nodes
    BY <1>2 DEF Cell
  <2>3. \A m \in ms : m[1][x[1]] # m[1][x[2]]
    BY <1>1, <2>1 DEF Normal
  <2>4. node[x[1]] # node[x[2]]
    BY <1>2, <1>4, <2>2, <2>3 DEF Same
  <2>5. node[x[1]] \in Int /\ node[x[2]] \in Int
    <3>1. nodes \subseteq Nat
      BY <1>2
    <3>2. \A n \in nodes : n \in Int
      BY <3>1
    <3> QED
      BY <2>2, <3>2
  <2> QED
    BY <2>1, <2>2, <2>4, <2>5 DEF Hi, Lo
<1>7. flat \in Seq(Edge) /\ \E a, k : Owned(g, sp, a, k)
  <2>1. GraphOfForm(f).edges \in Seq(Edges(GraphOfForm(f).nodes)) /\ \E a, k : Owned(GraphOfForm(f), f.space, a, k)
    BY Owners
  <2> QED
    BY <1>3, <2>1 DEF g
<1> HIDE DEF flat, sp
<1>8. PICK a, k : Owned(g, sp, a, k)
  BY <1>7
<1> DEFINE at(p) == sp[a[p]]
<1>11. ASSUME NEW p \in DOMAIN flat
       PROVE  /\ a[p] \in DOMAIN sp /\ AtomOK(at(p)) /\ flat[p] \in Edge
              /\ EdgeOf(flat[p], k[p], at(p), node)
  <2>1. flat[p] \in Edge
    <3> HIDE DEF Edge
    <3> QED
      BY <1>7
  <2> QED
    BY <1>3, <1>8, <2>1 DEF Owned, flat
<1>12. ASSUME NEW p \in DOMAIN flat
       PROVE  /\ flat[p].kind \in {"pto", "pred"}
              /\ flat[p].kind = "pred" => flat[p].label \in Int
              /\ flat[p].args \in Seq(nodes) /\ Len(flat[p].args) >= 2
              /\ flat[p].args[1] # node[0]
  <2>1. flat[p].args \in Seq(nodes)
    BY <1>11 DEF Edges
  <2>2. PICK m \in ms : m \in ModelsOf(sp)
    BY <1>4
  <2>3. m[1][0] = 0
    BY <1>4, <2>2, ModelHolds, StackTypes
  <2>4. a[p] \in DOMAIN sp
    BY <1>11
  <2> HIDE DEF at
  <2>5. CASE at(p).kind = "pto"
    <3>1. m[1][at(p).src] # 0
      BY <1>4, <2>2, <2>4, <2>5, AtomsAllocate DEF at
    <3>2. ~ Same(ms, at(p).src, 0)
      BY <2>3, <3>1 DEF Same
    <3>3. at(p).src \in Var
      BY <1>11, <2>5 DEF AtomOK
    <3>4. node[at(p).src] # node[0]
      BY <1>2, <3>2, <3>3, VarFacts
    <3>5. flat[p].kind = "pto" /\ Len(flat[p].args) = 2 /\ flat[p].args[1] = node[at(p).src]
      BY <1>11, <2>5 DEF EdgeOf
    <3> QED
      BY <2>1, <3>4, <3>5
  <2>6. CASE at(p).kind # "pto"
    <3>1. at(p).kind = "ls" /\ at(p).args[1] \in Var /\ at(p).args[2] \in Var
      BY <1>11, <2>6, SegmentAtom
    <3>2. /\ flat[p].kind = "pred" /\ flat[p].label \in Int
          /\ Len(flat[p].args) >= 2 /\ flat[p].args[1] = node[at(p).args[1]]
          /\ node[at(p).args[1]] # node[at(p).args[2]]
      BY <1>11, <2>6 DEF EdgeOf
    <3>3. ~ Same(ms, at(p).args[1], at(p).args[2])
      BY <1>2, <3>1, <3>2
    <3>4. PICK w \in ms : w[1][at(p).args[1]] # w[1][at(p).args[2]]
      BY <3>3 DEF Same
    <3>5. w \in ModelsOf(sp)
      BY <1>4
    <3>6. w[1][at(p).args[1]] # 0
      BY <1>4, <2>4, <3>1, <3>4, <3>5, AtomsAllocate DEF at
    <3>7. w[1][0] = 0
      BY <1>4, <3>5, ModelHolds, StackTypes
    <3>8. ~ Same(ms, at(p).args[1], 0)
      BY <3>6, <3>7 DEF Same
    <3>9. node[at(p).args[1]] # node[0]
      BY <1>2, <3>1, <3>8, VarFacts
    <3> QED
      BY <2>1, <3>2, <3>9
  <2> QED
    BY <2>5, <2>6
<1>13. ASSUME NEW p \in DOMAIN flat, NEW q \in DOMAIN flat, p # q,
              flat[p].kind = "pto", flat[q].kind = "pto", flat[p].label = flat[q].label
       PROVE  IsDiff(g, flat[p].args[1], flat[q].args[1])
  <2>1. at(p).kind = "pto" /\ at(q).kind = "pto"
    BY <1>11, <1>13 DEF EdgeOf
  <2>2. /\ a[p] \in DOMAIN sp /\ a[q] \in DOMAIN sp /\ AtomOK(at(p)) /\ AtomOK(at(q))
        /\ k[p] \in DOMAIN at(p).fields /\ k[q] \in DOMAIN at(q).fields
        /\ flat[p].label = at(p).fields[k[p]][1] /\ flat[q].label = at(q).fields[k[q]][1]
        /\ flat[p].args[1] = node[at(p).src] /\ flat[q].args[1] = node[at(q).src]
    BY <1>11, <2>1 DEF EdgeOf
  <2>4. a[p] # a[q]
    <3> SUFFICES ASSUME a[p] = a[q] PROVE FALSE
      OBVIOUS
    <3>1. k[p] # k[q]
      BY <1>8, <1>13 DEF Owned, flat
    <3>2. at(p) = at(q)
      OBVIOUS
    <3> HIDE DEF at
    <3> QED
      BY <1>13, <2>1, <2>2, <3>1, <3>2 DEF AtomOK
  <2> QED
    BY <1>8, <1>13, <2>4, TwoSources DEF g, flat, sp
<1>14. flat \in Seq(Range(flat))
  <2>1. flat \in Seq(Edge)
    BY <1>7
  <2> HIDE DEF Edge
  <2>2. flat \in [1 .. Len(flat) -> Range(flat)] /\ Len(flat) \in Nat
    BY <2>1 DEF Range
  <2> QED
    BY <2>2
<1> QED
  BY <1>2, <1>3, <1>5, <1>6, <1>12, <1>13, <1>14 DEF GraphOK, g, flat

-----------------------------------------------------------------------------
(* The invariant.                                                          *)

(* A marked edge was given to a points-to edge that was gone through, of   *)
(* which it is an image.                                                   *)
Given ==
  \A e \in DOMAIN used : used[e] # 0 =>
    /\ used[e] <= next /\ g1.edges[used[e]].kind = "pto"
    /\ e \in PtoImages(g1.edges[used[e]])

HInv ==
  /\ pc \in {"nodes", "pto", "rd", "done", "crashed", "looping"}
  /\ res \in {0, 1} /\ next \in 0 .. Len(g1.edges)
  /\ GraphOK(g1) /\ GraphOK(g2)
  /\ pc = "nodes" => used = <<>> /\ next = 0
  /\ pc # "nodes" => /\ nhom \in [g1.nodes -> g2.nodes]
                     /\ used \in [DOMAIN g2.edges -> 0 .. Len(g1.edges)]
  /\ pc = "pto" => DiffMapped(nhom) /\ Given

LEMMA EdgeTypes ==
  ASSUME NEW g, GraphOK(g)
  PROVE  /\ Len(g.edges) \in Nat /\ DOMAIN g.edges = 1 .. Len(g.edges)
         /\ \A n \in g.nodes : n \in Int
         /\ \A i \in DOMAIN g.edges : g.edges[i].args[1] \in g.nodes /\ g.edges[i].args[2] \in g.nodes
<1>1. Len(g.edges) \in Nat /\ DOMAIN g.edges = 1 .. Len(g.edges)
  BY DEF GraphOK
<1>2. \A n \in g.nodes : n \in Int
  <2>1. g.nodes = 0 .. Cardinality(g.nodes) - 1 /\ Cardinality(g.nodes) \in Nat
    BY FS_CardinalityType DEF GraphOK
  <2> QED
    BY <2>1
<1>3. ASSUME NEW i \in DOMAIN g.edges
      PROVE  g.edges[i].args[1] \in g.nodes /\ g.edges[i].args[2] \in g.nodes
  <2>1. g.edges[i].args \in Seq(g.nodes) /\ Len(g.edges[i].args) >= 2
    BY DEF GraphOK
  <2>2. Len(g.edges[i].args) \in Nat
    BY <2>1
  <2> QED
    BY <2>1, <2>2
<1> QED
  BY <1>1, <1>2, <1>3

(* The last variable at a node exists, so the node has an image.           *)
LEMMA ImageTypes ==
  ASSUME GraphOK(g1), GraphOK(g2), NEW n \in g1.nodes
  PROVE  NodeImage(n) \in g2.nodes
<1> DEFINE labels == {v \in Var : g1.node[v] = n}
           S == {Size - v : v \in labels}
<1>1. Size \in Nat /\ \A v \in Var : v \in Int /\ 0 <= v /\ v < Size
  BY SizeAssumption DEF Var
<1>2. labels \subseteq Var /\ \E v \in labels : TRUE
  BY DEF GraphOK
<1> HIDE DEF labels
<1>3. S \subseteq Nat /\ S # {}
  BY <1>1, <1>2
<1>4. PICK a \in S : \A i \in S : ~ (i < a)
  <2> HIDE DEF S
  <2> QED
    BY <1>3, Least
<1>5. PICK v \in labels : a = Size - v
  OBVIOUS
<1>6. \A w \in labels : w <= v
  <2> SUFFICES ASSUME NEW w \in labels PROVE w <= v
    OBVIOUS
  <2>1. Size - w \in S /\ ~ (Size - w < Size - v)
    BY <1>4, <1>5
  <2>2. v \in Int /\ w \in Int
    BY <1>1, <1>2
  <2> QED
    BY <1>1, <2>1, <2>2
<1> DEFINE last == CHOOSE u \in labels : \A w \in labels : w <= u
<1>7. last \in labels
  BY <1>6
<1>8. NodeImage(n) = g2.node[last]
  BY DEF NodeImage, labels
<1> HIDE DEF last
<1> QED
  BY <1>2, <1>7, <1>8 DEF GraphOK

(* The predicate edges of the right side are gone through once each.       *)
LEMMA RdOrderTypes ==
  ASSUME GraphOK(g1)
  PROVE  /\ Len(RdOrder) \in 0 .. Len(g1.edges)
         /\ \A n \in 1 .. Len(RdOrder) :
              RdOrder[n] \in DOMAIN g1.edges /\ g1.edges[RdOrder[n]].kind = "pred"
<1> DEFINE E == DOMAIN g1.edges
           lab(i) == g1.edges[i].label
           S == {i \in E : g1.edges[i].kind = "pred"}
           R == {c \in S \X S : \/ lab(c[1]) > lab(c[2])
                                \/ lab(c[1]) = lab(c[2]) /\ c[1] > c[2]}
<1>1. Len(g1.edges) \in Nat /\ E = 1 .. Len(g1.edges)
  BY EdgeTypes
<1>2. IsFiniteSet(E) /\ Cardinality(E) = Len(g1.edges)
  <2> HIDE DEF E
  <2> QED
    BY <1>1, FS_Interval
<1>3. \A i \in S : i \in Int /\ lab(i) \in Int
  BY <1>1 DEF GraphOK
<1>4. S \subseteq E /\ \A i \in S : g1.edges[i].kind = "pred"
  OBVIOUS
<1> HIDE DEF E, S
<1>5. IsFiniteSet(S) /\ Cardinality(S) \in Nat /\ Cardinality(S) <= Len(g1.edges)
  BY <1>2, <1>4, FS_Subset, FS_CardinalityType
<1>6. \A a, b \in S : <<a, b>> \in R <=> (lab(a) > lab(b)) \/ (lab(a) = lab(b) /\ a > b)
  OBVIOUS
<1> HIDE DEF R, lab
<1>7. Orders(R, S)
  <2>1. \A a \in S : <<a, a>> \notin R
    BY <1>3, <1>6
  <2>2. ASSUME NEW a \in S, NEW b \in S, NEW c \in S, <<a, b>> \in R, <<b, c>> \in R
        PROVE  <<a, c>> \in R
    <3>1. /\ a \in Int /\ b \in Int /\ c \in Int
          /\ lab(a) \in Int /\ lab(b) \in Int /\ lab(c) \in Int
      BY <1>3
    <3>2. /\ (lab(a) > lab(b)) \/ (lab(a) = lab(b) /\ a > b)
          /\ (lab(b) > lab(c)) \/ (lab(b) = lab(c) /\ b > c)
      BY <1>6, <2>2
    <3>3. (lab(a) > lab(c)) \/ (lab(a) = lab(c) /\ a > c)
      BY <3>1, <3>2
    <3>4. <<a, c>> \in R <=> (lab(a) > lab(c)) \/ (lab(a) = lab(c) /\ a > c)
      BY <1>6
    <3> QED
      BY <3>3, <3>4
  <2>3. ASSUME NEW a \in S, NEW b \in S PROVE (a = b) \/ (<<a, b>> \in R) \/ (<<b, a>> \in R)
    <3>1. a \in Int /\ b \in Int /\ lab(a) \in Int /\ lab(b) \in Int
      BY <1>3
    <3>2. \/ a = b
          \/ (lab(a) > lab(b)) \/ (lab(a) = lab(b) /\ a > b)
          \/ (lab(b) > lab(a)) \/ (lab(b) = lab(a) /\ b > a)
      BY <3>1
    <3>3. /\ <<a, b>> \in R <=> (lab(a) > lab(b)) \/ (lab(a) = lab(b) /\ a > b)
          /\ <<b, a>> \in R <=> (lab(b) > lab(a)) \/ (lab(b) = lab(a) /\ b > a)
      BY <1>6
    <3> QED
      BY <3>2, <3>3
  <2> QED
    BY <2>1, <2>2, <2>3 DEF Orders
<1>8. Ranked(S, R) \in Seq(S) /\ Len(Ranked(S, R)) = Cardinality(S)
  BY <1>5, <1>7, RankedSorts
<1>9. RdOrder = Ranked(S, R)
  BY DEF RdOrder, S, R, lab, E
<1>10. /\ Len(RdOrder) \in 0 .. Len(g1.edges)
       /\ \A n \in 1 .. Len(RdOrder) : RdOrder[n] \in E /\ g1.edges[RdOrder[n]].kind = "pred"
  <2>1. RdOrder \in Seq(S) /\ Len(RdOrder) = Cardinality(S)
    BY <1>8, <1>9
  <2>2. \A n \in 1 .. Len(RdOrder) : RdOrder[n] \in S
    BY <2>1
  <2>3. \A n \in 1 .. Len(RdOrder) : RdOrder[n] \in E /\ g1.edges[RdOrder[n]].kind = "pred"
    BY <1>4, <2>2
  <2>4. Len(RdOrder) \in 0 .. Len(g1.edges)
    BY <1>1, <1>5, <2>1
  <2> QED
    BY <2>3, <2>4
<1> QED
  BY <1>10 DEF E

(* The first image of an edge. *)
LEMMA FirstImage ==
  ASSUME GraphOK(g2), NEW e, PtoImages(e) # {}
  PROVE  LET i == CHOOSE i \in PtoImages(e) : \A j \in PtoImages(e) : i <= j
         IN  i \in PtoImages(e) /\ i \in DOMAIN g2.edges
<1>1. PtoImages(e) \subseteq DOMAIN g2.edges
  BY DEF PtoImages
<1>2. PtoImages(e) \subseteq Nat
  BY <1>1, EdgeTypes
<1>3. PICK a \in PtoImages(e) : \A i \in PtoImages(e) : ~ (i < a)
  BY <1>2, Least
<1>4. \A j \in PtoImages(e) : a <= j
  BY <1>2, <1>3
<1> QED
  BY <1>1, <1>4

(* An image of a points-to edge of the right side was not given to an      *)
(* earlier one: their sources differ, and so do the images of these.       *)
LEMMA Unmarked ==
  ASSUME HInv, pc = "pto", next < Len(g1.edges), g1.edges[next + 1].kind = "pto",
         NEW i \in PtoImages(g1.edges[next + 1])
  PROVE  used[i] = 0
<1> SUFFICES ASSUME used[i] # 0 PROVE FALSE
  OBVIOUS
<1> DEFINE u == used[i]
           e1 == g1.edges[u]
           e2 == g1.edges[next + 1]
           s1 == e1.args[1]
           s2 == e2.args[1]
           t == g2.edges[i].args[1]
<1>1. /\ GraphOK(g1) /\ GraphOK(g2) /\ DiffMapped(nhom) /\ Given
      /\ nhom \in [g1.nodes -> g2.nodes] /\ next \in 0 .. Len(g1.edges)
      /\ used \in [DOMAIN g2.edges -> 0 .. Len(g1.edges)]
  BY DEF HInv
<1>2. Len(g1.edges) \in Nat /\ DOMAIN g1.edges = 1 .. Len(g1.edges)
  BY <1>1, EdgeTypes
<1>3. i \in DOMAIN g2.edges /\ g2.edges[i].label = e2.label /\ t = nhom[s2]
  BY DEF PtoImages
<1>4. u <= next /\ e1.kind = "pto" /\ i \in PtoImages(e1)
  BY <1>1, <1>3 DEF Given
<1>5. g2.edges[i].label = e1.label /\ t = nhom[s1]
  BY <1>4 DEF PtoImages
<1>6. u \in DOMAIN g1.edges /\ next + 1 \in DOMAIN g1.edges /\ u # next + 1
  <2>1. u \in 0 .. Len(g1.edges) /\ u # 0
    BY <1>1, <1>3
  <2> HIDE DEF u
  <2> QED
    BY <1>1, <1>2, <1>4, <2>1
<1>7. s1 \in g1.nodes /\ s2 \in g1.nodes /\ t \in g2.nodes
  BY <1>1, <1>3, <1>6, EdgeTypes
<1>8. e1.label = e2.label
  BY <1>3, <1>5
<1>9. IsDiff(g1, s1, s2)
  <2> HIDE DEF u
  <2> QED
    BY <1>1, <1>4, <1>6, <1>8 DEF GraphOK
<1> HIDE DEF s1, s2, t
<1>10. <<Hi(s1, s2), Lo(s1, s2)>> \in g1.diff
  BY <1>9 DEF IsDiff
<1>11. IsDiff(g2, nhom[Hi(s1, s2)], nhom[Lo(s1, s2)])
  <2> DEFINE d == <<Hi(s1, s2), Lo(s1, s2)>>
  <2>1. d \in g1.diff /\ d[1] = Hi(s1, s2) /\ d[2] = Lo(s1, s2)
    BY <1>10
  <2> HIDE DEF d
  <2> QED
    BY <1>1, <2>1 DEF DiffMapped
<1>12. nhom[Hi(s1, s2)] = t /\ nhom[Lo(s1, s2)] = t
  BY <1>3, <1>5 DEF Hi, Lo
<1>13. IsDiff(g2, t, t)
  BY <1>11, <1>12
<1>14. t \in Int
  BY <1>1, <1>7, EdgeTypes
<1>15. <<t, t>> \in g2.diff
  BY <1>13, <1>14 DEF IsDiff, Hi, Lo
<1>16. t < t
  <2> DEFINE d == <<t, t>>
  <2>1. d \in g2.diff /\ d[1] = t /\ d[2] = t
    BY <1>15
  <2> HIDE DEF d
  <2> QED
    BY <1>1, <2>1 DEF GraphOK
<1> QED
  BY <1>14, <1>16

-----------------------------------------------------------------------------
(* The actions.                                                            *)

LEMMA InitHolds == Init => HInv
<1> SUFFICES ASSUME Init PROVE HInv
  OBVIOUS
<1>1. GraphOK(g1) /\ GraphOK(g2)
  <2>1. PICK p \in Problems : g2 = p[2]
    BY DEF Init
  <2>2. PICK n \in Problems : g1 = n[2]
    BY DEF Init
  <2>3. \A q \in Problems : GraphOK(q[2])
    BY GraphOfNormal DEF Problems
  <2> QED
    BY <2>1, <2>2, <2>3
<1>2. Len(g1.edges) \in Nat
  BY <1>1, EdgeTypes
<1> QED
  BY <1>1, <1>2 DEF Init, HInv

LEMMA BuildNodesStep ==
  ASSUME HInv, BuildNodes
  PROVE  HInv' /\ \A e \in DOMAIN used : used[e] # 0 => used'[e] = used[e]
<1> DEFINE hom == [n \in g1.nodes |-> NodeImage(n)]
<1>1. /\ GraphOK(g1) /\ GraphOK(g2) /\ next = 0 /\ used = <<>> /\ pc = "nodes"
      /\ res \in {0, 1}
  BY DEF HInv, BuildNodes
<1>2. hom \in [g1.nodes -> g2.nodes]
  BY <1>1, ImageTypes
<1>3. Len(g1.edges) \in Nat
  BY <1>1, EdgeTypes
<1>4. /\ nhom' = hom /\ used' = [e \in DOMAIN g2.edges |-> 0]
      /\ \/ pc' = "done" /\ res' \in {0, 1}
         \/ pc' = "pto" /\ res' = res /\ DiffMapped(hom)
      /\ g1' = g1 /\ g2' = g2 /\ next' = next
  BY DEF BuildNodes, Finish, inputs
<1> HIDE DEF hom
<1>5. used' \in [DOMAIN g2.edges -> 0 .. Len(g1.edges)] /\ \A e \in DOMAIN used' : used'[e] = 0
  BY <1>3, <1>4
<1>6. pc' = "pto" => DiffMapped(nhom)' /\ Given'
  BY <1>4, <1>5 DEF DiffMapped, Given
<1>7. HInv'
  BY <1>1, <1>2, <1>3, <1>4, <1>5, <1>6 DEF HInv
<1> QED
  BY <1>1, <1>7

LEMMA BuildPtoStep ==
  ASSUME HInv, BuildPto
  PROVE  HInv' /\ \A e \in DOMAIN used : used[e] # 0 => used'[e] = used[e]
<1> DEFINE e1 == g1.edges[next + 1]
           images == PtoImages(e1)
           i == CHOOSE i \in images : \A j \in images : i <= j
<1>1. /\ GraphOK(g1) /\ GraphOK(g2) /\ DiffMapped(nhom) /\ Given /\ pc = "pto"
      /\ nhom \in [g1.nodes -> g2.nodes] /\ next \in 0 .. Len(g1.edges) /\ res \in {0, 1}
      /\ used \in [DOMAIN g2.edges -> 0 .. Len(g1.edges)]
  BY DEF HInv, BuildPto
<1>2. /\ next < Len(g1.edges)
      /\ g1' = g1 /\ g2' = g2 /\ nhom' = nhom
      /\ \/ e1.kind = "pred" /\ next' = next + 1 /\ pc' = pc /\ used' = used /\ res' = res
         \/ pc' = "done" /\ res' = 0 /\ next' = next /\ used' = used
         \/ /\ e1.kind = "pto" /\ images # {}
            /\ used' = [used EXCEPT ![i] = next + 1]
            /\ next' = next + 1 /\ pc' = pc /\ res' = res
  BY DEF BuildPto, Finish, inputs
<1>3. Len(g1.edges) \in Nat
  BY <1>1, EdgeTypes
<1>4. \A e : PtoImages(e)' = PtoImages(e)
  BY <1>2 DEF PtoImages
<1>5. DiffMapped(nhom)'
  BY <1>1, <1>2 DEF DiffMapped
<1> HIDE DEF i, images, e1
<1>6. CASE e1.kind = "pred" /\ next' = next + 1 /\ pc' = pc /\ used' = used /\ res' = res
  <2>1. next' \in 0 .. Len(g1.edges) /\ \A e \in DOMAIN used : used[e] <= next => used[e] <= next'
    BY <1>1, <1>2, <1>3, <1>6
  <2>2. Given'
    BY <1>1, <1>2, <1>4, <1>6, <2>1 DEF Given
  <2>3. HInv'
    BY <1>1, <1>2, <1>5, <1>6, <2>1, <2>2 DEF HInv
  <2> QED
    BY <1>6, <2>3
<1>7. CASE pc' = "done" /\ res' = 0 /\ next' = next /\ used' = used
  <2>1. HInv'
    BY <1>1, <1>2, <1>7 DEF HInv
  <2> QED
    BY <1>7, <2>1
<1>8. CASE /\ e1.kind = "pto" /\ images # {}
           /\ used' = [used EXCEPT ![i] = next + 1]
           /\ next' = next + 1 /\ pc' = pc /\ res' = res
  <2>1. i \in images /\ i \in DOMAIN g2.edges
    BY <1>1, <1>8, FirstImage DEF i, images
  <2>2. used[i] = 0
    BY <1>1, <1>2, <1>8, <2>1, Unmarked DEF e1, images
  <2>3. /\ next' \in 0 .. Len(g1.edges) /\ next' \in 1 .. Len(g1.edges)
        /\ \A e \in DOMAIN used : used[e] <= next => used[e] <= next'
    BY <1>1, <1>2, <1>3, <1>8
  <2>4. /\ used' \in [DOMAIN g2.edges -> 0 .. Len(g1.edges)]
        /\ \A e \in DOMAIN used : used'[e] = IF e = i THEN next' ELSE used[e]
    BY <1>1, <1>8, <2>1, <2>3
  <2>5. Given'
    <3> SUFFICES ASSUME NEW e \in DOMAIN used', used'[e] # 0
                 PROVE  /\ used'[e] <= next' /\ g1.edges[used'[e]].kind = "pto"
                        /\ e \in PtoImages(g1.edges[used'[e]])
      BY <1>2, <1>4 DEF Given
    <3>1. e \in DOMAIN used
      BY <1>1, <2>4
    <3>2. CASE e = i
      BY <1>8, <2>1, <2>3, <2>4, <3>1, <3>2 DEF e1, images
    <3>3. CASE e # i
      <4>1. used'[e] = used[e]
        BY <2>4, <3>1, <3>3
      <4>2. /\ used[e] <= next /\ g1.edges[used[e]].kind = "pto"
            /\ e \in PtoImages(g1.edges[used[e]])
        BY <1>1, <3>1, <4>1 DEF Given
      <4> QED
        BY <2>3, <3>1, <4>1, <4>2
    <3> QED
      BY <3>2, <3>3
  <2>6. HInv'
    BY <1>1, <1>2, <1>5, <1>8, <2>3, <2>4, <2>5 DEF HInv
  <2> QED
    BY <2>2, <2>4, <2>6
<1> QED
  BY <1>2, <1>6, <1>7, <1>8

LEMMA PtoDoneStep ==
  ASSUME HInv, PtoDone
  PROVE  HInv' /\ \A e \in DOMAIN used : used[e] # 0 => used'[e] = used[e]
<1>1. Len(g1.edges) \in Nat
  BY EdgeTypes DEF HInv
<1> QED
  BY <1>1 DEF HInv, PtoDone, inputs

(* An edge the search selects leaves a node it expanded, and had no mark.  *)
LEMMA BuildRdStep ==
  ASSUME HInv, BuildRd
  PROVE  HInv' /\ \A e \in DOMAIN used : used[e] # 0 => used'[e] = used[e]
<1>1. /\ GraphOK(g1) /\ GraphOK(g2) /\ pc = "rd"
      /\ nhom \in [g1.nodes -> g2.nodes] /\ next \in 0 .. Len(g1.edges) /\ res \in {0, 1}
      /\ used \in [DOMAIN g2.edges -> 0 .. Len(g1.edges)]
  BY DEF HInv, BuildRd
<1>2. g1' = g1 /\ g2' = g2 /\ nhom' = nhom /\ next < Len(RdOrder)
  BY DEF BuildRd, inputs
<1>3. /\ Len(g1.edges) \in Nat /\ DOMAIN g1.edges = 1 .. Len(g1.edges)
      /\ Len(RdOrder) \in 0 .. Len(g1.edges)
      /\ \A n \in 1 .. Len(RdOrder) : RdOrder[n] \in DOMAIN g1.edges
  BY <1>1, EdgeTypes, RdOrderTypes
<1>4. next + 1 \in 1 .. Len(RdOrder) /\ next + 1 \in 0 .. Len(g1.edges)
  BY <1>1, <1>2, <1>3
<1>5. PICK i \in {RdOrder[next + 1]}, N \in {Expanded(g1.edges[RdOrder[next + 1]].label,
          [k \in DOMAIN g1.edges[RdOrder[next + 1]].args |-> nhom[g1.edges[RdOrder[next + 1]].args[k]]])} :
         \/ /\ pc' = "crashed" /\ used' = used /\ next' = next /\ res' = res
         \/ /\ ~ Used(N)
            /\ used' = [e \in DOMAIN used |-> IF e \in EdgesFrom(N) THEN i ELSE used[e]]
            /\ \/ pc' = "done" /\ res' = 0 /\ next' = next
               \/ pc' = "looping" /\ next' = next /\ res' = res
               \/ next' = next + 1 /\ pc' = pc /\ res' = res
  BY DEF BuildRd, Finish
<1>6. i \in 0 .. Len(g1.edges)
  BY <1>3, <1>4
<1>7. CASE pc' = "crashed" /\ used' = used /\ next' = next /\ res' = res
  <2>1. HInv'
    BY <1>1, <1>2, <1>7 DEF HInv
  <2> QED
    BY <1>7, <2>1
<1>8. CASE /\ ~ Used(N)
           /\ used' = [e \in DOMAIN used |-> IF e \in EdgesFrom(N) THEN i ELSE used[e]]
           /\ \/ pc' = "done" /\ res' = 0 /\ next' = next
              \/ pc' = "looping" /\ next' = next /\ res' = res
              \/ next' = next + 1 /\ pc' = pc /\ res' = res
  <2>1. used' \in [DOMAIN g2.edges -> 0 .. Len(g1.edges)]
    BY <1>1, <1>6, <1>8
  <2>2. next' \in 0 .. Len(g1.edges) /\ res' \in {0, 1} /\ pc' \in {"rd", "done", "looping"}
    BY <1>1, <1>4, <1>8
  <2>3. HInv'
    BY <1>1, <1>2, <2>1, <2>2 DEF HInv
  <2>4. ASSUME NEW e \in DOMAIN used, used[e] # 0 PROVE used'[e] = used[e]
    <3>1. e \notin EdgesFrom(N)
      BY <1>8, <2>4 DEF Used
    <3> QED
      BY <1>8, <3>1
  <2> QED
    BY <2>3, <2>4
<1> QED
  BY <1>5, <1>7, <1>8

LEMMA AllMappedStep ==
  ASSUME HInv, AllMapped
  PROVE  HInv' /\ \A e \in DOMAIN used : used[e] # 0 => used'[e] = used[e]
BY DEF HInv, AllMapped, Finish, inputs

LEMMA StepHolds ==
  ASSUME HInv, [Next]_vars
  PROVE  HInv' /\ \A e \in DOMAIN used : used[e] # 0 => used'[e] = used[e]
<1>1. CASE UNCHANGED vars
  <2>1. /\ g1' = g1 /\ g2' = g2 /\ pc' = pc /\ nhom' = nhom /\ used' = used
        /\ next' = next /\ res' = res
    BY <1>1 DEF vars
  <2>2. DiffMapped(nhom)' = DiffMapped(nhom) /\ Given' = Given
    BY <2>1 DEF DiffMapped, Given, PtoImages
  <2>3. HInv'
    BY <2>1, <2>2 DEF HInv
  <2> QED
    BY <2>1, <2>3
<1>2. CASE Next
  BY <1>2, BuildNodesStep, BuildPtoStep, PtoDoneStep, BuildRdStep, AllMappedStep DEF Next
<1> QED
  BY <1>1, <1>2

LEMMA HInvInductive == Spec => []HInv
<1>1. HInv /\ [Next]_vars => HInv'
  BY StepHolds
<1> QED
  BY <1>1, InitHolds, PTL DEF Spec

-----------------------------------------------------------------------------
(* What the marks say when the search succeeds.                            *)

(* A mark of a points-to edge is on an image of it; a mark of a predicate  *)
(* edge is on all the edges that leave a node, or on none of them.         *)
Marks ==
  \A e \in DOMAIN used : used[e] # 0 =>
    /\ g1.edges[used[e]].kind = "pto" => e \in PtoImages(g1.edges[used[e]])
    /\ g1.edges[used[e]].kind = "pred" =>
         \A d \in DOMAIN used : g2.edges[d].args[1] = g2.edges[e].args[1] => used[d] = used[e]

(* Each of the first n edges that is a points-to edge has an image. *)
Found(n) ==
  \A i \in 1 .. n : g1.edges[i].kind = "pto" => \E e \in DOMAIN used : used[e] = i

Succeeded == pc = "done" /\ res = 1

SInv ==
  /\ left \in NormalForms(Pures) /\ g2 = GraphOfForm(left)
  /\ right \in NormalForms(Pures) /\ g1 = GraphOfForm(right)
  /\ pc \in {"pto", "rd"} \/ Succeeded => DiffMapped(nhom) /\ Marks
  /\ pc = "pto" => Found(next)
  /\ pc = "rd" \/ Succeeded => Found(Len(g1.edges))
  /\ Succeeded => Precise

LEMMA SearchInit == Init => SInv
<1> SUFFICES ASSUME Init PROVE SInv
  OBVIOUS
<1>1. PICK p \in Problems : left = p[1] /\ g2 = p[2]
  BY DEF Init
<1>2. PICK n \in Problems : right = n[1] /\ g1 = n[2]
  BY DEF Init
<1>3. \A q \in Problems : q[1] \in NormalForms(Pures) /\ q[2] = GraphOfForm(q[1])
  BY DEF Problems
<1>4. pc = "nodes"
  BY DEF Init
<1> QED
  BY <1>1, <1>2, <1>3, <1>4 DEF SInv, Succeeded

LEMMA SearchNodes ==
  ASSUME HInv, SInv, BuildNodes
  PROVE  SInv'
<1> DEFINE hom == [n \in g1.nodes |-> NodeImage(n)]
<1>1. /\ nhom' = hom /\ used' = [e \in DOMAIN g2.edges |-> 0] /\ next = 0
      /\ left' = left /\ right' = right /\ g1' = g1 /\ g2' = g2 /\ next' = next
      /\ \/ pc' = "done" /\ res' = 0
         \/ /\ DiffMapped(hom) /\ g1.edges = <<>>
            /\ pc' = "done" /\ res' = IF g2.edges = <<>> THEN 1 ELSE 0
         \/ DiffMapped(hom) /\ pc' = "pto"
  BY DEF BuildNodes, Finish, inputs, HInv
<1> HIDE DEF hom
<1>2. /\ DOMAIN used' = DOMAIN g2.edges /\ \A e \in DOMAIN used' : used'[e] = 0
  BY <1>1
<1>3. Marks'
  BY <1>2 DEF Marks
<1>4. DiffMapped(nhom)' <=> DiffMapped(hom)
  BY <1>1 DEF DiffMapped
<1>5. Found(next)'
  BY <1>1 DEF Found
<1>6. ASSUME Succeeded' PROVE DiffMapped(hom) /\ Found(Len(g1.edges))' /\ Precise'
  <2>1. DiffMapped(hom) /\ g1.edges = <<>> /\ g2.edges = <<>>
    BY <1>1, <1>6 DEF Succeeded
  <2>2. Len(g1'.edges) = 0 /\ DOMAIN g2.edges = {}
    BY <1>1, <2>1
  <2>3. Found(Len(g1.edges))'
    BY <2>2 DEF Found
  <2>4. Precise'
    BY <1>2, <2>2 DEF Precise
  <2> QED
    BY <2>1, <2>3, <2>4
<1>7. /\ left' \in NormalForms(Pures) /\ g2' = GraphOfForm(left)'
      /\ right' \in NormalForms(Pures) /\ g1' = GraphOfForm(right)'
  BY <1>1 DEF SInv
<1>8. pc' # "rd" /\ (pc' = "pto" => DiffMapped(hom))
  BY <1>1
<1> QED
  BY <1>3, <1>4, <1>5, <1>6, <1>7, <1>8 DEF SInv, Succeeded

LEMMA SearchPto ==
  ASSUME HInv, SInv, BuildPto
  PROVE  SInv'
<1> DEFINE e1 == g1.edges[next + 1]
           images == PtoImages(e1)
           i == CHOOSE i \in images : \A j \in images : i <= j
<1>1. /\ GraphOK(g1) /\ GraphOK(g2) /\ pc = "pto" /\ next \in 0 .. Len(g1.edges)
      /\ used \in [DOMAIN g2.edges -> 0 .. Len(g1.edges)]
      /\ DiffMapped(nhom) /\ Found(next)
  BY DEF HInv, SInv, BuildPto
<1>2. /\ next < Len(g1.edges)
      /\ left' = left /\ right' = right /\ g1' = g1 /\ g2' = g2 /\ nhom' = nhom
      /\ \/ pc' = "done" /\ res' = 0
         \/ /\ pc' = "pto" /\ next' = next + 1 /\ e1.kind = "pred"
         \/ /\ pc' = "pto" /\ next' = next + 1 /\ images # {}
            /\ used' = [used EXCEPT ![i] = next + 1]
  BY DEF BuildPto, Finish, inputs
<1>3. /\ left' \in NormalForms(Pures) /\ g2' = GraphOfForm(left)'
      /\ right' \in NormalForms(Pures) /\ g1' = GraphOfForm(right)'
      /\ DiffMapped(nhom)'
  BY <1>1, <1>2 DEF SInv, DiffMapped
<1>4. HInv' /\ \A e \in DOMAIN used : used[e] # 0 => used'[e] = used[e]
  BY BuildPtoStep
<1>5. Len(g1.edges) \in Nat
  BY <1>1, EdgeTypes
<1> HIDE DEF e1, images, i
<1>6. ASSUME pc' = "pto" PROVE Marks' /\ Found(next)'
  <2>1. Given' /\ used' \in [DOMAIN g2.edges -> 0 .. Len(g1.edges)]
    BY <1>2, <1>4, <1>6 DEF HInv
  <2>2. Marks'
    BY <2>1 DEF Marks, Given
  <2>3. DOMAIN used' = DOMAIN used /\ next' = next + 1
    BY <1>1, <1>2, <1>6, <2>1
  <2>4. ASSUME NEW n \in 1 .. next', g1.edges[n].kind = "pto"
        PROVE  \E e \in DOMAIN used' : used'[e] = n
    <3>1. CASE n = next + 1
      <4>1. images # {} /\ used' = [used EXCEPT ![i] = next + 1]
        BY <1>2, <1>6, <2>4, <3>1 DEF e1
      <4>2. i \in DOMAIN g2.edges
        BY <1>1, <4>1, FirstImage DEF i, images
      <4> QED
        BY <1>1, <2>3, <3>1, <4>1, <4>2
    <3>2. CASE n # next + 1
      <4>1. n \in 1 .. next /\ n # 0
        BY <1>1, <1>5, <2>3, <2>4, <3>2
      <4>2. PICK e \in DOMAIN used : used[e] = n
        BY <1>1, <2>4, <4>1 DEF Found
      <4> QED
        BY <1>4, <2>3, <4>1, <4>2
    <3> QED
      BY <3>1, <3>2
  <2> QED
    BY <1>2, <2>2, <2>4 DEF Found
<1> QED
  BY <1>2, <1>3, <1>6 DEF SInv, Succeeded

LEMMA SearchPtoDone ==
  ASSUME HInv, SInv, PtoDone
  PROVE  SInv'
<1>1. /\ left' = left /\ right' = right /\ g1' = g1 /\ g2' = g2 /\ nhom' = nhom
      /\ used' = used /\ pc = "pto" /\ pc' = "rd" /\ next = Len(g1.edges)
  BY DEF PtoDone, inputs
<1>2. DiffMapped(nhom) /\ Marks /\ Found(Len(g1.edges))
  BY <1>1 DEF SInv
<1>3. DiffMapped(nhom)' /\ Marks' /\ Found(Len(g1.edges))'
  BY <1>1, <1>2 DEF DiffMapped, Marks, Found, PtoImages
<1> QED
  BY <1>1, <1>3 DEF SInv, Succeeded

LEMMA SearchRd ==
  ASSUME HInv, SInv, BuildRd
  PROVE  SInv'
<1>1. /\ GraphOK(g1) /\ GraphOK(g2) /\ pc = "rd" /\ next \in 0 .. Len(g1.edges)
      /\ used \in [DOMAIN g2.edges -> 0 .. Len(g1.edges)]
      /\ DiffMapped(nhom) /\ Marks /\ Found(Len(g1.edges))
  BY DEF HInv, SInv, BuildRd
<1>2. /\ left' = left /\ right' = right /\ g1' = g1 /\ g2' = g2 /\ nhom' = nhom
      /\ next < Len(RdOrder)
  BY DEF BuildRd, inputs
<1>3. /\ Len(g1.edges) \in Nat /\ Len(RdOrder) \in 0 .. Len(g1.edges)
      /\ \A n \in 1 .. Len(RdOrder) :
           RdOrder[n] \in DOMAIN g1.edges /\ g1.edges[RdOrder[n]].kind = "pred"
  BY <1>1, EdgeTypes, RdOrderTypes
<1>4. next + 1 \in 1 .. Len(RdOrder)
  BY <1>1, <1>2, <1>3
<1>5. PICK i \in {RdOrder[next + 1]}, N \in {Expanded(g1.edges[RdOrder[next + 1]].label,
          [k \in DOMAIN g1.edges[RdOrder[next + 1]].args |-> nhom[g1.edges[RdOrder[next + 1]].args[k]]])} :
         \/ pc' = "crashed"
         \/ /\ ~ Used(N)
            /\ used' = [e \in DOMAIN used |-> IF e \in EdgesFrom(N) THEN i ELSE used[e]]
            /\ \/ pc' = "done" /\ res' = 0
               \/ pc' = "looping"
               \/ pc' = "rd"
  BY <1>1 DEF BuildRd, Finish
<1>6. g1.edges[i].kind = "pred"
  BY <1>3, <1>4
<1>7. /\ left' \in NormalForms(Pures) /\ g2' = GraphOfForm(left)'
      /\ right' \in NormalForms(Pures) /\ g1' = GraphOfForm(right)'
      /\ DiffMapped(nhom)'
  BY <1>1, <1>2 DEF SInv, DiffMapped
<1>8. ASSUME pc' = "rd" PROVE Marks' /\ Found(Len(g1.edges))'
  <2>1. /\ ~ Used(N)
        /\ used' = [e \in DOMAIN used |-> IF e \in EdgesFrom(N) THEN i ELSE used[e]]
    BY <1>5, <1>8
  <2>2. /\ DOMAIN used' = DOMAIN used
        /\ \A e \in DOMAIN used : used'[e] = IF e \in EdgesFrom(N) THEN i ELSE used[e]
    BY <2>1
  <2>3. \A e \in DOMAIN used : used[e] # 0 => used'[e] = used[e]
    BY <2>1, <2>2 DEF Used
  <2>4. \A d, e \in DOMAIN used : g2.edges[d].args[1] = g2.edges[e].args[1] =>
          (d \in EdgesFrom(N) <=> e \in EdgesFrom(N))
    BY <1>1 DEF EdgesFrom
  <2>5. ASSUME NEW e \in DOMAIN used, used'[e] # 0
        PROVE  /\ g1.edges[used'[e]].kind = "pto" => e \in PtoImages(g1.edges[used'[e]])
               /\ g1.edges[used'[e]].kind = "pred" =>
                    \A d \in DOMAIN used : g2.edges[d].args[1] = g2.edges[e].args[1] => used'[d] = used'[e]
    <3>1. CASE e \in EdgesFrom(N)
      <4>1. used'[e] = i
        BY <2>2, <3>1
      <4>2. \A d \in DOMAIN used : g2.edges[d].args[1] = g2.edges[e].args[1] => used'[d] = i
        BY <2>2, <2>4, <3>1
      <4> QED
        BY <1>6, <4>1, <4>2
    <3>2. CASE e \notin EdgesFrom(N)
      <4>1. used'[e] = used[e]
        BY <2>2, <3>2
      <4>2. \A d \in DOMAIN used : g2.edges[d].args[1] = g2.edges[e].args[1] => used'[d] = used[d]
        BY <2>2, <2>4, <3>2
      <4>3. /\ g1.edges[used[e]].kind = "pto" => e \in PtoImages(g1.edges[used[e]])
            /\ g1.edges[used[e]].kind = "pred" =>
                 \A d \in DOMAIN used : g2.edges[d].args[1] = g2.edges[e].args[1] => used[d] = used[e]
        BY <1>1, <2>5, <4>1 DEF Marks
      <4> QED
        BY <4>1, <4>2, <4>3
    <3> QED
      BY <3>1, <3>2
  <2>6. \A e : PtoImages(e)' = PtoImages(e)
    BY <1>2 DEF PtoImages
  <2>7. Marks'
    BY <1>2, <2>2, <2>5, <2>6 DEF Marks
  <2>8. ASSUME NEW n \in 1 .. Len(g1.edges), g1.edges[n].kind = "pto"
        PROVE  \E e \in DOMAIN used' : used'[e] = n
    <3>1. PICK e \in DOMAIN used : used[e] = n
      BY <1>1, <2>8 DEF Found
    <3>2. n # 0
      BY <1>3
    <3> QED
      BY <2>2, <2>3, <3>1, <3>2
  <2>9. Found(Len(g1.edges))'
    BY <1>2, <2>8 DEF Found
  <2> QED
    BY <2>7, <2>9
<1>9. pc' # "pto" /\ (pc' = "done" => res' = 0)
  BY <1>5
<1> QED
  BY <1>7, <1>8, <1>9 DEF SInv, Succeeded

LEMMA SearchAllMapped ==
  ASSUME HInv, SInv, AllMapped
  PROVE  SInv'
<1>1. /\ left' = left /\ right' = right /\ g1' = g1 /\ g2' = g2 /\ nhom' = nhom
      /\ used' = used /\ pc = "rd" /\ pc' = "done" /\ res' = IF Precise THEN 1 ELSE 0
  BY DEF AllMapped, Finish, inputs
<1>2. DiffMapped(nhom) /\ Marks /\ Found(Len(g1.edges))
  BY <1>1 DEF SInv
<1>3. DiffMapped(nhom)' /\ Marks' /\ Found(Len(g1.edges))'
  BY <1>1, <1>2 DEF DiffMapped, Marks, Found, PtoImages
<1>4. Succeeded' => Precise'
  BY <1>1 DEF Succeeded, Precise
<1> QED
  BY <1>1, <1>3, <1>4 DEF SInv, Succeeded

LEMMA SearchInvariant == Spec => [](HInv /\ SInv)
<1>1. HInv /\ SInv /\ [Next]_vars => SInv'
  <2> SUFFICES ASSUME HInv, SInv, [Next]_vars PROVE SInv'
    OBVIOUS
  <2>1. CASE UNCHANGED vars
    BY <2>1 DEF vars, SInv, Succeeded, DiffMapped, Marks, Found, Precise, PtoImages
  <2>2. CASE Next
    BY <2>2, SearchNodes, SearchPto, SearchPtoDone, SearchRd, SearchAllMapped DEF Next
  <2> QED
    BY <2>1, <2>2
<1> QED
  BY <1>1, SearchInit, HInvInductive, PTL DEF Spec

-----------------------------------------------------------------------------
(* From a homomorphism to an entailment.                                   *)

(* The nodes and difference edges of a graph say of a stack what the       *)
(* matrix says.                                                            *)
SaysOf(s, g) ==
  \A i, j \in Var : /\ g.node[i] = g.node[j] => s[i] = s[j]
                    /\ IsDiff(g, g.node[i], g.node[j]) => s[i] # s[j]

LEMMA GraphSays ==
  ASSUME NEW f \in NormalForms(Pures), NEW s
  PROVE  Agrees(s, f.pure) <=> SaysOf(s, GraphOfForm(f))
<1> DEFINE g == GraphOfForm(f)
           node == NodesOfForm(f.pure)
           nodes == {node[i] : i \in Var}
<1>1. PICK ms : Normal(f, ms)
  BY NormalFormsHaveHeaps
<1>2. g.node = node /\ g.diff = GraphOfPure(node, f.pure)
  BY DEF GraphOfForm
<1>3. /\ \A i \in Var : node[i] \in Int
      /\ \A i, j \in Var : node[i] = node[j] <=> Same(ms, i, j)
  <2>1. /\ node \in [Var -> nodes] /\ nodes \subseteq Nat
        /\ \A i, j \in Var : node[i] = node[j] <=> Same(ms, i, j)
    BY <1>1, NodesOfNormal
  <2> HIDE DEF node, nodes
  <2>2. \A n \in nodes : n \in Int
    BY <2>1
  <2> QED
    BY <2>1, <2>2
<1> HIDE DEF g, node
<1>4. ASSUME Agrees(s, f.pure), NEW i \in Var, NEW j \in Var, node[i] = node[j]
      PROVE  s[i] = s[j]
  <2>1. Same(ms, i, j) /\ Same(ms, j, i)
    BY <1>3, <1>4
  <2>2. i \in Int /\ j \in Int
    BY VarFacts
  <2>3. CASE i <= j
    <3>1. <<i, j>> \in Cell /\ f.pure[<<i, j>>] = "eq"
      BY <1>1, <2>1, <2>3, SameCell DEF Cell
    <3> QED
      BY <1>4, <3>1 DEF Agrees
  <2>4. CASE j <= i
    <3>1. <<j, i>> \in Cell /\ f.pure[<<j, i>>] = "eq"
      BY <1>1, <2>1, <2>4, SameCell DEF Cell
    <3> QED
      BY <1>4, <3>1 DEF Agrees
  <2> QED
    BY <2>2, <2>3, <2>4
<1>5. ASSUME Agrees(s, f.pure), NEW i \in Var, NEW j \in Var, IsDiff(g, node[i], node[j])
      PROVE  s[i] # s[j]
  <2>1. PICK x \in Cell : /\ f.pure[x] = "neq"
                          /\ <<Hi(node[i], node[j]), Lo(node[i], node[j])>> =
                             <<Hi(node[x[1]], node[x[2]]), Lo(node[x[1]], node[x[2]])>>
    BY <1>2, <1>5 DEF IsDiff, GraphOfPure
  <2>2. x[1] \in Var /\ x[2] \in Var
    BY DEF Cell
  <2>3. s[x[1]] # s[x[2]]
    BY <1>5, <2>1 DEF Agrees
  <2>4. \/ node[i] = node[x[1]] /\ node[j] = node[x[2]]
        \/ node[i] = node[x[2]] /\ node[j] = node[x[1]]
    BY <1>3, <2>1, <2>2 DEF Hi, Lo
  <2> QED
    BY <1>4, <1>5, <2>2, <2>3, <2>4
<1>6. ASSUME SaysOf(s, g), NEW x \in Cell
      PROVE  /\ f.pure[x] = "eq" => s[x[1]] = s[x[2]]
             /\ f.pure[x] = "neq" => s[x[1]] # s[x[2]]
  <2>1. x[1] \in Var /\ x[2] \in Var
    BY DEF Cell
  <2>2. ASSUME f.pure[x] = "eq" PROVE s[x[1]] = s[x[2]]
    <3>1. Same(ms, x[1], x[2])
      BY <1>1, <2>2 DEF Normal, Same
    <3> QED
      BY <1>2, <1>3, <1>6, <2>1, <3>1 DEF SaysOf
  <2>3. ASSUME f.pure[x] = "neq" PROVE s[x[1]] # s[x[2]]
    <3>1. IsDiff(g, node[x[1]], node[x[2]])
      BY <1>2, <2>3 DEF IsDiff, GraphOfPure
    <3> QED
      BY <1>2, <1>6, <2>1, <3>1 DEF SaysOf
  <2> QED
    BY <2>2, <2>3
<1>7. Agrees(s, f.pure) <=> SaysOf(s, g)
  BY <1>2, <1>4, <1>5, <1>6 DEF Agrees, SaysOf
<1> QED
  BY <1>7 DEF g

(* A homomorphism that respects the labels was found. *)
Success == HInv /\ SInv /\ Succeeded /\ Labelled

LEMMA SuccessFacts ==
  ASSUME Success
  PROVE  /\ left \in NormalForms(Pures) /\ g2 = GraphOfForm(left)
         /\ right \in NormalForms(Pures) /\ g1 = GraphOfForm(right)
         /\ left.space \in Spaces /\ right.space \in Spaces
         /\ GraphOK(g1) /\ GraphOK(g2) /\ DiffMapped(nhom) /\ Marks /\ Precise
         /\ Found(Len(g1.edges)) /\ used \in [DOMAIN g2.edges -> 0 .. Len(g1.edges)]
         /\ DOMAIN g1.edges = 1 .. Len(g1.edges) /\ Len(g1.edges) \in Nat
         /\ \A v \in Var : nhom[g1.node[v]] = g2.node[v]
         /\ \A e \in DOMAIN g2.edges : used[e] # 0 /\ used[e] \in DOMAIN g1.edges
<1>1. /\ left \in NormalForms(Pures) /\ g2 = GraphOfForm(left)
      /\ right \in NormalForms(Pures) /\ g1 = GraphOfForm(right)
      /\ DiffMapped(nhom) /\ Marks /\ Precise /\ Found(Len(g1.edges))
  BY DEF Success, SInv
<1>2. /\ GraphOK(g1) /\ GraphOK(g2) /\ used \in [DOMAIN g2.edges -> 0 .. Len(g1.edges)]
  BY DEF Success, HInv, Succeeded
<1>3. left.space \in Spaces /\ right.space \in Spaces
  BY <1>1, NormalFormsHaveHeaps DEF Normal
<1>4. DOMAIN g1.edges = 1 .. Len(g1.edges) /\ Len(g1.edges) \in Nat
  BY <1>2, EdgeTypes
<1>5. ASSUME NEW e \in DOMAIN g2.edges PROVE used[e] # 0 /\ used[e] \in DOMAIN g1.edges
  <2>1. used[e] # 0 /\ used[e] \in 0 .. Len(g1.edges)
    BY <1>1, <1>2 DEF Precise
  <2> QED
    BY <1>4, <2>1
<1>6. \A v \in Var : nhom[g1.node[v]] = g2.node[v]
  BY DEF Success, Labelled
<1> QED
  BY <1>1, <1>2, <1>3, <1>4, <1>5, <1>6

(* The pure part of the right side. *)
LEMMA PureImplied ==
  ASSUME Success, NEW s, Agrees(s, left.pure)
  PROVE  Agrees(s, right.pure) /\ SaysOf(s, g2) /\ SaysOf(s, g1)
<1>1. SaysOf(s, g2)
  BY SuccessFacts, GraphSays
<1>2. /\ GraphOK(g1) /\ GraphOK(g2) /\ DiffMapped(nhom)
      /\ \A v \in Var : nhom[g1.node[v]] = g2.node[v]
  BY SuccessFacts
<1>3. ASSUME NEW i \in Var, NEW j \in Var
      PROVE  /\ g1.node[i] = g1.node[j] => s[i] = s[j]
             /\ IsDiff(g1, g1.node[i], g1.node[j]) => s[i] # s[j]
  <2>1. ASSUME g1.node[i] = g1.node[j] PROVE s[i] = s[j]
    BY <1>1, <1>2, <2>1 DEF SaysOf
  <2>2. ASSUME IsDiff(g1, g1.node[i], g1.node[j]) PROVE s[i] # s[j]
    <3> DEFINE d == <<Hi(g1.node[i], g1.node[j]), Lo(g1.node[i], g1.node[j])>>
    <3>1. d \in g1.diff /\ d[1] = Hi(g1.node[i], g1.node[j]) /\ d[2] = Lo(g1.node[i], g1.node[j])
      BY <2>2 DEF IsDiff
    <3>2. IsDiff(g2, nhom[d[1]], nhom[d[2]])
      BY <1>2, <3>1 DEF DiffMapped
    <3> HIDE DEF d
    <3>3. \/ nhom[d[1]] = g2.node[i] /\ nhom[d[2]] = g2.node[j]
          \/ nhom[d[1]] = g2.node[j] /\ nhom[d[2]] = g2.node[i]
      BY <1>2, <3>1 DEF Hi, Lo
    <3> QED
      BY <1>1, <3>2, <3>3 DEF SaysOf
  <2> QED
    BY <2>1, <2>2
<1>4. SaysOf(s, g1)
  BY <1>3 DEF SaysOf
<1> QED
  BY <1>1, <1>4, SuccessFacts, GraphSays

(* The atoms of the left side given to the edges of one atom of the right  *)
(* side, and what they allocate.                                           *)
GivenTo(j, a1) ==
  {b \in DOMAIN left.space : \E p \in DOMAIN g1.edges : a1[p] = j /\ b \in Taken(p)}

PartOf(part, j, a1) == UNION {part[b] : b \in GivenTo(j, a1)}

LEMMA TakenEdge ==
  ASSUME NEW p, NEW b
  PROVE  b \in Taken(p) <=> /\ b \in DOMAIN left.space
                            /\ \E e \in DOMAIN g2.edges :
                                 /\ g2.edges[e].args[1] = g2.node[Source(left.space[b])]
                                 /\ used[e] = p
BY DEF Taken, EdgesFrom

(* No atom of the left side is given to two atoms of the right side.       *)
LEMMA OneOwner ==
  ASSUME Success, NEW a1, NEW k1, Owned(g1, right.space, a1, k1),
         NEW p \in DOMAIN g1.edges, NEW q \in DOMAIN g1.edges,
         NEW b, b \in Taken(p), b \in Taken(q)
  PROVE  a1[p] = a1[q]
<1> SUFFICES ASSUME a1[p] # a1[q] PROVE FALSE
  OBVIOUS
<1> DEFINE n == g2.node[Source(left.space[b])]
<1>1. PICK e \in DOMAIN g2.edges : g2.edges[e].args[1] = n /\ used[e] = p
  BY TakenEdge
<1>2. PICK d \in DOMAIN g2.edges : g2.edges[d].args[1] = n /\ used[d] = q
  BY TakenEdge
<1> HIDE DEF n
<1>3. /\ GraphOK(g1) /\ GraphOK(g2) /\ DiffMapped(nhom) /\ Marks
      /\ right \in NormalForms(Pures) /\ g1 = GraphOfForm(right)
      /\ DOMAIN used = DOMAIN g2.edges
      /\ used[e] # 0 /\ used[d] # 0
  BY SuccessFacts
<1>4. g1.edges[p].kind = "pto" /\ g1.edges[q].kind = "pto"
  <2>1. g1.edges[p].kind # "pred" /\ g1.edges[q].kind # "pred"
    BY <1>1, <1>2, <1>3 DEF Marks
  <2> QED
    BY <1>3, <2>1 DEF GraphOK
<1>5. e \in PtoImages(g1.edges[p]) /\ d \in PtoImages(g1.edges[q])
  BY <1>1, <1>2, <1>3, <1>4 DEF Marks
<1> DEFINE x == g1.edges[p].args[1]
           y == g1.edges[q].args[1]
<1>6. nhom[x] = n /\ nhom[y] = n
  BY <1>1, <1>2, <1>5 DEF PtoImages
<1>7. IsDiff(g1, x, y)
  BY <1>3, <1>4, TwoSources
<1> HIDE DEF x, y
<1> DEFINE c == <<Hi(x, y), Lo(x, y)>>
<1>8. c \in g1.diff /\ nhom[c[1]] = n /\ nhom[c[2]] = n
  BY <1>6, <1>7 DEF IsDiff, Hi, Lo
<1> HIDE DEF c
<1>9. IsDiff(g2, n, n)
  <2>1. IsDiff(g2, nhom[c[1]], nhom[c[2]])
    BY <1>3, <1>8 DEF DiffMapped
  <2> QED
    BY <1>8, <2>1
<1>10. n \in Int
  <2>1. g2.edges[e].args[1] \in Int
    BY <1>3, EdgeTypes
  <2> QED
    BY <1>1, <2>1
<1> DEFINE l == <<n, n>>
<1>11. l \in g2.diff /\ l[1] = n /\ l[2] = n
  BY <1>9, <1>10 DEF IsDiff, Hi, Lo
<1> HIDE DEF l
<1> QED
  BY <1>3, <1>10, <1>11 DEF GraphOK

(* The heaps of the left side, split over its atoms.                       *)
Heaped(s, h, part) ==
  /\ s \in Stack /\ h \in Heap /\ Agrees(s, left.pure)
  /\ part \in [DOMAIN left.space -> SUBSET (DOMAIN h)]
  /\ Splits(part, left.space, s, h, DOMAIN h, Segments(h))

LEMMA AtomShape ==
  ASSUME NEW at, AtomOK(at)
  PROVE  /\ Source(at) \in Var
         /\ at.kind = "pto" => /\ at.src = Source(at) /\ Len(at.fields) \in Nat /\ Len(at.fields) # 0
                               /\ DOMAIN at.fields = 1 .. Len(at.fields)
                               /\ \A l \in DOMAIN at.fields : at.fields[l][2] \in Var
         /\ at.kind # "pto" => /\ at.kind = "ls" /\ at.args[1] = Source(at) /\ at.args[2] \in Var
                               /\ at.pid \in DOMAIN Preds /\ DOMAIN at.args = 1 .. Preds[at.pid].fargs
                               /\ 1 \in DOMAIN at.args /\ 2 \in DOMAIN at.args
                               /\ \A l \in DOMAIN at.args : at.args[l] \in Var
<1>1. CASE at.kind = "pto"
  <2>1. at.src \in Var /\ at.fields \in Seq(Fields \X Var) /\ at.fields # <<>>
    BY <1>1 DEF AtomOK
  <2>2. Len(at.fields) \in Nat /\ DOMAIN at.fields = 1 .. Len(at.fields) /\ Len(at.fields) # 0
    BY <2>1
  <2>3. \A l \in DOMAIN at.fields : at.fields[l][2] \in Var
    <3>1. \A l \in DOMAIN at.fields : at.fields[l] \in Fields \X Var
      BY <2>1
    <3> QED
      BY <3>1
  <2> QED
    BY <1>1, <2>1, <2>2, <2>3 DEF Source
<1>2. CASE at.kind # "pto"
  <2>1. /\ at.kind = "ls" /\ at.pid \in DOMAIN Preds /\ at.args \in Seq(Var)
        /\ Len(at.args) = Preds[at.pid].fargs /\ Len(at.args) \in Nat /\ Len(at.args) >= 2
    BY <1>2, SegmentAtom DEF AtomOK
  <2>2. DOMAIN at.args = 1 .. Len(at.args) /\ \A l \in DOMAIN at.args : at.args[l] \in Var
    BY <2>1
  <2>3. 1 \in DOMAIN at.args /\ 2 \in DOMAIN at.args
    BY <2>1, <2>2
  <2> QED
    BY <1>2, <2>1, <2>2, <2>3 DEF Source
<1> QED
  BY <1>1, <1>2

(* An atom that allocates something allocates its source and has an edge.  *)
LEMMA PartHasSource ==
  ASSUME Success, NEW s, NEW h, NEW part, Heaped(s, h, part),
         NEW a2, NEW k2, Owned(g2, left.space, a2, k2),
         NEW b \in DOMAIN left.space, part[b] # {}
  PROVE  /\ s[Source(left.space[b])] \in part[b]
         /\ \E e \in DOMAIN g2.edges : a2[e] = b /\ g2.edges[e].args[1] = g2.node[Source(left.space[b])]
<1> DEFINE at == left.space[b]
<1>1. /\ SaysOf(s, g2) /\ left.space \in Spaces
  BY PureImplied, SuccessFacts DEF Heaped
<1>2. AtomOK(at)
  BY <1>1, SpaceTypes
<1>3. AtomHolds(at, s, h, part[b], Segments(h))
  BY DEF Heaped, Splits
<1>4. \A j \in EdgeNumbers(at, g2.node) : \E e \in DOMAIN g2.edges :
        a2[e] = b /\ EdgeOf(g2.edges[e], k2[e], at, g2.node)
  BY DEF Owned
<1> HIDE DEF at
<1>5. CASE at.kind = "pto"
  <2>1. at.src = Source(at) /\ 1 \in DOMAIN at.fields
    BY <1>2, <1>5, AtomShape
  <2>2. part[b] = {s[Source(at)]}
    BY <1>3, <1>5, <2>1 DEF AtomHolds
  <2>3. PICK e \in DOMAIN g2.edges : a2[e] = b /\ EdgeOf(g2.edges[e], k2[e], at, g2.node)
    BY <1>4, <1>5, <2>1 DEF EdgeNumbers
  <2>4. g2.edges[e].args[1] = g2.node[Source(at)]
    BY <1>5, <2>1, <2>3 DEF EdgeOf
  <2> QED
    BY <2>2, <2>3, <2>4 DEF at
<1>6. CASE at.kind # "pto"
  <2>1. /\ at.kind = "ls" /\ at.args[1] = Source(at) /\ Source(at) \in Var /\ at.args[2] \in Var
        /\ 1 \in DOMAIN at.args /\ 2 \in DOMAIN at.args
    BY <1>2, <1>6, AtomShape
  <2> DEFINE v == [l \in DOMAIN at.args |-> s[at.args[l]]]
             c == <<at.pid, v, part[b]>>
  <2>2. c \in Segments(h)
    BY <1>3, <1>6 DEF AtomHolds
  <2>3. SegOK(c)
    BY <2>2, SegmentsOK DEF Heaped
  <2>4. v[1] = s[Source(at)] /\ v[2] = s[at.args[2]]
    BY <2>1
  <2>5. v[1] # v[2] /\ v[1] \in part[b]
    BY <2>3 DEF SegOK
  <2>6. g2.node[at.args[1]] # g2.node[at.args[2]]
    BY <1>1, <2>1, <2>4, <2>5 DEF SaysOf
  <2>7. PICK e \in DOMAIN g2.edges : a2[e] = b /\ EdgeOf(g2.edges[e], k2[e], at, g2.node)
    BY <1>4, <1>6, <2>6 DEF EdgeNumbers
  <2>8. g2.edges[e].args[1] = g2.node[Source(at)]
    BY <1>6, <2>1, <2>7 DEF EdgeOf
  <2> QED
    BY <2>4, <2>5, <2>7, <2>8 DEF at
<1> QED
  BY <1>5, <1>6

(* The parts given to the atoms of the right side split the heap.          *)
LEMMA PartsSplit ==
  ASSUME Success, NEW s, NEW h, NEW part, Heaped(s, h, part),
         NEW a1, NEW k1, Owned(g1, right.space, a1, k1)
  PROVE  LET rpart == [j \in DOMAIN right.space |-> PartOf(part, j, a1)]
         IN  /\ rpart \in [DOMAIN right.space -> SUBSET (DOMAIN h)]
             /\ UNION Range(rpart) = DOMAIN h /\ Disjoint(rpart)
<1> DEFINE rpart == [j \in DOMAIN right.space |-> PartOf(part, j, a1)]
<1>1. /\ part \in [DOMAIN left.space -> SUBSET (DOMAIN h)]
      /\ UNION Range(part) = DOMAIN h /\ Disjoint(part)
  BY DEF Heaped, Splits
<1>2. /\ left \in NormalForms(Pures) /\ g2 = GraphOfForm(left)
      /\ \A e \in DOMAIN g2.edges : used[e] # 0 /\ used[e] \in DOMAIN g1.edges
  BY SuccessFacts
<1>3. PICK a2, k2 : Owned(g2, left.space, a2, k2)
  BY <1>2, Owners
<1>4. rpart \in [DOMAIN right.space -> SUBSET (DOMAIN h)]
  <2>1. \A j : GivenTo(j, a1) \subseteq DOMAIN left.space
    BY DEF GivenTo
  <2>2. \A j : PartOf(part, j, a1) \subseteq DOMAIN h
    BY <1>1, <2>1 DEF PartOf
  <2> QED
    BY <2>2
<1>5. ASSUME NEW x \in DOMAIN h
      PROVE  \E j \in DOMAIN right.space : x \in PartOf(part, j, a1)
  <2>1. PICK b \in DOMAIN left.space : x \in part[b]
    BY <1>1 DEF Range
  <2>2. PICK e \in DOMAIN g2.edges : g2.edges[e].args[1] = g2.node[Source(left.space[b])]
    BY <1>3, <2>1, PartHasSource
  <2>3. used[e] \in DOMAIN g1.edges /\ b \in Taken(used[e])
    BY <1>2, <2>2, TakenEdge
  <2>4. a1[used[e]] \in DOMAIN right.space
    BY <2>3 DEF Owned
  <2>5. b \in GivenTo(a1[used[e]], a1)
    BY <2>3 DEF GivenTo
  <2> QED
    BY <2>1, <2>4, <2>5 DEF PartOf
<1>6. UNION Range(rpart) = DOMAIN h
  <2>1. \A j \in DOMAIN rpart : rpart[j] \in Range(rpart) /\ rpart[j] = PartOf(part, j, a1)
    BY DEF Range
  <2>2. \A P \in Range(rpart) : P \in SUBSET (DOMAIN h)
    BY <1>4 DEF Range
  <2>3. DOMAIN rpart = DOMAIN right.space
    OBVIOUS
  <2> HIDE DEF rpart
  <2> QED
    BY <1>5, <2>1, <2>2, <2>3
<1>7. ASSUME NEW i \in DOMAIN right.space, NEW j \in DOMAIN right.space, i # j
      PROVE  PartOf(part, i, a1) \intersect PartOf(part, j, a1) = {}
  <2> SUFFICES ASSUME NEW x, x \in PartOf(part, i, a1), x \in PartOf(part, j, a1) PROVE FALSE
    OBVIOUS
  <2>1. PICK b \in GivenTo(i, a1) : x \in part[b]
    BY DEF PartOf
  <2>2. PICK c \in GivenTo(j, a1) : x \in part[c]
    BY DEF PartOf
  <2>3. b = c
    BY <1>1, <2>1, <2>2 DEF GivenTo, Disjoint
  <2>4. PICK p \in DOMAIN g1.edges : a1[p] = i /\ b \in Taken(p)
    BY <2>1 DEF GivenTo
  <2>5. PICK q \in DOMAIN g1.edges : a1[q] = j /\ c \in Taken(q)
    BY <2>2 DEF GivenTo
  <2> QED
    BY <1>7, <2>3, <2>4, <2>5, OneOwner
<1>8. Disjoint(rpart)
  BY <1>7 DEF Disjoint
<1> QED
  BY <1>4, <1>6, <1>8

(* A field of a points-to atom of the right side is a field of one of the  *)
(* left side that was given to it.                                         *)
LEMMA FieldFound ==
  ASSUME Success, NEW s, NEW h, NEW part, Heaped(s, h, part),
         NEW a1, NEW k1, Owned(g1, right.space, a1, k1),
         NEW a2, NEW k2, Owned(g2, left.space, a2, k2),
         NEW j \in DOMAIN right.space, right.space[j].kind = "pto",
         NEW l \in DOMAIN right.space[j].fields
  PROVE  LET at == right.space[j]
         IN  \E b \in GivenTo(j, a1) :
               /\ part[b] = {s[at.src]} /\ s[Source(left.space[b])] = s[at.src]
               /\ h[s[at.src]][at.fields[l][1]] = s[at.fields[l][2]]
<1> DEFINE at == right.space[j]
<1>1. /\ left.space \in Spaces /\ right.space \in Spaces /\ Marks /\ Found(Len(g1.edges))
      /\ DOMAIN g1.edges = 1 .. Len(g1.edges) /\ Len(g1.edges) \in Nat
      /\ DOMAIN used = DOMAIN g2.edges
      /\ \A v \in Var : nhom[g1.node[v]] = g2.node[v]
      /\ SaysOf(s, g2)
  BY SuccessFacts, PureImplied DEF Heaped
<1>2. AtomOK(at)
  BY <1>1, SpaceTypes
<1>3. at.src \in Var /\ at.fields[l][2] \in Var
  BY <1>2, AtomShape
<1>4. PICK p \in DOMAIN g1.edges : a1[p] = j /\ k1[p] = l
  BY DEF Owned, EdgeNumbers
<1>5. EdgeOf(g1.edges[p], l, at, g1.node)
  BY <1>4 DEF Owned
<1> HIDE DEF at
<1>6. /\ g1.edges[p].kind = "pto" /\ g1.edges[p].label = at.fields[l][1]
      /\ g1.edges[p].args[1] = g1.node[at.src] /\ g1.edges[p].args[2] = g1.node[at.fields[l][2]]
  BY <1>5 DEF EdgeOf, at
<1>7. PICK e \in DOMAIN g2.edges : used[e] = p
  BY <1>1, <1>6 DEF Found
<1>8. p # 0
  BY <1>1
<1>9. e \in PtoImages(g1.edges[p])
  BY <1>1, <1>6, <1>7, <1>8 DEF Marks
<1>10. /\ g2.edges[e].kind = "pto" /\ g2.edges[e].label = at.fields[l][1]
       /\ g2.edges[e].args[1] = g2.node[at.src] /\ g2.edges[e].args[2] = g2.node[at.fields[l][2]]
  BY <1>1, <1>3, <1>6, <1>9 DEF PtoImages
<1> DEFINE b == a2[e]
           lt == left.space[b]
           q == k2[e]
<1>11. b \in DOMAIN left.space /\ AtomOK(lt) /\ EdgeOf(g2.edges[e], q, lt, g2.node)
  BY DEF Owned
<1>12. AtomHolds(lt, s, h, part[b], Segments(h))
  BY <1>11 DEF Heaped, Splits
<1> HIDE DEF b, lt, q
<1>13. /\ lt.kind = "pto" /\ q \in DOMAIN lt.fields /\ lt.fields[q][1] = at.fields[l][1]
       /\ g2.node[lt.src] = g2.node[at.src] /\ g2.node[lt.fields[q][2]] = g2.node[at.fields[l][2]]
  BY <1>10, <1>11 DEF EdgeOf
<1>14. lt.src = Source(lt) /\ lt.src \in Var /\ lt.fields[q][2] \in Var
  BY <1>11, <1>13, AtomShape
<1>15. s[lt.src] = s[at.src] /\ s[lt.fields[q][2]] = s[at.fields[l][2]]
  BY <1>1, <1>3, <1>13, <1>14 DEF SaysOf
<1>16. part[b] = {s[at.src]} /\ h[s[at.src]][at.fields[l][1]] = s[at.fields[l][2]]
  BY <1>12, <1>13, <1>15 DEF AtomHolds
<1>17. b \in Taken(p)
  <2>1. g2.edges[e].args[1] = g2.node[Source(left.space[b])]
    BY <1>10, <1>13, <1>14 DEF lt
  <2> QED
    BY <1>7, <1>11, <2>1, TakenEdge
<1>18. b \in GivenTo(j, a1)
  BY <1>4, <1>11, <1>17 DEF GivenTo
<1>19. s[Source(left.space[b])] = s[at.src]
  BY <1>14, <1>15 DEF lt
<1> QED
  BY <1>16, <1>18, <1>19 DEF at

LEMMA PtoHolds ==
  ASSUME Success, NEW s, NEW h, NEW part, Heaped(s, h, part),
         NEW a1, NEW k1, Owned(g1, right.space, a1, k1),
         NEW j \in DOMAIN right.space, right.space[j].kind = "pto"
  PROVE  AtomHolds(right.space[j], s, h, PartOf(part, j, a1), Segments(h))
<1> DEFINE at == right.space[j]
           P == PartOf(part, j, a1)
<1>1. /\ left \in NormalForms(Pures) /\ g2 = GraphOfForm(left)
      /\ left.space \in Spaces /\ right.space \in Spaces /\ Marks /\ SaysOf(s, g2)
      /\ \A v \in Var : nhom[g1.node[v]] = g2.node[v]
      /\ DOMAIN used = DOMAIN g2.edges
      /\ \A e \in DOMAIN g2.edges : used[e] # 0
  BY SuccessFacts, PureImplied DEF Heaped
<1>2. PICK a2, k2 : Owned(g2, left.space, a2, k2)
  BY <1>1, Owners
<1>3. AtomOK(at)
  BY <1>1, SpaceTypes
<1>4. at.src \in Var /\ 1 \in DOMAIN at.fields
  BY <1>3, AtomShape
<1>5. \A l \in DOMAIN at.fields : \E b \in GivenTo(j, a1) :
        /\ part[b] = {s[at.src]} /\ s[Source(left.space[b])] = s[at.src]
        /\ h[s[at.src]][at.fields[l][1]] = s[at.fields[l][2]]
  BY <1>2, FieldFound
<1>6. PICK b \in GivenTo(j, a1) : part[b] = {s[at.src]}
  BY <1>4, <1>5
<1>7. ASSUME NEW c \in GivenTo(j, a1), part[c] # {}
      PROVE  c = b
  <2>1. c \in DOMAIN left.space /\ b \in DOMAIN left.space
    BY DEF GivenTo
  <2>2. PICK q \in DOMAIN g1.edges : a1[q] = j /\ c \in Taken(q)
    BY DEF GivenTo
  <2>3. PICK d \in DOMAIN g2.edges : /\ g2.edges[d].args[1] = g2.node[Source(left.space[c])]
                                      /\ used[d] = q
    BY <2>2, TakenEdge
  <2>4. g1.edges[q].kind = "pto" /\ g1.edges[q].args[1] = g1.node[at.src]
    BY <2>2 DEF Owned, EdgeOf
  <2>5. d \in PtoImages(g1.edges[q])
    BY <1>1, <2>3, <2>4 DEF Marks
  <2>6. g2.node[Source(left.space[c])] = g2.node[at.src]
    BY <1>1, <1>4, <2>3, <2>4, <2>5 DEF PtoImages
  <2>7. Source(left.space[c]) \in Var
    BY <1>1, <2>1, SpaceTypes, AtomShape
  <2>8. s[Source(left.space[c])] = s[at.src]
    BY <1>1, <1>4, <2>6, <2>7 DEF SaysOf
  <2>9. s[at.src] \in part[c] /\ s[at.src] \in part[b]
    BY <1>2, <1>6, <1>7, <2>1, <2>8, PartHasSource
  <2>10. part \in [DOMAIN left.space -> SUBSET (DOMAIN h)] /\ Disjoint(part)
    BY DEF Heaped, Splits
  <2> QED
    BY <2>1, <2>9, <2>10 DEF Disjoint
<1>8. P = {s[at.src]}
  BY <1>6, <1>7 DEF PartOf
<1>9. \A l \in DOMAIN at.fields : h[s[at.src]][at.fields[l][1]] = s[at.fields[l][2]]
  BY <1>5
<1> QED
  BY <1>8, <1>9 DEF AtomHolds

LEMMA FirstAtNode ==
  ASSUME NEW g, NEW i \in Var
  PROVE  GetVar(g, g.node[i]) \in Var /\ g.node[GetVar(g, g.node[i])] = g.node[i]
<1> DEFINE n == g.node[i]
           S == {v \in Var : g.node[v] = n}
           P(v) == g.node[v] = n /\ \A w \in 0 .. v - 1 : g.node[w] # n
<1>1. S \subseteq Nat /\ i \in S
  BY VarFacts
<1>2. PICK v \in S : \A w \in S : ~ (w < v)
  <2> HIDE DEF S
  <2> QED
    BY <1>1, Least
<1>3. v \in Var /\ P(v)
  <2>1. v \in Var /\ g.node[v] = n
    OBVIOUS
  <2>2. \A w \in 0 .. v - 1 : w \in Var /\ w < v
    BY <2>1, SizeAssumption DEF Var
  <2> QED
    BY <1>2, <2>1, <2>2
<1> HIDE DEF P, n
<1>4. (CHOOSE u \in Var : P(u)) \in Var /\ P(CHOOSE u \in Var : P(u))
  BY <1>3
<1>5. GetVar(g, n) = CHOOSE u \in Var : P(u)
  BY DEF GetVar, P
<1>6. GetVar(g, n) \in Var /\ P(GetVar(g, n))
  BY <1>4, <1>5
<1> QED
  BY <1>6 DEF P, n

(* A segment of the right side: empty, or an unfolding of its edge.        *)
LEMMA LsHolds ==
  ASSUME Success, Justified, EqualEndsEmpty,
         NEW s, NEW h, NEW part, Heaped(s, h, part),
         NEW a1, NEW k1, Owned(g1, right.space, a1, k1),
         NEW j \in DOMAIN right.space, right.space[j].kind # "pto"
  PROVE  AtomHolds(right.space[j], s, h, PartOf(part, j, a1), Segments(h))
<1> DEFINE at == right.space[j]
           vals == [l \in DOMAIN at.args |-> s[at.args[l]]]
<1>1. /\ left.space \in Spaces /\ right.space \in Spaces
      /\ GraphOK(g2) /\ SaysOf(s, g1) /\ SaysOf(s, g2)
      /\ \A v \in Var : nhom[g1.node[v]] = g2.node[v]
  BY SuccessFacts, PureImplied DEF Heaped
<1>2. AtomOK(at)
  BY <1>1, SpaceTypes
<1>3. /\ at.kind = "ls" /\ at.args[1] \in Var /\ at.args[2] \in Var
      /\ at.pid \in DOMAIN Preds /\ DOMAIN at.args = 1 .. Preds[at.pid].fargs
      /\ 1 \in DOMAIN at.args /\ 2 \in DOMAIN at.args
      /\ \A l \in DOMAIN at.args : at.args[l] \in Var
  BY <1>2, AtomShape
<1>4. /\ \A p \in DOMAIN g1.edges : a1[p] = j => EdgeOf(g1.edges[p], k1[p], at, g1.node)
      /\ \A p, q \in DOMAIN g1.edges : p # q => a1[p] # a1[q] \/ k1[p] # k1[q]
      /\ \A l \in EdgeNumbers(at, g1.node) : \E p \in DOMAIN g1.edges : a1[p] = j /\ k1[p] = l
  BY DEF Owned
<1> HIDE DEF at
<1>5. SUFFICES <<at.pid, vals, PartOf(part, j, a1)>> \in Segments(h)
  BY <1>3 DEF AtomHolds, at
<1>6. CASE g1.node[at.args[1]] = g1.node[at.args[2]]
  <2>1. \A p \in DOMAIN g1.edges : a1[p] # j
    BY <1>3, <1>4, <1>6 DEF EdgeOf
  <2>2. GivenTo(j, a1) = {}
    BY <2>1 DEF GivenTo
  <2>3. PartOf(part, j, a1) = {}
    BY <2>2 DEF PartOf
  <2>4. s[at.args[1]] = s[at.args[2]]
    BY <1>1, <1>3, <1>6 DEF SaysOf
  <2>5. h \in Heap /\ s \in [Var -> Location]
    BY StackTypes DEF Heaped
  <2>6. vals \in [1 .. Preds[at.pid].fargs -> Location] /\ vals[1] = vals[2]
    BY <1>3, <2>4, <2>5
  <2> HIDE DEF vals
  <2> QED
    BY <1>3, <2>3, <2>5, <2>6, EmptySegment
<1>7. CASE g1.node[at.args[1]] # g1.node[at.args[2]]
  <2>1. PICK p \in DOMAIN g1.edges : a1[p] = j /\ k1[p] = 1
    BY <1>3, <1>4, <1>7 DEF EdgeNumbers
  <2>2. \A q \in DOMAIN g1.edges : a1[q] = j <=> q = p
    <3>1. \A q \in DOMAIN g1.edges : a1[q] = j => k1[q] = 1
      BY <1>3, <1>4 DEF EdgeOf
    <3> QED
      BY <1>4, <2>1, <3>1
  <2>3. GivenTo(j, a1) = Taken(p)
    <3>1. Taken(p) \subseteq DOMAIN left.space
      BY DEF Taken
    <3> QED
      BY <2>2, <3>1 DEF GivenTo
  <2>4. EdgeOf(g1.edges[p], 1, at, g1.node)
    BY <1>4, <2>1
  <2>5. /\ g1.edges[p].kind = "pred" /\ g1.edges[p].label = at.pid
        /\ g1.edges[p].args = [l \in DOMAIN at.args |-> g1.node[at.args[l]]]
    BY <1>3, <2>4 DEF EdgeOf
  <2> DEFINE args == [l \in DOMAIN g1.edges[p].args |-> GetVar(g2, nhom[g1.edges[p].args[l]])]
             w == <<s, h>>
             hs == <<h, Segments(h)>>
  <2>6. w \in ModelsOf(left.space) /\ hs \in HeapSegments
    <3>1. SepHolds(left.space, s, h, DOMAIN h, Segments(h)) /\ s \in Stack /\ h \in Heap
      BY DEF Heaped, SepHolds
    <3> QED
      BY <1>1, <3>1, HoldsModel DEF HeapSegments
  <2>7. << g1.edges[p].label, [l \in DOMAIN args |-> w[1][args[l]]], UNION {part[b] : b \in Taken(p)} >> \in hs[2]
    <3>1. w[1] = s /\ w[2] = h /\ hs[1] = h /\ hs[2] = Segments(h)
      OBVIOUS
    <3>2. w[2] = hs[1] /\ Agrees(w[1], left.pure)
      BY <3>1 DEF Heaped
    <3>3. /\ part \in [DOMAIN left.space -> SUBSET DOMAIN w[2]]
          /\ Splits(part, left.space, w[1], w[2], DOMAIN w[2], hs[2])
      BY <3>1 DEF Heaped
    <3>4. pc = "done" /\ res = 1
      BY DEF Success, Succeeded
    <3>5. \A m \in ModelsOf(left.space), seg \in HeapSegments :
            m[2] = seg[1] /\ Agrees(m[1], left.pure) =>
              \A pt \in [DOMAIN left.space -> SUBSET DOMAIN m[2]] :
                Splits(pt, left.space, m[1], m[2], DOMAIN m[2], seg[2]) =>
                  << g1.edges[p].label, [l \in DOMAIN args |-> m[1][args[l]]],
                     UNION {pt[b] : b \in Taken(p)} >> \in seg[2]
      BY <2>5, <3>4, Zenon DEF Justified
    <3> HIDE DEF w, hs, args
    <3> QED
      BY <2>6, <3>2, <3>3, <3>5
  <2>8. [l \in DOMAIN args |-> s[args[l]]] = vals
    <3>1. DOMAIN args = DOMAIN at.args
      BY <2>5
    <3>2. ASSUME NEW l \in DOMAIN at.args PROVE s[args[l]] = s[at.args[l]]
      <4>1. args[l] = GetVar(g2, g2.node[at.args[l]])
        BY <1>1, <1>3, <2>5
      <4>2. GetVar(g2, g2.node[at.args[l]]) \in Var /\ g2.node[GetVar(g2, g2.node[at.args[l]])] = g2.node[at.args[l]]
        BY <1>3, FirstAtNode
      <4> QED
        BY <1>1, <1>3, <4>1, <4>2 DEF SaysOf
    <3> HIDE DEF args
    <3> QED
      BY <3>1, <3>2
  <2>9. hs[2] = Segments(h) /\ w[1] = s
    OBVIOUS
  <2> HIDE DEF args, vals, w, hs
  <2>10. [l \in DOMAIN args |-> w[1][args[l]]] = vals
    BY <2>8, <2>9
  <2>11. PartOf(part, j, a1) = UNION {part[b] : b \in Taken(p)}
    BY <2>3 DEF PartOf
  <2> QED
    BY <2>5, <2>7, <2>9, <2>10, <2>11
<1> QED
  BY <1>6, <1>7

(* A model of the left side is one of the right side.                      *)
LEMMA ModelImplied ==
  ASSUME Success, Justified, EqualEndsEmpty,
         NEW m \in ModelsOf(left.space), Agrees(m[1], left.pure)
  PROVE  m \in ModelsOf(right.space) /\ Agrees(m[1], right.pure)
<1> DEFINE s == m[1]
           h == m[2]
<1>1. /\ left.space \in Spaces /\ right.space \in Spaces
      /\ right \in NormalForms(Pures) /\ g1 = GraphOfForm(right)
  BY SuccessFacts
<1>2. /\ s \in Stack /\ h \in Heap /\ m = <<s, h>>
      /\ SepHolds(left.space, s, h, DOMAIN h, Segments(h))
  BY <1>1, ModelHolds
<1>3. Agrees(s, left.pure)
  OBVIOUS
<1> HIDE DEF s, h
<1>4. PICK part : Heaped(s, h, part)
  BY <1>2, <1>3 DEF SepHolds, Heaped
<1>5. PICK a1, k1 : Owned(g1, right.space, a1, k1)
  BY <1>1, Owners
<1> DEFINE rpart == [j \in DOMAIN right.space |-> PartOf(part, j, a1)]
<1>6. /\ rpart \in [DOMAIN right.space -> SUBSET (DOMAIN h)]
      /\ UNION Range(rpart) = DOMAIN h /\ Disjoint(rpart)
  BY <1>4, <1>5, PartsSplit
<1>7. \A j \in DOMAIN right.space : AtomHolds(right.space[j], s, h, rpart[j], Segments(h))
  <2>1. \A j \in DOMAIN right.space : AtomHolds(right.space[j], s, h, PartOf(part, j, a1), Segments(h))
    BY <1>4, <1>5, PtoHolds, LsHolds
  <2> QED
    BY <2>1
<1> HIDE DEF rpart
<1>8. SepHolds(right.space, s, h, DOMAIN h, Segments(h))
  BY <1>6, <1>7 DEF SepHolds, Splits
<1>9. m \in ModelsOf(right.space)
  BY <1>1, <1>2, <1>8, HoldsModel
<1> QED
  BY <1>3, <1>9, PureImplied DEF s

-----------------------------------------------------------------------------
(* The graphs, the node map and the marks of the search are well formed    *)
(* for every pair of formulas that have a heap, whatever the check of the  *)
(* selected subgraphs answers: nodes have no gaps, no difference edge ends *)
(* where it starts, no edge leaves nil, and a mark is an edge of g1.       *)
THEOREM HomTypes == Spec => []TypeOK
<1>1. HInv => TypeOK
  <2> SUFFICES ASSUME HInv PROVE TypeOK
    OBVIOUS
  <2>1. /\ pc \in {"nodes", "pto", "rd", "done", "crashed", "looping"}
        /\ res \in {0, 1} /\ next \in 0 .. Len(g1.edges)
        /\ pc # "nodes" => /\ nhom \in [g1.nodes -> g2.nodes]
                           /\ used \in [DOMAIN g2.edges -> 0 .. Len(g1.edges)]
    BY DEF HInv
  <2>2. \A g \in {g1, g2} : GraphOK(g)
    BY DEF HInv
  <2>3. \A g \in {g1, g2} : /\ g.nodes = 0 .. Cardinality(g.nodes) - 1
                            /\ \A d \in g.diff : d[2] < d[1]
                            /\ \A i \in DOMAIN g.edges : g.edges[i].args[1] # g.node[0]
    BY <2>2 DEF GraphOK
  <2> QED
    BY <2>1, <2>3 DEF TypeOK
<1> QED
  BY <1>1, HInvInductive, PTL

(* Separation: no step of the search takes an edge of the left side from   *)
(* the edge of the right side it was given to, although the search for     *)
(* points-to edges writes marks it has not read.                           *)
THEOREM HomSeparated == Spec => Separated
<1>1. HInv /\ [Next]_vars => [\A e \in DOMAIN used : used[e] # 0 => used'[e] = used[e]]_vars
  BY StepHolds
<1> QED
  BY <1>1, HInvInductive, PTL DEF Spec, Separated

(* Soundness: for every pair of formulas that have a heap, and whatever    *)
(* the check of the selected subgraphs answers: when the edges given to    *)
(* each predicate edge are an unfolding of it, a homomorphism that         *)
(* respects the labels is found only when the left side entails the right  *)
(* side.  What the search itself has to do for it - a points-to edge for   *)
(* each one, no edge for two of them, none left over - it does.            *)
THEOREM HomSound == EqualEndsEmpty => (Spec => [](Justified => Sound))
<1> SUFFICES ASSUME EqualEndsEmpty PROVE Spec => [](Justified => Sound)
  OBVIOUS
<1>1. HInv /\ SInv => (Justified => Sound)
  <2> SUFFICES ASSUME HInv, SInv, Justified, pc = "done", res = 1, Labelled
               PROVE  Entails(left, right)
    BY DEF Sound
  <2>1. Success
    BY DEF Success, Succeeded
  <2>2. \A m \in ModelsOf(left.space) : Agrees(m[1], left.pure) =>
          m \in ModelsOf(right.space) /\ Agrees(m[1], right.pure)
    BY <2>1, ModelImplied
  <2> QED
    BY <2>2 DEF Entails
<1> QED
  BY <1>1, SearchInvariant, PTL

=============================================================================
