------------------------------ MODULE NollHeaps ----------------------------
(***************************************************************************)
(* What the formulas of the tool mean: the separation logic semantics that *)
(* noll_entl.h and the definitions of predicates appeal to, over heaps of  *)
(* a few locations.  A predicate holds of exactly the locations it         *)
(* allocates, by unfolding the rules of its definition.  This is the       *)
(* reference the algorithms are compared with; no code of the tool         *)
(* computes it.                                                            *)
(***************************************************************************)
EXTENDS NollGraph, TLC

CONSTANTS Fields,   \* the fields of a record
          Spaces    \* the spatial parts of the formulas that are compared

(* Location holds the value 0 of nil, which is never allocated. *)
Stack == {s \in Interpretation : s[0] = 0}
Heap  == UNION {[D -> [Fields -> Location]] : D \in SUBSET (Location \ {0})}

(* An atom holds of exactly the locations D; segs are the segments there   *)
(* are in the heap, as predicate, arguments and locations.                 *)
AtomHolds(at, s, h, D, segs) ==
  IF at.kind = "pto"
  THEN /\ D = {s[at.src]}
       /\ \A i \in DOMAIN at.fields :
            h[s[at.src]][at.fields[i][1]] = s[at.fields[i][2]]
  ELSE <<at.pid, [k \in DOMAIN at.args |-> s[at.args[k]]], D>> \in segs

Disjoint(part) ==
  \A i, j \in DOMAIN part : i # j => part[i] \intersect part[j] = {}

(* The atoms hold of the parts of D they are given. *)
Splits(part, atoms, s, h, D, segs) ==
  /\ \A i \in DOMAIN atoms : AtomHolds(atoms[i], s, h, part[i], segs)
  /\ UNION Range(part) = D
  /\ Disjoint(part)

(* The separating conjunction of the atoms holds of exactly D. *)
SepHolds(atoms, s, h, D, segs) ==
  \E part \in [DOMAIN atoms -> SUBSET D] : Splits(part, atoms, s, h, D, segs)

(* nil, the parameters and the existential variables of a rule. *)
Values(vals, ex) ==
  [k \in {0} \union DOMAIN vals \union DOMAIN ex |->
     IF k = 0 THEN 0 ELSE IF k \in DOMAIN vals THEN vals[k] ELSE ex[k]]

(* A rule of the predicate holds of these values and of exactly D. *)
RuleHolds(pid, vals, h, D, segs) ==
  LET fargs == Preds[pid].fargs
  IN  \/ /\ D = {}
         /\ \E base \in Range(Preds[pid].base) : Satisfies(Values(vals, <<>>), base)
      \/ \E rule \in Range(Preds[pid].rec) :
           /\ Values(vals, <<>>)[rule.pto.src] \in D
           /\ \E ex \in [fargs + 1 .. fargs + rule.exists -> Location] :
                /\ Satisfies(Values(vals, ex), rule.pure)
                /\ SepHolds(<<rule.pto>> \o rule.calls, Values(vals, ex), h, D, segs)

Candidates(h) ==
  UNION {{<<pid, vals, D>> :
            vals \in [1 .. Preds[pid].fargs -> Location], D \in SUBSET (DOMAIN h)} :
           pid \in DOMAIN Preds}

(* The segments of a heap: each unfolding of a rule takes a location.      *)
Segments(h) ==
  LET depth == Cardinality(DOMAIN h) + 1
      upto[n \in 0 .. depth] ==
        IF n = 0 THEN {}
        ELSE LET segs == upto[n - 1]
             IN  {c \in Candidates(h) : RuleHolds(c[1], c[2], h, c[3], segs)}
  IN  upto[depth]

(* Tables, as sets of pairs so that TLC computes them once: the segments   *)
(* of each heap, and the stacks and heaps each spatial part holds of.      *)
HeapSegments == {<<h, Segments(h)>> : h \in Heap}

SpaceModels ==
  {<<sp, {<<m[1], m[2][1]>> : m \in {n \in Stack \X HeapSegments :
                                      SepHolds(sp, n[1], n[2][1], DOMAIN n[2][1], n[2][2])}}>> :
     sp \in Spaces}

ModelsOf(sp) == UNION {e[2] : e \in {d \in SpaceModels : d[1] = sp}}

(* Every stack and heap that satisfies f1 satisfies f2. *)
Entails(f1, f2) ==
  LET models2 == ModelsOf(f2.space)
  IN  \A m \in ModelsOf(f1.space) :
        Agrees(m[1], f1.pure) => m \in models2 /\ Agrees(m[1], f2.pure)

(* What normalisation makes of a formula (NollNormalize): its matrix has   *)
(* every equality and every disequality that follows from the formula.     *)
NormalForm(sp, ms) ==
  [space |-> sp,
   pure  |-> [x \in Cell |-> IF \A m \in ms : m[1][x[1]] = m[1][x[2]] THEN "eq"
                             ELSE IF \A m \in ms : m[1][x[1]] # m[1][x[2]] THEN "neq"
                             ELSE "other"]]

(* The normal forms of the satisfiable formulas with these pure parts. *)
NormalForms(pures) ==
  LET of(pure, sp) == {m \in ModelsOf(sp) : Satisfies(m[1], pure)}
  IN  {NormalForm(c[2], of(c[1], c[2])) : c \in {d \in pures \X Spaces : of(d[1], d[2]) # {}}}

=============================================================================
