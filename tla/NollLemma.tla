------------------------------ MODULE NollLemma -----------------------------
(***************************************************************************)
(* The lemmas of the syntactic check (noll_lemma.c): for each predicate    *)
(* rules P1(args1) [* P2(args2)] [/\ pure] => P(args), built once, at the  *)
(* first check, from nothing but the types of the parameters, the names    *)
(* and the order of the definitions.                                       *)
(*                                                                         *)
(* A lemma is [pid, kind, vars, pure, rec]: vars the types of its          *)
(* variables, from 0 = nil, where the first ones are the parameters of     *)
(* pid; pure the variables that equal nil, the empty bag or 0; rec its     *)
(* calls, records [pid, args].  Predicates are defined before the array    *)
(* is made, since a definition with a variable in scope is refused.        *)
(*                                                                         *)
(* noll_lemma_init_lseg, _list, _bst, _bsthole, _slist and _slseg are      *)
(* called from nowhere and are left out.                                   *)
(***************************************************************************)
EXTENDS NollPreds

CONSTANTS Signatures,  \* the predicates a script may define, records [name, vars]
          Meaning      \* what their authors take the parameters for, by name

VARIABLES preds,       \* preds_array
          lemma_array, \* as far as it is filled: for each predicate a sequence of lemmas
          phase        \* "parsing", "filling", "filled", or "crashed": NULL was followed

vars == <<preds, lemma_array, phase>>

-----------------------------------------------------------------------------
(* What is looked up of a predicate. *)

PendingKinds == {"lpending", "bpending", "ipending"}
RootKinds    == {"lroot", "broot", "iroot"}

Kinds(pid) == preds[pid].typ[1].argkind
Fargs(pid) == preds[pid].fargs

(* noll_pred_array_find; 0 for UNDEFINED_ID. *)
Find(name) == PidOf(Names(preds), name)

(* The predicates that can be read: they exist and were typed. *)
Readable(pid) == pid \in DOMAIN preds /\ preds[pid].typ # <<>>

(* How many parameters up to the i-th have one of the kinds. *)
Rank(pid, i, kinds) == Cardinality({j \in 1 .. i : Kinds(pid)[j] \in kinds})

-----------------------------------------------------------------------------
(* The variables of a lemma. *)

(* noll_lemma_clone_pending: a copy of each pending parameter. *)
ClonePending(tys, pid) ==
  LET pending == SelectSeq([i \in 1 .. Fargs(pid) |-> i], LAMBDA i : Kinds(pid)[i] \in PendingKinds)
  IN  tys \o [k \in DOMAIN pending |-> VarType(preds[pid].vars, pending[k])]

(* noll_lemma_add_lvars: both arrays from the front, by the kind of the    *)
(* types; what the part has at another place is added.                     *)
AddLvars(base, part) ==
  LET Next1(acc, ty) ==
        IF acc.bi \in DOMAIN base /\ KindOf(base[acc.bi]) = KindOf(ty)
        THEN [acc EXCEPT !.bi = @ + 1]
        ELSE [acc EXCEPT !.vars = Append(@, ty)]
  IN  FoldLeft(Next1, [bi |-> 1, vars |-> base], part).vars

(* The arguments of a call of pid, where the parameters of some kinds are  *)
(* replaced by the variables that were added, in their order.              *)
Replaced(pid, kinds) ==
  [i \in 1 .. Fargs(pid) |->
     IF Kinds(pid)[i] \in kinds THEN Fargs(pid) + Rank(pid, i, kinds) ELSE i]

(* MUTANT of OfPart: the other parameters keep their places. *)
OfPartSamePlace(base, part) ==
  [i \in 1 .. Fargs(part) |->
     IF Kinds(part)[i] \in PendingKinds THEN Fargs(base) + Rank(part, i, PendingKinds) ELSE i]

(* The arguments of the part in a lemma of base: the pending ones are the  *)
(* variables that were added, the others those of base in their order.     *)
OfPart(base, part) ==
  [i \in 1 .. Fargs(part) |->
     IF Kinds(part)[i] \in PendingKinds THEN Fargs(base) + Rank(part, i, PendingKinds)
     ELSE i - Rank(part, i, PendingKinds)]

(* The arguments of the base after its part: the place of the parameter    *)
(* counts, not its rank among the roots.                                   *)
AfterPart(base) ==
  [i \in 1 .. Fargs(base) |-> IF Kinds(base)[i] \in RootKinds THEN Fargs(base) + i ELSE i]

-----------------------------------------------------------------------------
(* The lemmas. *)

Lemma(pid, kind, tys, pure, rec) ==
  [pid |-> pid, kind |-> kind, vars |-> tys, pure |-> pure, rec |-> rec]
Call(pid, args) == [pid |-> pid, args |-> args]

(* noll_lemma_new_spec_nil: nil, emptybag or 0 for all that was added. *)
SpecNil(base, part) ==
  Lemma(base, "INSTANCE", ClonePending(preds[base].vars, part),
        Fargs(base) + 1 .. Fargs(part), <<Call(part, OfPart(base, part))>>)

(* noll_lemma_new_comp_1, and noll_lemma_new_comp_4 with a stronger        *)
(* predicate in front, whose kinds are not looked at.                      *)
Composition(kind, first, pid) ==
  Lemma(pid, kind, ClonePending(preds[pid].vars, pid), {},
        <<Call(first, Replaced(pid, PendingKinds)), Call(pid, Replaced(pid, RootKinds))>>)

Comp1(pid)         == Composition("COMP_1", pid, pid)
Comp4(strong, pid) == Composition("COMP_1S", strong, pid)

(* noll_lemma_new_comp_2 *)
Comp2(kind, base, part) ==
  Lemma(base, kind, AddLvars(preds[base].vars, preds[part].vars), {},
        <<Call(part, OfPart(base, part)), Call(base, AfterPart(base))>>)

(* noll_lemma_new_comp_3 *)
Comp3(strong, pid) ==
  Lemma(pid, "STRONGER", preds[pid].vars, {}, <<Call(strong, [i \in 1 .. Fargs(pid) |-> i])>>)

-----------------------------------------------------------------------------
(* Which lemmas a predicate gets: pairs of a kind and the other predicate, *)
(* in the order in which they are tried.                                   *)

(* noll_lemma_init_avl *)
AvlLemmas ==
  <<<<"INSTANCE", Find("avlhole")>>, <<"COMP_2", Find("avlhole")>>,
    <<"COMP_2S", Find("bavlhole")>>, <<"COMP_2S", Find("ubavlhole")>>>>

(* noll_lemma_init_avlhole *)
AvlholeLemmas(pid) ==
  <<<<"COMP_1", pid>>, <<"STRONGER", Find("bavlhole")>>, <<"STRONGER", Find("ubavlhole")>>>>

(* The stronger predicates of red-black trees may be missing. *)
IfFound(kinds, name) ==
  IF Find(name) = 0 THEN <<>> ELSE [k \in DOMAIN kinds |-> <<kinds[k], Find(name)>>]

(* noll_lemma_init_rbt *)
RbtLemmas ==
  <<<<"INSTANCE", Find("rbthole")>>, <<"COMP_2", Find("rbthole")>>>>
    \o IfFound(<<"COMP_2S">>, "brrbthole") \o IfFound(<<"COMP_2S">>, "rbrbthole")

(* noll_lemma_init_rbthole *)
RbtholeLemmas(pid) ==
  <<<<"COMP_1", pid>>>> \o IfFound(<<"STRONGER", "COMP_1S">>, "brrbthole")
                        \o IfFound(<<"STRONGER", "COMP_1S">>, "rbrbthole")

(* noll_lemma_init_pred for any other name: the predicate defined next is  *)
(* taken for the part of one that has a single location.                   *)
OtherLemmas(pid) ==
  IF preds[pid].typ[1].unary THEN <<<<"INSTANCE", pid + 1>>, <<"COMP_2", pid + 1>>>>
  ELSE <<<<"COMP_1", pid>>>>

LemmasOf(pid) ==
  CASE preds[pid].name = "avl"     -> AvlLemmas
    [] preds[pid].name = "avlhole" -> AvlholeLemmas(pid)
    [] preds[pid].name = "rbt"     -> RbtLemmas
    [] preds[pid].name = "rbthole" -> RbtholeLemmas(pid)
    [] OTHER                       -> OtherLemmas(pid)

Build(pid, kind, other) ==
  CASE kind = "INSTANCE"             -> SpecNil(pid, other)
    [] kind = "COMP_1"               -> Comp1(pid)
    [] kind = "COMP_1S"              -> Comp4(other, pid)
    [] kind \in {"COMP_2", "COMP_2S"} -> Comp2(kind, pid, other)
    [] kind = "STRONGER"             -> Comp3(other, pid)

(* What the other predicate is asked for: of a stronger one only the       *)
(* definition is read, and the part of an instance may have no more        *)
(* parameters than there are variables.                                    *)
CanBuild(pid, kind, other) ==
  /\ other \in DOMAIN preds
  /\ kind \in {"STRONGER", "COMP_1S"} \/ Readable(other)
  /\ kind = "INSTANCE" =>
       Fargs(other) <= Fargs(pid) + Rank(other, Fargs(other), PendingKinds)

-----------------------------------------------------------------------------
Init == preds = <<>> /\ lemma_array = <<>> /\ phase = "parsing"

(* A define-fun; only the parameters of the definition matter here. *)
Define(sig) ==
  /\ phase = "parsing"
  /\ Find(sig.name) = 0
  /\ preds' = Register(preds, DefNew(sig.name, sig.vars))
  /\ UNCHANGED <<lemma_array, phase>>

(* The typing at the check-sat, and noll_lemma_init. *)
Check ==
  /\ phase = "parsing" /\ preds # <<>>
  /\ preds' = TypePreds(preds, 0).preds
  /\ phase' = "filling"
  /\ UNCHANGED lemma_array

(* One round of the loop of noll_lemma_init. *)
InitPred(pid) ==
  /\ phase = "filling" /\ pid = Len(lemma_array) + 1
  /\ Readable(pid)
  /\ \A k \in DOMAIN LemmasOf(pid) : CanBuild(pid, LemmasOf(pid)[k][1], LemmasOf(pid)[k][2])
  /\ lemma_array' = Append(lemma_array,
                           [k \in DOMAIN LemmasOf(pid) |->
                              Build(pid, LemmasOf(pid)[k][1], LemmasOf(pid)[k][2])])
  /\ phase' = IF pid = Len(preds) THEN "filled" ELSE "filling"
  /\ UNCHANGED preds

(* A part that is not there, or a predicate without a typing. *)
InitPredCrashes(pid) ==
  /\ phase = "filling" /\ pid = Len(lemma_array) + 1
  /\ ~Readable(pid) \/ \E k \in DOMAIN LemmasOf(pid) :
                         ~CanBuild(pid, LemmasOf(pid)[k][1], LemmasOf(pid)[k][2])
  /\ phase' = "crashed"
  /\ UNCHANGED <<preds, lemma_array>>

Next ==
  \/ \E sig \in Signatures : Define(sig)
  \/ Check
  \/ \E pid \in DOMAIN preds : InitPred(pid) \/ InitPredCrashes(pid)

Spec == Init /\ [][Next]_vars

-----------------------------------------------------------------------------
(* What the lemmas should say.  Meaning[name] is what the author of the    *)
(* predicate has in mind: [roots, pending, ends, border, cells, parts].    *)
(* The simplest predicates that are composed of segments serve as the      *)
(* reference: a value is a number, 0 for nil and the empty bag, a heap is  *)
(* a number of cells, and along a segment each root is larger than its     *)
(* pending parameter by the number of cells.  A predicate without pending  *)
(* parameters ends in the values of ends.  A segment that is not empty     *)
(* asks for 1 at its border, cells bounds how many it has, and parts are   *)
(* the names of the segments of a complete predicate.                      *)
Of(pid) == Meaning[preds[pid].name]

HoldsOn(pid, args, n) ==
  /\ n \in Of(pid).cells
  /\ \A k \in DOMAIN Of(pid).roots :
       args[Of(pid).roots[k]] =
         n + (IF Of(pid).pending = <<>> THEN Of(pid).ends[k] ELSE args[Of(pid).pending[k]])
  /\ \A b \in Of(pid).border : n > 0 => args[b] = 1

(* Every argument is a variable of the kind of its parameter. *)
FitsParams(l, c) ==
  /\ Len(c.args) = Fargs(c.pid)
  /\ \A i \in DOMAIN c.args :
       /\ c.args[i] < Len(l.vars)
       /\ KindOf(VarType(l.vars, c.args[i])) = KindOf(VarType(preds[c.pid].vars, i))

(* The lemma is a valid implication: the values that are not 0 are ones,   *)
(* and the cells of its parts are at most one.                             *)
Valid(l) ==
  \A ones \in SUBSET (1 .. Len(l.vars) - 1), ns \in [DOMAIN l.rec -> 0 .. 1] :
    LET Value(v) == IF v \in ones THEN 1 ELSE 0
        Args(c)  == [i \in DOMAIN c.args |-> Value(c.args[i])]
        n        == FoldFunction(+, 0, ns)
    IN  /\ n <= 1
        /\ l.pure \cap ones = {}
        /\ \A k \in DOMAIN l.rec : HoldsOn(l.rec[k].pid, Args(l.rec[k]), ns[k])
        => HoldsOn(l.pid, [i \in 1 .. Fargs(l.pid) |-> Value(i)], n)

(* The roles that noll_pred_type_args guesses are the ones that are meant. *)
ReadAsMeant(pid) ==
  /\ \A i \in 1 .. Fargs(pid) : (Kinds(pid)[i] \in RootKinds) = (i \in Range(Of(pid).roots))
  /\ \A i \in 1 .. Fargs(pid) : (Kinds(pid)[i] \in PendingKinds) = (i \in Range(Of(pid).pending))

(* The conditions under which the lemmas were written: noll_lemma.c says   *)
(* that the predicate after a complete one is its segment, and that r1 is  *)
(* nil, b1 the empty bag and h1 is 0 at the end.                           *)
AsSupposed(l) ==
  /\ \A k \in DOMAIN l.rec : ReadAsMeant(l.rec[k].pid)
  /\ ReadAsMeant(l.pid)
  /\ l.kind \in {"INSTANCE", "COMP_2", "COMP_2S"} => preds[l.rec[1].pid].name \in Of(l.pid).parts
  /\ l.kind = "INSTANCE" => \A k \in DOMAIN Of(l.pid).ends : Of(l.pid).ends[k] = 0

(* Invariant: each lemma of the predicate that was last, built with index  *)
(* arithmetic over parameters of several kinds, applies each predicate to  *)
(* variables of the right kinds and is a valid implication, for every      *)
(* order in which the predicates of a family are defined.  Only lemmas of  *)
(* predicates whose roles are guessed right are asked about.  Those of the *)
(* samples' dll(fr, bk, pr, nx) are not, where bk and nx are pending: its  *)
(* lemma, dll(E, E1, pr, nx) * dll(E1, F, pr, nx) => dll(E, F, pr, nx), is *)
(* not valid, since with E = nx the first part is empty, E1 = pr, and the  *)
(* second may have cells.                                                  *)
LemmasHold ==
  lemma_array # <<>> =>
    \A k \in DOMAIN Last(lemma_array) :
      LET l == Last(lemma_array)[k]
      IN  AsSupposed(l) => (\A i \in DOMAIN l.rec : FitsParams(l, l.rec[i])) /\ Valid(l)

=============================================================================
