------------------------------ MODULE NollTerms -----------------------------
(***************************************************************************)
(* The terms of a script and their translation into formulas (noll.c):     *)
(* what noll_mk_* return for a term as it is written, which calls they     *)
(* refuse, and how noll_exp_push_* turn the result into the pure, spatial  *)
(* and sharing part of a formula.                                          *)
(*                                                                         *)
(* A term is [op, id, args].  id is a sequence: the variable, set variable *)
(* or field of a symbol, the name a call is written with, the types of the *)
(* variables an exists binds, and <<>> otherwise.  Names of predicates are *)
(* numbers in the order of strcmp.  A type is the record of a location     *)
(* (0 is void, the type of nil) or one of the two data types.  Variables   *)
(* are numbered from 0 = nil and an array of variables is the sequence of  *)
(* their types; predicates are numbered from 1 and 0 is UNDEFINED_ID.      *)
(*                                                                         *)
(* Matrices have the fixed constant Size: cells of variables that are not  *)
(* in the array stay "other".  The left side of a points-to and of a       *)
(* membership is a variable, and the terms of a sref are refs, as the      *)
(* assertions of noll_mk_form_pto and noll_exp_push_share require.         *)
(***************************************************************************)
EXTENDS NollMatrix, FiniteSets, SequencesExt

IntType == -1
BagType == -2
BadType == -3

(* Kinds of types: all records are NOLL_TYP_RECORD. *)
KindOf(ty) == IF ty >= 0 THEN 0 ELSE ty

(* noll_var_type and noll_var_record; -1 stands for UNDEFINED_ID. *)
VarType(tys, v)  == tys[v + 1]
RecordOf(tys, v) == IF VarType(tys, v) >= 0 THEN VarType(tys, v) ELSE -1

(* F of each term of a sequence; with a map TLC tabulates the result. *)
Each(F(_), ts) == [i \in DOMAIN ts |-> F(ts[i])] @@ <<>>

(* noll_type_match: nil may stand for any record. *)
TypeMatch(formal, actual) ==
  IF formal >= 0 /\ actual >= 0 THEN actual \in {0, formal} ELSE formal = actual

-----------------------------------------------------------------------------
(* Building terms.                                                         *)

(* The atoms whose negation is an atom. *)
Negation == [eq |-> "distinct", distinct |-> "eq", lt |-> "ge", ge |-> "lt",
             gt |-> "le", le |-> "gt", inloc |-> "niloc", niloc |-> "inloc"]

(* noll_pred_array_find *)
PidOf(names, n) ==
  IF \E i \in DOMAIN names : names[i] = n
  THEN CHOOSE i \in DOMAIN names : names[i] = n /\ \A j \in 1 .. i - 1 : names[j] # n
  ELSE 0

(* MUTANT of Built: an atom under "not" is returned as it is. *)
RECURSIVE BuiltPositive(_, _)
BuiltPositive(t, names) ==
  LET as == Each(LAMBDA a : BuiltPositive(a, names), t.args)
  IN  IF t.op = "not" /\ as[1].op \in DOMAIN Negation THEN as[1]
      ELSE IF t.op = "pred" THEN [t EXCEPT !.args = as, !.id = <<PidOf(names, t.id[1])>>]
      ELSE [t EXCEPT !.args = as]

(* The term noll_mk_* return.  A negated atom is replaced by its opposite, *)
(* "and" and "or" of one argument by the argument, the name of a call by   *)
(* the predicate's number.                                                 *)
RECURSIVE Built(_, _)
Built(t, names) ==
  LET as == Each(LAMBDA a : Built(a, names), t.args)
  IN  IF t.op = "not" /\ as[1].op \in DOMAIN Negation
        THEN [as[1] EXCEPT !.op = Negation[@]]
      ELSE IF t.op \in {"and", "or"} /\ Len(as) = 1
        THEN as[1]
      ELSE IF t.op = "pred"
        THEN [t EXCEPT !.args = as, !.id = <<PidOf(names, t.id[1])>>]
      ELSE [t EXCEPT !.args = as]

(* The numbers of arguments that are no error; an error is only recorded:  *)
(* of the operators of formulas and data, and of those of space and sets.  *)
DataArityOk(op, n) ==
  CASE op \in {"not", "bag"} -> n = 1
    [] op \in {"implies", "eq", "distinct", "lt", "gt", "le", "ge", "minus", "bagminus", "subset"} -> n = 2
    [] op \in {"plus", "bagunion"} -> n >= 2
    [] op = "ite" -> n = 3
    [] OTHER -> TRUE
SpaceArityOk(op, n) ==
  CASE op \in {"sloc", "tobool", "tospace", "loop"} -> n = 1
    [] op \in {"pto", "index", "inloc", "eqloc", "leloc", "seloc"} -> n = 2
    [] op \in {"wsep", "ssep", "ref", "sref", "unloc"} -> n >= 2
    [] OTHER -> TRUE

RECURSIVE ArityErrors(_)
ArityErrors(t) ==
  \/ ~DataArityOk(t.op, Len(t.args)) \/ ~SpaceArityOk(t.op, Len(t.args))
  \/ \E i \in DOMAIN t.args : ArityErrors(t.args[i])

(* The calls of a term in the order the parser builds them, each with the  *)
(* number of scopes that are open then.                                    *)
RECURSIVE CallsIn(_, _)
CallsIn(t, depth) ==
  FlattenSeq(Each(LAMBDA a : CallsIn(a, IF t.op = "exists" THEN depth + 1 ELSE depth), t.args))
    \o IF t.op = "pred"
       THEN <<[name |-> t.id[1], size |-> Len(t.args), depth |-> depth]>>
       ELSE <<>>

(* noll_mk_pred: a name that is not registered yet is taken for the one    *)
(* that is being defined when it is used in a rule; the first one fills    *)
(* ctx->pname (0 is NULL).                                                 *)
MkPred(st, c, names) ==
  IF ~st.ok \/ c.size < 2 THEN [st EXCEPT !.ok = FALSE]
  ELSE IF PidOf(names, c.name) # 0 THEN st
  ELSE IF c.depth < 3 \/ (st.pname # 0 /\ st.pname > c.name) THEN [st EXCEPT !.ok = FALSE]
  ELSE IF st.pname = 0 THEN [st EXCEPT !.pname = c.name]
  ELSE st

MkCalls(t, depth, names) ==
  FoldLeft(LAMBDA st, c : MkPred(st, c, names), [ok |-> TRUE, pname |-> 0], CallsIn(t, depth))

-----------------------------------------------------------------------------
(* Pure and data constraints.                                              *)

(* The type of the result of a data operator, before its arguments.        *)
DTermOwn(e, tys) ==
  CASE e.op = "lvar" -> KindOf(VarType(tys, e.id[1]))
    [] e.op \in {"int", "dfield", "plus", "minus"} -> IntType
    [] e.op \in {"emptybag", "bag", "bagunion", "bagminus"} -> BagType
    [] OTHER -> BadType

(* noll_exp_push_dterm, the type of the term it returns or BadType for     *)
(* NULL, and noll_exp_push_dform, whether it returns a constraint.         *)
RECURSIVE DTermType(_, _), DFormOk(_, _, _)
DTermType(e, tys) ==
  LET cond  == e.op = "ite"
      ty    == IF cond THEN DTermType(e.args[2], tys) ELSE DTermOwn(e, tys)
      terms == (IF cond THEN 2 ELSE 1) .. Len(e.args)
      want  == CASE e.op = "bag" -> IntType [] e.op = "dfield" -> 0 [] OTHER -> ty
  IN  IF /\ ty # BadType
         /\ cond => DFormOk(e.args[1], tys, 1)
         /\ \A i \in terms : DTermType(e.args[i], tys) = want
      THEN ty
      ELSE BadType
DFormOk(e, tys, level) ==
  CASE e.op = "implies" ->
         level = 0 /\ DFormOk(e.args[1], tys, 1) /\ DFormOk(e.args[2], tys, 1)
    [] e.op \in {"eq", "distinct", "lt", "gt", "le", "ge", "subset"} ->
         \E ty \in {DTermType(e.args[1], tys)} :
            /\ ty # BadType
            /\ DTermType(e.args[2], tys) = ty
            /\ e.op = "subset" => ty = BagType
    [] OTHER -> FALSE

EmptyPure == [m |-> PureNew @@ <<>>, data |-> <<>>]

(* noll_pure_add_eq and _neq on any two variables. *)
AddAtom(m, op, x, y) ==
  IF x = y THEN m
  ELSE (IF op = "eq" THEN AddEqMatrix(m, x, y) ELSE AddNeqMatrix(m, x, y)) @@ <<>>

AddAtomKind(m, op, x, y) ==
  IF x = y THEN (IF op = "eq" THEN "sat" ELSE "unsat")
  ELSE IF op = "eq" THEN AddEqKind(m, x, y)
  ELSE AddNeqKind(m, x, y)

(* noll_exp_push_pure: the pure part and what becomes of the form's kind.  *)
(* An atom between two variables of any type goes to the matrix, all else  *)
(* is a data constraint.                                                   *)
PushPure(p, e, tys) ==
  IF e.op \in {"eq", "distinct"} /\ e.args[1].op = "lvar" /\ e.args[2].op = "lvar"
  THEN LET x == e.args[1].id[1]
           y == e.args[2].id[1]
       IN  [pure   |-> [p EXCEPT !.m = AddAtom(@, e.op, x, y)],
            status |-> AddAtomKind(p.m, e.op, x, y)]
  ELSE IF DFormOk(e, tys, 0)
  THEN [pure |-> [p EXCEPT !.data = Append(@, e)], status |-> "data"]
  ELSE [pure |-> p, status |-> "bad"]

-----------------------------------------------------------------------------
(* Spatial formulas.                                                       *)
NullSpace == [kind |-> "null"]
EmpSpace  == [kind |-> "emp"]

(* noll_mk_form_pto *)
FormPto(e) ==
  LET r    == e.args[2]
      refs == IF r.op = "ref" THEN <<r>> ELSE r.args
  IN  IF r.op \notin {"ref", "sref"} \/ \E i \in DOMAIN refs : refs[i].args[2].op # "lvar"
      THEN NullSpace
      ELSE [kind |-> "pto", src |-> e.args[1].id[1],
            flds |-> [i \in DOMAIN refs |-> <<refs[i].args[1].id[1], refs[i].args[2].id[1]>>]]

(* noll_pred_typecheck_call: the last parameter is not compared, and a     *)
(* call that does not fit gets the number UNDEFINED_ID and no error.       *)
TypecheckCall(preds, pid, tys) ==
  IF /\ pid # 0
     /\ Len(tys) = preds[pid].fargs
     /\ \A i \in 1 .. Len(tys) - 1 : TypeMatch(VarType(preds[pid].vars, i), tys[i])
  THEN pid
  ELSE 0

(* noll_mk_form_pred: a call whose name was not registered when it was     *)
(* built is a call of own, the predicate being defined.                    *)
FormCall(preds, own, tys, e) ==
  IF \E i \in DOMAIN e.args : e.args[i].op # "lvar" THEN NullSpace
  ELSE LET vs  == [i \in DOMAIN e.args |-> e.args[i].id[1]]
           pid == IF e.id[1] # 0 THEN e.id[1] ELSE own
       IN  [kind |-> "ls", args |-> vs, sid |-> <<>>, loop |-> FALSE,
            pid  |-> TypecheckCall(preds, pid, [i \in DOMAIN vs |-> VarType(tys, vs[i])])]

(* noll_mk_form_loop *)
FormLoop(preds, own, tys, e) ==
  IF Len(e.args) # 1 \/ e.args[1].op # "pred" THEN NullSpace
  ELSE LET s == FormCall(preds, own, tys, e.args[1])
       IN  IF s.kind = "null" THEN s ELSE [s EXCEPT !.loop = TRUE]

(* noll_mk_form_index *)
FormIndex(preds, tys, e) ==
  IF Len(e.args) # 2 \/ e.args[1].op # "svar" \/ e.args[2].op \notin {"pred", "loop"}
  THEN NullSpace
  ELSE LET s == IF e.args[2].op = "pred" THEN FormCall(preds, 0, tys, e.args[2])
                ELSE FormLoop(preds, 0, tys, e.args[2])
       IN  IF s.kind = "null" THEN s ELSE [s EXCEPT !.sid = e.args[1].id]

(* MUTANT of FormSep: the arguments of any separation are taken over. *)
FormSepFlat(op, parts) ==
  [kind |-> op,
   sep  |-> FlattenSeq([i \in DOMAIN parts |->
              CASE parts[i].kind = "null" -> <<>>
                [] parts[i].kind \in {"ssep", "wsep"} -> parts[i].sep
                [] OTHER -> <<parts[i]>>])]

(* noll_mk_form_sep: arguments that could not be translated are left out,  *)
(* a nested separation of the same kind is dissolved.                      *)
FormSep(op, parts) ==
  [kind |-> op,
   sep  |-> FlattenSeq([i \in DOMAIN parts |->
              CASE parts[i].kind = "null" -> <<>>
                [] parts[i].kind = op -> parts[i].sep
                [] OTHER -> <<parts[i]>>])]

(* noll_exp_push_space *)
RECURSIVE PushSpace(_, _, _)
PushSpace(preds, tys, e) ==
  CASE e.op \in {"emp", "junk"} -> [kind |-> e.op]
    [] e.op = "pto"   -> FormPto(e)
    [] e.op = "pred"  -> FormCall(preds, 0, tys, e)
    [] e.op = "index" -> FormIndex(preds, tys, e)
    [] e.op \in {"wsep", "ssep"} ->
         FormSep(e.op, Each(LAMBDA a : PushSpace(preds, tys, a), e.args))
    [] OTHER -> NullSpace

(* Some part of a space term was refused, which is an error.               *)
RECURSIVE SpaceErrors(_, _, _)
SpaceErrors(preds, tys, e) ==
  IF e.op \in {"wsep", "ssep"}
  THEN \E i \in DOMAIN e.args : SpaceErrors(preds, tys, e.args[i])
  ELSE PushSpace(preds, tys, e).kind = "null"

-----------------------------------------------------------------------------
(* Sharing constraints.                                                    *)

(* noll_exp_push_sterm: the set terms of a union, and whether one is none. *)
RECURSIVE SetTerms(_), SetTermErrors(_)
SetTerms(e) ==
  CASE e.op = "sloc"  -> <<[kind |-> "lvar", id |-> e.args[1].id]>>
    [] e.op = "svar"  -> <<[kind |-> "svar", id |-> e.id]>>
    [] e.op = "seloc" -> <<[kind |-> "prj", id |-> e.args[1].id \o e.args[2].id]>>
    [] e.op = "unloc" -> FlattenSeq(Each(LAMBDA a : SetTerms(a), e.args))
    [] OTHER -> <<>>
SetTermErrors(e) ==
  IF e.op = "unloc" THEN \E i \in DOMAIN e.args : SetTermErrors(e.args[i])
  ELSE e.op \notin {"sloc", "svar", "seloc"}

(* One inclusion for each term on the left. *)
Inclusions(l, r) ==
  [i \in DOMAIN SetTerms(l) |-> [kind |-> "subset", left |-> SetTerms(l)[i], right |-> SetTerms(r)]]

(* MUTANT of ShareAtoms: an equality is only the first inclusion. *)
ShareAtomsOneWay(e) ==
  CASE e.op \in {"inloc", "niloc"} ->
         <<[kind |-> e.op, left |-> [kind |-> "lvar", id |-> e.args[1].id],
            right |-> SetTerms(e.args[2])]>>
    [] OTHER -> Inclusions(e.args[1], e.args[2])

(* noll_exp_push_share *)
ShareAtoms(e) ==
  CASE e.op \in {"inloc", "niloc"} ->
         <<[kind |-> e.op, left |-> [kind |-> "lvar", id |-> e.args[1].id],
            right |-> SetTerms(e.args[2])]>>
    [] e.op = "leloc" -> Inclusions(e.args[1], e.args[2])
    [] e.op = "eqloc" -> Inclusions(e.args[1], e.args[2]) \o Inclusions(e.args[2], e.args[1])

ShareErrors(e) ==
  SetTermErrors(e.args[2]) \/ (e.op \in {"eqloc", "leloc"} /\ SetTermErrors(e.args[1]))

-----------------------------------------------------------------------------
(* Formulas.                                                               *)
PureOps  == {"eq", "distinct", "lt", "gt", "le", "ge", "subset", "implies"}
ShareOps == {"inloc", "niloc", "eqloc", "leloc"}

(* noll_form_new; pure is <<>> for NULL, else the one pure part. *)
FormNew == [kind |-> "valid", pure |-> <<>>, space |-> EmpSpace, share |-> <<>>]

(* noll_form_set_unsat *)
FormUnsat == [kind |-> "unsat", pure |-> <<>>, space |-> NullSpace, share |-> <<>>]

(* A spatial or sharing part makes a valid form only satisfiable. *)
Weaken(kind) == IF kind = "valid" THEN "sat" ELSE kind

(* The atoms of noll_exp_push_top.  st has the form, whether an error was  *)
(* recorded and whether the program ended.                                 *)
PushPureTop(st, e, tys) ==
  LET f == st.form
      p == IF f.pure = <<>> THEN EmptyPure ELSE f.pure[1]
  IN  CHOOSE new \in
        {[st EXCEPT !.form.pure = <<r.pure>>,
                    !.form.kind = IF r.status \in {"sat", "unsat"} THEN r.status ELSE @,
                    !.bad = @ \/ r.status \in {"unsat", "bad"}] : r \in {PushPure(p, e, tys)}} : TRUE

PushSpaceTop(st, e, preds, tys) ==
  CHOOSE new \in
    {[st EXCEPT !.form.space = s,
                !.form.kind = IF s.kind = "null" THEN @ ELSE Weaken(@),
                !.bad = @ \/ SpaceErrors(preds, tys, e.args[1])] :
       s \in {PushSpace(preds, tys, e.args[1])}} : TRUE

PushShareTop(st, e) ==
  [st EXCEPT !.form.share = @ \o ShareAtoms(e),
             !.form.kind = Weaken(@),
             !.bad = @ \/ ShareErrors(e)]

(* noll_exp_push_top: nothing is added to an unsatisfiable form; operators *)
(* that have no place at the top end the program.                          *)
RECURSIVE PushTop(_, _, _, _)
PushTop(st, e, preds, tys) ==
  IF st.exited \/ st.form.kind = "unsat" \/ e.op = "true" THEN st
  ELSE CASE e.op = "false"             -> [st EXCEPT !.form = FormUnsat]
         [] e.op \in {"and", "exists"} -> FoldLeft(LAMBDA r, a : PushTop(r, a, preds, tys), st, e.args)
         [] e.op \in PureOps           -> PushPureTop(st, e, tys)
         [] e.op = "tobool"            -> PushSpaceTop(st, e, preds, tys)
         [] e.op \in ShareOps          -> PushShareTop(st, e)
         [] OTHER                      -> [st EXCEPT !.exited = TRUE]

(* noll_exp_typecheck accepts these operators at the top of an assertion   *)
(* and ends the program at any other.                                      *)
Accepted == {"true", "false", "not", "tobool", "and", "implies", "exists"}

=============================================================================
