------------------------------ MODULE NollPreds -----------------------------
(***************************************************************************)
(* Predicate definitions: how noll_mk_fun_def turns the body of a          *)
(* define-fun into rules (noll.c), how noll_pred_type types the predicates *)
(* at a check-sat and how noll_field_order orders the fields               *)
(* (noll_preds.c).                                                         *)
(*                                                                         *)
(* A definition is [name, fargs, vars, base, rec, sigma0, sigma1, typ].    *)
(* sigma0 and sigma1 are the pto and nst of the first rule that calls its  *)
(* own predicate; typ is <<>> for NULL or the one typing.  A rule is       *)
(* [vars, fargs, pure, pto, nst, rec]; nst and rec are sequences of atoms, *)
(* <<>> for NULL, since they are created when an atom is put there.        *)
(* nrec = 0 stands for parameters that are refused.                        *)
(***************************************************************************)
EXTENDS NollTerms

CONSTANT DllName   \* the name "dll", whose predicate has two directions

-----------------------------------------------------------------------------
(* The rules.  st is [rule, ok, bad]: the rule built so far, whether it is *)
(* not refused yet, and whether an error was recorded; c is [pid, preds].  *)

Refuse(st) == [st EXCEPT !.ok = FALSE, !.bad = TRUE]

RuleNew(vars, fargs) ==
  [vars |-> vars, fargs |-> fargs, pure |-> EmptyPure, pto |-> NullSpace, nst |-> <<>>, rec |-> <<>>]

(* MUTANT of RulePlace: a points-to of any source is the rule's own. *)
RulePlaceAnyPto(c, st, s) ==
  IF s.kind = "pto"
    THEN IF st.rule.pto.kind = "null" THEN [st EXCEPT !.rule.pto = s] ELSE Refuse(st)
  ELSE IF s.pid = c.pid /\ ~s.loop THEN [st EXCEPT !.rule.rec = Append(@, s)]
  ELSE [st EXCEPT !.rule.nst = Append(@, s)]

(* Where an atom goes: the one points-to of the first parameter, the calls *)
(* of the predicate itself, and the rest.  A loop is never a call of the   *)
(* predicate itself.                                                       *)
RulePlace(c, st, s) ==
  IF s.kind = "pto" /\ s.src = 1
    THEN IF st.rule.pto.kind = "null" THEN [st EXCEPT !.rule.pto = s] ELSE Refuse(st)
  ELSE IF s.kind = "ls" /\ s.pid = c.pid
    THEN IF s.loop THEN Refuse(st) ELSE [st EXCEPT !.rule.rec = Append(@, s)]
  ELSE [st EXCEPT !.rule.nst = Append(@, s)]

(* noll_mk_pred_exp2rule_space: emp must come before all other atoms.      *)
Exp2RuleSpace(c, st, e) ==
  IF e.op = "emp"
  THEN IF st.rule.pto.kind = "null" /\ st.rule.nst = <<>> /\ st.rule.rec = <<>>
       THEN [st EXCEPT !.rule.pto = EmpSpace]
       ELSE Refuse(st)
  ELSE LET s == CASE e.op = "pto"  -> FormPto(e)
                  [] e.op = "pred" -> FormCall(c.preds, c.pid, st.rule.vars, e)
                  [] e.op = "loop" -> FormLoop(c.preds, c.pid, st.rule.vars, e)
       IN  IF s.kind = "null" THEN Refuse(st) ELSE RulePlace(c, st, s)

(* noll_mk_pred_exp2rule_pure: a rule with contradictory atoms is refused. *)
Exp2RulePure(st, e) ==
  LET r == PushPure(st.rule.pure, e, st.rule.vars)
  IN  IF r.status \in {"unsat", "bad"} THEN Refuse(st) ELSE [st EXCEPT !.rule.pure = r.pure]

RulePureOps == {"eq", "distinct", "ite", "lt", "gt", "le", "ge", "plus", "minus", "int",
                "dfield", "bag", "emptybag", "bagunion", "bagminus", "subset"}

(* noll_mk_pred_exp2rule; isSpace is set below tobool. *)
RECURSIVE Exp2Rule(_, _, _, _)
Exp2Rule(c, st, e, isSpace) ==
  IF ~st.ok THEN st
  ELSE CASE e.op = "and" /\ ~isSpace ->
              FoldLeft(LAMBDA s, a : Exp2Rule(c, s, a, FALSE), st, e.args)
         [] e.op \in RulePureOps -> Exp2RulePure(st, e)
         [] e.op = "tobool" /\ ~isSpace -> Exp2Rule(c, st, e.args[1], TRUE)
         [] e.op = "ssep" /\ isSpace ->
              FoldLeft(LAMBDA s, a : Exp2Rule(c, s, a, TRUE), st, e.args)
         [] e.op \in {"emp", "pto", "loop", "pred"} /\ isSpace -> Exp2RuleSpace(c, st, e)
         [] OTHER -> Refuse(st)

(* noll_mk_pred_rule_check_pure, by the number of parameters that have the *)
(* predicate's own type.                                                   *)
CheckPure(m, nrec, isRec) ==
  CASE nrec = 1 /\ ~isRec -> m[<<0, 1>>] = "eq"
    [] nrec = 1 /\ isRec  -> m[<<0, 1>>] # "eq"
    [] nrec = 2 /\ ~isRec -> m[<<1, 2>>] = "eq"
    [] nrec = 2 /\ isRec  -> m[<<1, 2>>] = "neq"
    [] OTHER -> TRUE

(* st is now [def, ok, bad].  noll_mk_pred_rule_base: the check of the     *)
(* pure part only records an error.                                        *)
RuleBase(c, st, e, nrec) ==
  LET def == st.def
      r   == Exp2Rule(c, [rule |-> RuleNew(SubSeq(def.vars, 1, def.fargs + 1), def.fargs),
                          ok |-> TRUE, bad |-> st.bad], e, FALSE)
  IN  IF ~r.ok \/ r.rule.pto.kind \notin {"null", "emp"} THEN Refuse(st)
      ELSE [st EXCEPT !.def.base = Append(@, r.rule),
                      !.bad = r.bad \/ ~CheckPure(r.rule.pure.m, nrec, FALSE)]

(* noll_pred_binding_push_rule of a recursive rule: the first one with a   *)
(* call of its own predicate also gives the variables.                     *)
PushRecRule(def, rule) ==
  IF def.sigma0.kind = "null" /\ rule.rec # <<>>
  THEN [def EXCEPT !.rec = Append(@, rule), !.sigma0 = rule.pto, !.sigma1 = rule.nst,
                   !.vars = rule.vars]
  ELSE [def EXCEPT !.rec = Append(@, rule)]

(* noll_mk_pred_rule_rec *)
RuleRec(c, st, e, nrec) ==
  LET def  == st.def
      vars == SubSeq(def.vars, 1, def.fargs + 1) \o e.id
      r    == Exp2Rule(c, [rule |-> RuleNew(vars, def.fargs), ok |-> TRUE, bad |-> st.bad],
                       e.args[1], FALSE)
  IN  IF ~r.ok \/ ~CheckPure(r.rule.pure.m, nrec, TRUE) THEN Refuse(st)
      ELSE [st EXCEPT !.def = PushRecRule(@, r.rule), !.bad = r.bad]

(* noll_mk_pred_rule: one rule for each disjunct, recursive if it is an    *)
(* exists.  A rule is built in the predicates that hold when its           *)
(* definition began, this one among them.                                  *)
RECURSIVE MkRule(_, _, _, _)
MkRule(c, st, e, nrec) ==
  IF ~st.ok THEN st
  ELSE CASE e.op = "or"     -> FoldLeft(LAMBDA s, a : MkRule(c, s, a, nrec), st, e.args)
         [] e.op = "exists" -> RuleRec(c, st, e, nrec)
         [] OTHER           -> RuleBase(c, st, e, nrec)

(* MUTANT of MkRules: the kinds of rules are not checked. *)
MkRulesAny(c, st, e, nrec) ==
  IF e.op # "tospace" \/ Len(e.args) # 1 THEN Refuse(st) ELSE MkRule(c, st, e.args[1], nrec)

(* noll_mk_pred_rules: (tospace (or ...)) with a base rule and a rule that *)
(* calls its own predicate.                                                *)
MkRules(c, st, e, nrec) ==
  IF e.op # "tospace" \/ Len(e.args) # 1 \/ e.args[1].op # "or" THEN Refuse(st)
  ELSE LET r == MkRule(c, st, e.args[1], nrec)
       IN  IF r.ok /\ (r.def.base = <<>> \/ r.def.sigma0.kind = "null") THEN Refuse(r) ELSE r

-----------------------------------------------------------------------------
(* Parameters.                                                             *)

(* How many parameters from the first on have the type of the first. *)
SameAsFirst(vars, npar) ==
  Cardinality({i \in 1 .. npar : \A j \in 1 .. i : RecordOf(vars, j) = RecordOf(vars, 1)})

(* noll_mk_pred_typecheck_par_SL *)
ParSL(vars, npar) ==
  IF npar < 2 \/ (\E i \in 1 .. npar : RecordOf(vars, i) = -1) \/ SameAsFirst(vars, npar) < 2
  THEN 0 ELSE SameAsFirst(vars, npar)

(* The record parameters that have been counted, one ahead, before each    *)
(* parameter is looked at.                                                 *)
LocsBefore(vars, i) == 1 + Cardinality({j \in 1 .. i - 1 : RecordOf(vars, j) # -1})

(* noll_mk_pred_typecheck_par_SLRDI: the count starts at 1, so one data    *)
(* parameter may come before a record.                                     *)
ParSLRDI(vars, npar) ==
  IF \/ npar < 2
     \/ \E i \in 1 .. npar : RecordOf(vars, i) # -1 /\ i > LocsBefore(vars, i) + 1
     \/ LocsBefore(vars, npar + 1) < 2
  THEN 0 ELSE SameAsFirst(vars, npar)

(* noll_mk_pred_userdef and noll_mk_fun_def, given the predicates, the     *)
(* number of global variables with nil and pname, the name the calls of    *)
(* the body filled in.                                                     *)
DefNew(name, vars) ==
  [name |-> name, fargs |-> Len(vars) - 1, vars |-> vars, base |-> <<>>, rec |-> <<>>,
   sigma0 |-> NullSpace, sigma1 |-> <<>>, typ |-> <<>>]

Names(preds) == [i \in DOMAIN preds |-> preds[i].name]

(* noll_pred_register: a known name gets the new definition and keeps the  *)
(* typing of the old one.                                                  *)
Register(preds, def) ==
  LET pid == PidOf(Names(preds), def.name)
  IN  IF pid = 0 THEN Append(preds, def) ELSE [preds EXCEPT ![pid] = [def EXCEPT !.typ = preds[pid].typ]]

MkFunDef(preds, nglobals, logic, pname, name, vars, body) ==
  LET reg  == Register(preds, DefNew(name, vars))
      pid  == PidOf(Names(reg), name)
      npar == Len(vars) - 1
      nrec == IF logic = "QF_SLRDI" THEN ParSLRDI(vars, npar) ELSE ParSL(vars, npar)
      st   == [def |-> reg[pid], ok |-> TRUE, bad |-> FALSE]
      r    == IF nglobals >= 2 \/ nrec = 0 THEN Refuse(st)
              ELSE MkRules([pid |-> pid, preds |-> reg], st, body, nrec)
  IN  IF pname \notin {0, name}
      THEN [preds |-> preds, ok |-> FALSE, bad |-> TRUE]
      ELSE [preds |-> [reg EXCEPT ![pid] = r.def], ok |-> r.ok, bad |-> r.bad]

-----------------------------------------------------------------------------
(* Typing.  A field is [src, dst, order, owner, kind], numbered from 1;    *)
(* order -1 and owner 0 stand for UNDEFINED_ID.                            *)

CountTypes(vars, i, T) == Cardinality({j \in 1 .. i : VarType(vars, j) \in T})

(* noll_pred_type_args: the role of the i-th parameter from the kinds of   *)
(* the parameters before it.                                               *)
ArgKind(vars, i) ==
  LET ty   == VarType(vars, i)
      nBag == CountTypes(vars, i - 1, {BagType})
      nInt == CountTypes(vars, i - 1, {IntType})
      nLoc == i - 1 - nBag - nInt
  IN  IF ty >= 0 THEN CASE nLoc = 0 -> "lroot" [] nLoc = 1 -> "lpending" [] OTHER -> "border"
      ELSE IF ty = BagType
      THEN IF nBag = 0 \/ nLoc = 1 THEN "broot" ELSE IF nLoc = 2 THEN "bpending" ELSE "border"
      ELSE IF nInt = 0 \/ nLoc = 1 \/ nBag = 1 THEN "iroot"
      ELSE IF nLoc = 2 THEN "ipending" ELSE "border"

(* noll_pred_type_init and _args.  The type of the predicate is an index   *)
(* into the array of types, also when it is no record.                     *)
TypeNew(p, nfields) ==
  [ptype0  |-> RecordOf(p.vars, 1),
   ptypes  |-> {RecordOf(p.vars, 1)},
   pfields |-> [f \in 1 .. nfields |-> "none"],
   ppreds  |-> {},
   pkind   |-> "other",
   useNil  |-> FALSE,
   unary   |-> Cardinality({i \in 1 .. p.fargs : VarType(p.vars, i) >= 0}) = 1,
   twodir  |-> p.name = DllName,
   argkind |-> [i \in 1 .. p.fargs |-> ArgKind(p.vars, i)]]

(* The last parameter with a role, 0 for UNDEFINED_ID. *)
RoleOf(argkind, role) ==
  LET at == {i \in DOMAIN argkind : argkind[i] = role}
  IN  IF at = {} THEN 0 ELSE CHOOSE i \in at : \A j \in at : j <= i

(* noll_pred_type_rule_pure: a pending parameter has a root before it, and *)
(* the rule relates the two as its level requires.                         *)
RolesPaired(argkind) ==
  LET R(role) == RoleOf(argkind, role)
  IN  /\ R("lpending") = 0 => R("bpending") = 0 /\ R("ipending") = 0
      /\ R("broot") = 0 => R("bpending") = 0
      /\ R("iroot") = 0 => R("ipending") = 0

RolesRelated(argkind, level, m) ==
  LET R(role) == RoleOf(argkind, role)
      op == IF R("lpending") = 0 THEN m[<<0, R("lroot")>>] ELSE m[<<R("lroot"), R("lpending")>>]
  IN  /\ (op = "eq") <=> (level = 0)
      /\ level = 0 /\ R("bpending") # 0 => m[<<R("broot"), R("bpending")>>] = "eq"
      /\ level = 0 /\ R("ipending") # 0 => m[<<R("iroot"), R("ipending")>>] = "eq"

(* st is [typ, ok, crashed]. *)
TypeRulePure(st, level, pure) ==
  IF RoleOf(st.typ.argkind, "lroot") = 0 THEN [st EXCEPT !.ok = FALSE]
  ELSE IF RolesPaired(st.typ.argkind) /\ RolesRelated(st.typ.argkind, level, pure.m) THEN [st EXCEPT !.typ.pkind = "comp"]
  ELSE [st EXCEPT !.typ.pkind = "ws", !.ok = FALSE]

(* What a field is for, by the variable it leads to. *)
FieldKind(vars, fargs, dst) ==
  IF dst = 0 THEN "null"
  ELSE IF dst <= fargs THEN "border"
  ELSE IF dst = fargs + 1 THEN "bckbone"
  ELSE IF RecordOf(vars, dst) = -1 THEN "data"
  ELSE "inner"

(* MUTANT of TypePto: the types of the destinations are not recorded. *)
TypePtoNoTypes(typ, vars, fargs, s) ==
  FoldLeft(LAMBDA t, f : [t EXCEPT !.pfields[f[1]] = FieldKind(vars, fargs, f[2]),
                                   !.useNil = @ \/ f[2] = 0], typ, s.flds)

(* noll_pred_type_rule_form of a points-to. *)
TypePto(typ, vars, fargs, s) ==
  FoldLeft(LAMBDA t, f : [t EXCEPT !.pfields[f[1]] = FieldKind(vars, fargs, f[2]),
                                   !.ptypes = @ \union ({RecordOf(vars, f[2])} \ {-1}),
                                   !.useNil = @ \/ f[2] = 0], typ, s.flds)

(* And of a call: the fields of the callee are nested ones unless they     *)
(* have a use already; a backbone of the caller may not be among them.     *)
(* Up to the first such field the kinds are written.  A call with the      *)
(* number UNDEFINED_ID writes outside of the array of calls.               *)
TypeCall(preds, pid, st, s) ==
  IF s.pid = pid THEN st
  ELSE IF s.pid = 0 THEN [st EXCEPT !.ok = FALSE, !.crashed = TRUE]
  ELSE IF preds[s.pid].typ = <<>> THEN [st EXCEPT !.typ.ppreds = @ \union {s.pid}]
  ELSE LET callee == preds[s.pid].typ[1]
           shared == {f \in DOMAIN callee.pfields : callee.pfields[f] \notin {"none", "null"}}
           clash  == {f \in shared : st.typ.pfields[f] = "bckbone"}
           typ    == [st.typ EXCEPT
                        !.ppreds = @ \union {s.pid},
                        !.pfields = [f \in DOMAIN @ |->
                           IF f \in shared /\ @[f] = "none" /\ \A g \in clash : f < g
                           THEN "nested" ELSE @[f]]]
       IN  IF clash # {} THEN [st EXCEPT !.typ = typ, !.ok = FALSE]
           ELSE [st EXCEPT !.typ = [typ EXCEPT !.useNil = @ \/ callee.useNil,
                                               !.ptypes = @ \union callee.ptypes]]

TypeSpace(preds, pid, st, rule, s) ==
  IF ~st.ok \/ s.kind \in {"null", "emp"} THEN st
  ELSE IF s.kind = "pto" THEN [st EXCEPT !.typ = TypePto(@, rule.vars, rule.fargs, s)]
  ELSE TypeCall(preds, pid, st, s)

(* noll_pred_type_rule: a rule that calls its predicate is of level 1. *)
TypeRule(preds, pid, st, rule) ==
  IF ~st.ok THEN st
  ELSE FoldLeft(LAMBDA r, s : TypeSpace(preds, pid, r, rule, s),
                TypeRulePure(st, IF rule.rec = <<>> THEN 0 ELSE 1, rule.pure),
                <<rule.pto>> \o rule.nst \o rule.rec)

(* One round of noll_pred_type; st is [preds, ok, crashed].  The typing    *)
(* that a failure leaves half done stays in the predicate.                 *)
TypePred(st, pid, nfields) ==
  IF ~st.ok THEN st
  ELSE IF RecordOf(st.preds[pid].vars, 1) = -1 THEN [st EXCEPT !.ok = FALSE, !.crashed = TRUE]
  ELSE LET p == st.preds[pid]
           r == FoldLeft(LAMBDA t, rule : TypeRule(st.preds, pid, t, rule),
                         [typ |-> TypeNew(p, nfields), ok |-> TRUE, crashed |-> FALSE],
                         p.base \o p.rec)
       IN  [preds |-> [st.preds EXCEPT ![pid].typ = <<r.typ>>], ok |-> r.ok, crashed |-> r.crashed]

TypePreds(preds, nfields) ==
  FoldLeft(LAMBDA st, pid : TypePred(st, pid, nfields),
           [preds |-> preds, ok |-> TRUE, crashed |-> FALSE], [pid \in DOMAIN preds |-> pid])

-----------------------------------------------------------------------------
(* noll_field_order: first the owner of each backbone, then numbers for    *)
(* the fields of the predicates from the last to the first, by their kind. *)
(* Numbers start from 0 each time; a field keeps the number it has.        *)

Backbones(preds, f) == {pid \in DOMAIN preds : preds[pid].typ[1].pfields[f] = "bckbone"}

(* What the first loop of noll_field_order asserts not to be: a backbone   *)
(* that has an owner already, another predicate or the one an earlier      *)
(* check-sat gave it.  It asks so for the check by automata, the default.  *)
SharedBackbone(preds, fields) ==
  \E f \in DOMAIN fields : /\ Backbones(preds, f) # {}
                           /\ fields[f].owner # 0 \/ Cardinality(Backbones(preds, f)) > 1

Owned(preds, fields) ==
  [f \in DOMAIN fields |->
     IF fields[f].owner = 0 /\ Backbones(preds, f) # {}
     THEN [fields[f] EXCEPT !.owner =
             CHOOSE pid \in Backbones(preds, f) : \A q \in Backbones(preds, f) : pid <= q]
     ELSE fields[f]]

(* MUTANT of Pending: a field that has its number gets another one. *)
PendingAgain(preds, fields, pid, kind) ==
  {f \in DOMAIN fields : preds[pid].typ[1].pfields[f] = kind}

(* The fields of a kind that get their number from predicate pid. *)
Pending(preds, fields, pid, kind) ==
  {f \in DOMAIN fields : /\ preds[pid].typ[1].pfields[f] = kind
                         /\ fields[f].order = -1
                         /\ kind = "bckbone" \/ fields[f].owner = 0}

OrderKind(preds, st, pid, kind) ==
  LET P == Pending(preds, st.fields, pid, kind)
  IN  [no     |-> st.no + Cardinality(P),
       fields |-> [f \in DOMAIN st.fields |->
          IF f \in P
          THEN [st.fields[f] EXCEPT !.order = st.no + Cardinality({g \in P : g < f}),
                                    !.owner = pid, !.kind = kind]
          ELSE st.fields[f]]]

FieldOrder(preds, fields) ==
  LET OrderPred(st, pid) ==
        FoldLeft(LAMBDA s, k : OrderKind(preds, s, pid, k), st, <<"bckbone", "inner", "null", "border">>)
  IN  FoldLeft(OrderPred, [no |-> 0, fields |-> Owned(preds, fields)],
               Reverse([pid \in DOMAIN preds |-> pid])).fields

=============================================================================
