------------------------------ MODULE NollScript ----------------------------
(***************************************************************************)
(* A script: the commands the parser hands to smtlib2noll.c, what each     *)
(* does to the predicates, the fields and the two formulas, and how a      *)
(* check-sat types them.  The commands and which of them may follow what   *)
(* was said are parameters.                                                *)
(*                                                                         *)
(* A command is refused by the parser's error state, after which nothing   *)
(* is taken any more: status "stopped", also for the exits of noll_error   *)
(* of level 0.  "crashed" is an access outside of an array or an assertion *)
(* that does not hold.  What a check-sat does to the formulas after typing *)
(* is NollEntl's subject.                                                  *)
(***************************************************************************)
EXTENDS NollPreds

CONSTANTS
  Commands,         \* the commands of a script
  MayFollow(_, _)   \* MayFollow(said, c): c is read next

VARIABLES
  logic,    \* noll_form_logic
  status,   \* "reading", "stopped" or "crashed"
  globals,  \* ctx->lvar_env: the types of nil and the global variables
  nsvars,   \* the number of set variables of ctx->svar_env
  fields,   \* fields_array
  preds,    \* preds_array
  pform,    \* noll_prob->pform
  nform,    \* noll_prob->nform: <<>> or the one negative formula
  errors,   \* noll_error_parsing > 0
  said,     \* history: the commands read
  typing    \* history: "none", "ok", "shared" (a backbone) or "failed", of the last check-sat

vars == <<logic, status, globals, nsvars, fields, preds, pform, nform, errors, said, typing>>

Logics == {"QF_NOLL", "QF_SLRD", "QF_S", "QF_SLRDI"}

-----------------------------------------------------------------------------
(* noll_set_logic *)
SetLogic(c) ==
  /\ c.cmd = "set-logic"
  /\ logic' = IF c.logic \in Logics THEN c.logic ELSE "other"
  /\ status' = IF c.logic \in Logics THEN "reading" ELSE "stopped"
  /\ UNCHANGED <<globals, nsvars, fields, preds, pform, nform, errors, typing>>

(* noll_field_register; the field's number is its place in the array. *)
FieldNew(src, dst) == [src |-> src, dst |-> dst, order |-> -1, owner |-> 0, kind |-> "unset"]

(* noll_mk_fun_decl: a variable, a set variable or a field. *)
Declare(c) ==
  /\ c.cmd = "declare"
  /\ \/ /\ c.kind = "var"
        /\ globals' = Append(globals, c.type)
        /\ UNCHANGED <<nsvars, fields>>
     \/ /\ c.kind = "set"
        /\ nsvars' = nsvars + 1
        /\ UNCHANGED <<globals, fields>>
     \/ /\ c.kind = "field"
        /\ fields' = Append(fields, FieldNew(c.src, c.dst))
        /\ UNCHANGED <<globals, nsvars>>
  /\ UNCHANGED <<logic, status, preds, pform, nform, errors, typing>>

(* A call that noll_mk_pred refuses leaves the parser without a term. *)
NoTerm(c, term, depth) ==
  /\ ~MkCalls(term, depth, Names(preds)).ok
  /\ errors' = TRUE
  /\ status' = "stopped"
  /\ UNCHANGED <<logic, globals, nsvars, fields, preds, pform, nform, typing>>

(* noll_mk_fun_def, on parameters of their own scope. *)
Define(c) ==
  /\ c.cmd = "define"
  /\ MkCalls(c.body, 2, Names(preds)).ok
  /\ \E d \in {MkFunDef(preds, Len(globals), logic, MkCalls(c.body, 2, Names(preds)).pname,
                        c.name, globals \o c.params, Built(c.body, Names(preds)))} :
       /\ preds' = d.preds
       /\ errors' = (errors \/ d.bad \/ ArityErrors(c.body))
       /\ status' = IF d.ok THEN "reading" ELSE "stopped"
  /\ UNCHANGED <<logic, globals, nsvars, fields, pform, nform, typing>>

DefineNoTerm(c) == c.cmd = "define" /\ NoTerm(c, c.body, 2)

(* noll_assert: noll_exp_typecheck, then noll_exp_push into the formula    *)
(* the first operator selects.                                             *)
AssertTerm(c) ==
  /\ c.cmd = "assert"
  /\ MkCalls(c.term, 1, Names(preds)).ok
  /\ \E t \in {Built(c.term, Names(preds))} :
     \E isNeg \in {t.op = "not"} :
     \E st \in {[form   |-> IF ~isNeg THEN pform ELSE IF nform = <<>> THEN FormNew ELSE nform[1],
                 bad    |-> errors \/ ArityErrors(c.term),
                 exited |-> t.op \notin Accepted]} :
     \E r \in {PushTop(st, IF isNeg THEN t.args[1] ELSE t, preds, globals)} :
       /\ pform' = IF isNeg THEN pform ELSE r.form
       /\ nform' = IF isNeg THEN <<r.form>> ELSE nform
       /\ errors' = r.bad
       /\ status' = IF r.exited THEN "stopped" ELSE "reading"
  /\ UNCHANGED <<logic, globals, nsvars, fields, preds, typing>>

AssertNoTerm(c) == c.cmd = "assert" /\ NoTerm(c, c.term, 1)

(* noll_check up to typing and the order of fields.  The special cases of  *)
(* noll_entl_solve and noll_sat_solve answer before it.  A shared backbone *)
(* ends the program where it is built with assertions.                     *)
Special == \/ pform.kind = "unsat"
           \/ nform # <<>> /\ nform[1].kind = "valid"

Check(c) ==
  /\ c.cmd = "check"
  /\ \/ /\ errors
        /\ status' = "stopped"
        /\ UNCHANGED <<preds, fields, typing>>
     \/ /\ ~errors
        /\ Special
        /\ UNCHANGED <<preds, fields, typing, status>>
     \/ /\ ~errors
        /\ ~Special
        /\ \E t \in {TypePreds(preds, Len(fields))} :
             /\ preds' = t.preds
             /\ typing' = IF ~t.ok THEN "failed"
                          ELSE IF SharedBackbone(t.preds, fields) THEN "shared" ELSE "ok"
             /\ \/ status' = IF t.crashed THEN "crashed" ELSE "reading"
                \/ typing' = "shared" /\ status' = "crashed"
             /\ fields' = IF t.ok THEN FieldOrder(t.preds, fields) ELSE fields
  /\ UNCHANGED <<logic, globals, nsvars, pform, nform, errors>>

Init == /\ logic = "none"
        /\ status = "reading"
        /\ globals = <<0>>
        /\ nsvars = 0
        /\ fields = <<>>
        /\ preds = <<>>
        /\ pform = FormNew
        /\ nform = <<>>
        /\ errors = FALSE
        /\ said = <<>>
        /\ typing = "none"

Next == \E c \in Commands :
          /\ status = "reading"
          /\ MayFollow(said, c)
          /\ said' = Append(said, c)
          /\ \/ SetLogic(c)
             \/ Declare(c)
             \/ Define(c)
             \/ DefineNoTerm(c)
             \/ AssertTerm(c)
             \/ AssertNoTerm(c)
             \/ Check(c)

Spec == Init /\ [][Next]_vars

-----------------------------------------------------------------------------
FormKinds == {"unsat", "sat", "valid"}

(* A formula has no space only after an error or when it is UNSAT. *)
FormOK(f) ==
  /\ f.kind \in FormKinds
  /\ f.pure # <<>> => f.pure[1].m \in [Cell -> Op]
  /\ f.space.kind = "null" => errors \/ f.kind = "unsat"

TypeOK ==
  /\ logic \in Logics \union {"none", "other"}
  /\ status \in {"reading", "stopped", "crashed"}
  /\ typing \in {"none", "ok", "shared", "failed"}
  /\ errors \in BOOLEAN
  /\ Len(globals) <= Size
  /\ FormOK(pform)
  /\ nform # <<>> => FormOK(nform[1])
  /\ \A i \in DOMAIN fields : fields[i].order \in -1 .. Len(fields) - 1
                              /\ fields[i].owner \in 0 .. Len(preds)
  /\ status = "reading" =>
       \A p \in DOMAIN preds :
          /\ \A r \in Range(preds[p].base) \union Range(preds[p].rec) :
                Len(r.vars) <= Size /\ r.fargs = preds[p].fargs
          /\ preds[p].base # <<>> /\ preds[p].sigma0.kind # "null"

-----------------------------------------------------------------------------
(* What the script says, read from the terms as they were written.         *)

JustRead(cmd) == said # <<>> /\ Last(said).cmd = cmd

(* The terms asserted of the positive or of the negative formula. *)
SaidTerms(isNeg) ==
  {IF isNeg THEN c.term.args[1] ELSE c.term :
     c \in {d \in Range(said) :
              /\ d.cmd = "assert"
              /\ (d.term.op = "not") = isNeg}}

BothVars(t) == t.args[1].op = "lvar" /\ t.args[2].op = "lvar"

(* The truth of the atoms between variables that a term conjoins. *)
RECURSIVE Means(_, _)
Means(t, v) ==
  CASE t.op \in {"and", "exists"} -> \A i \in DOMAIN t.args : Means(t.args[i], v)
    [] t.op = "false" -> FALSE
    [] t.op = "not" /\ t.args[1].op \in {"eq", "distinct"} ->
         BothVars(t.args[1]) => ~Means(t.args[1], v)
    [] t.op = "eq" -> BothVars(t) => v[t.args[1].id[1]] = v[t.args[2].id[1]]
    [] t.op = "distinct" -> BothVars(t) => v[t.args[1].id[1]] # v[t.args[2].id[1]]
    [] OTHER -> TRUE

Valuations(n) == [0 .. n - 1 -> Location]

(* A matrix says nothing of variables v has no value for. *)
Fits(v, m) ==
  \A x \in Cell :
    m[x] # "other" /\ x[1] # x[2] =>
      x[2] \in DOMAIN v /\ ((m[x] = "eq") <=> (v[x[1]] = v[x[2]]))

MatrixOf(f) == IF f.pure = <<>> THEN PureNew ELSE f.pure[1].m

(* The matrix of a formula holds exactly where the equalities and          *)
(* disequalities do that were written in its assertions, negated,          *)
(* conjoined and nested as they may be; a formula is UNSAT only if none    *)
(* can hold.  Nothing is asked where atoms contradict each other           *)
(* (noll_mk_not, noll_exp_push_top, noll_exp_push_pure).                   *)
PureMeansOf(f, terms) ==
  LET asked == {v \in Valuations(Len(globals)) : \A t \in terms : Means(t, v)}
  IN  asked # {} =>
        /\ f.kind # "unsat"
        /\ \A v \in Valuations(Len(globals)) : v \in asked <=> Fits(v, MatrixOf(f))

PureMeans ==
  status = "reading" /\ JustRead("assert") =>
    /\ PureMeansOf(pform, SaidTerms(FALSE))
    /\ nform # <<>> => PureMeansOf(nform[1], SaidTerms(TRUE))

-----------------------------------------------------------------------------
(* The space terms a term conjoins, in their order. *)
RECURSIVE SpacesIn(_)
SpacesIn(t) ==
  CASE t.op = "tobool" -> <<t.args[1]>>
    [] t.op \in {"and", "exists"} -> FlattenSeq(Each(LAMBDA a : SpacesIn(a), t.args))
    [] OTHER -> <<>>

VarIds(args) == [i \in DOMAIN args |-> args[i].id[1]]

(* The same atom as it is written and as it is kept. *)
RECURSIVE AtomSaid(_)
AtomSaid(t) ==
  CASE t.op = "pto" ->
         LET refs == IF t.args[2].op = "ref" THEN <<t.args[2]>> ELSE t.args[2].args
         IN  [atom |-> "pto", src |-> t.args[1].id[1], refs |-> [i \in DOMAIN refs |-> VarIds(refs[i].args)]]
    [] t.op = "pred"  -> [atom |-> "call", name |-> t.id[1], args |-> VarIds(t.args), sid |-> <<>>, loop |-> FALSE]
    [] t.op = "loop"  -> [AtomSaid(t.args[1]) EXCEPT !.loop = TRUE]
    [] t.op = "index" -> [AtomSaid(t.args[2]) EXCEPT !.sid = t.args[1].id]
    [] OTHER          -> [atom |-> t.op]

AtomKept(s) ==
  CASE s.kind = "pto" -> [atom |-> "pto", src |-> s.src, refs |-> s.flds]
    [] s.kind = "ls"  -> [atom |-> "call", name |-> IF s.pid = 0 THEN 0 ELSE preds[s.pid].name,
                          args |-> s.args, sid |-> s.sid, loop |-> s.loop]
    [] OTHER          -> [atom |-> s.kind]

(* The atoms of a term and of a space formula, each with the separators    *)
(* above it and the branches taken there.                                  *)
RECURSIVE PathsSaid(_, _), PathsKept(_, _)
PathsSaid(t, path) ==
  IF t.op \in {"ssep", "wsep"}
  THEN FlattenSeq([i \in DOMAIN t.args |-> PathsSaid(t.args[i], Append(path, <<t.op, i>>))] @@ <<>>)
  ELSE <<[atom |-> AtomSaid(t), path |-> path]>>
PathsKept(s, path) ==
  IF s.kind \in {"ssep", "wsep"}
  THEN FlattenSeq([i \in DOMAIN s.sep |-> PathsKept(s.sep[i], Append(path, <<s.kind, i>>))] @@ <<>>)
  ELSE <<[atom |-> AtomKept(s), path |-> path]>>

(* The operator between two atoms is the one where their paths part. *)
Between(p, q) ==
  p[CHOOSE k \in DOMAIN p : p[k] # q[k] /\ \A j \in 1 .. k - 1 : p[j] = q[j]][1]

SameSpace(kept, asked) ==
  /\ [i \in DOMAIN kept |-> kept[i].atom] = [i \in DOMAIN asked |-> asked[i].atom]
  /\ \A i, j \in DOMAIN asked :
       i < j => Between(kept[i].path, kept[j].path) = Between(asked[i].path, asked[j].path)

(* The last space term of the script for a formula is the one it has, atom *)
(* for atom, and any two atoms are separated as they were written, however *)
(* the separations were nested and dissolved; and a formula that has atoms *)
(* is not valid (noll_exp_push_space, noll_mk_form_sep and its parts).     *)
SpaceMeansOf(f, isNeg) ==
  LET spaces == FlattenSeq([k \in DOMAIN said |->
                  IF said[k].cmd = "assert" /\ (said[k].term.op = "not") = isNeg
                  THEN SpacesIn(IF isNeg THEN said[k].term.args[1] ELSE said[k].term)
                  ELSE <<>>])
  IN  f.kind # "unsat" =>
        IF spaces = <<>> THEN f.space = EmpSpace
        ELSE /\ SameSpace(PathsKept(f.space, <<>>), PathsSaid(Last(spaces), <<>>))
             /\ f.kind = "sat"

SpaceMeans ==
  status = "reading" /\ ~errors /\ JustRead("assert") =>
    /\ SpaceMeansOf(pform, FALSE)
    /\ nform # <<>> => SpaceMeansOf(nform[1], TRUE)

-----------------------------------------------------------------------------
(* Values of set terms: sv gives set variables sets of locations. *)
RECURSIVE SetSaid(_, _, _)
SetSaid(t, v, sv) ==
  CASE t.op = "sloc"  -> {v[t.args[1].id[1]]}
    [] t.op = "svar"  -> sv[t.id[1]]
    [] t.op = "unloc" -> UNION {SetSaid(t.args[i], v, sv) : i \in DOMAIN t.args}

RECURSIVE ShareSaid(_, _, _)
ShareSaid(t, v, sv) ==
  CASE t.op \in {"and", "exists"} -> \A i \in DOMAIN t.args : ShareSaid(t.args[i], v, sv)
    [] t.op = "not" /\ t.args[1].op \in {"inloc", "niloc"} -> ~ShareSaid(t.args[1], v, sv)
    [] t.op = "inloc" -> v[t.args[1].id[1]] \in SetSaid(t.args[2], v, sv)
    [] t.op = "niloc" -> v[t.args[1].id[1]] \notin SetSaid(t.args[2], v, sv)
    [] t.op = "leloc" -> SetSaid(t.args[1], v, sv) \subseteq SetSaid(t.args[2], v, sv)
    [] t.op = "eqloc" -> SetSaid(t.args[1], v, sv) = SetSaid(t.args[2], v, sv)
    [] OTHER -> TRUE

ValueKept(s, v, sv) == IF s.kind = "lvar" THEN {v[s.id[1]]} ELSE sv[s.id[1]]

ShareKept(a, v, sv) ==
  LET right == UNION {ValueKept(a.right[i], v, sv) : i \in DOMAIN a.right}
  IN  CASE a.kind = "inloc"  -> ValueKept(a.left, v, sv) \subseteq right
        [] a.kind = "niloc"  -> ValueKept(a.left, v, sv) \intersect right = {}
        [] a.kind = "subset" -> ValueKept(a.left, v, sv) \subseteq right

(* The sharing constraints of a formula hold for exactly the sets the      *)
(* written ones hold for, although each is split into atoms with one term  *)
(* on the left (noll_exp_push_share, noll_exp_push_sterm).                 *)
ShareMeansOf(f, terms) ==
  f.kind # "unsat" =>
    \A v \in Valuations(Len(globals)), sv \in [0 .. nsvars - 1 -> SUBSET Location] :
      (\A t \in terms : ShareSaid(t, v, sv)) <=> (\A i \in DOMAIN f.share : ShareKept(f.share[i], v, sv))

ShareMeans ==
  status = "reading" /\ ~errors /\ JustRead("assert") =>
    /\ ShareMeansOf(pform, SaidTerms(FALSE))
    /\ nform # <<>> => ShareMeansOf(nform[1], SaidTerms(TRUE))

-----------------------------------------------------------------------------
(* Predicates.                                                             *)
PredNamed(name) == PidOf(Names(preds), name)

RECURSIVE Disjuncts(_)
Disjuncts(t) ==
  IF t.op \in {"or", "tospace"} THEN FlattenSeq(Each(LAMBDA a : Disjuncts(a), t.args))
  ELSE <<t>>

IsExists(t)  == t.op = "exists"
NoExists(t)  == t.op # "exists"

(* The atoms of a rule as they were written, and as they are kept. *)
RuleSaid(t) ==
  LET paths == FlattenSeq([i \in DOMAIN SpacesIn(t) |-> PathsSaid(SpacesIn(t)[i], <<>>)])
  IN  SelectSeq([i \in DOMAIN paths |-> paths[i].atom], LAMBDA a : a.atom # "emp")

RuleKept(rule) ==
  LET own == IF rule.pto.kind = "pto" THEN <<rule.pto>> ELSE <<>>
      all == own \o rule.nst \o rule.rec
  IN  [i \in DOMAIN all |-> AtomKept(all[i])]

(* A call with as many arguments as there are parameters, of their types.  *)
CallFits(a, tys) ==
  a.atom = "call" =>
    LET q == preds[PredNamed(a.name)]
    IN  /\ Len(a.args) = q.fargs
        /\ \A i \in DOMAIN a.args : TypeMatch(VarType(q.vars, i), VarType(tys, a.args[i]))

RuleMeans(pid, tys, t, rule) ==
  LET asked == RuleSaid(t)
      kept  == RuleKept(rule)
      Own(a) == a.atom = "call" /\ a.name = preds[pid].name
  IN  (\A i \in DOMAIN asked : CallFits(asked[i], tys)) =>
        /\ Len(kept) = Len(asked) /\ Range(kept) = Range(asked)
        /\ {AtomKept(s) : s \in Range(rule.rec)} = {a \in Range(asked) : Own(a)}
        /\ rule.pto.kind = "pto" => rule.pto.src = 1
        /\ \A s \in Range(rule.nst) : s.kind = "pto" => s.src # 1
        /\ \A v \in Valuations(Len(tys)) : Means(t, v) <=> Fits(v, rule.pure.m)

(* Every disjunct of an accepted definition is one rule, recursive where   *)
(* it binds variables, in the order they are written; the rule has the     *)
(* atoms of the disjunct, none lost and none twice, its own calls apart    *)
(* and the points-to of the first parameter in its place, and its matrix   *)
(* holds where the written atoms do; the shape kept for the predicate is   *)
(* that of one of its rules (noll_mk_pred_rule, noll_mk_pred_exp2rule,     *)
(* noll_pred_binding_push_rule).                                           *)
DefinitionMeans(c) ==
  LET pid   == PredNamed(c.name)
      p     == preds[pid]
      tys   == <<0>> \o c.params
      bases == SelectSeq(Disjuncts(c.body), NoExists)
      recs  == SelectSeq(Disjuncts(c.body), IsExists)
  IN  /\ Len(p.base) = Len(bases) /\ Len(p.rec) = Len(recs)
      /\ \A i \in DOMAIN bases : RuleMeans(pid, tys, bases[i], p.base[i])
      /\ \A i \in DOMAIN recs  : RuleMeans(pid, tys \o recs[i].id, recs[i], p.rec[i])
      /\ \E k \in DOMAIN recs :
           /\ \E i \in DOMAIN RuleSaid(recs[k]) :
                 RuleSaid(recs[k])[i].atom = "call" /\ RuleSaid(recs[k])[i].name = c.name
           /\ p.sigma0 = p.rec[k].pto /\ p.sigma1 = p.rec[k].nst /\ p.vars = p.rec[k].vars

RulesMean ==
  status = "reading" /\ JustRead("define") => DefinitionMeans(Last(said))

-----------------------------------------------------------------------------
(* Typing, read from the rules.                                            *)
RulesOf(pid) == Range(preds[pid].base) \union Range(preds[pid].rec)

Ptos(pid) ==
  UNION {{s \in Range(r.nst) \union {r.pto} : s.kind = "pto"} : r \in RulesOf(pid)}

PtoFields(pid) == UNION {Range(s.flds) : s \in Ptos(pid)}

Callees(pid) ==
  UNION {{s.pid : s \in {a \in Range(r.nst) : a.kind = "ls"}} : r \in RulesOf(pid)}

(* The predicates a predicate calls, at any distance, itself among them. *)
Reached(pid) ==
  LET step[n \in Nat] ==
        IF n = 0 THEN {pid} ELSE step[n - 1] \union UNION {Callees(q) : q \in step[n - 1]}
  IN  step[Len(preds)]

(* The record a field leads to; fields may be written with a variable of   *)
(* any type, whose own record counts.                                      *)
TargetRecords(pid) ==
  UNION {UNION {{RecordOf(r.vars, fd[2]) : fd \in UNION {Range(s.flds) : s \in
                   {a \in Range(r.nst) \union {r.pto} : a.kind = "pto"}}} : r \in RulesOf(q)}
         : q \in Reached(pid)} \ {-1}

Typed == {pid \in DOMAIN preds : preds[pid].typ # <<>>}

Typ(pid) == preds[pid].typ[1]

(* After a successful typing a predicate records the records of exactly    *)
(* the cells it and the predicates it calls, at any distance, may          *)
(* allocate or reach by a field, and whether nil is among them; every      *)
(* field of its own cells has a use and so have those of the predicates it *)
(* calls, but for the fields that only lead to nil there; no other field   *)
(* has one (noll_pred_type: one round, in the order of the definitions).   *)
Covered ==
  typing \in {"ok", "shared"} =>
    \A pid \in Typed :
      /\ Typ(pid).ptypes = TargetRecords(pid) \union {Typ(q).ptype0 : q \in Reached(pid)}
      /\ Typ(pid).useNil <=> \E q \in Reached(pid) : \E fd \in PtoFields(q) : fd[2] = 0
      /\ \A f \in DOMAIN Typ(pid).pfields :
           Typ(pid).pfields[f] # "none" <=>
             \/ \E fd \in PtoFields(pid) : fd[1] = f
             \/ \E q \in Callees(pid) : Typ(q).pfields[f] \notin {"none", "null"}

KindRank == [bckbone |-> 1, inner |-> 2, null |-> 3, border |-> 4]

NoDefineAfterCheck ==
  \A i, j \in DOMAIN said : i < j /\ said[i].cmd = "check" => said[j].cmd # "define"

HaveBackbones == \A pid \in Typed : \E f \in DOMAIN fields : Typ(pid).pfields[f] = "bckbone"

(* After a check-sat that finds no shared backbone, the fields that        *)
(* predicates use in their own cells are numbered from 0 on without a gap  *)
(* and without two alike; a field has the kind its owner uses it with, the *)
(* owner is a predicate whose backbone it is if there is one, and fields   *)
(* come by their owners, the last one first, and then by their kinds       *)
(* (noll_field_order, on which noll_field_lt relies).  Every check-sat     *)
(* numbers from 0 again: nothing is asked of one that follows a new        *)
(* definition unless each predicate has a backbone, which tells it.        *)
Ordered ==
  typing = "ok" /\ (HaveBackbones \/ NoDefineAfterCheck) =>
    LET used == {f \in DOMAIN fields : \E pid \in Typed : Typ(pid).pfields[f] \in DOMAIN KindRank}
        F(f) == fields[f]
    IN  /\ {F(f).order : f \in used} = 0 .. Cardinality(used) - 1
        /\ \A f \in DOMAIN fields \ used : F(f).order = -1
        /\ \A f \in used :
             /\ Typ(F(f).owner).pfields[f] = F(f).kind
             /\ (\E pid \in Typed : Typ(pid).pfields[f] = "bckbone") => F(f).kind = "bckbone"
        /\ \A f, g \in used :
             F(f).order < F(g).order =>
               \/ F(f).owner > F(g).owner
               \/ F(f).owner = F(g).owner /\ KindRank[F(f).kind] <= KindRank[F(g).kind]

=============================================================================
