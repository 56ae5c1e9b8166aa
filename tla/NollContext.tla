----------------------------- MODULE NollContext -----------------------------
(***************************************************************************)
(* The parser's context (noll.c): the array of the variables in scope and  *)
(* the stack of scope sizes, as the callbacks of the SMT-LIB parser change *)
(* them in the order of the grammar, and the arrays the predicates and the *)
(* formulas keep for the solver.  Terms refer to variables by their place  *)
(* in the array that was current when the term was read, and arrays are    *)
(* shared by pointer, so a push or a pop in one place is seen in others.   *)
(*                                                                         *)
(* The arrays of noll_vector.h are records on a heap: a pop lowers the     *)
(* size and leaves the data, access by index does not look at the size.    *)
(* Only location variables are modelled; the arrays of the set variables   *)
(* (svar_env, svar_stack) are handled by the same statements.  A place     *)
(* counts from 1 here, the identifier in the code from 0.                  *)
(***************************************************************************)
EXTENDS Integers, FiniteSets, SequencesExt

CONSTANTS
  GlobalNames,  \* names for declare-fun
  LocalNames,   \* names for parameters and quantified variables
  MaxPreds,     \* bound: define-fun commands
  MaxAsserts,   \* bound: assert commands of one sign
  MaxLocals,    \* bound: variables declared in one scope
  MaxUses,      \* bound: uses of variables remembered in one scope
  MaxRules,     \* bound: "exists" terms in one command
  TopExists     \* whether an asserted formula may be quantified

ASSUME ContextAssumption == /\ {MaxPreds, MaxAsserts, MaxLocals, MaxUses, MaxRules} \subseteq Nat
                            /\ TopExists \in BOOLEAN

VARIABLES
  heap,     \* the arrays allocated: [data, size, freed]
  env,      \* ctx->lvar_env
  stack,    \* ctx->lvar_stack
  funs,     \* the parser's table of declared functions
  parsing,  \* noll_error_parsing > 0
  cmd,      \* the command being read: "top" between commands
  declares, \* a list of quantified variables is being read
  outer,    \* uses of variables read outside of "exists" in this command
  inner,    \* uses read inside of the open "exists"
  exists,   \* the "exists" terms completed in this command
  preds,    \* preds_array, the definitions
  forms,    \* the positive and the negative formula of noll_prob
  scopes,   \* history: the declarations in scope, one sequence per scope
  count     \* history: declarations made, and asserts per sign

vars == <<heap, env, stack, funs, parsing, cmd, declares, outer, inner, exists,
          preds, forms, scopes, count>>

(* A declaration is told from others of the same name by its number: any   *)
(* name may be declared again in an inner scope, or twice in one.          *)
Decl == [name : GlobalNames \union LocalNames \union {"nil"}, nr : Nat]
Nil == [name |-> "nil", nr |-> 0]

(* A use of a variable: its place, and the declaration in scope there. *)
Use == [at : Nat, decl : Decl]

Sign == {"pos", "neg"}

TypeOK == /\ \A i \in DOMAIN heap : /\ heap[i].data \in Seq(Decl)
                                    /\ heap[i].size \in 0 .. Len(heap[i].data)
                                    /\ heap[i].freed \in BOOLEAN
          /\ env \in DOMAIN heap
          /\ stack \in Seq(Nat) /\ Len(stack) \in 1 .. 3
          /\ funs \subseteq GlobalNames
          /\ {parsing, declares} \subseteq BOOLEAN
          /\ cmd \in {"top", "define", "assert", "exited"}
          /\ outer \union inner \subseteq Use
          /\ \A i \in DOMAIN exists : exists[i].vars \in DOMAIN heap
          /\ \A i \in DOMAIN preds : preds[i].vars \in DOMAIN heap
          /\ \A s \in Sign : forms[s].lvars \in {0} \union DOMAIN heap
          /\ Len(scopes) \in 1 .. 3
          /\ count \in [{"decl", "pos", "neg"} -> Nat]

-----------------------------------------------------------------------------
(* noll_vector.h *)
New(data) == [data |-> data, size |-> Len(data), freed |-> FALSE]

Pushed(a, d) ==
  [a EXCEPT !.data = IF a.size < Len(@) THEN [@ EXCEPT ![a.size + 1] = d]
                     ELSE Append(@, d),
            !.size = @ + 1]

(* MUTANT of Popped: only the stack is popped. *)
PoppedNothing(a, n) == a

Popped(a, n) == [a EXCEPT !.size = @ - n]

Content(a) == SubSeq(a.data, 1, a.size)

-----------------------------------------------------------------------------
(* MUTANT of Lookup: nil is not counted. *)
LookupWithoutNil(a, n) ==
  CHOOSE i \in 0 .. a.size - 1 :
    /\ a.data[i + 1].name = n
    /\ \A j \in 1 .. i : a.data[j].name # n

(* noll_var_array_find_local: the first variable of that name. *)
Lookup(a, n) ==
  CHOOSE i \in 1 .. a.size :
    /\ a.data[i].name = n
    /\ \A j \in 1 .. i - 1 : a.data[j].name # n

Visible == UNION {Range(scopes[i]) : i \in DOMAIN scopes}

(* What a name means in SMT-LIB: its innermost declaration, which is the   *)
(* latest one.                                                             *)
InScope == {d \in Visible : \A e \in Visible : e.name = d.name => e.nr <= d.nr}

FormNew == [lvars |-> 0, psize |-> 0, uses |-> {}, unsat |-> FALSE]

(* noll_mk_context, noll_entl_init *)
Init == /\ heap = << New(<<Nil>>) >>
        /\ env = 1
        /\ stack = <<1>>
        /\ funs = {}
        /\ parsing = FALSE
        /\ cmd = "top"
        /\ declares = FALSE
        /\ outer = {} /\ inner = {} /\ exists = <<>>
        /\ preds = <<>>
        /\ forms = [s \in Sign |-> FormNew]
        /\ scopes = << <<Nil>> >>
        /\ count = [c \in {"decl", "pos", "neg"} |-> 0]

NewDecl(n) == [name |-> n, nr |-> count["decl"] + 1]

(* declare-fun: noll_mk_fun_decl of a location variable. *)
DeclareFun(n) ==
  /\ cmd = "top" /\ ~parsing
  /\ n \notin funs
  /\ heap' = [heap EXCEPT ![env] = Pushed(@, NewDecl(n))]
  /\ stack' = [stack EXCEPT ![1] = @ + 1]
  /\ funs' = funs \union {n}
  /\ scopes' = [scopes EXCEPT ![1] = Append(@, NewDecl(n))]
  /\ count' = [count EXCEPT !["decl"] = @ + 1]
  /\ UNCHANGED <<env, parsing, cmd, declares, outer, inner, exists, preds, forms>>

(* A name declared again: the parser prints an error and goes on. *)
DeclareAgain(n) ==
  /\ cmd = "top" /\ ~parsing
  /\ n \in funs
  /\ UNCHANGED vars

-----------------------------------------------------------------------------
(* noll_push_var: the name is not looked for. *)
PushVar(n, st) ==
  /\ heap' = [heap EXCEPT ![env] = Pushed(@, NewDecl(n))]
  /\ stack' = [st EXCEPT ![Len(st)] = @ + 1]
  /\ count' = [count EXCEPT !["decl"] = @ + 1]

(* MUTANT of MaxNesting. *)
FourScopes == 4

(* noll_push_quant: the stack has no more levels than these. *)
MaxNesting == 3

(* A list of variables opens a scope with the first of them: the           *)
(* parameters of define-fun, or an "exists".                               *)
OpenScope(c, n) ==
  /\ ~parsing
  /\ ~declares
  /\ IF cmd = "top" THEN c = "define" \/ (c = "assert" /\ TopExists)
     ELSE c = cmd /\ (c = "define" \/ (TopExists /\ Len(stack) = 1))
  /\ cmd = "top" => IF c = "define" THEN Len(preds) < MaxPreds /\ Len(scopes[1]) = 1
                    ELSE \E s \in Sign : count[s] < MaxAsserts
  /\ Len(exists) < MaxRules
  /\ Len(stack) < MaxNesting
  /\ PushVar(n, Append(stack, 0))
  /\ scopes' = Append(scopes, <<NewDecl(n)>>)
  /\ cmd' = c
  /\ declares' = TRUE
  /\ UNCHANGED <<env, funs, parsing, outer, inner, exists, preds, forms>>

(* The error of noll_push_quant ends the program. *)
TooMuchNesting ==
  /\ cmd = "define" /\ ~declares
  /\ Len(stack) >= MaxNesting
  /\ cmd' = "exited"
  /\ UNCHANGED <<heap, env, stack, funs, parsing, declares, outer, inner, exists,
                 preds, forms, scopes, count>>

MoreVars(n) ==
  /\ declares
  /\ Len(Last(scopes)) < MaxLocals
  /\ PushVar(n, stack)
  /\ scopes' = [scopes EXCEPT ![Len(scopes)] = Append(@, NewDecl(n))]
  /\ UNCHANGED <<env, funs, parsing, cmd, declares, outer, inner, exists, preds, forms>>

EndOfVars ==
  /\ declares
  /\ declares' = FALSE
  /\ UNCHANGED <<heap, env, stack, funs, parsing, cmd, outer, inner, exists, preds,
                 forms, scopes, count>>

(* The scope a command starts its terms in. *)
Level(c) == IF c = "define" THEN 2 ELSE 1

(* noll_mk_symbol, on the name of the declaration d. *)
UseVar(c, d) ==
  /\ ~declares /\ ~parsing
  /\ IF cmd = "top" THEN c = "assert" /\ \E s \in Sign : count[s] < MaxAsserts
     ELSE c = cmd
  /\ LET u == [at |-> Lookup(heap[env], d.name), decl |-> d]
     IN  \/ /\ Len(stack) > Level(c)
            /\ Cardinality(inner \union {u}) <= MaxUses
            /\ inner' = inner \union {u}
            /\ UNCHANGED outer
         \/ /\ Len(stack) <= Level(c)
            /\ Cardinality(outer \union {u}) <= MaxUses
            /\ outer' = outer \union {u}
            /\ UNCHANGED inner
  /\ cmd' = c
  /\ UNCHANGED <<heap, env, stack, funs, parsing, declares, exists, preds, forms,
                 scopes, count>>

(* noll_mk_exists: the term keeps a copy of the context. *)
QuantVars == [heap |-> Append(heap, New(Content(heap[env]))), vars |-> Len(heap) + 1]

(* The end of an "exists": noll_mk_exists, then noll_pop_quant. *)
CloseExists ==
  /\ cmd \in {"define", "assert"} /\ ~declares
  /\ Len(stack) > Level(cmd)
  /\ LET q == QuantVars
     IN  /\ heap' = [q.heap EXCEPT ![env] = Popped(@, Last(stack))]
         /\ exists' = Append(exists, [vars |-> q.vars, uses |-> inner,
                                      own |-> Last(scopes)])
  /\ stack' = Front(stack)
  /\ scopes' = Front(scopes)
  /\ inner' = {}
  /\ UNCHANGED <<env, funs, parsing, cmd, declares, outer, preds, forms, count>>

-----------------------------------------------------------------------------
(* MUTANT of RuleVars: noll_pred_binding_push_rule leaves def->vars alone. *)
RuleVarsIgnored(rules) == env

(* noll_mk_fun_def lets pdef->vars be the context's array, and             *)
(* noll_pred_binding_push_rule replaces it by the one of the first         *)
(* recursive rule.                                                         *)
RuleVars(rules) == rules[1].vars

(* define-fun: the recursive rules are the "exists" terms, the base rule   *)
(* is over the parameters, in a copy of the context.  Then the parameters  *)
(* are popped.                                                             *)
DefineFun ==
  /\ cmd = "define" /\ ~declares
  /\ Len(stack) = 2
  /\ exists # <<>>
  /\ LET base == [vars |-> Len(heap) + 1, uses |-> outer, own |-> <<>>]
         rules == Append(exists, base)
     IN  /\ preds' = Append(preds,
              [vars |-> RuleVars(rules), fargs |-> stack[2],
               formals |-> scopes[2], rules |-> rules])
         /\ heap' = Append([heap EXCEPT ![env] = Popped(@, stack[2])],
                           New(Content(heap[env])))
  /\ stack' = Front(stack)
  /\ scopes' = Front(scopes)
  /\ cmd' = "top" /\ outer' = {} /\ exists' = <<>>
  /\ UNCHANGED <<env, funs, parsing, declares, inner, forms, count>>

(* A definition that is refused before a recursive rule was pushed:        *)
(* noll_pred_binding_delete frees pdef->vars, the array of the context,    *)
(* and the parser, in its error state, does not pop the parameters.  Only  *)
(* check-sat is modelled after that.                                       *)
DefineFails ==
  /\ cmd = "define" /\ ~declares
  /\ Len(stack) = 2
  /\ parsing' = TRUE
  /\ heap' = [heap EXCEPT ![env].freed = TRUE]
  /\ cmd' = "top" /\ outer' = {} /\ exists' = <<>>
  /\ UNCHANGED <<env, stack, funs, declares, inner, preds, forms, scopes, count>>

-----------------------------------------------------------------------------
(* noll_exp_push, noll_exp_push_top: the formula takes the context's array *)
(* (an older one is freed), the pure matrix gets its size when the first   *)
(* pure atom is read, and an UNSAT formula takes nothing more.             *)
Take(f, uses, pure, unsat) ==
  IF f.unsat THEN f
  ELSE [lvars |-> env,
        psize |-> IF f.psize = 0 /\ pure THEN heap[env].size ELSE f.psize,
        uses  |-> f.uses \union uses,
        unsat |-> unsat]

FreeOld(h, f) ==
  IF f.unsat \/ f.lvars \in {0, env} THEN h
  ELSE [h EXCEPT ![f.lvars].freed = TRUE]

(* MUTANT of Restored: the array stays with the context. *)
RestoredShared(h) == [heap |-> h, env |-> env]

(* noll_context_restore_global: a new array with copies of the globals. *)
Restored(h) ==
  [heap |-> Append(h, New(SubSeq(h[env].data, 1, stack[1]))), env |-> Len(h) + 1]

(* assert: noll_assert, in the environment of the globals. *)
AssertTerm(s, pure, unsat) ==
  /\ cmd = "assert" /\ ~declares /\ Len(stack) = 1
  /\ count[s] < MaxAsserts
  /\ LET uses == outer \union UNION {exists[i].uses : i \in DOMAIN exists}
         r == Restored(FreeOld(heap, forms[s]))
     IN  /\ forms' = [forms EXCEPT ![s] = Take(@, uses, pure, unsat)]
         /\ heap' = r.heap
         /\ env' = r.env
  /\ count' = [count EXCEPT ![s] = @ + 1]
  /\ cmd' = "top" /\ outer' = {} /\ exists' = <<>>
  /\ UNCHANGED <<stack, funs, parsing, declares, inner, preds, scopes>>

(* check-sat: noll_check stops the program after an error.  What it does   *)
(* otherwise is in NollEntl, and leaves the context alone.                 *)
CheckSat ==
  /\ cmd = "top"
  /\ cmd' = IF parsing THEN "exited" ELSE cmd
  /\ UNCHANGED <<heap, env, stack, funs, parsing, declares, outer, inner, exists,
                 preds, forms, scopes, count>>

Exited == cmd = "exited" /\ UNCHANGED vars

Next == \/ \E n \in GlobalNames : DeclareFun(n) \/ DeclareAgain(n)
        \/ \E c \in {"define", "assert"}, n \in LocalNames : OpenScope(c, n)
        \/ TooMuchNesting
        \/ \E n \in LocalNames : MoreVars(n)
        \/ EndOfVars
        \/ \E c \in {"define", "assert"}, d \in InScope : UseVar(c, d)
        \/ CloseExists
        \/ DefineFun \/ DefineFails
        \/ \E s \in Sign, pure, unsat \in BOOLEAN : AssertTerm(s, pure, unsat)
        \/ CheckSat \/ Exited

Spec == Init /\ [][Next]_vars

-----------------------------------------------------------------------------
(* Among the first n places of the array, a use denotes a variable of its  *)
(* name; the one that was in scope, unless there are more of that name:    *)
(* then the lookup finds the outermost, not the innermost (noll_vars.c:95).*)
Denotes(a, n, u) ==
  /\ u.at \in 1 .. n
  /\ a.data[u.at].name = u.decl.name
  /\ (\A k \in 1 .. n : a.data[k].name = u.decl.name => k = u.at)
        => a.data[u.at] = u.decl

Resolves(a, uses) == ~a.freed /\ \A u \in uses : Denotes(a, a.size, u)

(* Between two commands the context holds nil and the globals, in the      *)
(* order of their declaration, whatever scopes were opened, popped or      *)
(* replaced by noll_context_restore_global.                                *)
GlobalsKept ==
  (cmd = "top" /\ ~parsing) =>
    /\ Len(stack) = 1
    /\ heap[env].size = stack[1]
    /\ ~heap[env].freed
    /\ Content(heap[env]) = scopes[1]

(* The identifiers of a formula's terms still mean, in the array it gave   *)
(* to the solver, the variables that were in scope when the terms were     *)
(* read, but for shadowed names, and its pure matrix has a row for each    *)
(* (noll_exp_push_top).                                                    *)
FormsResolve ==
  \A s \in Sign :
    forms[s].lvars # 0 =>
      /\ Resolves(heap[forms[s].lvars], forms[s].uses)
      /\ forms[s].psize \in {0, heap[forms[s].lvars].size}

(* The same for the rules of the predicates, and the layout that the       *)
(* comments of noll_preds.h and noll_pred2ta_gen.c describe: nil, then the *)
(* formal parameters, in the definition and in every rule, then the        *)
(* variables of the rule.                                                  *)
PredsResolve ==
  \A i \in DOMAIN preds :
    LET p == preds[i]
    IN  /\ \A j \in DOMAIN p.rules :
             /\ Resolves(heap[p.rules[j].vars], p.rules[j].uses)
             /\ Content(heap[p.rules[j].vars]) = <<Nil>> \o p.formals \o p.rules[j].own
        /\ ~heap[p.vars].freed
        /\ SubSeq(heap[p.vars].data, 1, p.fargs + 1) = <<Nil>> \o p.formals

(* The variables a formula was given are never pushed, popped or renamed   *)
(* by a later command: the context goes on with an array of its own.       *)
FormsStable ==
  [][\A s \in Sign :
       (forms[s].lvars # 0 /\ forms'[s].lvars = forms[s].lvars) =>
         heap'[forms[s].lvars] = heap[forms[s].lvars]]_vars

=============================================================================
