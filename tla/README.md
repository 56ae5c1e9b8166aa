# A TLA+ verification project for SPEN

SPEN decides satisfiability and entailment of symbolic-heap separation logic
with inductive predicates over lists. It reads an SMT-LIB script, keeps at most
one positive formula `phi` and one negated formula `psi`, and answers whether
`phi /\ ! psi` has a model. This directory models the program's own C code
(`src/src`, about 31 000 lines), checks the models with TLC and proves, for any
value of the constants, what the modules of the pure part, the normalisation, the
boolean abstraction, the homomorphism search, the driver and the parser's context
promise.

## 1. Inventory

Control flow of one session (`noll-dp.c`, `smtlib2noll.c`):

    parser callbacks -> terms (noll.c) -> noll_assert -> formulas (noll_form.c)
    check-sat -> noll_check -> noll_entl_solve:
        special cases -> typing -> normalisation -> special cases
        -> graphs -> homomorphism -> answer -> release
    homomorphism, for each predicate edge of the right side: select a subgraph, then
        tree automata (default) or rules and lemmas (`-syn`)

The program is sequential. What is hard in it is not interleaving but long
chains of calls that hand state on: arrays that change owner, answers of an
external solver matched with questions by their position, marks that several
passes set and clear, recursion without a measure, and error paths that leave a
step half done.

| component | state | operations | what makes it correct |
|---|---|---|---|
| pure formulas (`noll_form.c`) | a triangular matrix of `=`, `#`, unknown; the form's kind | add an equality or a disequality, close the matrix | entries follow from the atoms; UNSAT only for contradictions; nothing is forgotten |
| terms and context (`noll.c`, `noll_vars.c`, `noll_vector.h`, `smtlib2noll.c`) | `lvar_env`, `lvar_stack`, the parser's function table | declare, open and close scopes, `exists`, `define-fun`, `assert` | every identifier means, in the array it is looked up in, the variable that was meant |
| predicates (`noll_preds.c`) | `preds_array`: parameters, base and recursive rules, typing | register, push rules, type, order fields | rules resolve in their own variables and are the disjuncts written |
| lemmas (`noll_lemma.c`) | `lemma_array`: for each predicate rules `P1 [* P2] [/\ pure] => P` | build at the first check, from types, names and order of definition | each lemma is a valid implication |
| boolean abstraction (`noll2sat.c`) | numbers of boolean variables, clauses in a file | encode pure, spatial, sharing atoms; call `minisat` | every model of the formula is one of the abstraction |
| normalisation (`noll_norm.c`) | the matrix, files of queries and of answers | query each unknown pair, enter the answers | entries hold in all models; nothing implied is left unknown |
| graphs (`noll2graph.c`, `noll_graph.c`) | nodes, edges, difference matrix | build from a normalised formula | same meaning as the formula |
| homomorphism (`noll_hom.c`) | node map, marks `usedg2` | map nodes, points-to edges, predicate edges | found exactly when the entailment holds |
| tree automata of graphs (`noll_graph2ta.c`, `noll_tree.c`, `noll_ta_symbols.c`, dll edges in `noll_graph.c`) | markings of nodes, a tree, unique symbols | mark, choose edges of the tree and aliases | the automaton accepts one tree, which spans the graph |
| tree automata of predicates (`noll_pred2ta.c`, `noll_pred2ta_gen.c`) | an automaton | by name for ls, lss, dll, nll, nlcl, skl1 to skl3; for other predicates by unfolding the first rule twice and folding the tree | its language is the trees of the predicate's unfoldings |
| inclusion (`libvata_noll_iface.cc`) | two automata of libvata | transitions added, inclusion asked | acceptance means that the subgraph is an unfolding |
| `noll2bool.c` | | an older `noll2sat.c`, called from nowhere | |
| driver (`noll_entl.c`, `noll_sat.c`) | `noll_prob` | the pipeline above | answers are right, everything is released |
| vendored: `minisat`, `smtlib2parser-1.4`; absent: libvata | | | external |

The components call each other directly and share `noll_prob`, `preds_array`
and the arrays of variables. The SAT solver is a process that communicates by
files.

`PROJECT.json` lists the hazards at their lines with the properties that answer
them; section 4 lists what the properties leave out because the code does not do it.

## 2. Modules

| module | models | notes |
|---|---|---|
| `NollMatrix` | the operators of the pure matrix | shared by all modules that have formulas |
| `NollPure` | one form while atoms are added | |
| `NollNormalize` | `noll_normalize` with the incremental solver | builds a form with `NollMatrix`, then queries it |
| `NollVerdict` | abstract: what a session promises | refined by `NollEntl`, up to promises of the phases that are not kept |
| `NollEntl` | `noll_assert`, `noll_check`, `noll_entl_solve` | normalisation and homomorphism may answer anything, crash or not return |
| `NollContext` | variables, scopes and arrays of the parser context | ownership of arrays is explicit: `heap`; names may be declared again |
| `NollGraph` | the graph of a normalised formula, queries on graphs | pure operators |
| `NollMatch` | the syntactic check of a subgraph with rules and the composition lemma | recursive operators, hence no theorems |
| `NollHom` | `noll_hom_build_1` as a state machine | EXTENDS `NollHeaps`; the check of a selected subgraph, an option of the program, is the constant `ShomCheck`, which `MCHom` sets to `CheckSyn` of `NollMatch` |
| `NollHeaps` | separation logic on small heaps, the reference | no code |
| `NollOrder` | sorting: of the tables of `noll2sat`, of the edges of a graph | |
| `NollSat` | `noll2sat`: numbering, tables, clauses | EXTENDS `NollHeaps`; one action per stage |
| `NollSolver` | the two queries of `noll2sat.c` and a solver that answers them | EXTENDS `NollSat`; a recursive operator, hence apart |
| `NollTerms` | terms of the input, their typing and their translation into formulas | recursive operators |
| `NollPreds` | definitions into rules, checks of rules, typing, order of fields | EXTENDS `NollTerms`; the checks made depend on the default option, tree automata |
| `NollScript` | the commands of a script up to typing at check-sat | EXTENDS `NollPreds`; commands are parameters |
| `NollTree` | symbols, trees, languages and their inclusion | libvata by what is asked of it |
| `NollGraph2TA` | the tree of a graph: markings, aliases; the two-way edges of dll graphs | EXTENDS `NollGraph`, `NollTree` |
| `NollPred2TA`, `NollPred2TAGen` | the automata of predicates by name, and of any other predicate | EXTENDS `NollGraph2TA` |
| `NollUnfold` | what an unfolding of a predicate is, from its rules: the reference | no code |
| `NollAutomata` | `noll_shom_check_TA`, one action per call | composes the four above |
| `NollLemma` | which lemmas each predicate gets and how each is built | EXTENDS `NollPreds`; the file is a parameter |
| `NollMatrix_proofs`, `NollPure_proofs`, `NollNormalize_proofs`, `NollEntl_proofs`, `NollContext_proofs`, `NollSat_proofs`, `NollHom_proofs` | lemmas and theorems about the module of that name | section 5 |
| `NollInduction` | lemmas: least counterexamples, iterated steps, sorting | stands in for induction rules with operator parameters |
| `MC*` | instances for TLC | |

How state corresponds to code:

- `NollPure.m[<<i,j>>]` is `noll_pure_matrix_at(pure,i,j)` (`i <= j`), `kind` is
  `form->kind`. The two closure loops are stated cell by cell: at one `j` they
  touch only the cells `(l,j)` and `{j,c}`, and they stop at the first conflict,
  so the new matrix merges the cells of the `j` before the first conflict.
- `NollNormalize`: `todo` is the nested loop over pairs, `atoms` the array of
  queried atoms, `queries` and `results` the two files, `line` tells the two
  `getline` calls of an atom apart. `models` is a history of what the file
  given to the solver means.
- `NollEntl`: `phase` is the program counter of `noll_entl_solve`, `aux` the
  members of `noll_prob` that are allocated, formulas are the sets of models
  they hold in. A `NULL` space is `<<>>`, which the kinds and the graphs read
  differently, as in the code. A contradictory pure atom may be dropped, as
  `noll_pure_add_eq` does when the closure finds nothing. What the normalisation and the search
  answer is not restricted; the history `broken` keeps which of them was wrong
  (`Promise`): an atom was dropped, a model was lost, a formula without models was not found
  UNSAT, a homomorphism was found without an entailment or none with one. `Fails` is a
  phase that crashes or does not return.
- `NollContext`: `heap` holds each `noll_var_array` allocated with data, size
  and a mark when it is freed; `env`, `forms[s].lvars` and `preds[i].vars` are
  pointers into it, so aliasing is in the model. A use of a variable is the
  place that was looked up together with the declaration that SMT-LIB means, the
  latest visible one of its name (`InScope`); nothing keeps a parameter or a
  quantified variable from having a name that is there already.
- `NollHom`: `nhom`, `used` are `n_hom` and `usedg2`; one action per node map,
  points-to edge and predicate edge; `crashed` is the NULL dereference at the
  end of `noll_shom_select_rd`, `looping` a recursion that returns to itself.
- `NollSat`: `fsat` holds what `noll_sat_t` holds: used variables and the sorted
  tables of boolean variables. A number is a table and a position, `Zero` is the
  number 0 of a variable that is not found; written into a line it ends the
  clause there, as a DIMACS reader takes it. `clauses` is the file. The
  bisection is the code's, with the wrap of `pos - 1` below 0, as a function of
  the number of turns. An entry is a key, the atom and the field; a table is
  sorted by counting the entries before each one. `Worlds` are the heaps of a
  formula, as the part each atom takes; the segments of a heap (`NollHeaps`) are
  iterated from the empty set as often as the heap has locations.
- `NollScript`: `logic` is `noll_form_logic`, `globals` the types in
  `ctx->lvar_env`, `fields` and `preds` are the arrays of those names, `pform`
  and `nform` the two formulas of `noll_prob`, `errors` is
  `noll_error_parsing > 0`. `said` and `typing` are histories. A handler that
  returns NULL puts the parser into its error state and a `noll_error` of level 0
  exits: both are status "stopped", after which no command is read. "crashed" is
  an access outside of an array, or the assertion of `noll_field_order` that no
  backbone is shared (noll_preds.c:888), in a build with assertions (`make debug`, or
  cmake without a build type); `make release` has none, and goes on. Both are in
  the model. What check-sat does to the formulas after typing
  belongs to `NollEntl`. Identifiers are resolved here as written; whether the
  code resolves them so is `NollContext`'s question. Matrices have one fixed
  size, `Size`, and a variable that a formula does not have stays unrelated.
- `NollAutomata`: `check` is a call of `noll_shom_check_TA`, `g2` the selected
  subgraph with the edges added to it, `g2_tree` and `e1_ta` what the two
  translations return, `res` the answer. Strings of symbols are left out since a
  symbol is looked up by its fields before it is made. "crashed" is NULL that is
  followed, "looping" a search for an ancestor that returns to where it was.
- `NollLemma`: `lemma_array` grows by one predicate per round of
  `noll_lemma_init`. A lemma keeps the types of its variables, the pure atoms and
  the calls with their arguments by number. `Meaning` gives each predicate the
  simplest reading as a segment of cells, and a lemma is valid when it holds in
  that reading for all small values.
- `noll_pred_type` gives up at the first rule it cannot type, and
  `noll_entl_solve` (noll_entl.c:881) and `noll_sat_solve` (noll_sat.c:273) do
  not look at its answer. `dll`, whose base rule equates two pairs of parameters,
  is one it gives up at: the predicates after it stay untyped and fields unordered.

## 3. Plan

Everything below is done, in this order:

1. `NollPure`, 2. `NollNormalize`, 3. `NollEntl` refining `NollVerdict`,
4. `NollContext`, 5. `NollGraph`, `NollMatch`, `NollHom` against `NollHeaps`,
6. `NollSat` against `NollHeaps`, 7. `NollTerms`, `NollPreds`, `NollScript`,
8. `NollTree`, `NollGraph2TA`, `NollPred2TA`, `NollPred2TAGen`, `NollAutomata`
against `NollUnfold`, 9. `NollLemma`,
10. proofs of `NollPure`, `NollNormalize`, `NollEntl`, `NollContext`, `NollSat`,
`NollHom`.

What could follow, in the order of use:

- `NollHom` with `ShomCheck` set to what `NollAutomata` answers: both checks of a
  subgraph are modelled, but only the syntactic one is composed with the search.
- Doubly linked and nested predicates, sharing constraints and set variables in
  `NollHom`; inclusions between set terms and segments from nil in `NollSat`.
- `noll_normalize_iter`, the option that queries pair by pair.
- Scripts the runs exclude because the code does not do what it says on them: a
  name defined twice ("name is unique", noll.c:1240), the order of fields after a
  definition of a predicate without a backbone that follows a check-sat, a call whose arguments do not fit in an
  assertion, data parameters before the last location (noll.c:917), and the NULL
  dereference at the end of `noll_shom_select_rd` (noll_hom.c:835).

## 4. What is checked

| run | shows | bounds |
|---|---|---|
| `Pure` | `Sound`, `NeverForgets`, `EqClosesRows` over all orders of additions | 4 variables, 4 locations: an atom, its two neighbours and a bystander on either side of it; four locations make all four variables different |
| `Normalize` | `EntriesHold`, `StaysSat`, `Complete`, also with truncated answers | 4 variables, 2 record types, 1 atom before; up to 2 spatial interpretations, since a pair is unknown as soon as two interpretations differ on it |
| `Entl` | `Refines`: no answer is wrong unless it rests on a promise that was not kept; `GraphsExist`, `AuxReleased` | 2 models, one of the empty heap, so that every answer of a phase can be right or wrong; one assertion of each sign, each with constraints on locations, contradictory ones too, or on data, and one spatial formula or "false", in any order; check-sat anywhere |
| `Context` | `GlobalsKept`, `FormsResolve`, `PredsResolve`, `FormsStable` | 2 globals, 3 names for parameters and quantified variables, each possibly declared again, up to two in a scope; 1 definition with 1 recursive rule, 1 assertion of each sign; symmetric in the names of a kind, which no step tells apart |
| `Hom` | `Sound`, `Justified`, `Complete`, `Separated` on all 59049 pairs of normal forms of formulas with up to two atoms | nil and 2 variables, 1 field, `ls`; heaps over 3 allocated locations: two segments that are longer than one cell cannot both be told apart with fewer |
| `HomRest` | what is left beside a selected subgraph is not looked at: with it, two segments pass for one, and then it is marked as used (two findings) | `ls1(x,y) * ls1(y,z) * ls2(x,w)` and `ls1(x,z)` over two fields; 4 variables and nil, 2 allocated locations, one for each way in which the entailment fails |
| `Sat` | `Encoded`, `Adequate`, `Tight` on 2207 formulas of up to two atoms, with pure atoms or a sharing constraint | nil and 2 variables, fields n and p, `ls` and `dll`; 2 allocated locations; a clause names at most two atoms and three variables |
| `SatTwoDir` | the abstraction of a satisfiable formula with an empty `dll` segment is unsatisfiable (finding) | formulas with `dll` |
| `Script` | `PureMeans`, `SpaceMeans`, `ShareMeans`: formulas hold where the asserted terms do; `RulesMean`: rules are the disjuncts written; `Covered`, `Ordered`: what typing records of predicates and fields | sessions with a fixed beginning (2 records, 4 fields): up to 3 of 28 definitions, 10 sound, two of them without a backbone, 14 that some check should stop and 4 with data, with a check-sat between or after; up to 2 of 67 assertions, then a check-sat. Three definitions make a chain of calls, two assertions the merge of a formula with an earlier one |
| `Automata` | `Spans`, `Sound`, `Complete`, `Translates` on 5650 checks of a subgraph against a predicate | one file of 14 predicates, one or more for each built-in translation and six for the general one; graphs of up to 5 nodes that are unfoldings, unfoldings with one or two targets moved or one edge dropped, and cells with fields in another order. Five nodes give the second cell, where automata loop, a predecessor and a successor |
| `AutomataEmpty` | the automaton of a graph may accept nothing, and then any predicate is accepted (finding) | same |
| `Lemma` | `LemmasHold` for six families of predicates in every order of definition, with members missing | the families of the samples, and parameters that the samples do not have: a border, two kinds of data, data that stays the same along a list; values 0 and 1, at most one cell, since arguments in the wrong place already differ there |

`CHECK_DEADLOCK FALSE` is set for the homomorphism, the boolean abstraction,
scripts, the check with automata and the lemmas, which end.

Scripts leave out: a name defined twice, calls in assertions that do not fit,
`exists` whose bound variables an assertion of several atoms uses again or that
is nested, the set term of a segment, declarations after an assertion, assertions
after a check-sat. `PureMeans` says
nothing of assertions that contradict each other (see below). `Ordered` is
stated after a check-sat that finds no shared backbone, when all definitions
precede the first check-sat or each predicate has a backbone.

`Adequate` is stated for heaps in which empty segments have equal ends, because
`SatTwoDir` shows that the clauses for separation assume it although `dll` does
not give it. `Tight` is stated for segments in one direction and without sharing
constraints.

Where the code is known not to do what its comments say, and a property is stated
around it:

- A contradictory atom is lost when the closure's status replaces the one of the
  update (noll_form.c:528): `Sound` of `NollPure` asks that entries follow from
  the atoms, not that every contradiction is reported. `x = y /\ x # y /\ emp` is
  answered "sat": in `NollEntl` the atom is dropped and the answer rests on the
  promise `posAtoms`.
- The homomorphism of a check-sat (noll_hom.c:339) is not released by
  `noll_entl_free_aux`, and the next search overwrites the pointer. `AuxReleased` is
  about abstractions and graphs only.
- `noll_push_var` does not look for a name and `noll_var_array_find_local` finds the first of
  a name (noll_vars.c:95): a variable bound by `exists` that is named like a
  parameter or a global is taken for that one, and so is a parameter named like a parameter before it.
  `FormsResolve` and `PredsResolve` ask, of a name that the array has several times,
  only that the place found has that name (`Denotes`).
- Every check-sat runs `noll_field_order` on the fields as the last one left them. A second
  check-sat with a predicate that has a backbone, like two predicates with one backbone, finds the field
  owned and stops at `assert (false)` (noll_preds.c:888), where assertions are built in.
  Without a backbone nothing stops it, and a predicate defined in between gets orders
  from 0 again, equal to earlier ones, which `noll_field_lt` asserts not to be (noll_types.c:425).
- A valid negated formula is answered "sat" (noll_entl.c:805, where the comment at
  778 says otherwise): `NollVerdict` has the answer the code gives.
- Variables bound by `exists` in an assertion are popped from the array that the
  formula is given (noll.c:3354), so the run of `NollContext` has `TopExists` FALSE.
- A label of a node is overwritten by the last variable equal to it
  (noll_hom.c:375): `Sound` of `NollHom` is stated under `Labelled`, which asks
  that equal variables of the right side are equal on the left.
- `noll_shom_select_wf_1` looks for what allocates the end of a segment only when
  no edge is left (noll_hom.c:1075), and `noll_shom_select_rd` marks edges as used
  that nothing compares (noll_hom.c:751). The run `HomRest` refutes `Justified` with a
  formula for which each of the two is needed: without the edge that is left the two
  segments would be refused, and without its mark it would be found missing at
  the end. Each is a wrong answer by itself: `ls(x,y) * ls(y,z) * ls(u,nil)` is taken
  to imply `ls(x,z) * ls(u,nil)`, which fails where u is nil and z is x, and
  `ls1(x,y) * ls2(x,z)` to imply `ls1(x,y)`, which fails where y is x and the second
  segment is not empty. `Justified` holds on the formulas of `Hom`, since the first
  needs three atoms and the second two predicates.
- `Complete` holds on the formulas of `Hom`, which have two variables. It is not
  claimed beyond: `ls(x,y) * ls(x,z)` with three variables does not prove itself,
  since the search from x selects both segments and the check refuses them.
- `NollAutomata`: `Sound` is stated where the graph has a finite tree (`NonEmpty`,
  refuted by `AutomataEmpty`) and aliases lead where they say (`FirstSuccessors`).
  `is_the_first_successor_of_with_marking` never looks at `dst` (noll_graph2ta.c:1022),
  whatever its comment says: on the checks of `Automata`, `x |-> (f1 y, f2 z) *
  y |-> (f1 z, f2 z) * z |-> (f1 nil, f2 nil)` is taken for a list `lsso(x, nil)`. It does not ask that nodes
  are numbered alike on both sides. `Complete` asks for it, since symbols of the
  graph name its nodes and those of the edge the nodes of the other graph; for cells whose fields are written in the order of
  `noll_field_order`; and for what the symbols can say (`Expressible`): no empty
  segment, no cycle of `nlcl` with one cell, no `skl1` that begins with a segment,
  and for the general translation a first argument with the number 1, no field
  that is nil, segments without border and one segment for each called list.
  samples/gen/nlclg-vc01.smt, which expects "unsat" (line 77), has cycles of explicit cells,
  which the general translation refuses.
- `Translates` holds for unfoldings. On other graphs the search for an ancestor
  (noll_graph2ta.c:949) may climb for ever, and nodes that are reached only
  through the arguments after the second of a segment have no marking.
- `NollLemma`: a lemma has to be valid when the roles of parameters are read as
  the author means them, and data ends in nil, the empty bag or 0. The samples'
  `rbt` ends in N = 1 and C = 1 while `noll_lemma_new_spec_nil` writes 0
  (noll_lemma.c:246), a border of data in (E, F, d) is taken for a root, and a
  border of locations before bags makes a pending bag a border. `noll_lemma_init`
  takes the predicate defined next for the segment of a complete predicate. And the
  roles of `dll(fr, bk, pr, nx)` of the samples are not the ones guessed, the types
  being equal: bk is taken for the pending parameter of fr, although the base
  case is fr = nx and bk = pr (samples/dll/dll-vc09.smt:17). Its lemma
  `dll(E, E1, pr, nx) * dll(E1, F, pr, nx) => dll(E, F, pr, nx)` is not valid: with
  E = nx and E1 = pr the first part is empty, the second may be the two cells
  `E1 |-> (F, pr) * F |-> (nx, E1)`, and no `dll(nx, F, pr, nx)` has cells. `MCLemma`
  has `dll` with this meaning, and `AsSupposed` is false of it.

Fairness: none is stated and no liveness property is claimed. The program is one
thread, but that a check-sat answers does not follow from its being run: the search
may return to itself or crash (noll_hom.c:2192, noll_graph2ta.c:949, noll_hom.c:835),
as `NollHom` and `NollAutomata` show, and the SAT solver is another program. The
parser's commands need not come: the input may end anywhere.

## 5. What is proved

All theorems are of the specification that the runs check, for every value of the
constants that the named assumptions allow.

`NollPure_proofs` (`SizeAssumption`: at least nil; any set of locations)

- `TypeCorrect`: `[]TypeOK`.
- `Soundness`: `[]Sound`. The invariant is `Sound` with `TypeOK`; it is
  inductive because the closure step is a lemma about matrices: if an
  interpretation agrees with the matrix and satisfies the new atom, it agrees
  with the closed matrix and there is no clash (`NollMatrix_proofs`).
- `Permanence`: `NeverForgets`, from `TypeOK` and the lemma that a closure writes a
  known cell only where it does not clash.
- `RowsClosed`: `EqClosesRows`. Without a clash the loops of `noll_pure_close_eq`
  visit every `j`, and the two cells of a `j` get the same value (`CloseEqRows`).

`NollNormalize_proofs` (`NormalizeAssumption`; any variables, record types, number of
atoms and of models)

- `NormalizeTypes`, `EntriesAreImplied` (`EntriesHold`), `SatIsKept` (`StaysSat`) and
  `NormalForm` (`Complete`), all from the inductive invariant `IInv`. It adds to the properties what the
  code relies on without saying it: the lines of answers not read yet are those
  of the pairs not read yet, two each, in order (`InOrder`, `LinesMatch`), the
  file has as many lines as questions unless the solver stopped early, and each
  pair of used variables is still to be queried, still to be read or settled
  (`Accounted`). Without them an answer could be entered for the wrong pair, and
  no property of the matrix alone excludes that. A closure between two answers
  keeps the matrix in agreement with each model, by the lemma of `NollMatrix_proofs`.

`NollEntl_proofs` (`EntlAssumption`; any set of models)

- `GraphsAreThere` (`GraphsExist`) and `AuxIsReleased` (`AuxReleased`, abstractions
  and graphs, not the homomorphism), from `EInv`: at
  most one negative formula is kept, what is allocated in which phase, and that the
  special cases have sent every UNSAT formula away before graphs are made.
- `EntlTypes` (`TypeOK`), from `TInv`: the loops over the negative formulas stay in
  their bounds and `graphs` never outgrows them.
- `VerdictRefined`: `InputFormat => (Spec => Refines)`: a behaviour of `NollEntl` is one of
  `NollVerdict`, where an answer that rests on a promise not kept counts as "unknown" (`Trusted`).
  The normalisation and the search are not assumed to be right, as they are not
  (`SatTwoDir`, `HomRest`, `AutomataEmpty`); the theorem says that a wrong answer has its
  cause there or in a dropped atom, by name: a wrong "sat" in a positive atom dropped, a negative model lost, a positive
  formula not found UNSAT or a homomorphism not found, a wrong "unsat" in a negative atom
  dropped, a positive model lost or a homomorphism too many (`RestsOn`). The
  special cases, the order of the phases and the result codes add nothing wrong.
  The invariant `SInv` says what the program relies on between
  its phases: the stored formulas denote what was asserted, up to these promises (`Stored`), and what each phase has already decided of the goal
  (`Pipeline`), for instance that after the special cases no formula is UNSAT, so
  that the answer of the homomorphism is one about satisfiable formulas. That every
  step is one of `NollVerdict` or leaves its variables alone follows from it. `Push`
  runs over the parts of a term; what it computes is shown by the least place in
  the sequence that would break it (`NollInduction`). `InputFormat` is the format
  of `noll_entl.h`: one formula of each sign, with one spatial part or "false".
  Without it the statement is false: a second spatial part replaces the first
  (noll_exp_push_top assigns it), and a NULL space is read as "any heap" by the
  kinds and as the empty heap by the graphs.

`NollContext_proofs` (`ContextAssumption`; any names and any bounds)

- `ContextTypes`, `ContextGlobals` (`GlobalsKept`), `ContextRules` (`PredsResolve`),
  `ContextStable` (`FormsStable`) and, when no assertion is quantified and none is
  added to an earlier one, `ContextForms` (`FormsResolve`), from `CInv`. Its parts: the array of the context is the scopes one after the
  other, with the sizes on the stack (`Aligned`), so that a pop takes away just
  the innermost scope; what is looked up has the name asked for, and is the declaration meant
  when no other has that name; and ownership (`Owned`): the arrays of the context, of
  formulas and of rules are different, so that a push, a pop or a free never
  reaches another owner. None of the properties is inductive by itself: that a
  rule keeps its variables depends on nobody else having its array.
- The condition of `ContextForms` is needed. With a declaration between two
  assertions of one sign the matrix keeps the size it got from the first
  (noll_exp_push_top), and a quantified assertion loses its variables.

`NollSat_proofs` (`SatAssumption`; any number of variables, predicates, atoms, fields
and locations)

- `SatTypes` (`TypeOK`), without a further hypothesis: a search in a table gives a
  position of it, the number 0 or the crash, never a number of another table.
- `SatEncoded` (`Encoded`), when variables have one record (`OneRecord`) and no segment
  starts from nil (`SourcesNotNil`). The tables are sorted without doubles (`TableSorted`);
  bisection keeps the key between `min` and `max` and halves the interval, so it ends on
  the key (`BsearchFinds`) and `pos - 1` never wraps; each lookup of each stage is for a
  key that `noll2sat_fill_bvar` entered. A line of a sharing constraint can only be
  empty when all its terms are of another record, which a heap excludes.
- `SatAdequate` (`Adequate`), when also rules have the shape of lists (`Shaped`). Every
  line a stage writes is shown to hold in every heap of the formula. The parts that
  the atoms take are disjoint (`PartsDisjoint`); what a nonempty segment allocates (its first
  parameter, in two directions the third too, with different ends) is an invariant of the iteration that
  defines segments (`UnfoldingOK`): a segment of a later round keeps it because its
  rule does and the segments it calls are of an earlier one.
- The first two hypotheses are what the code asks more than the logic does: two variables of
  different records are taken to differ although both may be nil (noll2sat.c:1147),
  and the membership of nil as a source is written as the number 0 (noll2sat.c:1757); with either, a heap of the formula can be lost. TLC evaluates
  all three on the instance of `MCSat`.

`NollHom_proofs` (`HomAssumption`; any number of variables and locations, any
formulas that have a heap, any answers of the check of a subgraph)

- `HomTypes` (`TypeOK`) and `HomSeparated` (`Separated`), from `HInv`: both graphs are
  well formed (`GraphOK`), the node map keeps difference edges, and the marks of the
  points-to phase are those of the edges gone through (`Given`).
- `noll_shom_build_pto` overwrites a mark without a look at it. That it never
  takes an edge from another one is a fact about graphs, in four steps: two points-to
  atoms of a normal form allocate different locations in each of its heaps
  (`AtomsAllocate`), so the matrix has their sources different and a difference edge
  joins their nodes (`GraphOfNormal`); `noll_shom_build_nodes` has checked that the images
  of a difference edge are joined by one; and a difference edge of the left graph
  never ends where it starts. So the images of two edges with different sources start
  from different nodes, and edges with one source have different labels.
- `GraphOK` is proved of `GraphOfForm` from the meaning of normal forms: what a
  segment allocates is an invariant of the iteration that defines segments
  (`SegmentsOK`), equality of variables is an equivalence whose least members number
  the nodes, and the edges of a graph are those of its atoms (`Flattened`).
- `HomAssumption` is what noll.c checks of definitions and calls, and one thing it does not
  check, that a points-to atom names a field once; with a field twice, the right
  side's second edge does take the mark of the first. TLC evaluates it in `MCHom`.
- `HomSound`: `EqualEndsEmpty => (Spec => [](Justified => Sound))`, whatever the check of
  subgraphs is. It separates what the search owes to soundness from what the check
  owes. The check's part is `Justified`, that what each predicate edge was given is an
  unfolding of it in every heap of the left side; it cannot be discharged for the
  code as it is, since the two findings refute it beyond the formulas of `Hom`.
  The search's part is proved. `SInv` adds to `HInv` what the marks say: a points-to
  edge's mark is on an image of it, a predicate edge's mark is on all the edges of a
  node or on none of them (`Marks`), each points-to edge gone through has an image
  (`Found`), and at the end no edge is without a mark. From it, a heap of the left
  side is split among the atoms of the right side: two points-to atoms of a normal
  form have different sources (`TwoSources`) and the edges of a node go to one owner
  (`OneOwner`), so the parts are disjoint (`PartsSplit`), and they are all of it
  because no edge is left over. A points-to atom then holds of its part field by
  field (`PtoHolds`), a segment by `Justified` (`LsHolds`), and the pure part because
  nodes stand for equalities and `DiffMapped` has compared the difference edges
  (`PureImplied`).
- `EqualEndsEmpty` is what `noll_graph_of_space` relies on when it makes no edge for a
  segment from a variable to itself: that the base rule says nothing but that the ends
  are equal. `noll_mk_pred_rule_check_pure` tests only that it says so. TLC evaluates it in
  `MCHom`.
- `SegmentsUnfold` and `SegmentsUnique`: the segments of a heap, which `NollHeaps` iterates
  from the empty set, are a fixed point of the rules and the only one. The argument is
  that a rule's points-to atom takes the first parameter, so that its calls hold of
  fewer locations than it does: whether a rule holds of at most k locations depends
  only on segments of fewer than k (`RuleBelow`), so two iterations agree on what has
  fewer locations than rounds have passed (`RoundsAgree`).
- `SegmentsCompose`: when `P(E, E', ...)` and `P(E', F, ...)` hold of disjoint parts and
  F is not in the first, `P(E, F, ...)` holds of both, for predicates whose rules name
  their second parameter only in the recursive call and in "the ends differ"
  (`Chained`; other calls may stand beside it). By induction on the size of the first part:
  its rule holds with the new end, and the recursive call is joined with the second
  segment (`JoinedRule`). This is what the composition lemma of the code appeals to and
  `noll_shom_select_wf_1` is to make sure of. That F is nil, is allocated by the second
  segment or is allocated beside the two are three ways to have it; "something is left" is not one.
- `Justified` and `Complete` are about what the check answers, a recursive
  operator of `NollMatch`, and stay with TLC.

Recursive functions (the bisection, `Push`, the segments of a heap) are in reach, as
functions on 0 .. n: a function that satisfies the equation is exhibited with
`Iterates`, and a claim about all its values is shown by the least one that would
break it (`Least`).

Only model-checked: `Tight` and `StaysSat` of
`NollSolver`, since `Satisfiable` is a recursive operator over sets of clauses; `Justified` and
`Complete` of `NollHom`; and the modules that reach such an operator,
for which the SMT backend is not available: `NollMatch`, `NollTerms`, `NollPreds`,
`NollScript`, `NollLemma`, `NollGraph2TA`, `NollPred2TA`, `NollPred2TAGen`,
`NollUnfold`, `NollAutomata`.

## 6. What is not modelled

- Data constraints beyond their places in terms and rules: an atom between data
  is kept whole and has no meaning here. Inclusions between set terms in `NollSat`.
- Doubly linked and nested predicates in the homomorphism search, and the search
  with the automata in it.
- In the automata: the texts of symbols, printing, the disequalities that the
  general translation puts into symbols, predicates in two directions other than
  `dll`, and libvata, which is not part of the sources and is taken to decide inclusion.
- Dead code: `noll2bool.c` and `noll_lemma_init_lseg`, `_list`, `_bst`, `_bsthole`,
  `_slist`, `_slseg` are called from nowhere.
- `noll_normalize_iter`, diagnosis, options and printing; how sorts are registered by name.
- The vendored solver and parser, represented by the answers and the order of
  calls the code relies on.
