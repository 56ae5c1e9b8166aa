---------------------------- MODULE NollNormalize ----------------------------
(***************************************************************************)
(* Normalisation of one formula (noll_norm.c): the atoms of the formula    *)
(* are added to the pure matrix, the boolean abstraction F is written to a *)
(* file (noll2sat.c), a SAT solver decides F, and then for every unknown   *)
(* pair of used variables two queries under an assumption are written to a *)
(* second file.  One run of the incremental solver answers them, a line    *)
(* each, and the lines are read back in the order of the queries.          *)
(*                                                                         *)
(* The solvers are external: a query is answered UNSAT exactly when no     *)
(* model of F satisfies the assumption, but the incremental solver may     *)
(* stop early (interrupt, memory) and leave only the first lines.  What    *)
(* the spatial and sharing parts of the formula add to F is an arbitrary   *)
(* set of interpretations from SpatialModels.                              *)
(***************************************************************************)
EXTENDS NollMatrix, Sequences, FiniteSets

CONSTANTS
  Records,        \* the record types, without NOLL_TYP_VOID
  SpatialModels,  \* the sets of interpretations the rest of F may allow
  SpatialVars,    \* the sets of variables the rest of the formula may use
  MaxAtoms        \* bound: at most so many different atoms are added

ASSUME NormalizeAssumption == /\ "void" \notin Records
                              /\ SpatialModels \subseteq SUBSET Interpretation
                              /\ SpatialVars \subseteq SUBSET Var
                              /\ MaxAtoms \in Nat

VARIABLES
  m, kind,    \* form->pure->m and form->kind
  rec,        \* noll_var_record: the type of each variable, nil is void
  asserted,   \* history: the atoms of the formula
  spatial,    \* history: the interpretations the rest of F allows
  phase,      \* where noll_normalize is
  used,       \* finfo->used_lvar
  models,     \* the models of F, as it was when the file was written
  todo,       \* the pairs (i,j) the query loop has not visited yet
  atoms,      \* the pairs queried, the ones not read yet
  queries,    \* file inc_: [op |-> "eq"] asks whether the pair is equal
  results,    \* file results_: the lines not read yet, TRUE for UNSAT
  line,       \* the line of the current atom to be read, 1 or 2
  truncated   \* history: the solver wrote fewer lines than queries

vars == <<m, kind, rec, asserted, spatial, phase, used, models, todo, atoms,
          queries, results, line, truncated>>

Phase == {"build", "query", "solve", "read", "done"}

Pairs == {x \in Cell : x[1] < x[2]}

Query == [op : {"eq", "neq"}, cell : Pairs]

TypeOK == /\ m \in [Cell -> Op]
          /\ kind \in Kind
          /\ rec \in [Var -> Records \union {"void"}]
          /\ asserted \subseteq Atom
          /\ spatial \subseteq Interpretation
          /\ phase \in Phase
          /\ used \subseteq Var
          /\ models \subseteq Interpretation
          /\ todo \subseteq Pairs
          /\ atoms \in Seq(Pairs)
          /\ queries \in Seq(Query)
          /\ results \in Seq(BOOLEAN)
          /\ line \in {1, 2}
          /\ truncated \in BOOLEAN

-----------------------------------------------------------------------------
Init == /\ m = PureNew
        /\ kind = "valid"
        /\ rec \in {r \in [Var -> Records \union {"void"}] :
                      \A x \in Var : r[x] = "void" <=> x = 0}
        /\ asserted = {}
        /\ spatial = {}
        /\ phase = "build"
        /\ used = {}
        /\ models = {}
        /\ todo = {}
        /\ atoms = <<>>
        /\ queries = <<>>
        /\ results = <<>>
        /\ line = 1
        /\ truncated = FALSE

(* The translation of the formula adds its atoms (noll_form.c).            *)
BuildEq(x, y) ==
  /\ phase = "build" /\ kind # "unsat" /\ x # y
  /\ m' = AddEqMatrix(m, x, y)
  /\ kind' = AddEqKind(m, x, y)
  /\ asserted' = asserted \union {[op |-> "eq", x |-> Lo(x, y), y |-> Hi(x, y)]}
  /\ Cardinality(asserted') <= MaxAtoms
  /\ UNCHANGED <<rec, spatial, phase, used, models, todo, atoms, queries,
                 results, line, truncated>>

BuildNeq(x, y) ==
  /\ phase = "build" /\ kind # "unsat" /\ x # y
  /\ m' = AddNeqMatrix(m, x, y)
  /\ kind' = AddNeqKind(m, x, y)
  /\ asserted' = asserted \union {[op |-> "neq", x |-> Lo(x, y), y |-> Hi(x, y)]}
  /\ Cardinality(asserted') <= MaxAtoms
  /\ UNCHANGED <<rec, spatial, phase, used, models, todo, atoms, queries,
                 results, line, truncated>>

(* An atom over one variable is decided at once: x = x adds nothing, and   *)
(* x # x makes the form UNSAT.                                             *)
BuildSame(op, x) ==
  /\ phase = "build" /\ kind # "unsat"
  /\ kind' = IF op = "eq" THEN "sat" ELSE "unsat"
  /\ asserted' = asserted \union {[op |-> op, x |-> x, y |-> x]}
  /\ Cardinality(asserted') <= MaxAtoms
  /\ UNCHANGED <<m, rec, spatial, phase, used, models, todo, atoms, queries,
                 results, line, truncated>>

(* noll2sat_info: nil, and every variable with a known (dis)equality, is   *)
(* used; the spatial part may use any others.                              *)
PureUsed == {0} \union UNION {{x[1], x[2]} : x \in {y \in Pairs : m[y] # "other"}}

(* Two record types, none of them void, differ. *)
TypedApart(x) ==
  /\ rec[x[1]] # "void" /\ rec[x[2]] # "void"
  /\ rec[x[1]] # rec[x[2]]

(* noll2sat_pure: the known entries, and a disequality for any two         *)
(* variables of different record types.                                    *)
PureModels(U) ==
  {v \in Interpretation :
     \A x \in {y \in Pairs : y[1] \in U /\ y[2] \in U} :
       /\ m[x] = "eq"  => v[x[1]] = v[x[2]]
       /\ m[x] = "neq" => v[x[1]] # v[x[2]]
       /\ TypedApart(x) => v[x[1]] # v[x[2]]}

(* noll_normalize up to the test of satisfiability: a form that is already *)
(* UNSAT is left alone; an unsatisfiable F only changes the kind.          *)
NothingToDo ==
  /\ phase = "build" /\ kind = "unsat"
  /\ phase' = "done"
  /\ UNCHANGED <<m, kind, rec, asserted, spatial, used, models, todo, atoms,
                 queries, results, line, truncated>>

Encode(U, S) ==
  /\ phase = "build" /\ kind # "unsat"
  /\ used' = PureUsed \union U
  /\ spatial' = S
  /\ models' = S \intersect PureModels(used')
  /\ IF models' = {}
     THEN kind' = "unsat" /\ phase' = "done" /\ todo' = {}
     ELSE kind' = kind /\ phase' = "query"
          /\ todo' = {x \in Pairs : x[1] \in used' /\ x[2] \in used'}
  /\ UNCHANGED <<m, rec, asserted, atoms, queries, results, line, truncated>>

-----------------------------------------------------------------------------
(* noll_normalize_incr.                                                    *)

(* The order of the two nested loops over i < j. *)
Before(x, y) == x[1] < y[1] \/ (x[1] = y[1] /\ x[2] < y[2])

First == CHOOSE x \in todo : \A y \in todo \ {x} : Before(x, y)

(* MUTANTS of Questions: the order of the lines of one atom is reversed;   *)
(* the same question is asked twice.                                       *)
QuestionsSwapped(x) == << [op |-> "neq", cell |-> x], [op |-> "eq", cell |-> x] >>
QuestionsTwice(x) == << [op |-> "eq", cell |-> x], [op |-> "eq", cell |-> x] >>

(* The lines written for a pair: is it equal, is it different? *)
Questions(x) == << [op |-> "eq", cell |-> x], [op |-> "neq", cell |-> x] >>

(* A known pair is skipped; two variables of different types are made      *)
(* different without the closure; any other pair is queried: first under   *)
(* the assumption that it differs, then under the assumption that it does  *)
(* not.                                                                    *)
QueryPair ==
  /\ phase = "query" /\ todo # {}
  /\ LET x == First IN
       /\ todo' = todo \ {x}
       /\ IF m[x] = "other" /\ TypedApart(x)
          THEN m' = [m EXCEPT ![x] = "neq"] /\ UNCHANGED <<atoms, queries>>
          ELSE IF m[x] = "other"
               THEN /\ atoms' = Append(atoms, x)
                    /\ queries' = queries \o Questions(x)
                    /\ UNCHANGED m
               ELSE UNCHANGED <<m, atoms, queries>>
  /\ UNCHANGED <<kind, rec, asserted, spatial, phase, used, models, results,
                 line, truncated>>

(* MUTANT of QueryEnd: the last pair of the loop is left out. *)
QueryEndEarly ==
  /\ phase = "query" /\ Cardinality(todo) <= 1
  /\ phase' = "solve"
  /\ UNCHANGED <<m, kind, rec, asserted, spatial, used, models, todo, atoms,
                 queries, results, line, truncated>>

QueryEnd ==
  /\ phase = "query" /\ todo = {}
  /\ phase' = "solve"
  /\ UNCHANGED <<m, kind, rec, asserted, spatial, used, models, todo, atoms,
                 queries, results, line, truncated>>

(* External: minisat_inc answers UNSAT when F and the assumption, the      *)
(* negation of what is asked, have no model.                               *)
Answer(q) ==
  \A v \in models : Holds(v, [op |-> q.op, x |-> q.cell[1], y |-> q.cell[2]])

Solve(n) ==
  /\ phase = "solve"
  /\ results' = [i \in 1 .. n |-> Answer(queries[i])]
  /\ truncated' = (n < Len(queries))
  /\ phase' = "read"
  /\ UNCHANGED <<m, kind, rec, asserted, spatial, used, models, todo, atoms,
                 queries, line>>

(* The first line of an atom: UNSAT means that the variables are equal. *)
ReadEq ==
  /\ phase = "read" /\ line = 1 /\ atoms # <<>> /\ results # <<>>
  /\ results' = Tail(results)
  /\ LET x == Head(atoms) IN
       IF Head(results)
       THEN /\ m' = AddEqMatrix(m, x[1], x[2])
            /\ kind' = AddEqKind(m, x[1], x[2])
            /\ phase' = IF kind' = "unsat" THEN "done" ELSE phase
       ELSE UNCHANGED <<m, kind, phase>>
  /\ line' = 2
  /\ UNCHANGED <<rec, asserted, spatial, used, models, todo, atoms, queries,
                 truncated>>

(* MUTANT of ReadNeq: the counter of the lines is not reset. *)
ReadNeqNoReset ==
  /\ phase = "read" /\ line = 2 /\ atoms # <<>> /\ results # <<>>
  /\ results' = Tail(results)
  /\ line' = line + 1
  /\ atoms' = Tail(atoms)
  /\ UNCHANGED <<m, kind, rec, asserted, spatial, phase, used, models, todo,
                 queries, truncated>>

(* The second line: UNSAT means that they are different. *)
ReadNeq ==
  /\ phase = "read" /\ line = 2 /\ atoms # <<>> /\ results # <<>>
  /\ results' = Tail(results)
  /\ LET x == Head(atoms) IN
       IF Head(results)
       THEN /\ m' = AddNeqMatrix(m, x[1], x[2])
            /\ kind' = AddNeqKind(m, x[1], x[2])
            /\ phase' = IF kind' = "unsat" THEN "done" ELSE phase
       ELSE UNCHANGED <<m, kind, phase>>
  /\ line' = 1
  /\ atoms' = Tail(atoms)
  /\ UNCHANGED <<rec, asserted, spatial, used, models, todo, queries, truncated>>

(* getline fails on either line: the rest of the atom is passed over. *)
ReadMissing ==
  /\ phase = "read" /\ atoms # <<>> /\ results = <<>>
  /\ atoms' = Tail(atoms)
  /\ line' = 1
  /\ UNCHANGED <<m, kind, rec, asserted, spatial, phase, used, models, todo,
                 queries, results, truncated>>

ReadEnd ==
  /\ phase = "read" /\ atoms = <<>>
  /\ phase' = "done"
  /\ UNCHANGED <<m, kind, rec, asserted, spatial, used, models, todo, atoms,
                 queries, results, line, truncated>>

(* noll_normalize has returned. *)
Returned == phase = "done" /\ UNCHANGED vars

Next == \/ \E x, y \in Var : BuildEq(x, y) \/ BuildNeq(x, y)
        \/ \E op \in {"eq", "neq"}, x \in Var : BuildSame(op, x)
        \/ NothingToDo
        \/ \E U \in SpatialVars, S \in SpatialModels : Encode(U, S)
        \/ QueryPair \/ QueryEnd
        \/ \E n \in 0 .. Len(queries) : Solve(n)
        \/ ReadEq \/ ReadNeq \/ ReadMissing \/ ReadEnd
        \/ Returned

Spec == Init /\ [][Next]_vars

-----------------------------------------------------------------------------
(* Whatever was read so far, and however early the solver stopped, every   *)
(* entry of the matrix holds in every model of F: the answers are matched  *)
(* with the atoms they belong to (noll_normalize_incr reads two lines per  *)
(* atom and nothing else ties a line to its atom).                         *)
EntriesHold == \A v \in models : Agrees(v, m)

(* Normalising a formula whose abstraction is satisfiable never makes it   *)
(* UNSAT: the two answers of one atom, and the closures of different       *)
(* atoms, do not contradict each other (the early exits of                 *)
(* noll_normalize_incr are never taken).                                   *)
StaysSat == models # {} => kind # "unsat"

(* With all answers there, nothing that F implies about two used variables *)
(* is left unknown; the homomorphism check relies on it.                   *)
Complete ==
  (phase = "done" /\ models # {} /\ ~truncated) =>
    \A x \in {y \in Pairs : y[1] \in used /\ y[2] \in used} :
      /\ (\A v \in models : v[x[1]] = v[x[2]]) => m[x] = "eq"
      /\ (\A v \in models : v[x[1]] # v[x[2]]) => m[x] = "neq"

=============================================================================
