------------------------------- MODULE NollSat -------------------------------
(***************************************************************************)
(* The boolean abstraction F of a formula (noll2sat.c): the boolean        *)
(* variables, kept in sorted tables that are searched by bisection, and    *)
(* the clauses, written to a DIMACS file stage by stage; each stage is an  *)
(* action.  F is compared with the heaps of NollHeaps.                     *)
(*                                                                         *)
(* A formula is [space, pure, share]: atoms as in NollGraph, a matrix, and *)
(* a set of atoms [kind |-> "in" or "ni", x, terms] with a sequence of     *)
(* terms [kind |-> "lvar", var] and [kind |-> "svar", svar].  Every        *)
(* predicate atom is indexed by a set variable of its own, which has the   *)
(* number of the atom and no element type; all variables are locations;    *)
(* the atoms are strongly separated.  Inclusions of terms, projections and *)
(* predicates with one location are not modelled.                          *)
(*                                                                         *)
(* The number of a boolean variable is the start of its table plus its     *)
(* position; here it is the table and the position.  The number 0 means    *)
(* "not encoded", and ends a clause wherever it is written.                *)
(***************************************************************************)
EXTENDS NollHeaps

CONSTANTS
  Forms,      \* the formulas to be encoded
  Rec,        \* noll_var_record of each variable, 0 (void) for nil
  SrcRec,     \* the record each field starts from
  TypeInfo    \* pid -> [ptype0, ptypes, border, twodir]: what typing found

(* Records, fields, predicates and atoms have numbers; a points-to atom    *)
(* names a field once, and the terms of sharing constraints are not nil.   *)
AtomOK(at) ==
  IF at.kind = "pto"
  THEN /\ at.src \in Var /\ at.fields \in Seq(Int \X Var)
       /\ \A k, l \in DOMAIN at.fields : at.fields[k][1] = at.fields[l][1] => k = l
  ELSE /\ at.kind = "ls" /\ at.pid \in DOMAIN Preds
       /\ at.args \in Seq(Var) /\ Len(at.args) = Preds[at.pid].fargs

ShareOK(sp, a) ==
  /\ a.x \in Var \ {0} /\ a.kind \in {"in", "ni"}
  /\ a.terms \in Seq(Range(a.terms))
  /\ \A k \in DOMAIN a.terms :
       LET t == a.terms[k]
       IN  IF t.kind = "lvar" THEN t.var \in Var \ {0}
           ELSE t.kind = "svar" /\ t.svar \in DOMAIN sp /\ sp[t.svar].kind = "ls"

PredOK(pid) ==
  /\ pid \in Int
  /\ Preds[pid].fields \subseteq Int /\ IsFiniteSet(Preds[pid].fields)
  /\ TypeInfo[pid].twodir \in BOOLEAN
  /\ Preds[pid].fargs \in Nat /\ Preds[pid].fargs >= IF TypeInfo[pid].twodir THEN 4 ELSE 2

ASSUME SatAssumption ==
  /\ IsFiniteSet(Location)
  /\ \A pid \in DOMAIN Preds : PredOK(pid)
  /\ \A f \in Forms : /\ f.space \in Spaces /\ f.space \in Seq(Range(f.space))
                      /\ \A i \in DOMAIN f.space : AtomOK(f.space[i])
                      /\ f.pure \in [Cell -> Op]
                      /\ \A a \in f.share : ShareOK(f.space, a)

VARIABLES
  form,       \* the formula
  pc,         \* the function noll2sat calls next
  fsat,       \* the used variables and the tables
  clauses     \* the clauses in the file

vars == <<form, pc, fsat, clauses>>

UintMax == 2147483647   \* stands for the largest unsigned number
Zero    == <<"zero", 0, 0>>
Crash   == <<"crash", 0, 0>>

Pos(b) == <<TRUE, b>>
Neg(b) == <<FALSE, b>>

PtoAtoms(f)  == {i \in DOMAIN f.space : f.space[i].kind = "pto"}
PredAtoms(f) == {i \in DOMAIN f.space : f.space[i].kind = "ls"}
In(f, i)     == f.space[i].args[1]
Out(f, i)    == f.space[i].args[2]
TwoDir(f, i) == TypeInfo[f.space[i].pid].twodir

-----------------------------------------------------------------------------
(* Tables: sequences of [key, atom, idx], sorted by key.                   *)
KeyLess(a, b) == \E k \in DOMAIN a : a[k] < b[k] /\ \A l \in 1 .. k - 1 : a[l] = b[l]

Ascending(S) == Ranked(S, {c \in S \X S : c[1] < c[2]})

(* Entries with the same key are left in the order of their atoms; no      *)
(* clause depends on which of them comes first.                            *)
EntryOrder(entries) ==
  {c \in entries \X entries :
     \/ KeyLess(c[1].key, c[2].key)
     \/ /\ c[1].key = c[2].key
        /\ KeyLess(<<c[1].atom, c[1].idx>>, <<c[2].atom, c[2].idx>>)}

(* noll_sat_space_array_sort *)
SortTable(entries) == Ranked(entries, EntryOrder(entries))

(* The loop of noll_sat_space_array_bsearch and noll_sat_in_array_bsearch: *)
(* positions count from 0, and max wraps around below 0, after which the   *)
(* next position is outside of the table.                                  *)
Middle(b) == b.min + ((b.max - b.min) \div 2)

Turn(keys, key, b) ==
  LET pos == Middle(b)
  IN  IF b.min >= b.max \/ pos >= Len(keys) THEN b
      ELSE IF KeyLess(keys[pos + 1], key) THEN [min |-> pos + 1, max |-> b.max]
      ELSE IF KeyLess(key, keys[pos + 1])
           THEN [min |-> b.min, max |-> IF pos = 0 THEN UintMax ELSE pos - 1]
      ELSE [min |-> pos, max |-> pos]

(* Each turn makes the interval smaller, so this many turns are enough.    *)
Bisect(keys, key) ==
  LET after[n \in 0 .. Len(keys)] ==
        IF n = 0 THEN [min |-> 0, max |-> Len(keys) - 1] ELSE Turn(keys, key, after[n - 1])
  IN  after[Len(keys)]

(* The position of the key, or the number of keys for "unknown". *)
Bsearch(keys, key) ==
  IF keys = <<>> THEN 0
  ELSE LET b == Bisect(keys, key)
       IN  IF b.min < b.max THEN UintMax
           ELSE IF keys[b.min + 1] = key THEN b.min
           ELSE Len(keys)

Keys(table) == [i \in DOMAIN table |-> table[i].key]

(* noll2sat_get_bvar_pto, _pred, _apto and _in, by the name of the table.  *)
GetBvar(fs, name, key) ==
  LET pos == Bsearch(Keys(fs[name]), key)
  IN  IF pos < Len(fs[name]) THEN <<name, pos, 0>>
      ELSE IF pos = UintMax THEN Crash ELSE Zero

(* noll2sat_get_bvar_eq: there is a variable only if both are used. *)
GetBvarEq(fs, x, y) == IF {x, y} \subseteq fs.used THEN <<"eq", Hi(x, y), Lo(x, y)>> ELSE Zero

GetBvarIn(fs, x, alpha) == GetBvar(fs, "inset", <<x, alpha>>)

KeyPto(f, i, k) == <<f.space[i].src, f.space[i].fields[k][1]>>
KeyPred(f, i)   == <<In(f, i), f.space[i].pid, i>>

GetBvarPto(fs, f, i, k) == GetBvar(fs, "pto", KeyPto(f, i, k))
GetBvarPred(fs, f, i)   == GetBvar(fs, "pred", KeyPred(f, i))

-----------------------------------------------------------------------------
(* noll2sat_info: the variables and set variables the formula uses.        *)
AtomVars(at) ==
  IF at.kind = "pto" THEN {at.src} \union {at.fields[k][2] : k \in DOMAIN at.fields}
  ELSE Range(at.args)

UsedVars(f) ==
  {0} \union (UNION {{x[1], x[2]} : x \in {c \in Cell : c[1] < c[2] /\ f.pure[c] # "other"}})
      \union (UNION {AtomVars(f.space[i]) : i \in DOMAIN f.space})
      \union {a.x : a \in f.share}
      \union UNION {{t.var : t \in {u \in Range(a.terms) : u.kind = "lvar"}} : a \in f.share}

UsedSets(f) ==
  PredAtoms(f) \union
    UNION {{t.svar : t \in {u \in Range(a.terms) : u.kind = "svar"}} : a \in f.share}

(* Entries for a variable x other than nil, a field fd of a predicate that *)
(* starts from the record of x, and the predicate atom.                    *)
AptoFields(f, x, i) == {fd \in Preds[f.space[i].pid].fields : SrcRec[fd] = Rec[x]}

(* MUTANT of InsetKeys: the last variable has no entry. *)
InsetKeysShort(f) == (UsedVars(f) \ {0, Size - 1}) \X UsedSets(f)

InsetKeys(f) == (UsedVars(f) \ {0}) \X UsedSets(f)

(* noll2sat_fill_bvar_pto, _pred, _apto and _in *)
PtoEntries(f) ==
  UNION {{[key |-> KeyPto(f, i, k), atom |-> i, idx |-> k] : k \in DOMAIN f.space[i].fields} :
           i \in PtoAtoms(f)}

PredEntries(f) == {[key |-> KeyPred(f, i), atom |-> i, idx |-> 0] : i \in PredAtoms(f)}

AptoEntries(f) ==
  UNION {{[key |-> <<c[1], fd, c[2]>>, atom |-> c[2], idx |-> 0] : fd \in AptoFields(f, c[1], c[2])} :
           c \in (UsedVars(f) \ {0}) \X PredAtoms(f)}

InsetEntries(f) == {[key |-> c, atom |-> c[2], idx |-> 0] : c \in InsetKeys(f)}

(* noll2sat_fill_bvar *)
FillBvar(f) ==
  [used  |-> UsedVars(f),
   sets  |-> UsedSets(f),
   pto   |-> SortTable(PtoEntries(f)),
   pred  |-> SortTable(PredEntries(f)),
   apto  |-> SortTable(AptoEntries(f)),
   inset |-> SortTable(InsetEntries(f))]

(* type_in_pred_of_svar: 1 if the predicate of the set variable covers the *)
(* record.  Its second comparison is with the flags of ptypes, not with    *)
(* the records they stand for, and its last return, 0 for a record that is *)
(* not covered, is never reached: the loop before it has no break.         *)
TypeInPred(f, r, alpha) ==
  IF /\ alpha \in PredAtoms(f)
     /\ \/ r = TypeInfo[f.space[alpha].pid].ptype0
        \/ r \in Range(TypeInfo[f.space[alpha].pid].ptypes)
  THEN 1 ELSE -1

-----------------------------------------------------------------------------
(* The stages.  A line is a sequence of literals; the order in which lines *)
(* are written does not matter, so a stage gives a set of lines.           *)

(* noll2sat_pure: reflexivity, the entries of the matrix, different        *)
(* records, and transitivity.                                              *)
PureLines(f, fs) ==
  LET Eq(x, y) == GetBvarEq(fs, x, y)
      pairs    == {c \in fs.used \X fs.used : c[1] < c[2]}
      apart(c) == Rec[c[1]] # 0 /\ Rec[c[2]] # 0 /\ Rec[c[1]] # Rec[c[2]]
  IN  {<<Pos(Eq(i, i))>> : i \in fs.used}
        \union {<<Pos(Eq(c[1], c[2]))>> : c \in {d \in pairs : f.pure[d] = "eq"}}
        \union {<<Neg(Eq(c[1], c[2]))>> : c \in {d \in pairs : f.pure[d] = "neq" \/ apart(d)}}
        \union {<<Neg(Eq(c[1], k)), Neg(Eq(c[2], k)), Pos(Eq(c[1], c[2]))>> :
                  c \in pairs, k \in fs.used}

(* noll2sat_space_aux, for one atom: a points-to holds; a segment is not   *)
(* empty exactly when its ends differ.                                     *)
AtomLines(f, fs, i) ==
  LET Eq(x, y) == GetBvarEq(fs, x, y)
      xor(e)   == {<<Pos(GetBvarPred(fs, f, i)), Pos(e)>>, <<Neg(GetBvarPred(fs, f, i)), Neg(e)>>}
      arg(k)   == f.space[i].args[k]
  IN  IF f.space[i].kind = "pto"
      THEN {<<Pos(GetBvarPto(fs, f, i, k))>> : k \in DOMAIN f.space[i].fields}
      ELSE IF TwoDir(f, i) THEN xor(Eq(In(f, i), arg(4))) \union xor(Eq(Out(f, i), arg(3)))
      ELSE xor(Eq(In(f, i), Out(f, i)))

(* noll2sat_space_sep, for the atom i and a later atom j. *)
SepLines(f, fs, i, j) ==
  LET Eq(x, y)   == GetBvarEq(fs, x, y)
      empty(k)   == Pos(Eq(In(f, k), Out(f, k)))
      ptoLs(p, l) ==
        {<<Neg(Eq(f.space[p].src, In(f, l))), empty(l)>>} \union
          IF TwoDir(f, l) THEN {<<Neg(Eq(f.space[p].src, Out(f, l))), Neg(GetBvarPred(fs, f, l))>>}
          ELSE {}
  IN  CASE f.space[i].kind = "pto" /\ f.space[j].kind = "pto" ->
             {<<Neg(Eq(f.space[i].src, f.space[j].src))>>}
        [] f.space[i].kind = "pto" /\ f.space[j].kind = "ls" -> ptoLs(i, j)
        [] f.space[i].kind = "ls" /\ f.space[j].kind = "pto" -> ptoLs(j, i)
        [] OTHER ->
             {<<Neg(GetBvarIn(fs, x, i)), Neg(GetBvarIn(fs, x, j))>> : x \in fs.used \ {0}}
               \union {<<Neg(Eq(In(f, i), In(f, j))), empty(i), empty(j)>>}

(* noll2sat_space *)
SpaceLines(f, fs) ==
  (UNION {AtomLines(f, fs, i) : i \in DOMAIN f.space}) \union
    UNION {SepLines(f, fs, c[1], c[2]) :
             c \in {d \in (DOMAIN f.space) \X (DOMAIN f.space) : d[1] < d[2]}}

(* MUTANT of SourceLines: the empty segments have their source, too. *)
SourceLinesAll(f, fs) == {<<Pos(GetBvarIn(fs, In(f, i), i))>> : i \in PredAtoms(f)}

(* noll2sat_membership: a segment contains its source. *)
SourceLines(f, fs) ==
  {<<Neg(GetBvarPred(fs, f, i)), Pos(GetBvarIn(fs, In(f, i), i))>> : i \in PredAtoms(f)}

(* noll2sat_membership: no variable is in a set whose predicate does not   *)
(* cover its record.                                                       *)
OutLines(f, fs) ==
  {<<Neg(GetBvarIn(fs, c[1], c[2]))>> :
     c \in {d \in (fs.used \ {0}) \X fs.sets : TypeInPred(f, Rec[d[1]], d[2]) = 0}}

(* noll2sat_membership: members are in nonempty segments. *)
InsideLines(f, fs) ==
  {<<Neg(GetBvarIn(fs, x, i)), Pos(GetBvarPred(fs, f, i))>> : x \in fs.used \ {0}, i \in PredAtoms(f)}

(* noll2sat_membership: equal variables are members of the same sets.      *)
EqualLines(f, fs) ==
  {<<Neg(GetBvarEq(fs, c[1], c[2])), Neg(GetBvarIn(fs, c[1], c[3])), Pos(GetBvarIn(fs, c[2], c[3]))>> :
     c \in {d \in (fs.used \ {0}) \X (fs.used \ {0}) \X fs.sets :
              /\ d[2] < d[1]
              /\ Rec[d[1]] = Rec[d[2]]
              /\ TypeInPred(f, Rec[d[1]], d[3]) # 0}}

(* noll2sat_membership: members have an outgoing field. *)
FieldLine(f, fs, x, i) ==
  LET fields == Ascending(AptoFields(f, x, i))
  IN  <<Neg(GetBvarIn(fs, x, i))>> \o
        [k \in DOMAIN fields |-> Pos(GetBvar(fs, "apto", <<x, fields[k], i>>))]

FieldLines(f, fs) ==
  {FieldLine(f, fs, c[1], c[2]) :
     c \in {d \in (fs.used \ {0}) \X PredAtoms(f) :
              TypeInPred(f, Rec[d[1]], d[2]) # 0 /\ AptoFields(f, d[1], d[2]) # {}}}

MemberLines(f, fs) ==
  OutLines(f, fs) \union InsideLines(f, fs) \union EqualLines(f, fs) \union FieldLines(f, fs)

(* MUTANT of NilLines: positions are taken to count from 1. *)
NilLinesOff(fs) ==
  {<<Neg(GetBvarEq(fs, fs.apto[i].key[1], 0)), Neg(<<"apto", i, 0>>)>> : i \in DOMAIN fs.apto}

(* MUTANT of NilLines: only the cells inside of segments are not nil. *)
NilLinesApto(fs) ==
  {<<Neg(GetBvarEq(fs, fs.apto[i].key[1], 0)), Neg(<<"apto", i - 1, 0>>)>> : i \in DOMAIN fs.apto}

(* noll2sat_det_apto_nil and noll2sat_det_pto_nil *)
NilLines(fs) ==
  {<<Neg(GetBvarEq(fs, fs.apto[i].key[1], 0)), Neg(<<"apto", i - 1, 0>>)>> : i \in DOMAIN fs.apto}
    \union {<<Neg(<<"pto", i - 1, 0>>), Neg(GetBvarEq(fs, fs.pto[i].key[1], 0))>> :
              i \in DOMAIN fs.pto}

(* noll2sat_det_pto_pto: of two points-to atoms from equal variables       *)
(* exactly one holds.                                                      *)
PtoPtoLines(fs) ==
  LET Same(i, j) == Neg(GetBvarEq(fs, fs.pto[i].key[1], fs.pto[j].key[1]))
      pairs == {c \in (DOMAIN fs.pto) \X (DOMAIN fs.pto) :
                  c[1] < c[2] /\ fs.pto[c[1]].key[2] = fs.pto[c[2]].key[2]}
  IN  UNION {{<<Same(c[1], c[2]), Pos(<<"pto", c[1] - 1, 0>>), Pos(<<"pto", c[2] - 1, 0>>)>>,
              <<Same(c[1], c[2]), Neg(<<"pto", c[1] - 1, 0>>), Neg(<<"pto", c[2] - 1, 0>>)>>} :
               c \in pairs}

(* noll2sat_det_apto_apto: for different atoms and different variables. *)
AptoAptoLines(fs) ==
  LET pairs == {c \in (DOMAIN fs.apto) \X (DOMAIN fs.apto) :
                  /\ c[1] < c[2]
                  /\ fs.apto[c[1]].key[2] = fs.apto[c[2]].key[2]
                  /\ fs.apto[c[1]].atom # fs.apto[c[2]].atom
                  /\ fs.apto[c[1]].key[1] # fs.apto[c[2]].key[1]}
  IN  {<<Neg(GetBvarEq(fs, fs.apto[c[1]].key[1], fs.apto[c[2]].key[1])),
         Neg(<<"apto", c[1] - 1, 0>>), Neg(<<"apto", c[2] - 1, 0>>)>> : c \in pairs}

(* noll2sat_det_pto_apto *)
PtoAptoLines(fs) ==
  {<<Neg(GetBvarEq(fs, fs.pto[c[1]].key[1], fs.apto[c[2]].key[1])),
     Neg(<<"pto", c[1] - 1, 0>>), Neg(<<"apto", c[2] - 1, 0>>)>> :
     c \in {d \in (DOMAIN fs.pto) \X (DOMAIN fs.apto) :
              fs.pto[d[1]].key[2] = fs.apto[d[2]].key[2]}}

(* noll2sat_det_pto_pred: a variable equal to the source of a points-to is *)
(* in a set only if exactly one of the two atoms holds.                    *)
PtoPredLines(f, fs) ==
  LET Pid(j)  == f.space[fs.pred[j].atom].pid
      cases   == {c \in (DOMAIN fs.pto) \X (DOMAIN fs.pred) \X fs.used :
                    /\ fs.pto[c[1]].key[2] \in TypeInfo[Pid(c[2])].border
                    /\ Rec[fs.pto[c[1]].key[1]] = Rec[c[3]]}
      If(c)   == <<Neg(GetBvarEq(fs, fs.pto[c[1]].key[1], c[3])),
                   Neg(GetBvarIn(fs, c[3], fs.pred[c[2]].atom))>>
  IN  UNION {{If(c) \o <<Pos(<<"pto", c[1] - 1, 0>>), Pos(<<"pred", c[2] - 1, 0>>)>>,
              If(c) \o <<Neg(<<"pto", c[1] - 1, 0>>), Neg(<<"pred", c[2] - 1, 0>>)>>} : c \in cases}

(* noll2sat_det_pred_pred: for predicates with a common border field; the  *)
(* record of the second one is never looked at.                            *)
PredPredLines(f, fs) ==
  LET Info(j) == TypeInfo[f.space[fs.pred[j].atom].pid]
      cases   == {c \in (DOMAIN fs.pred) \X (DOMAIN fs.pred) \X (fs.used \ {0}) \X (fs.used \ {0}) :
                    /\ c[1] < c[2]
                    /\ Info(c[1]).border \intersect Info(c[2]).border # {}
                    /\ c[4] <= c[3]
                    /\ Rec[c[3]] = Rec[c[4]]
                    /\ Rec[c[3]] = Info(c[1]).ptype0}
  IN  {<<Neg(GetBvarIn(fs, c[3], fs.pred[c[1]].atom)), Neg(GetBvarIn(fs, c[4], fs.pred[c[2]].atom)),
         Neg(GetBvarEq(fs, c[3], c[4])),
         Neg(<<"pred", c[1] - 1, 0>>), Neg(<<"pred", c[2] - 1, 0>>)>> : c \in cases}

(* noll2sat_det *)
DetLines(f, fs) ==
  NilLines(fs) \union PtoPtoLines(fs) \union AptoAptoLines(fs) \union PtoAptoLines(fs)
    \union PtoPredLines(f, fs) \union PredPredLines(f, fs)

(* noll2sat_share_in: a term of another record is passed over. *)
Useful(f, x, t) ==
  IF t.kind = "lvar" THEN Rec[x] = Rec[t.var] ELSE TypeInPred(f, Rec[x], t.svar) = 1

TermBvar(fs, x, t) ==
  IF t.kind = "lvar" THEN GetBvarEq(fs, x, t.var) ELSE GetBvarIn(fs, x, t.svar)

(* noll2sat_share_in: x is in one of the terms. *)
ShareIn(f, fs, x, terms) ==
  LET at == Ascending({k \in DOMAIN terms : Useful(f, x, terms[k])})
  IN  [k \in DOMAIN at |-> Pos(TermBvar(fs, x, terms[at[k]]))]

(* noll2sat_share, without inclusions. *)
ShareLines(f, fs) ==
  {ShareIn(f, fs, a.x, a.terms) : a \in {b \in f.share : b.kind = "in"}}
    \union UNION {{<<Neg(TermBvar(fs, a.x, t))>> : t \in Range(a.terms)} :
                    a \in {b \in f.share : b.kind = "ni"}}

-----------------------------------------------------------------------------
(* What the solver reads from a line: a clause ends at each number 0, the  *)
(* one at the end of the line and every variable that is not encoded.      *)
ClausesOf(line) ==
  LET ends     == {k \in DOMAIN line : line[k][2] = Zero} \union {Len(line) + 1}
      start(e) == 1 + CHOOSE d \in ends \union {0} :
                        d < e /\ \A k \in ends \union {0} : k < e => k <= d
  IN  {{line[k] : k \in start(e) .. e - 1} : e \in ends}

Write(lines, next) ==
  IF \E line \in lines : \E k \in DOMAIN line : line[k][2] = Crash
  THEN pc' = "crash" /\ UNCHANGED <<form, fsat, clauses>>
  ELSE /\ pc' = next
       /\ clauses' = clauses \union UNION {ClausesOf(line) : line \in lines}
       /\ UNCHANGED <<form, fsat>>

Init == /\ pc = "fill"
        /\ form \in Forms
        /\ fsat = [used |-> {}, sets |-> {}, pto |-> <<>>, pred |-> <<>>, apto |-> <<>>, inset |-> <<>>]
        /\ clauses = {}

(* noll2sat calls the stages in this order. *)
Fill       == /\ pc = "fill"
              /\ pc' = "pure"
              /\ fsat' = FillBvar(form)
              /\ UNCHANGED <<form, clauses>>
Pure       == pc = "pure" /\ \E lines \in {PureLines(form, fsat)} : Write(lines, "space")
Space      == pc = "space" /\ \E lines \in {SpaceLines(form, fsat)} : Write(lines, "membership")
Membership == /\ pc = "membership"
              /\ \E lines \in {MemberLines(form, fsat) \union SourceLines(form, fsat)} :
                   Write(lines, "det")
Det        == pc = "det" /\ \E lines \in {DetLines(form, fsat)} : Write(lines, "share")
Share      == pc = "share" /\ \E lines \in {ShareLines(form, fsat)} : Write(lines, "done")

Next == Fill \/ Pure \/ Space \/ Membership \/ Det \/ Share

Spec == Init /\ [][Next]_vars

-----------------------------------------------------------------------------
(* The sets of locations an atom may allocate under a stack.  A predicate   *)
(* reads the heap only at the locations it allocates, so the atoms of a    *)
(* formula hold together exactly of disjoint sets.                         *)
RegionsIn(h, segs) ==
  {c \in (UNION {Range(sp) : sp \in Spaces}) \X Stack \X {DOMAIN h} :
     AtomHolds(c[1], c[2], h, c[3], segs)}

Regions == UNION {RegionsIn(h, Segments(h)) : h \in Heap}

(* The part of the heap each atom may have under a stack. *)
Parts(sp, s) ==
  {p \in [DOMAIN sp -> SUBSET (Location \ {0})] :
     (\A i \in DOMAIN sp : <<sp[i], s, p[i]>> \in Regions) /\ Disjoint(p)}

ShareHolds(w, a) ==
  LET among == \E t \in Range(a.terms) : IF t.kind = "lvar" THEN w.s[a.x] = w.s[t.var]
                                         ELSE w.s[a.x] \in w.parts[t.svar]
  IN  IF a.kind = "in" THEN among ELSE ~ among

(* The stacks and the parts of the heaps that satisfy a formula. *)
Worlds(f) ==
  {w \in UNION {{[s |-> s, parts |-> p] : p \in Parts(f.space, s)} :
                  s \in {t \in Stack : Agrees(t, f.pure)}} :
     \A a \in f.share : ShareHolds(w, a)}

(* What a boolean variable means: "pto" that the atom holds, "pred" that   *)
(* the segment is not empty, "apto" and "inset" that the segment allocates *)
(* the variable.                                                           *)
Meaning(fs, w, b) ==
  CASE b[1] = "eq"   -> w.s[b[2]] = w.s[b[3]]
    [] b[1] = "pto"  -> TRUE
    [] b[1] = "pred" -> w.parts[fs.pred[b[2] + 1].atom] # {}
    [] OTHER         -> w.s[fs[b[1]][b[2] + 1].key[1]] \in w.parts[fs[b[1]][b[2] + 1].atom]

Bvars(fs) ==
  {<<"eq", x, y>> : x, y \in fs.used}
    \union UNION {{<<name, i - 1, 0>> : i \in DOMAIN fs[name]} : name \in {"pto", "pred", "apto", "inset"}}

(* Every literal in the file is one of the variables that were counted for *)
(* the header of the file.                                                 *)
TypeOK ==
  /\ pc \in {"fill", "pure", "space", "membership", "det", "share", "done", "crash"}
  /\ fsat.used \subseteq Var
  /\ \A c \in clauses : \A l \in c : l[1] \in BOOLEAN /\ l[2] \in Bvars(fsat)

(* All variables other than nil have one record, the one that typing found *)
(* for the first parameter of the predicates.                              *)
OneRecord ==
  /\ Rec[0] = 0
  /\ \A x, y \in Var \ {0} : Rec[x] = Rec[y] /\ Rec[x] # 0
  /\ \A x \in Var \ {0}, pid \in DOMAIN Preds : TypeInfo[pid].ptype0 = Rec[x]

(* No segment starts from nil. *)
SourcesNotNil == \A f \in Forms : \A i \in PredAtoms(f) : In(f, i) # 0

PureAtom(op, x, y) == [op |-> op, x |-> x, y |-> y]

(* The rules are those of lists: a nonempty segment allocates its first    *)
(* parameter, in one direction the second one differs from it, and in two  *)
(* directions the fourth one does, the third one is the last cell that is  *)
(* allocated, and an empty segment equates both.                           *)
Shaped ==
  \A pid \in DOMAIN Preds :
    /\ \A rule \in Range(Preds[pid].rec) :
         rule.pto.src = 1 /\ rule.calls \in Seq(Range(rule.calls))
    /\ IF TypeInfo[pid].twodir
       THEN /\ \A base \in Range(Preds[pid].base) :
                 PureAtom("eq", 1, 4) \in base /\ PureAtom("eq", 2, 3) \in base
            /\ \A rule \in Range(Preds[pid].rec) :
                 /\ PureAtom("neq", 1, 4) \in rule.pure /\ PureAtom("neq", 2, 3) \in rule.pure
                 /\ \E k \in DOMAIN rule.calls :
                      LET call == rule.calls[k]
                      IN  call.kind = "ls" /\ call.pid = pid /\ call.args[2] = 2 /\ call.args[3] = 1
       ELSE \A rule \in Range(Preds[pid].rec) : PureAtom("neq", 1, 2) \in rule.pure

(* A formula that some heap satisfies is encoded: each variable that is    *)
(* looked up in a table is there, as the assertions of noll2sat.c say.     *)
Encoded == Worlds(form) # {} => pc # "crash" /\ {} \notin clauses

(* An empty segment has equal ends.  One of two directions may be empty    *)
(* with different ends: dll(in,out,pv,fw) if in = fw and out = pv.         *)
EndsMeet(f, w) ==
  \A i \in PredAtoms(f) : w.parts[i] = {} => w.s[In(f, i)] = w.s[Out(f, i)]

(* No clause says more than the formula: every heap, in every way the      *)
(* atoms can share it, gives values that satisfy all clauses, provided     *)
(* that the ends of empty segments are equal.                              *)
Adequate ==
  \A w \in {v \in Worlds(form) : EndsMeet(form, v)} : \A c \in clauses : \E l \in c : l[1] = Meaning(fsat, w, l[2])

=============================================================================
