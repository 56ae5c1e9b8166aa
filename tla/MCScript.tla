------------------------------- MODULE MCScript -----------------------------
(***************************************************************************)
(* Scripts with two records, 1 and 2, the fields next : 1 -> 1 (1),        *)
(* down : 1 -> 2 (2), n : 2 -> 2 (3) and prev : 1 -> 1 (4), in sessions: a *)
(* fixed beginning, then some of the session's commands, each once, and a  *)
(* check-sat.  Predicates are named so that strcmp orders them dll = 1,    *)
(* lsb = 2 (over record 2), lsn = 3 (over record 1), nll = 4, the others   *)
(* above.                                                                  *)
(***************************************************************************)
EXTENDS NollScript

T0(op)             == [op |-> op, id |-> <<>>, args |-> <<>>]
T(op, args)        == [op |-> op, id |-> <<>>, args |-> args]
V(x)               == [op |-> "lvar", id |-> <<x>>, args |-> <<>>]
S(a)               == [op |-> "svar", id |-> <<a>>, args |-> <<>>]
Eq(x, y)           == T("eq", <<V(x), V(y)>>)
Ne(x, y)           == T("distinct", <<V(x), V(y)>>)
Not(t)             == T("not", <<t>>)
And(ts)            == T("and", ts)
Ref(f, y)          == T("ref", <<[op |-> "field", id |-> <<f>>, args |-> <<>>], V(y)>>)
Pto(x, f, y)       == T("pto", <<V(x), Ref(f, y)>>)
Pto2(x, f, y, g, z) == T("pto", <<V(x), T("sref", <<Ref(f, y), Ref(g, z)>>)>>)
Call(p, xs)        == [op |-> "pred", id |-> <<p>>, args |-> [i \in DOMAIN xs |-> V(xs[i])]]
Loop(p, xs)        == T("loop", <<Call(p, xs)>>)
Index(a, t)        == T("index", <<S(a), t>>)
Sep(ts)            == T("ssep", ts)
WSep(ts)           == T("wsep", ts)
Bool(t)            == T("tobool", <<t>>)
Exists(tys, t)     == [op |-> "exists", id |-> tys, args |-> <<t>>]
Body(ts)           == T("tospace", <<T("or", ts)>>)
Num(k)             == [op |-> "int", id |-> <<k>>, args |-> <<>>]

Define1(name, params, body) == [cmd |-> "define", name |-> name, params |-> params, body |-> body]
Field(src, dst)    == [cmd |-> "declare", kind |-> "field", src |-> src, dst |-> dst]
VarOf(ty)          == [cmd |-> "declare", kind |-> "var", type |-> ty]
SetVar             == [cmd |-> "declare", kind |-> "set"]
Logic(l)           == [cmd |-> "set-logic", logic |-> l]
CheckSat           == [cmd |-> "check"]
Assert1(t)         == [cmd |-> "assert", term |-> t]

-----------------------------------------------------------------------------
(* Definitions.  With two parameters E = 1 and F = 2, the variables of an  *)
(* exists come from 3 on.                                                  *)
EmpBase == And(<<Eq(1, 2), Bool(T0("emp"))>>)
Rec(tys, atoms) == Exists(tys, And(<<Ne(1, 2), Bool(Sep(atoms))>>))

LsOf(name, ty, f) ==
  Define1(name, <<ty, ty>>, Body(<<EmpBase, Rec(<<ty>>, <<Pto(1, f, 3), Call(name, <<3, 2>>)>>)>>))

Dll == Define1(1, <<1, 1, 1, 1>>,
         Body(<<And(<<Eq(1, 4), Eq(2, 3), Bool(T0("emp"))>>),
                Exists(<<1>>, And(<<Ne(1, 4), Ne(2, 3),
                  Bool(Sep(<<Pto2(1, 1, 5, 4, 3), Call(1, <<5, 2, 1, 4>>)>>))>>))>>))

Nll == Define1(4, <<1, 1>>,
         Body(<<EmpBase, Rec(<<1, 2>>, <<Pto2(1, 1, 3, 2, 4), Call(2, <<4, 0>>), Call(4, <<3, 2>>)>>)>>))

(* Sound definitions of other shapes: the atoms in another order and       *)
(* nested, two recursive rules, a loop, a second points-to, fields to nil  *)
(* and to the parameter, a rule without a call of its predicate, two       *)
(* predicates without a backbone.                                          *)
Sound ==
  {LsOf(2, 2, 3), LsOf(3, 1, 1), Dll, Nll,
   Define1(5, <<1, 1>>,
     Body(<<Exists(<<1, 1>>, And(<<And(<<Not(Eq(1, 2)), Ne(3, 4)>>),
              Bool(Sep(<<Call(5, <<3, 2>>), Sep(<<Pto2(1, 4, 3, 1, 0), Pto(4, 1, 2)>>)>>))>>)),
            T("or", <<And(<<Bool(T0("emp")), Not(Ne(1, 2))>>)>>)>>)),
   Define1(6, <<1, 1>>,
     Body(<<EmpBase,
            T("or", <<Rec(<<1>>, <<Pto2(1, 4, 2, 1, 3)>>),
                      Rec(<<1, 1>>, <<Pto2(1, 1, 4, 4, 3), Call(6, <<3, 2>>), Call(3, <<4, 0>>)>>)>>)>>)),
   Define1(7, <<1, 1>>,
     Body(<<EmpBase, Rec(<<1, 2>>, <<Pto(1, 4, 3), Pto(3, 2, 4), Loop(2, <<4, 4>>), Call(7, <<3, 2>>)>>)>>)),
   Define1(8, <<1, 1, 2>>,
     Body(<<And(<<Eq(1, 2), Eq(3, 0), Bool(T0("emp"))>>),
            Exists(<<1>>, And(<<Ne(1, 2), Ne(1, 3),
              Bool(Sep(<<Pto2(1, 4, 4, 2, 3), Call(8, <<4, 2, 3>>)>>))>>))>>)),
   Define1(13, <<1, 1>>, Body(<<EmpBase, Rec(<<2, 1>>, <<Pto(1, 4, 4), Call(13, <<4, 2>>)>>)>>)),
   Define1(14, <<1, 1>>, Body(<<EmpBase, Rec(<<2, 1>>, <<Pto(1, 1, 4), Call(14, <<4, 2>>)>>)>>))}

(* Definitions that are refused, or recorded as an error, or found out at  *)
(* the check-sat.                                                          *)
Unsound ==
  {Define1(9, <<1, 1>>, Body(<<EmpBase, Rec(<<1>>, <<Pto(1, 1, 3)>>)>>)),
   Define1(9, <<1, 1>>, Body(<<Rec(<<1>>, <<Pto(1, 1, 3), Call(9, <<3, 2>>)>>)>>)),
   Define1(9, <<1, 1>>, T("tospace", <<Rec(<<1>>, <<Pto(1, 1, 3), Call(9, <<3, 2>>)>>)>>)),
   Define1(9, <<1, 1>>, Body(<<EmpBase, Rec(<<1>>, <<Pto(1, 1, 3), Pto(1, 4, 3), Call(9, <<3, 2>>)>>)>>)),
   Define1(9, <<1, 1>>, Body(<<EmpBase, Rec(<<1>>, <<Pto(1, 1, 3), Loop(9, <<3, 2>>)>>)>>)),
   Define1(9, <<1, 1>>, Body(<<EmpBase, Rec(<<1>>, <<Pto(1, 1, 3), T0("emp"), Call(9, <<3, 2>>)>>)>>)),
   Define1(9, <<1, 1>>, Body(<<Bool(T0("emp")), Rec(<<1>>, <<Pto(1, 1, 3), Call(9, <<3, 2>>)>>)>>)),
   Define1(9, <<1, 1>>, Body(<<EmpBase, Exists(<<1>>, Bool(Sep(<<Pto(1, 1, 3), Call(9, <<3, 2>>)>>)))>>)),
   Define1(9, <<1, 1>>, Body(<<EmpBase, Exists(<<1>>, And(<<Ne(1, 2), Eq(1, 2), Bool(Call(9, <<3, 2>>))>>))>>)),
   Define1(9, <<1, 1>>, Body(<<EmpBase, Rec(<<1>>, <<Pto(1, 1, 3), Call(10, <<3, 2>>)>>)>>)),
   Define1(9, <<1, 1>>, Body(<<EmpBase, Rec(<<1>>, <<Pto(1, 1, 3), Call(9, <<3>>)>>)>>)),
   Define1(9, <<1, 1>>, Body(<<EmpBase, Rec(<<1>>, <<Pto(1, 1, 3), Call(2, <<3, 3>>), Call(9, <<3, 2>>)>>)>>)),
   Define1(9, <<1, 2>>, Body(<<EmpBase, Rec(<<1>>, <<Pto(1, 1, 3), Call(9, <<3, 2>>)>>)>>)),
   Define1(9, <<1, 1>>, Body(<<EmpBase, Rec(<<1, 1>>, <<Pto(1, 1, 3), Call(3, <<4, 0>>), Call(9, <<3, 2>>)>>)>>))}

(* With data, accepted or not by the logic. *)
DataRec(data) == Exists(<<1>>, And(<<Ne(1, 2), data, Bool(Sep(<<Pto(1, 1, 4), Call(10, <<4, 2, 3>>)>>))>>))
Data ==
  {Define1(10, <<1, 1, IntType>>, Body(<<EmpBase, DataRec(T("lt", <<V(3), Num(1)>>))>>)),
   Define1(10, <<1, 1, IntType>>, Body(<<EmpBase, DataRec(T("subset", <<V(3), V(3)>>))>>)),
   Define1(11, <<IntType, 1>>,
     Body(<<EmpBase, Exists(<<1>>, And(<<Ne(1, 2), Bool(Sep(<<Pto(2, 1, 3), Call(11, <<1, 3>>)>>))>>))>>)),
   Define1(12, <<1, 1, BagType, BagType>>,
     Body(<<And(<<Eq(1, 2), Eq(3, 4), Bool(T0("emp"))>>),
            Exists(<<1, BagType>>, And(<<Ne(1, 2), T("eq", <<V(3), T("bagunion", <<V(6), V(4)>>)>>),
              Bool(Sep(<<Pto(1, 1, 5), Call(12, <<5, 2, 6, 4>>)>>))>>))>>))}

-----------------------------------------------------------------------------
(* Assertions over nil, x = 1 and y = 2 of record 1 and z = 3 of record 2, *)
(* the set variables 0 and 1, and the predicate lsn.                       *)
PureTerms ==
  {Eq(1, 2), Ne(1, 2), Ne(2, 0), Eq(2, 3), Not(Eq(1, 0)), Not(Ne(1, 2)), T0("true"), T0("false"),
   T("lt", <<Num(2), Num(1)>>), T("lt", <<Num(2), V(1)>>), Not(T("le", <<Num(2), Num(1)>>))}

SpaceTerms ==
  {T0("emp"), T0("junk"), Pto(1, 1, 2), Pto2(2, 1, 0, 2, 3), Call(3, <<1, 2>>),
   Index(0, Call(3, <<2, 0>>)), Index(1, Loop(3, <<1, 1>>)), Loop(3, <<1, 1>>), V(1),
   Sep(<<Pto(1, 1, 2), Sep(<<Call(3, <<2, 0>>), Pto(3, 3, 0)>>)>>),
   Sep(<<WSep(<<Pto(1, 1, 2), Index(0, Call(3, <<1, 0>>))>>), Pto(2, 1, 1)>>),
   WSep(<<Sep(<<Pto(1, 1, 2), Pto(2, 1, 0)>>), WSep(<<Call(3, <<1, 2>>), T0("junk")>>)>>),
   Sep(<<Pto(1, 1, 2), V(2)>>)}

SetX == T("sloc", <<V(1)>>)
ShareTerms ==
  {T("inloc", <<V(1), S(0)>>), Not(T("inloc", <<V(2), T("unloc", <<S(0), SetX>>)>>)),
   T("niloc", <<V(2), S(1)>>), T("leloc", <<T("unloc", <<S(0), S(1)>>), T("unloc", <<S(1), SetX>>)>>),
   T("eqloc", <<S(0), T("unloc", <<S(1), SetX>>)>>), T("eqloc", <<S(0), V(1)>>)}

Tops ==
  PureTerms \union ShareTerms \union {Bool(s) : s \in SpaceTerms}
    \union {T("tobool", <<T0("emp"), T0("emp")>>), T("or", <<Eq(1, 2), Eq(1, 0)>>), Bool(Call(5, <<1, 2>>))}

(* Atoms are asserted in a conjunction, most of them; what is under "not"  *)
(* goes to the negative formula.                                           *)
Asserted ==
  {And(<<t, Ne(1, 0)>>) : t \in Tops}
    \union {Not(And(<<t, T0("true")>>)) : t \in ShareTerms \union {Eq(1, 2), Ne(2, 0), Not(Eq(1, 0))}}
    \union {Not(Bool(s)) : s \in SpaceTerms}
    \union {Eq(1, 2), Not(Eq(1, 2)), And(<<Eq(1, 2)>>), T0("true"), T0("false"), Not(T0("false")),
            T("implies", <<Eq(1, 2), T("lt", <<Num(2), Num(1)>>)>>), T("inloc", <<V(1), S(0)>>),
            Exists(<<1>>, And(<<Ne(1, 2), Bool(Pto(1, 1, 2))>>)),
            Not(Exists(<<1>>, And(<<Ne(1, 2), Eq(2, 3)>>))),
            And(<<Eq(1, 2), Ne(2, 1), Eq(1, 3)>>),
            And(<<And(<<Not(Eq(1, 2)), Bool(Sep(<<Call(3, <<1, 2>>), Pto(2, 2, 3)>>))>>), Ne(1, 3), Ne(2, 3)>>)}

-----------------------------------------------------------------------------
(* Sessions.  Body commands are taken once each, at most max of them, no   *)
(* name is defined twice, and a check-sat may come in between.             *)
FourFields == <<Field(1, 1), Field(1, 2), Field(2, 2), Field(1, 1)>>

Defining  == [begin |-> <<Logic("QF_SLRD")>> \o FourFields, max |-> 3,
              body |-> Sound \union Unsound \union Data \union {VarOf(1)}, again |-> TRUE]
WithData  == [begin |-> <<Logic("QF_SLRDI")>> \o FourFields, max |-> 2,
              body |-> {LsOf(3, 1, 1), Nll} \union Data, again |-> FALSE]
Asserting == [begin |-> <<Logic("QF_S")>> \o FourFields \o
                        <<LsOf(3, 1, 1), VarOf(1), VarOf(1), VarOf(2), SetVar, SetVar>>,
              max |-> 2, body |-> {Assert1(t) : t \in Asserted}, again |-> FALSE]
Unknown   == [begin |-> <<Logic("ALL")>>, max |-> 0, body |-> {}, again |-> FALSE]

MCSessions == {Defining, WithData, Asserting, Unknown}

MCCommands ==
  UNION {Range(s.begin) \union s.body : s \in MCSessions} \union {CheckSat}

DefinedIn(cs) == {c.name : c \in {d \in Range(cs) : d.cmd = "define"}}

MCMayFollow(sofar, c) ==
  \E s \in MCSessions :
    LET n    == Len(s.begin)
        k    == Len(sofar)
        body == SubSeq(sofar, n + 1, k)
        part == SelectSeq(body, LAMBDA d : d # CheckSat)
    IN  IF k < n THEN SubSeq(s.begin, 1, k) = sofar /\ c = s.begin[k + 1]
        ELSE /\ SubSeq(sofar, 1, n) = s.begin
             /\ body # <<>> => Last(body) # CheckSat \/ (s.again /\ c # CheckSat)
             /\ \/ c = CheckSat
                \/ /\ c \in s.body \ Range(body)
                   /\ Len(part) < (IF CheckSat \in Range(body) THEN 2 ELSE s.max)
                   /\ c.cmd = "define" => c.name \notin DefinedIn(body)

=============================================================================
