-------------------------------- MODULE MCSat ------------------------------
(***************************************************************************)
(* NollSolver on formulas over nil, x = 1 and y = 2 with one record, the   *)
(* fields n = 0 and p = 1, and the two predicates                          *)
(*   ls(in,out)        in = out \/ E u. in |-> {n u} * ls(u,out)           *)
(*   dll(in,out,pv,fw) in = fw /\ out = pv \/                              *)
(*                     E u. in |-> {n u, p pv} * dll(u,out,in,fw)          *)
(* on heaps of two locations.  noll_pred_type stops at dll, whose base     *)
(* rule does not equate in and out, before it has seen its fields, and     *)
(* noll_entl_solve goes on: no field of dll is known to the encoding.      *)
(***************************************************************************)
EXTENDS NollSolver

Atom1(op, x, y) == [op |-> op, x |-> x, y |-> y]
PtoN(x, y)      == [kind |-> "pto", src |-> x, fields |-> << <<0, y>> >>]
PtoNP(x, y, z)  == [kind |-> "pto", src |-> x, fields |-> << <<0, y>>, <<1, z>> >>]
Ls(x, y)        == [kind |-> "ls", pid |-> 1, args |-> <<x, y>>]
Dll(x, y, v, w) == [kind |-> "ls", pid |-> 2, args |-> <<x, y, v, w>>]

MCPreds ==
  << [fargs |-> 2, fields |-> {0},
      base |-> << {Atom1("eq", 1, 2)} >>,
      rec  |-> << [exists |-> 1, pto |-> PtoN(1, 3), calls |-> <<Ls(3, 2)>>,
                   pure |-> {Atom1("neq", 1, 2)}] >>],
     [fargs |-> 4, fields |-> {},
      base |-> << {Atom1("eq", 1, 4), Atom1("eq", 2, 3)} >>,
      rec  |-> << [exists |-> 1, pto |-> PtoNP(1, 5, 3), calls |-> <<Dll(5, 2, 1, 4)>>,
                   pure |-> {Atom1("neq", 1, 4), Atom1("neq", 2, 3)}] >>] >>

MCTypeInfo ==
  << [ptype0 |-> 1, ptypes |-> <<0, 1>>, border |-> {0}, twodir |-> FALSE],
     [ptype0 |-> 1, ptypes |-> <<0, 1>>, border |-> {}, twodir |-> TRUE] >>

MCRec    == <<1, 1>> @@ (0 :> 0)
MCSrcRec == (0 :> 1) @@ (1 :> 1)

LsAtoms  == {Ls(1, 0), Ls(1, 2), Ls(2, 0), Ls(2, 1)}
PtoAtoms1 == {PtoN(x, y) : x \in {1, 2}, y \in Var}
DllAtoms == {Dll(1, 2, 0, 0), Dll(2, 1, 0, 0), Dll(1, 1, 0, 2), Dll(1, 2, 0, 1), Dll(2, 2, 1, 0)}
OneDir   == LsAtoms \union PtoAtoms1
TwoDirs  == DllAtoms \union {PtoNP(1, 2, 0), PtoNP(2, 0, 1), PtoNP(1, 1, 1)}

OneDirSpaces == {<<>>} \union {<<a>> : a \in OneDir} \union {<<a, b>> : a, b \in OneDir}
TwoDirSpaces == {<<a>> : a \in TwoDirs} \union {<<a, b>> : a \in TwoDirs, b \in TwoDirs \union LsAtoms}

(* With a map TLC tabulates the matrices. *)
Pures ==
  LET pairs == {<<0, 1>>, <<0, 2>>, <<1, 2>>}
  IN  {PureNew @@ <<>>} \union {AddEqMatrix(PureNew, c[1], c[2]) @@ <<>> : c \in pairs}
                        \union {AddNeqMatrix(PureNew, c[1], c[2]) @@ <<>> : c \in pairs}

SetTerm(i) == [kind |-> "svar", svar |-> i]
VarTerm(x) == [kind |-> "lvar", var |-> x]

(* A variable and a segment, alone or with the variable x as another term. *)
ShareAtoms(sp) ==
  LET sets == {k \in DOMAIN sp : sp[k].kind = "ls"}
  IN  {[kind |-> k, x |-> x, terms |-> <<SetTerm(i)>>] : k \in {"in", "ni"}, x \in {1, 2}, i \in sets}
        \union {[kind |-> k, x |-> 2, terms |-> <<SetTerm(i), VarTerm(1)>>] :
                  k \in {"in", "ni"}, i \in sets}

MCSpaces == OneDirSpaces \union TwoDirSpaces

(* Only formulas with segments in two directions. *)
TwoDirForms == {[space |-> sp, pure |-> PureNew @@ <<>>, share |-> {}] : sp \in TwoDirSpaces}

MCForms ==
  {[space |-> sp, pure |-> p, share |-> {}] : sp \in OneDirSpaces, p \in Pures}
    \union TwoDirForms
    \union UNION {{[space |-> sp, pure |-> PureNew @@ <<>>, share |-> {a}] : a \in ShareAtoms(sp)} :
                    sp \in MCSpaces}

(* What the theorems about NollSat suppose. *)
ASSUME MCSatAssumption == OneRecord /\ SourcesNotNil /\ Shaped

=============================================================================
