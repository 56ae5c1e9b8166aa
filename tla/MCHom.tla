-------------------------------- MODULE MCHom ------------------------------
(***************************************************************************)
(* NollHom on all pairs of small formulas over nil, x = 1 and y = 2, with  *)
(* one field and the singly linked segment, compared with the meaning of   *)
(* the formulas on heaps of three locations (NollHeaps).                   *)
(***************************************************************************)
EXTENDS NollHom, NollMatch

Atom1(op, x, y) == [op |-> op, x |-> x, y |-> y]

(* ls(in,out) == in = out \/ E u. in # out /\ in |-> {(f,u)} * ls(u,out) *)
LsPred ==
  << [fargs |-> 2, fields |-> {"f"},
           base |-> << {Atom1("eq", 1, 2)} >>,
           rec  |-> << [exists |-> 1,
                        pto    |-> [kind |-> "pto", src |-> 1, fields |-> << <<"f", 3>> >>],
                        calls  |-> << [kind |-> "ls", pid |-> 1, args |-> <<3, 2>>] >>,
                        pure   |-> {Atom1("neq", 1, 2)}] >>] >>

ASSUME EqualEndsEmpty

Pto(x, y) == [kind |-> "pto", src |-> x, fields |-> << <<"f", y>> >>]
Ls(x, y)  == [kind |-> "ls", pid |-> 1, args |-> <<x, y>>]

Atoms == {Pto(1, y) : y \in Var} \union {Pto(2, y) : y \in Var}
           \union {Ls(1, 0), Ls(1, 2), Ls(2, 0), Ls(2, 1)}

SmallSpaces == {<<>>} \union {<<a>> : a \in Atoms}
                \union {<<a, b>> : a \in Atoms, b \in Atoms}

SmallPures == {{}} \union {{Atom1(op, x[1], x[2])} :
                             op \in {"eq", "neq"}, x \in {<<0, 1>>, <<0, 2>>, <<1, 2>>}}

NoPures == {{}}

(* The same definition over each of two fields.                            *)
Ls2(x, y) == [kind |-> "ls", pid |-> 2, args |-> <<x, y>>]

TwoPreds ==
  <<LsPred[1],
    [LsPred[1] EXCEPT !.fields = {"g"},
       !.rec[1].pto.fields = << <<"g", 3>> >>,
       !.rec[1].calls[1].pid = 2]>>

(* Two segments one after another and, beside them, one over the other     *)
(* field; and the segment that the two of them may be.                     *)
RestSpaces == {<<Ls(1, 2), Ls(2, 3), Ls2(1, 4)>>, <<Ls(1, 3)>>}

=============================================================================
