----------------------------- MODULE MCAutomata -----------------------------
(***************************************************************************)
(* NollAutomata on one file with the skip lists of samples/skl3, the lists *)
(* of samples/ls, lss, dll, nll and nlcl, and the predicates of            *)
(* samples/gen, whose names are not known.  The graphs are unfoldings of   *)
(* each predicate, those with one or two targets moved to another node or  *)
(* one edge dropped, and those with the fields of a cell written in the    *)
(* other order, as far as noll_shom_select_rd can select them.             *)
(***************************************************************************)
EXTENDS NollAutomata

Atom1(op, x, y) == [op |-> op, x |-> x, y |-> y]
Ls(pid, args)   == [kind |-> "ls", pid |-> pid, args |-> args]
Loop(pid, z)    == [kind |-> "loop", pid |-> pid, args |-> <<z, z>>]

(* The rules of a predicate whose first two parameters are its ends. *)
Ends == << {Atom1("eq", 1, 2)} >>
Rec(exists, fields, calls) ==
  << [exists |-> exists, pto |-> [kind |-> "pto", src |-> 1, fields |-> fields],
      calls |-> calls, pure |-> {Atom1("neq", 1, 2)}] >>

Definition(name, fargs, role, called, base, rec) ==
  [name |-> name, fargs |-> fargs, role |-> role, calls |-> called,
   fields |-> {f \in DOMAIN role : role[f] # "none"}, base |-> base, rec |-> rec]

(* Fields: 1, 2, 3 of the levels 3, 2, 1 of skip lists, 4, 5 of lsso,      *)
(* 6, 7 of dll, 8, 9 of nlcl, 10, 11 of nll, 12 of lso, 13, 14 of gskl2,   *)
(* 15 to 17 of lst, 18, 19 of nlclg, 20, 21 of nllg, 22 of lsg; in the     *)
(* order that noll_field_order gives them.                                 *)
MCFields == 1 .. 22

MCFieldOrder == [f \in MCFields |-> f - 1]

Roles(roles) == [f \in MCFields |-> IF f \in DOMAIN roles THEN roles[f] ELSE "none"]

SkipPreds ==
  << Definition("skl1", 2, Roles(<<"null", "null", "bckbone">>), {}, Ends,
                Rec(1, << <<1, 0>>, <<2, 0>>, <<3, 3>> >>, <<Ls(1, <<3, 2>>)>>)),
     Definition("skl2", 2, Roles(<<"null", "bckbone", "inner">>), {1}, Ends,
                Rec(2, << <<1, 0>>, <<2, 3>>, <<3, 4>> >>, <<Ls(1, <<4, 3>>), Ls(2, <<3, 2>>)>>)),
     Definition("skl3", 2, Roles(<<"bckbone", "inner", "inner">>), {1, 2}, Ends,
                Rec(3, << <<1, 3>>, <<2, 5>>, <<3, 4>> >>,
                    <<Ls(1, <<4, 5>>), Ls(2, <<5, 3>>), Ls(3, <<3, 2>>)>>)) >>

ListPreds ==
  << Definition("lso", 2, Roles([f \in {12} |-> "bckbone"]), {}, Ends,
                Rec(1, << <<12, 3>> >>, <<Ls(4, <<3, 2>>)>>)),
     Definition("nll", 3, Roles([f \in {10, 11, 12} |-> CASE f = 10 -> "bckbone" [] f = 11 -> "inner"
                                                          [] f = 12 -> "nested"]), {4}, Ends,
                Rec(2, << <<10, 4>>, <<11, 5>> >>, <<Ls(4, <<5, 3>>), Ls(5, <<4, 2, 3>>)>>)),
     Definition("nlcl", 2, Roles([f \in {8, 9, 12} |-> CASE f = 8 -> "bckbone" [] f = 9 -> "inner"
                                                         [] f = 12 -> "nested"]), {4}, Ends,
                Rec(2, << <<8, 3>>, <<9, 4>> >>, <<Loop(4, 4), Ls(6, <<3, 2>>)>>)),
     Definition("dll", 4, Roles([f \in {6, 7} |-> IF f = 6 THEN "bckbone" ELSE "border"]), {},
                << {Atom1("eq", 1, 4), Atom1("eq", 2, 3)} >>,
                << [exists |-> 1,
                    pto    |-> [kind |-> "pto", src |-> 1, fields |-> << <<6, 5>>, <<7, 3>> >>],
                    calls  |-> << Ls(7, <<5, 2, 1, 4>>) >>,
                    pure   |-> {Atom1("neq", 1, 4), Atom1("neq", 2, 3)}] >>),
     Definition("lsso", 2, Roles([f \in {4, 5} |-> "bckbone"]), {}, Ends,
                Rec(1, << <<4, 3>>, <<5, 3>> >>, <<Ls(8, <<3, 2>>)>>)) >>

GenPreds ==
  << Definition("lsg", 2, Roles([f \in {22} |-> "bckbone"]), {}, Ends,
                Rec(1, << <<22, 3>> >>, <<Ls(9, <<3, 2>>)>>)),
     Definition("nllg", 3, Roles([f \in {20, 21, 22} |-> CASE f = 20 -> "bckbone" [] f = 21 -> "inner"
                                                           [] f = 22 -> "nested"]), {9}, Ends,
                Rec(2, << <<20, 4>>, <<21, 5>> >>, <<Ls(9, <<5, 3>>), Ls(10, <<4, 2, 3>>)>>)),
     Definition("nlclg", 2, Roles([f \in {18, 19, 22} |-> CASE f = 18 -> "bckbone" [] f = 19 -> "inner"
                                                            [] f = 22 -> "nested"]), {9}, Ends,
                Rec(2, << <<18, 3>>, <<19, 4>> >>, <<Loop(9, 4), Ls(11, <<3, 2>>)>>)),
     Definition("lst", 2, Roles([f \in {15, 16, 17} |-> "bckbone"]), {}, Ends,
                Rec(1, << <<15, 3>>, <<16, 3>>, <<17, 3>> >>, <<Ls(12, <<3, 2>>)>>)),
     Definition("gskl1", 2, Roles([f \in {13, 14} |-> IF f = 13 THEN "null" ELSE "bckbone"]), {}, Ends,
                Rec(1, << <<13, 0>>, <<14, 3>> >>, <<Ls(13, <<3, 2>>)>>)),
     Definition("gskl2", 2, Roles([f \in {13, 14} |-> IF f = 13 THEN "bckbone" ELSE "inner"]), {13}, Ends,
                Rec(2, << <<13, 3>>, <<14, 4>> >>, <<Ls(13, <<4, 3>>), Ls(14, <<3, 2>>)>>)) >>

MCPreds == SkipPreds \o ListPreds \o GenPreds

-----------------------------------------------------------------------------
P(n, f, t)   == [kind |-> "pto", label |-> f, args |-> <<n, t>>]
S(pid, args) == [kind |-> "pred", label |-> pid, args |-> args]

(* Cells: of each list, and of each level of a skip list. *)
Lso(n, t)          == <<P(n, 12, t)>>
Nll(n, t, z)       == <<P(n, 10, t), P(n, 11, z)>>
Nlcl(n, t, z)      == <<P(n, 8, t), P(n, 9, z)>>
Dll(n, t, b)       == <<P(n, 6, t), P(n, 7, b)>>
Lsso(n, t)         == <<P(n, 4, t), P(n, 5, t)>>
Skl1(n, t)         == <<P(n, 1, 0), P(n, 2, 0), P(n, 3, t)>>
Skl2(n, t, z)      == <<P(n, 1, 0), P(n, 2, t), P(n, 3, z)>>
Skl3(n, t, y, z)   == <<P(n, 1, t), P(n, 2, y), P(n, 3, z)>>

(* An unfolding: its predicate, its arguments, its edges and the nodes of  *)
(* the lists below, which have another type.                               *)
Seed(pid, args, below, edges) == [pid |-> pid, args |-> args, below |-> below, edges |-> edges]

ListSeeds ==
  { Seed(4, <<1, 0>>, {}, Lso(1, 2) \o Lso(2, 0)),
    Seed(4, <<1, 4>>, {}, Lso(1, 2) \o <<S(4, <<2, 3>>)>> \o Lso(3, 4)),
    Seed(5, <<1, 0, 4>>, {3, 4, 5}, Nll(1, 2, 3) \o Lso(3, 4) \o Nll(2, 0, 5) \o <<S(4, <<5, 4>>)>>),
    Seed(5, <<1, 3, 4>>, {4, 5}, <<S(5, <<1, 2, 4>>)>> \o Nll(2, 3, 4)),
    Seed(5, <<1, 0, 0>>, {3, 4}, Nll(1, 2, 3) \o Lso(3, 4) \o Lso(4, 0) \o Nll(2, 0, 0)),
    Seed(6, <<1, 0>>, {3, 4, 5}, Nlcl(1, 2, 3) \o Lso(3, 4) \o Lso(4, 3) \o <<S(6, <<2, 0>>)>>),
    Seed(6, <<1, 5>>, {3, 4}, Nlcl(1, 2, 3) \o Lso(3, 3) \o Nlcl(2, 5, 4) \o Lso(4, 4)),
    Seed(7, <<1, 1, 4, 5>>, {}, Dll(1, 5, 4)),
    Seed(7, <<1, 3, 4, 5>>, {}, Dll(1, 2, 4) \o Dll(2, 3, 1) \o Dll(3, 5, 2)),
    Seed(7, <<1, 3, 0, 0>>, {}, Dll(1, 2, 0) \o <<S(7, <<2, 3, 1, 0>>)>>),
    Seed(7, <<1, 3, 0, 4>>, {}, <<S(7, <<1, 2, 0, 3>>)>> \o Dll(3, 4, 2)),
    Seed(8, <<1, 0>>, {}, Lsso(1, 2) \o Lsso(2, 3) \o Lsso(3, 0)),
    Seed(8, <<1, 4>>, {}, Lsso(1, 2) \o <<S(8, <<2, 3>>)>> \o Lsso(3, 4)) }

SkipSeeds ==
  { Seed(1, <<1, 4>>, {}, Skl1(1, 2) \o Skl1(2, 3) \o <<S(1, <<3, 4>>)>>),
    Seed(1, <<1, 3>>, {}, <<S(1, <<1, 2>>)>> \o Skl1(2, 3)),
    Seed(2, <<1, 0>>, {}, Skl2(1, 2, 3) \o Skl1(3, 2) \o Skl2(2, 0, 0)),
    Seed(2, <<1, 4>>, {}, Skl2(1, 2, 2) \o Skl2(2, 4, 3) \o <<S(1, <<3, 4>>)>>),
    Seed(2, <<1, 4>>, {}, Skl2(1, 2, 3) \o <<S(1, <<3, 2>>)>> \o <<S(2, <<2, 4>>)>>),
    Seed(3, <<1, 0>>, {}, Skl3(1, 2, 3, 3) \o Skl2(3, 2, 2) \o <<S(3, <<2, 0>>)>>),
    Seed(3, <<1, 4>>, {}, Skl3(1, 4, 2, 3) \o <<S(1, <<3, 2>>), S(2, <<2, 4>>)>>),
    Seed(3, <<1, 4>>, {}, Skl3(1, 4, 2, 3) \o <<S(1, <<3, 2>>)>> \o Skl2(2, 4, 4)) }

Lsg(n, t)      == <<P(n, 22, t)>>
Nllg(n, t, z)  == <<P(n, 20, t), P(n, 21, z)>>
Nlclg(n, t, z) == <<P(n, 18, t), P(n, 19, z)>>
Lst(n, t)      == <<P(n, 15, t), P(n, 16, t), P(n, 17, t)>>
Gskl(n, t, z)  == <<P(n, 13, t), P(n, 14, z)>>

GenSeeds ==
  { Seed(9, <<1, 0>>, {}, Lsg(1, 2) \o Lsg(2, 3) \o Lsg(3, 0)),
    Seed(9, <<1, 4>>, {}, Lsg(1, 2) \o <<S(9, <<2, 3>>)>> \o Lsg(3, 4)),
    Seed(9, <<2, 4>>, {}, <<S(9, <<2, 3>>)>> \o Lsg(3, 4)),
    Seed(9, <<1, 3>>, {}, <<S(9, <<1, 3>>)>>),
    Seed(9, <<1, 4>>, {}, <<S(9, <<1, 2>>)>> \o Lsg(2, 4)),
    Seed(10, <<1, 0, 0>>, {3, 5}, Nllg(1, 2, 3) \o <<S(9, <<3, 0>>)>> \o Nllg(2, 0, 5) \o <<S(9, <<5, 0>>)>>),
    Seed(10, <<1, 0, 5>>, {5}, Nllg(1, 2, 5) \o Nllg(2, 3, 5) \o Nllg(3, 0, 5)),
    Seed(10, <<1, 3, 5>>, {4, 5}, Nllg(1, 2, 4) \o Lsg(4, 5) \o <<S(10, <<2, 3, 5>>)>>),
    Seed(11, <<1, 0>>, {3, 4}, Nlclg(1, 2, 3) \o Lsg(3, 3) \o <<S(11, <<2, 0>>)>>),
    Seed(11, <<1, 5>>, {3, 4}, Nlclg(1, 5, 3) \o Lsg(3, 4) \o Lsg(4, 3)),
    Seed(12, <<1, 0>>, {}, Lst(1, 2) \o Lst(2, 0)),
    Seed(12, <<1, 4>>, {}, Lst(1, 2) \o <<S(12, <<2, 3>>)>> \o Lst(3, 4)),
    Seed(13, <<1, 4>>, {}, Gskl(1, 0, 2) \o Gskl(2, 0, 3) \o <<S(13, <<3, 4>>)>>),
    Seed(14, <<1, 0>>, {}, Gskl(1, 2, 3) \o Gskl(3, 0, 2) \o Gskl(2, 0, 0)),
    Seed(14, <<1, 4>>, {}, Gskl(1, 2, 2) \o Gskl(2, 4, 3) \o <<S(13, <<3, 4>>)>>),
    Seed(14, <<1, 4>>, {}, Gskl(1, 2, 3) \o <<S(13, <<3, 2>>), S(14, <<2, 4>>)>>) }

-----------------------------------------------------------------------------
Nodes == 0 .. Size - 1

(* The edges with one target moved to another node of its type. *)
Moved(seed, edges) ==
  UNION {UNION {{[edges EXCEPT ![i].args[k] = t] :
                   t \in {n \in Nodes : \/ n = 0
                                        \/ (n \in seed.below) = (edges[i].args[k] \in seed.below)
                                        \/ edges[i].args[k] = 0}} :
                  k \in 2 .. Len(edges[i].args)} : i \in DOMAIN edges}

Dropped(edges) == {[j \in 1 .. Len(edges) - 1 |-> edges[IF j < i THEN j ELSE j + 1]] : i \in DOMAIN edges}

Variants(seed) ==
  LET one == Moved(seed, seed.edges)
  IN  {Reverse(seed.edges)} \union UNION {Moved(seed, e) : e \in one} \union Dropped(seed.edges)

(* What noll_shom_select_rd can give: edges of explored nodes only, and    *)
(* every argument that is not nil explored; no segment is a self-loop.     *)
Selectable(pid, args, edges) ==
  LET stops == IF IsTwoDir(pid) THEN {args[3], args[4]} ELSE Range(Tail(args))
      Targets(N) == UNION {Range(Tail(edges[i].args)) : i \in {j \in DOMAIN edges : edges[j].args[1] \in N}}
      reach[n \in Nat] ==
        IF n = 0 THEN {args[1]} ELSE LET N == reach[n - 1] IN N \union (Targets(N) \ stops)
      inside == reach[Size]
  IN  /\ \A i \in DOMAIN edges : edges[i].args[1] \in inside
      /\ \A i \in DOMAIN edges : edges[i].kind = "pred" =>
           /\ edges[i].args[1] # edges[i].args[2]
           /\ Len(edges[i].args) = 4 => edges[i].args[2] # 0
      /\ Range(args) \subseteq {0, args[1]} \union Targets(inside)

GraphWith(edges) == [nodes |-> Nodes, node |-> [v \in Nodes |-> v], edges |-> edges, diff |-> {}]

(* The variables 1 and 2 are equal on the left side, so that every node    *)
(* from 2 on has the number of the variable before its own.                *)
GraphWithEqual(edges) ==
  [nodes |-> 0 .. Size - 2, node |-> [v \in Nodes |-> IF v < 2 THEN v ELSE v - 1],
   edges |-> edges, diff |-> {}]

EdgesOf(s) == {edges \in Variants(s) : Selectable(s.pid, s.args, edges)}

ChecksOf(seeds, nil) ==
  UNION {{[g |-> GraphWith(edges), pid |-> s.pid, args |-> s.args, homo |-> s.args \o nil] :
            edges \in EdgesOf(s)} : s \in seeds}

Renumbered(seeds) ==
  UNION {{[g |-> GraphWithEqual(edges), pid |-> s.pid, homo |-> s.args,
           args |-> [k \in DOMAIN s.args |-> IF s.args[k] < 2 THEN s.args[k] ELSE s.args[k] + 1]] :
            edges \in {es \in EdgesOf(s) : \A i \in DOMAIN es : Size - 1 \notin Range(es[i].args)}} :
           s \in {t \in seeds : Size - 1 \notin Range(t.args)}}

(* nil is the last argument of the predicates that use it. *)
MCChecks ==
  LET UsesNil == {s \in SkipSeeds \union GenSeeds : FieldsWith(s.pid, {"null"}) # {} \/ s.pid \in {3, 14}}
  IN  ChecksOf((ListSeeds \union GenSeeds) \ UsesNil, <<>>) \union Renumbered(ListSeeds)
        \union ChecksOf(UsesNil, <<0>>)

=============================================================================
