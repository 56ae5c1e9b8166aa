------------------------------ MODULE NollUnfold ----------------------------
(***************************************************************************)
(* What it means that the edges of a graph are an unfolding of a predicate *)
(* edge, from the rules of the predicate (noll_preds.h): the reference for *)
(* the two checks of a selected subgraph.  Different nodes are different   *)
(* locations, and each edge has to be used once.                           *)
(***************************************************************************)
EXTENDS NollGraph, TLC

(* The pure atoms of a rule, under a map of its variables to nodes. *)
PureHolds(pure, val) ==
  \A p \in pure : (val[p.x] = val[p.y]) <=> (p.op = "eq")

(* The points-to edges that leave a node among E, as <<field, target>>. *)
CellOf(g, n, E) ==
  {<<g.edges[i].label, g.edges[i].args[2]>> :
     i \in {j \in E : g.edges[j].kind = "pto" /\ g.edges[j].args[1] = n}}

EdgesLeaving(g, n, E) == {i \in E : g.edges[i].kind = "pto" /\ g.edges[i].args[1] = n}

(* The maps of the variables of a rule that a cell allows. *)
Matches(rule, params, cell) ==
  LET fargs == Cardinality(DOMAIN params) - 1
      vals  == [fargs + 1 .. fargs + rule.exists -> {c[2] : c \in cell}]
  IN  {v \in {params @@ ex : ex \in vals} :
         /\ PureHolds(rule.pure, v)
         /\ cell = {<<rule.pto.fields[k][1], v[rule.pto.fields[k][2]]>> : k \in DOMAIN rule.pto.fields}
         /\ Cardinality(cell) = Len(rule.pto.fields)}

(* What is left to unfold after a segment that starts an unfolding: from   *)
(* its end on, and over two directions up to it.                           *)
Rest(pid, args, seg) ==
  IF Preds[pid].fargs = 4 THEN IF seg[3] = args[3] THEN {<<seg[4], args[2], seg[2], args[4]>>} ELSE {}
  ELSE IF SubSeq(seg, 3, Len(seg)) = SubSeq(args, 3, Len(args))
       THEN {<<seg[2]>> \o Tail(args)} ELSE {}

RECURSIVE Unfolding(_, _, _, _), Calls(_, _, _, _)

(* The edges E are an unfolding of the predicate at these nodes. *)
Unfolding(g, pid, args, E) ==
  LET params == [k \in 0 .. Preds[pid].fargs |-> IF k = 0 THEN 0 ELSE args[k]]
  IN  \/ E = {} /\ \E base \in Range(Preds[pid].base) : PureHolds(base, params)
      \/ \E i \in E : /\ g.edges[i].kind = "pred" /\ g.edges[i].label = pid
                      /\ g.edges[i].args[1] = args[1]
                      /\ \E rest \in Rest(pid, args, g.edges[i].args) :
                           Unfolding(g, pid, rest, E \ {i})
      \/ \E rule \in Range(Preds[pid].rec) :
           LET n == params[rule.pto.src]
           IN  \E v \in Matches(rule, params, CellOf(g, n, E)) :
                 Calls(g, rule.calls, v, E \ EdgesLeaving(g, n, E))

(* The edges E are split into unfoldings of the calls.  A loop is an       *)
(* unfolding from a node to itself that has a cell.                        *)
Calls(g, calls, v, E) ==
  IF calls = <<>> THEN E = {}
  ELSE LET c    == Head(calls)
           args == [k \in DOMAIN c.args |-> v[c.args[k]]]
       IN  \E S \in IF Len(calls) = 1 THEN {E} ELSE SUBSET E :
             /\ IF c.kind = "loop"
                THEN \E i \in S : /\ g.edges[i].args[1] = args[1]
                                  /\ \/ g.edges[i].kind = "pto"
                                     \/ g.edges[i].label = c.pid
                                  /\ Unfolding(g, c.pid, <<g.edges[i].args[2], args[2]>>, S \ {i})
                ELSE Unfolding(g, c.pid, args, S)
             /\ Calls(g, Tail(calls), v, E \ S)

=============================================================================
