------------------------------ MODULE NollMatch -----------------------------
(***************************************************************************)
(* The syntactic check that a graph is an unfolding of a predicate edge    *)
(* (noll_hom.c, noll_shom_check_syn and the functions it calls, with the   *)
(* composition lemma of noll_lemma.c).  The search is deterministic: the   *)
(* rules, then an edge with the same label, then the lemma, then the base  *)
(* rules, and the first that matches is kept.                              *)
(*                                                                         *)
(* m maps the variables met so far to nodes: those of the graph, then      *)
(* those the rules and lemmas introduced on the way, Undefined until they  *)
(* are matched.  It is passed on by value and changed by every part of a   *)
(* match, also by one that fails.                                          *)
(***************************************************************************)
EXTENDS NollGraph

Undefined == -1

(* The outcome of a match.  "loops" is a recursion that never returns. *)
Failed(m)       == [ok |-> FALSE, loops |-> FALSE, edges |-> {}, m |-> m]
Matched(es, m)  == [ok |-> TRUE, loops |-> FALSE, edges |-> es, m |-> m]
Loops(m)        == [ok |-> FALSE, loops |-> TRUE, edges |-> {}, m |-> m]

(* The recursion returns to the same call when it is deeper than this: it  *)
(* uses up a points-to edge, or moves along the predicate edges with the   *)
(* same set of used edges.                                                 *)
Deepest(g) == (Len(g.edges) + 1) * (Len(g.edges) + 1)

(* What noll_pure_check_entl asks of two mapped variables. *)
PureAtom(g, op, n1, n2) == IF op = "eq" THEN n1 = n2 ELSE IsDiff(g, n1, n2)

(* noll_pure_check_entl: the atoms in the order of their larger variable.  *)
(* An equality with one side mapped maps the other, a disequality with a   *)
(* side that is not mapped passes (its assertion is off in the build).     *)
PureCheck(g, pure, lmap, m) ==
  LET order == SetToSortSeq(pure, LAMBDA p, q : p.y < q.y \/ (p.y = q.y /\ p.x < q.x))
      Check(acc, p) ==
        LET v1 == lmap[p.x + 1]
            v2 == lmap[p.y + 1]
            n1 == acc.m[v1 + 1]
            n2 == acc.m[v2 + 1]
        IN  IF ~acc.ok THEN acc
            ELSE IF p.op = "eq" /\ n1 # Undefined /\ n2 = Undefined
                 THEN [acc EXCEPT !.m[v2 + 1] = n1]
            ELSE IF p.op = "eq" /\ n1 = Undefined /\ n2 # Undefined
                 THEN [acc EXCEPT !.m[v1 + 1] = n2]
            ELSE IF p.op = "neq" /\ Undefined \in {n1, n2} THEN acc
            ELSE [acc EXCEPT !.ok = n1 # Undefined /\ n2 # Undefined /\ PureAtom(g, p.op, n1, n2)]
  IN  FoldLeft(Check, Matched({}, m), order)

(* noll_shom_match_form_pto: for each field the first edge with it that is *)
(* not used.  A target that is mapped already is left as it is and is not  *)
(* compared with the target of the edge.                                   *)
MatchPto(g, pto, lmap, m, used) ==
  LET src == m[lmap[pto.src + 1] + 1]
      Field(acc, fd) ==
        LET fits == {i \in DOMAIN g.edges : /\ g.edges[i].args[1] = src
                                            /\ g.edges[i].kind = "pto"
                                            /\ g.edges[i].label = fd[1]
                                            /\ i \notin used \union acc.edges}
            e == CHOOSE i \in fits : \A j \in fits : i <= j
        IN  IF ~acc.ok \/ fits = {} THEN [acc EXCEPT !.ok = FALSE]
            ELSE [acc EXCEPT !.edges = @ \union {e},
                             !.m[lmap[fd[2] + 1] + 1] = g.edges[e].args[2]]
      r == FoldLeft(Field, Matched({}, m), pto.fields)
  IN  IF ~r.ok THEN Failed(m)
      ELSE Matched(r.edges, [v \in DOMAIN m |-> IF m[v] = Undefined THEN r.m[v] ELSE m[v]])

(* MUTANT of GetEdge: the arguments after the first are not compared. *)
GetEdgeFirst(g, pid, nodes) ==
  LET fits == {i \in DOMAIN g.edges : /\ g.edges[i].kind = "pred" /\ g.edges[i].label = pid
                                      /\ g.edges[i].args[1] = nodes[1]}
  IN  IF fits = {} THEN 0 ELSE CHOOSE i \in fits : \A j \in fits : i <= j

(* noll_graph_get_edge: the first edge of that label from the first node   *)
(* whose arguments are the given ones, where they are known; 0 if none.    *)
GetEdge(g, pid, nodes) ==
  LET fits == {i \in DOMAIN g.edges :
                 /\ g.edges[i].kind = "pred" /\ g.edges[i].label = pid
                 /\ Len(g.edges[i].args) = Len(nodes)
                 /\ g.edges[i].args[1] = nodes[1]
                 /\ \A k \in 2 .. Len(nodes) : nodes[k] \in {Undefined, g.edges[i].args[k]}}
  IN  IF fits = {} THEN 0 ELSE CHOOSE i \in fits : \A j \in fits : i <= j

(* The nodes of an edge become the values of variables not yet mapped. *)
Bind(m, vars, nodes) ==
  [v \in DOMAIN m |->
     IF m[v] = Undefined /\ \E k \in DOMAIN vars : vars[k] + 1 = v
     THEN nodes[CHOOSE k \in DOMAIN vars : vars[k] + 1 = v]
     ELSE m[v]]

Nodes(m, vars) == [k \in DOMAIN vars |-> m[vars[k] + 1]]

(* noll_lemma_new_comp_1 for predicates over locations: the second         *)
(* parameter is the pending one, and P(E,E',B) * P(E',F,B) => P(E,F,B).    *)
CompFirst(pid) ==
  [k \in 1 .. Preds[pid].fargs |-> IF k = 2 THEN Preds[pid].fargs + 1 ELSE k]

CompSecond(pid) ==
  [k \in 1 .. Preds[pid].fargs |-> IF k = 1 THEN Preds[pid].fargs + 1 ELSE k]

(* The new variables of a rule are put at the end of m. *)
LocalMap(m, args, fresh) == <<0>> \o args \o [k \in 1 .. fresh |-> Len(m) + k - 1]
Extended(m, fresh)       == m \o [k \in 1 .. fresh |-> Undefined]
Truncated(r, size)       == [r EXCEPT !.m = SubSeq(@, 1, size)]

RECURSIVE MatchRd(_, _, _, _, _, _)

(* noll_shom_match_form_rd_list: each call with the edges of the ones      *)
(* before it marked as used.                                               *)
MatchCalls(g, calls, lmap, m, used, depth) ==
  LET Call(acc, c) ==
        LET r == MatchRd(g, c.pid, Nodes(lmap, c.args), acc.m, used \union acc.edges, depth)
        IN  IF ~acc.ok THEN acc
            ELSE [r EXCEPT !.edges = @ \union acc.edges]
  IN  FoldLeft(Call, Matched({}, m), calls)

(* noll_shom_match_rule_rec: the points-to atom, the calls, the pure part. *)
MatchRuleRec(g, rule, args, m, used, depth) ==
  LET lmap == LocalMap(m, args, rule.exists)
      Pure(q, es) ==
        IF q.ok THEN Matched(es, q.m) ELSE Truncated(Failed(q.m), Len(m))
      Calls(c, es) ==
        IF c.ok THEN Pure(PureCheck(g, rule.pure, lmap, c.m), es \union c.edges)
        ELSE Truncated(c, Len(m))
      Form(p) ==
        IF p.ok
        THEN Calls(MatchCalls(g, rule.calls, lmap, p.m, used \union p.edges, depth + 1), p.edges)
        ELSE Failed(m)
  IN  Form(MatchPto(g, rule.pto, lmap, Extended(m, rule.exists), used))

(* The only edge that leaves the node, when it is a predicate edge. *)
LemmaEdge(g, n) ==
  IF Len(OutEdges(g, n)) = 1 /\ g.edges[OutEdges(g, n)[1]].kind = "pred"
  THEN OutEdges(g, n)[1] ELSE 0

(* noll_shom_match_lemma on the composition lemma.  The edge is not looked *)
(* up in used, and is not added to it for the second part of the lemma.    *)
MatchLemma(g, pid, args, m, used, depth) ==
  LET lmap  == LocalMap(m, args, 1)
      m1    == Extended(m, 1)
      vars1 == [k \in DOMAIN args |-> lmap[CompFirst(pid)[k] + 1]]
      vars2 == [k \in DOMAIN args |-> lmap[CompSecond(pid)[k] + 1]]
      Second(e, r) ==
        IF ~r.ok THEN Truncated(r, Len(m))
        ELSE IF e \in r.edges THEN Truncated(Failed(r.m), Len(m))
        ELSE Matched(r.edges \union {e}, r.m)
      First(e) ==
        IF e = 0 THEN Failed(m)
        ELSE IF GetEdge(g, pid, Nodes(m1, vars1)) # e THEN Failed(m)
        ELSE Second(e, MatchRd(g, pid, vars2, Bind(m1, vars1, g.edges[e].args), used, depth + 1))
  IN  First(LemmaEdge(g, m[args[1] + 1]))

(* The recursive rules in their order, until one matches. *)
MatchRules(g, pid, args, m, used, depth) ==
  LET Rule(acc, rule) ==
        IF acc.ok \/ acc.loops THEN acc
        ELSE MatchRuleRec(g, rule, args, acc.m, used, depth)
  IN  FoldLeft(Rule, Failed(m), Preds[pid].rec)

(* noll_shom_match_rule_base, on each base rule until one matches. *)
MatchBase(g, pid, args, m) ==
  LET Rule(acc, pure) == IF acc.ok THEN acc
                         ELSE PureCheck(g, pure, <<0>> \o args, acc.m)
  IN  FoldLeft(Rule, Failed(m), Preds[pid].base)

(* noll_shom_match_rd *)
MatchRd(g, pid, args, m, used, depth) ==
  LET Base(l) ==
        IF l.ok \/ l.loops THEN l ELSE MatchBase(g, pid, args, l.m)
      Edge(e, r) ==
        IF e \in used THEN Failed(r.m)
        ELSE IF e # 0 THEN Matched({e}, Bind(r.m, args, g.edges[e].args))
        ELSE Base(MatchLemma(g, pid, args, r.m, used, depth))
      Rules(r) ==
        IF r.ok \/ r.loops THEN r ELSE Edge(GetEdge(g, pid, Nodes(r.m, args)), r)
  IN  IF depth > Deepest(g) THEN Loops(m)
      ELSE IF IsPtoSrc(g, m[args[1] + 1])
           THEN Rules(MatchRules(g, pid, args, m, used, depth))
           ELSE Rules(Failed(m))

(* noll_shom_check_syn: the match has to use every edge of the graph.      *)
CheckSyn(g, pid, nodes) ==
  LET args == [k \in DOMAIN nodes |-> GetVar(g, nodes[k])]
      Outcome(r) == IF r.loops THEN "loops"
                    ELSE IF r.ok /\ r.edges = DOMAIN g.edges THEN "yes"
                    ELSE "no"
  IN  Outcome(MatchRd(g, pid, args, [v \in 1 .. Size |-> g.node[v - 1]], {}, 0))

=============================================================================
