------------------------------- MODULE NollHom -----------------------------
(***************************************************************************)
(* noll_hom_build_1 (noll_hom.c): the search of a mapping from the graph   *)
(* of the right side, g1, to the graph of the left side, g2.  Nodes are    *)
(* mapped by the variables that label them; each points-to edge of g1 to   *)
(* a points-to edge of g2; each predicate edge of g1, the one with the     *)
(* greatest predicate first, to a subgraph of g2 that is selected by a     *)
(* search from its first argument and that has to be an unfolding of the   *)
(* predicate.  used[e] is the edge of g1 an edge of g2 was given to, 0 for *)
(* none.                                                                   *)
(*                                                                         *)
(* How the subgraph is checked depends on an option: by matching the rules *)
(* (-syn, NollMatch) or with tree automata (NollGraph2TA, NollPred2TA).    *)
(* Predicates over two directions, or that need nil as an argument, are    *)
(* not modelled.                                                           *)
(***************************************************************************)
EXTENDS NollHeaps

CONSTANTS
  Pures,                \* the pure parts of the formulas, sets of atoms
  ShomCheck(_, _, _)    \* noll_shom_check: "yes", "no", or "loops" for ever

(* What noll.c checks of a predicate with two recursive parameters: its    *)
(* base rules equate them, its other rules make them differ (noll_mk_pred_ *)
(* rule_check_pure), and the points-to atom of a rule starts from the      *)
(* first one (noll_mk_pred_exp2rule_space).                                *)
PredOK(pid) ==
  /\ pid \in Int /\ Preds[pid].fargs \in Nat /\ Preds[pid].fargs >= 2
  /\ \A base \in Range(Preds[pid].base) : [op |-> "eq", x |-> 1, y |-> 2] \in base
  /\ \A rule \in Range(Preds[pid].rec) :
       /\ rule.pto.kind = "pto" /\ rule.pto.src = 1
       /\ rule.calls \in Seq(Range(rule.calls))
       /\ [op |-> "neq", x |-> 1, y |-> 2] \in rule.pure

(* A call has all its arguments (noll_pred_typecheck_call) and a points-to *)
(* atom a field (noll_mk_ref, noll_mk_sref).  That it names a field once   *)
(* is not checked: an atom with a field twice has two equal edges, and the *)
(* second takes the mark of the first.                                     *)
AtomOK(at) ==
  IF at.kind = "pto"
  THEN /\ at.src \in Var /\ at.fields \in Seq(Fields \X Var) /\ at.fields # <<>>
       /\ \A k, l \in DOMAIN at.fields : at.fields[k][1] = at.fields[l][1] => k = l
  ELSE /\ at.kind = "ls" /\ at.pid \in DOMAIN Preds
       /\ at.args \in Seq(Var) /\ Len(at.args) = Preds[at.pid].fargs

ASSUME HomAssumption ==
  /\ IsFiniteSet(Location)
  /\ \A pid \in DOMAIN Preds : PredOK(pid)
  /\ \A sp \in Spaces : sp \in Seq(Range(sp)) /\ \A i \in DOMAIN sp : AtomOK(sp[i])

VARIABLES
  left, right,   \* noll_prob->pform and the negative formula
  g2, g1,        \* their graphs
  pc,
  nhom,          \* node of g1 -> node of g2
  used,          \* edge of g2 -> edge of g1, or 0
  next,          \* the number of edges of g1 gone through in this phase
  res            \* the result of noll_hom_build_1

vars == <<left, right, g2, g1, pc, nhom, used, next, res>>
inputs == <<left, right, g2, g1>>

(* The formulas of the problems are normal forms, with their graphs. *)
Problems == {<<f, GraphOfForm(f)>> : f \in NormalForms(Pures)}

Init ==
  /\ \E p \in Problems : left = p[1] /\ g2 = p[2]
  /\ \E n \in Problems : right = n[1] /\ g1 = n[2]
  /\ pc = "nodes"
  /\ nhom = <<>> /\ used = <<>> /\ next = 0 /\ res = 1

Finish(r) == /\ res' = r /\ pc' = "done"

-----------------------------------------------------------------------------
(* The image of a node: where its last variable is in g2. *)
NodeImage(n) ==
  LET labels == {v \in Var : g1.node[v] = n}
  IN  g2.node[CHOOSE v \in labels : \A w \in labels : w <= v]

(* The difference edges of g1 are difference edges of g2. *)
DiffMapped(hom) == \A d \in g1.diff : IsDiff(g2, hom[d[1]], hom[d[2]])

(* noll_shom_build_nodes, and the special case of an empty g1. *)
BuildNodes ==
  LET hom == [n \in g1.nodes |-> NodeImage(n)]
  IN  /\ pc = "nodes"
      /\ nhom' = hom
      /\ used' = [e \in DOMAIN g2.edges |-> 0]
      /\ \/ /\ ~DiffMapped(hom)
            /\ Finish(0)
         \/ /\ DiffMapped(hom) /\ g1.edges = <<>>
            /\ Finish(IF g2.edges = <<>> THEN 1 ELSE 0)
         \/ /\ DiffMapped(hom) /\ g1.edges # <<>>
            /\ pc' = "pto" /\ res' = res
      /\ UNCHANGED <<inputs, next>>

-----------------------------------------------------------------------------
(* The edges of g2 a points-to edge of g1 may be mapped to. *)
PtoImages(e) ==
  {i \in DOMAIN g2.edges : /\ g2.edges[i].kind = "pto"
                           /\ g2.edges[i].label = e.label
                           /\ g2.edges[i].args[1] = nhom[e.args[1]]
                           /\ g2.edges[i].args[2] = nhom[e.args[2]]}

(* noll_shom_build_pto, one edge: the first image is marked as used,       *)
(* without a look at the mark it had.                                      *)
BuildPto ==
  /\ pc = "pto" /\ next < Len(g1.edges)
  /\ LET e == g1.edges[next + 1]
         images == PtoImages(e)
     IN  \/ /\ e.kind = "pred"
            /\ next' = next + 1
            /\ UNCHANGED <<pc, used, res>>
         \/ /\ e.kind = "pto" /\ images = {}
            /\ Finish(0)
            /\ UNCHANGED <<next, used>>
         \/ /\ e.kind = "pto" /\ images # {}
            /\ used' = [used EXCEPT ![CHOOSE i \in images : \A j \in images : i <= j] = next + 1]
            /\ next' = next + 1
            /\ UNCHANGED <<pc, res>>
  /\ UNCHANGED <<inputs, nhom>>

PtoDone ==
  /\ pc = "pto" /\ next = Len(g1.edges)
  /\ pc' = "rd" /\ next' = 0
  /\ UNCHANGED <<inputs, nhom, used, res>>

-----------------------------------------------------------------------------
(* The order of noll_shom_build_rd: the greatest label first and, among    *)
(* equal labels, the last edge first.                                      *)
RdOrder ==
  LET preds == {i \in DOMAIN g1.edges : g1.edges[i].kind = "pred"}
  IN  Ranked(preds, {c \in preds \X preds :
                       \/ g1.edges[c[1]].label > g1.edges[c[2]].label
                       \/ g1.edges[c[1]].label = g1.edges[c[2]].label /\ c[1] > c[2]})

(* noll_shom_select_rd: the nodes its search expands, from the first       *)
(* argument on, up to the other arguments; none if the segment is empty.   *)
Expanded(pid, args) ==
  LET stops == {args[k] : k \in 2 .. Len(args)}
      Succ(N) == UNION {{g2.edges[i].args[k] : k \in 2 .. Len(g2.edges[i].args)} :
                          i \in {j \in DOMAIN g2.edges : /\ g2.edges[j].args[1] \in N
                                                         /\ EdgeInLabel(g2.edges[j], pid)}}
      reach[n \in Nat] == IF n = 0 THEN {args[1]} \ {args[2]}
                          ELSE reach[n - 1] \union (Succ(reach[n - 1]) \ stops)
  IN  reach[Size]

EdgesFrom(N) == {i \in DOMAIN g2.edges : g2.edges[i].args[1] \in N}

(* The arguments that are not nil and that the search did not reach. *)
Unexplored(pid, args) ==
  LET N == Expanded(pid, args)
      reached == {args[1]} \union
                   UNION {{g2.edges[i].args[k] : k \in DOMAIN g2.edges[i].args} :
                            i \in {j \in EdgesFrom(N) : EdgeInLabel(g2.edges[j], pid)}}
  IN  {args[k] : k \in DOMAIN args} \ (reached \union {g2.node[0]})

(* The selected graph: the edges with the label, in the order of the nodes *)
(* they leave, and the difference edges between the nodes of the search.   *)
Selected(pid, args) ==
  LET N     == Expanded(pid, args)
      es    == SetToSortSeq({i \in EdgesFrom(N) : EdgeInLabel(g2.edges[i], pid)},
                            LAMBDA i, j : \/ g2.edges[i].args[1] < g2.edges[j].args[1]
                                          \/ g2.edges[i].args[1] = g2.edges[j].args[1] /\ i < j)
      edges == [i \in DOMAIN es |-> g2.edges[es[i]]]
      marked == {0} \union N \union {args[k] : k \in DOMAIN args}
                  \union UNION {{e.args[k] : k \in DOMAIN e.args} : e \in Range(edges)}
  IN  [g2 EXCEPT !.edges = edges,
                 !.diff = {d \in @ : d[1] \in marked /\ d[2] \in marked}]

-----------------------------------------------------------------------------
LocArgs(args) == {args[k] : k \in 2 .. Len(args)} \ {g2.node[0]}
PtoSources(sg) == {sg.edges[i].args[1] : i \in {j \in DOMAIN sg.edges : sg.edges[j].kind = "pto"}}

(* noll_shom_select_wf_0: with a points-to edge selected, the first        *)
(* argument differs from the other ones (nil is not looked at).            *)
Wf0(sg, args) ==
  PtoSources(sg) = {} \/ \A n \in LocArgs(args) : IsDiff(g2, n, args[1])

(* noll_shom_select_wf_1: either something is left of g2, or every         *)
(* predicate edge ends at the second argument or that is nil.              *)
Wf1(sg, args) ==
  \/ args[2] = g2.node[0]
  \/ \A i \in DOMAIN sg.edges :
       \/ sg.edges[i].kind = "pto"
       \/ sg.edges[i].args[2] \in {args[2], g2.node[0]}
       \/ Len(g2.edges) # Len(sg.edges)

(* noll_shom_select_wf_2: the other arguments differ from every node with  *)
(* a points-to edge inside the segment.                                    *)
Wf2(sg, args) ==
  \A n \in LocArgs(args), src \in PtoSources(sg) : IsDiff(g2, n, src)

(* MUTANT of Used: a selected edge may have been used before. *)
UsedNot(N) == FALSE

(* An edge that leaves an expanded node, whatever its label, is used. *)
Used(N) == \E i \in EdgesFrom(N) : used[i] # 0

(* The selected graph is well formed and is an unfolding of the edge. *)
Unfolds(sg, pid, args) ==
  IF Wf0(sg, args) /\ Wf1(sg, args) /\ Wf2(sg, args) THEN ShomCheck(sg, pid, args) ELSE "no"

(* noll_shom_build_rd, one edge.  When the selection fails noll_shom_      *)
(* select_rd dereferences the graph it has just freed: the program stops.  *)
BuildRd ==
  /\ pc = "rd" /\ next < Len(RdOrder)
  /\ \E i \in {RdOrder[next + 1]} :
       LET pid  == g1.edges[i].label
           args == [k \in DOMAIN g1.edges[i].args |-> nhom[g1.edges[i].args[k]]]
           N    == Expanded(pid, args)
       IN  \/ /\ Used(N) \/ Unexplored(pid, args) # {}
              /\ pc' = "crashed"
              /\ UNCHANGED <<used, next, res>>
           \/ /\ ~Used(N) /\ Unexplored(pid, args) = {}
              /\ used' = [e \in DOMAIN used |-> IF e \in EdgesFrom(N) THEN i ELSE used[e]]
              /\ \E syn \in {Unfolds(Selected(pid, args), pid, args)} :
                   \/ /\ syn = "no"
                      /\ Finish(0)
                      /\ UNCHANGED next
                   \/ /\ syn = "loops"
                      /\ pc' = "looping"
                      /\ UNCHANGED <<next, res>>
                   \/ /\ syn = "yes"
                      /\ next' = next + 1
                      /\ UNCHANGED <<pc, res>>
  /\ UNCHANGED <<inputs, nhom>>

(* MUTANT of Precise: the edges of g2 that are left over are ignored. *)
PreciseNot == TRUE

Precise == \A e \in DOMAIN used : used[e] # 0

(* The end of noll_hom_build_1: every edge of g2 has to be used. *)
AllMapped ==
  /\ pc = "rd" /\ next = Len(RdOrder)
  /\ Finish(IF Precise THEN 1 ELSE 0)
  /\ UNCHANGED <<inputs, nhom, used, next>>

Next == BuildNodes \/ BuildPto \/ PtoDone \/ BuildRd \/ AllMapped

Spec == Init /\ [][Next]_vars

-----------------------------------------------------------------------------
(* The graphs, the node map and the marks are as noll_hom.h declares them: *)
(* a map of nodes to nodes, an edge of g1 or none for each edge of g2.     *)
TypeOK ==
  /\ pc \in {"nodes", "pto", "rd", "done", "crashed", "looping"}
  /\ res \in {0, 1} /\ next \in 0 .. Len(g1.edges)
  /\ pc # "nodes" =>
       /\ nhom \in [g1.nodes -> g2.nodes]
       /\ used \in [DOMAIN g2.edges -> 0 .. Len(g1.edges)]
  /\ \A g \in {g1, g2} : /\ g.nodes = 0 .. Cardinality(g.nodes) - 1
                         /\ \A d \in g.diff : d[2] < d[1]
                         /\ \A i \in DOMAIN g.edges : g.edges[i].args[1] # g.node[0]

(* Separation: an edge of the left side is given to one edge of the right  *)
(* side and stays with it.  noll_shom_build_pto does not look at the mark  *)
(* it overwrites, and only noll_shom_select_rd tests it (noll_hom.c).      *)
Separated == [][\A e \in DOMAIN used : used[e] # 0 => used'[e] = used[e]]_vars

(* The labels are respected: each variable's node on the right is mapped   *)
(* to its node on the left, as the comment of noll_shom_build_nodes says.  *)
Labelled == \A v \in Var : nhom[g1.node[v]] = g2.node[v]

(* Soundness: a homomorphism that respects the labels is found only when   *)
(* the left side entails the right side.                                   *)
Sound == pc = "done" /\ res = 1 /\ Labelled => Entails(left, right)

(* A segment from a variable to itself holds of no location, whatever its  *)
(* other arguments: what noll_graph_of_space relies on when it makes no    *)
(* edge of one.  noll_mk_pred_rule_check_pure tests that the base rules    *)
(* equate the ends, not that they say nothing else.                        *)
EqualEndsEmpty ==
  \A pid \in DOMAIN Preds :
    \E base \in Range(Preds[pid].base) : base = {[op |-> "eq", x |-> 1, y |-> 2]}

(* The atoms of the left side that a predicate edge was given: those that  *)
(* start from a node whose edges are marked with it.                       *)
Source(at) == IF at.kind = "pto" THEN at.src ELSE at.args[1]

Taken(i) ==
  {a \in DOMAIN left.space :
     \E e \in EdgesFrom({g2.node[Source(left.space[a])]}) : used[e] = i}

(* The edges given to a predicate edge are an unfolding of it: in each     *)
(* heap of the left side, what they allocate is a segment between the      *)
(* images of its arguments ("Check that the graph in g2 is an unfolding of *)
(* the edge e1", noll_shom_check).                                         *)
Justified ==
  pc = "done" /\ res = 1 =>
    \A i \in DOMAIN g1.edges : g1.edges[i].kind = "pred" =>
      LET args == [k \in DOMAIN g1.edges[i].args |-> GetVar(g2, nhom[g1.edges[i].args[k]])]
      IN  \A m \in ModelsOf(left.space), hs \in HeapSegments :
            m[2] = hs[1] /\ Agrees(m[1], left.pure) =>
              \A part \in [DOMAIN left.space -> SUBSET DOMAIN m[2]] :
                Splits(part, left.space, m[1], m[2], DOMAIN m[2], hs[2]) =>
                  << g1.edges[i].label, [k \in DOMAIN args |-> m[1][args[k]]],
                     UNION {part[a] : a \in Taken(i)} >> \in hs[2]

(* Completeness on these formulas: when the left side entails the right    *)
(* side, the search ends and finds a homomorphism.                         *)
Complete ==
  pc \in {"done", "crashed", "looping"} /\ Entails(left, right) =>
    pc = "done" /\ res = 1

=============================================================================
