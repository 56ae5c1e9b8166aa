----------------------------- MODULE NollGraph2TA ---------------------------
(***************************************************************************)
(* The tree of a graph (noll_graph2ta.c) and the explicit edges that a     *)
(* graph over two directions gets first (noll_graph_dll, noll_graph.c).    *)
(*                                                                         *)
(* Each node is marked with the least sequence of fields that leads to it  *)
(* from the start.  An edge to a node whose marking continues the one of   *)
(* its source is an edge of the tree; the target of any other edge becomes *)
(* a leaf that says where it is, by its variable or by its marking.        *)
(*                                                                         *)
(* homo has the nodes of the arguments of the edge that is checked.  The   *)
(* translation fails when it finds no symbol; with the assertions off it   *)
(* dereferences NULL ("crash") when it climbs above a node without parent  *)
(* or meets a node without marking, and may climb round a cycle for ever.  *)
(***************************************************************************)
EXTENDS NollGraph, NollTree

CONSTANT FieldOrder
  \* field -> its number in the order of noll_field_order.  Predicates have
  \* moreover [name, role, calls]: role[f] is what noll_pred_type makes of
  \* the field f ("bckbone", "inner", "null", "border", "nested", "none"),
  \* calls the set of the predicates it calls.

FieldLt(f1, f2) == FieldOrder[f1] < FieldOrder[f2]

IsTwoDir(pid) == Preds[pid].name = "dll"

FieldsWith(pid, roles) == {f \in DOMAIN FieldOrder : Preds[pid].role[f] \in roles}

(* noll_pred_get_minfield *)
MinField(pid) ==
  CHOOSE f \in FieldsWith(pid, {"bckbone"}) :
    \A h \in FieldsWith(pid, {"bckbone"}) \ {f} : FieldLt(f, h)

(* The field an edge follows. *)
Label(e) == IF e.kind = "pto" THEN e.label ELSE MinField(e.label)

(* MUTANT of GraphDll: the last node of a segment gets no edge. *)
GraphDllNoNext(g, pid) ==
  LET prev == CHOOSE f \in FieldsWith(pid, {"border"}) : TRUE
      segs == SelectSeq(g.edges, LAMBDA e : e.kind = "pred")
  IN  [g EXCEPT !.edges = @ \o FlattenSeq([i \in DOMAIN segs |->
         << [kind |-> "pto", label |-> prev, args |-> <<segs[i].args[1], segs[i].args[3]>>] >>])]

(* noll_graph_dll: the last node of a segment points forward and its first *)
(* node backward; dll has one field of each role.                          *)
GraphDll(g, pid) ==
  LET first(role) == CHOOSE f \in FieldsWith(pid, {role}) :
                       \A h \in FieldsWith(pid, {role}) : f <= h
      segs == SelectSeq(g.edges, LAMBDA e : e.kind = "pred")
      Pto(src, f, dst) == [kind |-> "pto", label |-> f, args |-> <<src, dst>>]
  IN  [g EXCEPT !.edges = @ \o FlattenSeq([i \in DOMAIN segs |->
         LET a == segs[i].args
         IN  << Pto(a[2], first("bckbone"), a[4]), Pto(a[1], first("border"), a[3]) >>])]

-----------------------------------------------------------------------------
(* noll_fields_order_lt *)
FieldsOrderLt(f1, f2) ==
  f1 = Eps \/ (f2 # Eps /\ f1 # f2 /\ FieldLt(f1, f2))

(* noll_marking_lexico_lt: the first field that differs decides. *)
LexicoLt(m1, m2) ==
  LET differ == {i \in 2 .. Len(m1) : i <= Len(m2) /\ m1[i] # m2[i]}
  IN  IF differ = {} THEN Len(m1) < Len(m2)
      ELSE LET i == CHOOSE j \in differ : \A k \in differ : j <= k
           IN  FieldsOrderLt(m1[i], m2[i])

(* noll_marking_order_lt: the last field counts first, and a marking that  *)
(* is less by its last field or in lexicographic order is less.            *)
MarkingOrderLt(m1, m2) ==
  \/ Len(m1) = 1 /\ Len(m2) >= 2
  \/ /\ Len(m1) >= 2 /\ Len(m2) >= 2
     /\ FieldsOrderLt(m1[Len(m1)], m2[Len(m2)]) \/ LexicoLt(m1, m2)

(* update_marking_from: the paths to src, with one edge more. *)
UpdateMarking(paths, node, src, lab) ==
  [paths EXCEPT ![node] =
     FoldLeft(LAMBDA ms, m : IF Append(m, lab) \in Range(ms) THEN ms ELSE Append(ms, Append(m, lab)),
              @, paths[src])]

RECURSIVE ComputePaths(_, _, _, _)

(* rec_compute_paths: a node that is on the way already is not entered.    *)
(* Of a predicate edge only the second argument is followed.               *)
ComputePaths(g, node, stack, paths) ==
  FoldLeft(LAMBDA ps, i :
             LET e    == g.edges[i]
                 post == e.args[2]
             IN  IF post \in stack THEN ps
                 ELSE ComputePaths(g, post, stack \union {post},
                                   UpdateMarking(ps, post, node, Label(e))),
           paths, OutEdges(g, node))

(* The fields of a path, each run of the same field once. *)
Collapse(m) == FoldLeft(LAMBDA r, f : IF r # <<>> /\ r[Len(r)] = f THEN r ELSE Append(r, f), <<>>, m)

(* compute_markings: the least path of each node, <<>> if it has none. *)
Markings(g, start) ==
  LET empty == [n \in g.nodes |-> IF n = start THEN <<MarkEps>> ELSE <<>>]
      paths == ComputePaths(g, start, {start}, empty)
      least(ms) == FoldLeft(LAMBDA l, m : IF MarkingOrderLt(m, l) THEN m ELSE l, Head(ms), Tail(ms))
  IN  [n \in g.nodes |-> IF paths[n] = <<>> THEN <<>> ELSE Collapse(least(paths[n]))] @@ <<>>

-----------------------------------------------------------------------------
(* MUTANT of IsSuccOfVia: a field that is repeated ends the tree. *)
IsSuccOfViaOnce(m, pred, f) ==
  m[Len(m)] = f /\ Len(m) = Len(pred) + 1 /\ IsPrefix(pred, m)

(* noll_marking_is_succ_of_via: the edge with this field to a node with    *)
(* the marking m is an edge of the tree.                                   *)
IsSuccOfVia(m, pred, f) ==
  /\ m[Len(m)] = f
  /\ Len(m) - Len(pred) \in {0, 1}
  /\ IsPrefix(pred, m)

(* reachable_from_through_path_wo_marker: dst is the target of an edge of  *)
(* a node that is reached from src without passing the marking m.          *)
ReachableWithout(g, marks, dst, src, m) ==
  LET Succ(N) == {g.edges[i].args[2] : i \in {j \in DOMAIN g.edges : g.edges[j].args[1] \in N}}
      reach[n \in Nat] ==
        IF n = 0 THEN {src}
        ELSE LET N == reach[n - 1] IN N \union {p \in Succ(N) : p # dst /\ marks[p] # m}
  IN  dst \in Succ(reach[Cardinality(g.nodes)])

(* The parent that find_first_ancestor_with_marking climbs to.  The label  *)
(* of the edge found so far is read as a field, also when it is the number *)
(* of a predicate.                                                         *)
Parent(g, node) ==
  LET ins == SetToSortSeq({i \in DOMAIN g.edges : g.edges[i].args[2] = node}, <)
      Better(best, i) == IF FieldLt(Label(g.edges[i]), g.edges[best].label) THEN i ELSE best
  IN  IF ins = <<>> THEN -1
      ELSE g.edges[FoldLeft(Better, Head(ins), Tail(ins))].args[1]

(* find_first_ancestor_with_marking: a node, or how the climb ends when it *)
(* does not find one.                                                      *)
FirstAncestor(g, marks, node, m) ==
  LET size == Cardinality(g.nodes)
      climb[n \in 0 .. size] ==
        IF n = 0 THEN node
        ELSE LET p == climb[n - 1]
             IN  IF p = -1 \/ marks[p] = <<>> THEN -1 ELSE IF marks[p] = m THEN p ELSE Parent(g, p)
      Reached(end) ==
        [node |-> end,
         kind |-> IF end = -1 \/ marks[end] = <<>> THEN "crash"
                  ELSE IF marks[end] = m THEN "found" ELSE "loops"]
  IN  Reached(climb[size])

(* is_the_first_successor_of_with_marking: some edge of src has the last   *)
(* field of m as its label; which node it leads to is not looked at.       *)
IsFirstSuccessor(g, marks, src, m) ==
  /\ Len(m) - Len(marks[src]) \in {0, 1}
  /\ \E i \in Range(OutEdges(g, src)) : g.edges[i].label = m[Len(m)]

(* get_marking_symbol_of_node_wrt_base: the symbol of a leaf for a node    *)
(* that an edge or a further argument of an edge of base leads to.         *)
MarkingSymbol(g, homo, marks, node, base) ==
  LET m  == marks[node]
      mb == marks[base]
      BelowAncestor(anc) ==
        IF anc.kind # "found" THEN [kind |-> anc.kind]
        ELSE IF IsFirstSuccessor(g, marks, anc.node, m) THEN UpDownFst(m) ELSE NoSymbol
  IN  IF node \in Range(homo) THEN AliasVar(node)
      ELSE IF m = <<>> THEN [kind |-> "crash"]
      ELSE IF IsPrefix(m, mb) /\ ReachableWithout(g, marks, base, node, m)
           THEN IF m # mb THEN Up(m) ELSE UpUp(m)
      ELSE BelowAncestor(FirstAncestor(g, marks, base, LongestCommonPrefix({m, mb})))

-----------------------------------------------------------------------------
(* An edge of the tree, or a leaf with a symbol. *)
ChildOf(g, homo, marks, node, e) ==
  LET next == e.args[2]
  IN  IF marks[node] = <<>> \/ marks[next] = <<>>
      THEN [tree |-> FALSE, symbol |-> [kind |-> "crash"]]
      ELSE IF IsSuccOfVia(marks[next], marks[node], Label(e))
      THEN [tree |-> TRUE, symbol |-> NoSymbol]
      ELSE [tree |-> FALSE, symbol |-> MarkingSymbol(g, homo, marks, next, node)]

(* What the translation makes so far: the tree, with the number of the     *)
(* next leaf, and how it ends: "tree", "null", "crash" or "loops".         *)
Tree(kind, root, nodes, leaf) == [kind |-> kind, root |-> root, nodes |-> nodes, leaf |-> leaf]

(* MUTANT of AddLeaf: the number is not counted up. *)
AddLeafSame(acc, sym) ==
  IF sym.kind \in {"crash", "loops"} THEN [acc EXCEPT !.tree.kind = sym.kind]
  ELSE [children |-> Append(acc.children, acc.tree.leaf),
        tree     |-> [acc.tree EXCEPT !.nodes = (acc.tree.leaf :> TreeNode(sym, <<>>)) @@ @]]

(* A child that is a leaf: it gets a number and a node of its own. *)
AddLeaf(acc, sym) ==
  IF sym.kind \in {"crash", "loops"} THEN [acc EXCEPT !.tree.kind = sym.kind]
  ELSE [children |-> Append(acc.children, acc.tree.leaf),
        tree     |-> [acc.tree EXCEPT !.nodes = (acc.tree.leaf :> TreeNode(sym, <<>>)) @@ @,
                                      !.leaf = @ + 1]]

(* The child for an edge; without a symbol the translation gives up. *)
AddChild(g, homo, marks, i, acc, e) ==
  LET Add(child) == IF child.tree THEN [acc EXCEPT !.children = Append(@, e.args[2])]
                    ELSE IF child.symbol = NoSymbol THEN [acc EXCEPT !.tree.kind = "null"]
                    ELSE AddLeaf(acc, child.symbol)
  IN  IF acc.tree.kind # "tree" THEN acc ELSE Add(ChildOf(g, homo, marks, i, e))

(* The further arguments of a predicate edge, a leaf for each. *)
AddParams(g, homo, marks, i, acc, args) ==
  FoldLeft(LAMBDA r, n : IF r.tree.kind # "tree" THEN r
                         ELSE AddLeaf(r, MarkingSymbol(g, homo, marks, n, i)), acc, args)

(* Over two directions the target of the segment is the first child. *)
TargetFirst(children, target) ==
  IF children[1] = target THEN children ELSE <<target, children[1]>>

(* MUTANT of NodeSymbol: the arguments at the node are not in its symbol. *)
NodeSymbolBare(homo, marks, i, edges, segs) ==
  IF segs = <<>> THEN Allocated([k \in DOMAIN edges |-> Label(edges[k])], {}, marks[i])
  ELSE HigherPred(segs[1].label, {}, marks[i])

(* The symbol of a node with edges. *)
NodeSymbol(homo, marks, i, edges, segs) ==
  LET vs == {i} \intersect Range(homo)
  IN  IF segs = <<>> THEN Allocated([k \in DOMAIN edges |-> Label(edges[k])], vs, marks[i])
      ELSE HigherPred(segs[Len(segs)].label, vs, marks[i])

(* The children for the edges, and then those for the further arguments of *)
(* the last segment.                                                       *)
AddChildren(g, homo, marks, i, tree, edges) ==
  FoldLeft(LAMBDA acc, e : AddChild(g, homo, marks, i, acc, e), [children |-> <<>>, tree |-> tree], edges)

AddArguments(g, homo, marks, i, kids, segs) ==
  LET seg == segs[Len(segs)]
      two == IsTwoDir(seg.label)
  IN  IF segs = <<>> \/ kids.tree.kind # "tree" THEN kids
      ELSE AddParams(g, homo, marks, i,
                     IF two THEN [kids EXCEPT !.children = TargetFirst(@, seg.args[2])] ELSE kids,
                     SubSeq(seg.args, IF two THEN 5 ELSE 3, Len(seg.args)))

(* One round of the loop of noll_graph2ta, for a tree that has not failed. *)
(* A node without edges is a leaf when it is an argument, named by its     *)
(* first variable; any other one gets no node.                             *)
TranslateNode(g, homo, marks, tree, i) ==
  LET out   == OutEdges(g, i)
      edges == [k \in DOMAIN out |-> g.edges[out[k]]]
      segs  == SelectSeq(edges, LAMBDA e : e.kind = "pred")
      Put(t, symbol, children) == [t EXCEPT !.nodes = (i :> TreeNode(symbol, children)) @@ @]
      Finish(done) == IF done.tree.kind # "tree" THEN done.tree
                      ELSE Put(done.tree, NodeSymbol(homo, marks, i, edges, segs), done.children)
  IN  IF edges # <<>>
      THEN Finish(AddArguments(g, homo, marks, i, AddChildren(g, homo, marks, i, tree, edges), segs))
      ELSE IF i \in Range(homo) THEN Put(tree, AliasVar(GetVar(g, i)), <<>>)
      ELSE tree

(* noll_graph2ta: a node of the tree for each node of the graph in turn. *)
Graph2TA(g, homo) ==
  LET marks == Markings(g, homo[1])
      size  == Cardinality(g.nodes)
  IN  FoldLeft(LAMBDA tree, i : IF tree.kind # "tree" THEN tree
                                ELSE TranslateNode(g, homo, marks, tree, i),
               Tree("tree", homo[1], <<>>, size), [k \in 1 .. size |-> k - 1])

=============================================================================
