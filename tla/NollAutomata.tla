----------------------------- MODULE NollAutomata ---------------------------
(***************************************************************************)
(* The check of a selected subgraph with tree automata (noll_hom.c,        *)
(* noll_shom_check_TA): the graph is translated into a tree, the edge of   *)
(* the right side into an automaton, and the language of the first has to  *)
(* be included in the one of the second.  homo has the nodes of the graph  *)
(* for the arguments of the edge, args their nodes in the graph of the     *)
(* right side.                                                             *)
(***************************************************************************)
EXTENDS NollPred2TAGen, NollUnfold

CONSTANT Checks   \* the checks, records [g, pid, args, homo]

VARIABLES
  check,     \* the check, as noll_shom_check was called
  g2,        \* the graph, with the edges that are added to it
  pc,
  g2_tree,   \* the result of noll_graph2ta
  e1_ta,     \* the automaton of the edge, <<>> before it is built
  res        \* the result of noll_shom_check_TA

vars == <<check, g2, pc, g2_tree, e1_ta, res>>

NoTree == Tree("none", 0, <<>>, 0)

Init ==
  /\ check \in Checks
  /\ g2 = check.g
  /\ pc = "graph"
  /\ g2_tree = NoTree /\ e1_ta = <<>> /\ res = 0

(* Over two directions the graph gets its explicit edges. *)
ExplicitEdges ==
  /\ pc = "graph"
  /\ g2' = IF IsTwoDir(check.pid) THEN GraphDll(g2, check.pid) ELSE g2
  /\ pc' = "tree"
  /\ UNCHANGED <<check, g2_tree, e1_ta, res>>

(* A graph that cannot be translated is no unfolding. *)
TranslateGraph ==
  /\ pc = "tree"
  /\ g2_tree' = Graph2TA(g2, check.homo)
  /\ pc' = CASE g2_tree'.kind = "tree"  -> "edge"
             [] g2_tree'.kind = "null"  -> "done"
             [] g2_tree'.kind = "crash" -> "crashed"
             [] g2_tree'.kind = "loops" -> "looping"
  /\ UNCHANGED <<check, g2, e1_ta, res>>

TranslateEdge ==
  /\ pc = "edge"
  /\ e1_ta' = Edge2TA(check.pid, check.args)
  /\ pc' = "inclusion"
  /\ UNCHANGED <<check, g2, g2_tree, res>>

Inclusion ==
  /\ pc = "inclusion"
  /\ res' = IF CheckInclusion(TreeToTA(g2_tree), e1_ta) THEN 1 ELSE 0
  /\ pc' = "done"
  /\ UNCHANGED <<check, g2, g2_tree, e1_ta>>

Next == ExplicitEdges \/ TranslateGraph \/ TranslateEdge \/ Inclusion

Spec == Init /\ [][Next]_vars

-----------------------------------------------------------------------------
(* The graph is an unfolding of the edge, read off the rules. *)
IsUnfolding ==
  Unfolding(check.g, check.pid, SubSeq(check.homo, 1, Preds[check.pid].fargs), DOMAIN check.g.edges)

(* Nodes have the same numbers on both sides, which are those of their     *)
(* first variables: the symbols of the tree name nodes of the graph, and   *)
(* its end by a variable, those of the automaton nodes of the right side.  *)
SameNumbers ==
  /\ SubSeq(check.homo, 1, Len(check.args)) = check.args
  /\ \A i \in DOMAIN check.g.node : check.g.node[i] = i

(* The fields of each cell are written in the order of noll_field_order,   *)
(* the one of the symbols of the automata.                                 *)
InFieldOrder ==
  \A i, j \in DOMAIN check.g.edges :
    LET e == check.g.edges[i]
        f == check.g.edges[j]
    IN  i < j /\ e.args[1] = f.args[1] => FieldLt(e.label, f.label)

(* The nodes from the first argument on, along the backbone. *)
Backbone ==
  LET bkb == FieldsWith(check.pid, {"bckbone"})
      Next2(N) == {e.args[2] : e \in {f \in Range(check.g.edges) :
                                       f.args[1] \in N /\ (IF f.kind = "pto" THEN f.label \in bkb
                                                           ELSE f.label = check.pid)}}
      reach[n \in Nat] == IF n = 0 THEN {check.homo[1]} ELSE LET N == reach[n - 1] IN N \union Next2(N)
  IN  reach[Cardinality(check.g.nodes)]

(* What the general translation leaves out: the first argument has to be   *)
(* the node 1, no field may be nil, which is not an argument of the tree   *)
(* of the predicate, lists of called predicates are one segment each, as   *)
(* the symbols inside them have markings of their own, segments have no    *)
(* border, and one of them alone is not read.                              *)
GenExpressible ==
  /\ check.args[1] = 1
  /\ FieldsWith(check.pid, {"null"}) = {}
  /\ \E e \in Range(check.g.edges) : e.kind = "pto"
  /\ \A e \in Range(check.g.edges) :
       IF e.kind = "pred" /\ e.label # check.pid
       THEN \E f \in Range(check.g.edges) : f.kind = "pto" /\ f.args[2] = e.args[1]
       ELSE e.args[1] \in Backbone /\ (e.kind = "pred" => Len(e.args) = 2)

(* A list of level 1 of a skip list does not start with a segment, whose   *)
(* symbol would lack the first argument, and no cycle of nlcl has only one *)
(* cell, whose alias would have the same marking as the cell.              *)
Expressible ==
  /\ Preds[check.pid].name = "skl1" =>
       \A e \in Range(check.g.edges) : e.kind = "pred" => e.args[1] # check.homo[1]
  /\ \A e \in Range(check.g.edges) : e.args[1] # e.args[2]
  /\ ~KnownName(Preds[check.pid].name) => GenExpressible

(* The nodes of the tree below its root. *)
InTree ==
  LET ta == TreeToTA(g2_tree)
      reach[n \in Nat] ==
        IF n = 0 THEN {ta.root}
        ELSE LET N == reach[n - 1]
             IN  N \union UNION {Range(t.children) : t \in {s \in ta.trans : s.from \in N}}
  IN  reach[Cardinality(check.g.nodes)]

Translated == pc \in {"edge", "inclusion", "done"} /\ g2_tree.kind = "tree"

(* Whether the alias of the edge e, if it is the first successor with a    *)
(* marking below an ancestor, leads from that ancestor to where e leads.   *)
LeadsThere(marks, e) ==
  LET m   == marks[e.args[2]]
      anc == FirstAncestor(g2, marks, e.args[1], LongestCommonPrefix({m, marks[e.args[1]]}))
  IN  ChildOf(g2, check.homo, marks, e.args[1], e).symbol = UpDownFst(m) =>
        \E i \in Range(OutEdges(g2, anc.node)) : /\ Label(g2.edges[i]) = m[Len(m)]
                                                 /\ g2.edges[i].args[2] = e.args[2]

-----------------------------------------------------------------------------
(* The steps of the check leave behind what the next ones read: a tree     *)
(* whose states are nodes of the graph or leaves numbered after them, and  *)
(* an automaton with 1 as its root (noll_graph2ta.h, noll_pred2ta.h).      *)
TypeOK ==
  /\ pc \in {"graph", "tree", "edge", "inclusion", "done", "crashed", "looping"}
  /\ res \in {0, 1}
  /\ Translated => /\ DOMAIN g2_tree.nodes \subseteq 0 .. g2_tree.leaf - 1
                   /\ g2_tree.root = check.homo[1]
  /\ pc = "inclusion" => e1_ta.root = 1 /\ 1 \in {t.from : t \in e1_ta.trans}

(* noll_graph2ta.h says that the automaton of the graph accepts a          *)
(* singleton set: the language of the tree is not empty.                   *)
NonEmpty == Translated => ~EmptyLanguage(TreeToTA(g2_tree))

(* As is_the_first_successor_of_with_marking says, it returns true only    *)
(* for the first successor: an alias for it leads to the aliased node.     *)
FirstSuccessors ==
  Translated => LET marks == Markings(g2, check.homo[1])
                IN  \A e \in Range(g2.edges) : LeadsThere(marks, e)

(* No edge is lost: when the tree is a finite one, each node of the graph  *)
(* that has edges is in it, so that the inclusion speaks of all of them.   *)
Spans ==
  Translated /\ NonEmpty => \A e \in Range(g2.edges) : e.args[1] \in InTree

(* noll_shom_check_TA is sound: where the two properties above hold, a     *)
(* graph it accepts is an unfolding of the edge by the predicate's rules,  *)
(* also when the nodes have other numbers on the other side.               *)
Sound ==
  pc = "done" /\ res = 1 /\ NonEmpty /\ FirstSuccessors => IsUnfolding

(* It is complete for graphs whose nodes and fields are numbered as the    *)
(* automaton expects: every unfolding of its rules that is not empty and   *)
(* that the symbols can express is accepted.                               *)
Complete ==
  /\ pc \in {"done", "crashed", "looping"}
  /\ SameNumbers /\ InFieldOrder /\ Expressible
  /\ IsUnfolding /\ check.g.edges # <<>>
  => pc = "done" /\ res = 1

(* The translation neither dereferences NULL nor climbs round a cycle for  *)
(* ever on a graph that is an unfolding, however it is numbered.           *)
Translates == pc \in {"crashed", "looping"} => ~IsUnfolding

=============================================================================
