------------------------------ MODULE NollGraph -----------------------------
(***************************************************************************)
(* The graph of a formula (noll2graph.c): a node for each class of equal   *)
(* variables, an edge for each field of a points-to atom and for each      *)
(* predicate atom, and a difference edge for each disequality.             *)
(*                                                                         *)
(* A formula is a pure matrix and a sequence of spatial atoms:             *)
(*   [kind |-> "pto", src, fields]  with fields a sequence of <<f, dst>>   *)
(*   [kind |-> "ls", pid, args]     with args a sequence of variables      *)
(* The edges of a graph are numbered from 1 (the code counts from 0), and  *)
(* mat[n], the edges that leave the node n, is read off their first        *)
(* arguments.  Set variables, sharing, strong separation and data are not  *)
(* modelled, nor the predicates with a name in "dll" or with one location. *)
(***************************************************************************)
EXTENDS NollMatrix, NollOrder, SequencesExt

CONSTANT Preds
  \* pid -> [fargs, fields, base, rec]: the number of parameters, the fields
  \* of noll_pred_is_field, the base rules as sets of pure atoms, and the
  \* recursive rules, each [exists, pto, calls, pure] with the number of its
  \* variables, a points-to atom, the recursive calls, and a set of pure
  \* atoms.  In a rule 0 is nil and 1 .. fargs are the parameters.

(* The first variable each variable equals: itself, or what the first      *)
(* earlier one it is equal to in the matrix was mapped to.                 *)
ClassOf(a) ==
  LET class[i \in Var] ==
        LET min == CHOOSE j \in 0 .. i : /\ a[<<j, i>>] = "eq"
                                         /\ \A k \in 0 .. j - 1 : a[<<k, i>>] # "eq"
        IN  IF min = i THEN i ELSE class[min]
  IN  class

(* MUTANT of NodesOfForm: a node has the number of its first variable. *)
NodesOfFormGaps(a) == ClassOf(a)

(* noll_nodes_of_form: nodes are numbered in the order of first variables. *)
NodesOfForm(a) ==
  LET class == ClassOf(a)
  IN  [i \in Var |-> Cardinality({k \in Var : k < class[i] /\ class[k] = k})]

(* MUTANT of EdgesOfAtom: a segment between equal variables gives an edge. *)
EdgesOfAtomKept(node, at) ==
  IF at.kind = "pto"
  THEN [i \in DOMAIN at.fields |->
          [kind |-> "pto", label |-> at.fields[i][1],
           args |-> <<node[at.src], node[at.fields[i][2]]>>]]
  ELSE << [kind |-> "pred", label |-> at.pid,
           args |-> [i \in DOMAIN at.args |-> node[at.args[i]]]] >>

(* The edges of an atom; a segment from a node to itself is empty.         *)
EdgesOfAtom(node, at) ==
  IF at.kind = "pto"
  THEN [i \in DOMAIN at.fields |->
          [kind |-> "pto", label |-> at.fields[i][1],
           args |-> <<node[at.src], node[at.fields[i][2]]>>]]
  ELSE IF node[at.args[1]] = node[at.args[2]] THEN <<>>
  ELSE << [kind |-> "pred", label |-> at.pid,
           args |-> [i \in DOMAIN at.args |-> node[at.args[i]]]] >>

(* noll_graph_of_space, on the separated atoms in their order. *)
GraphOfSpace(node, atoms) ==
  FlattenSeq([i \in DOMAIN atoms |-> EdgesOfAtom(node, atoms[i])])

(* noll_graph_of_pure: an entry of the lower triangle for each "neq". *)
GraphOfPure(node, a) ==
  {<<Hi(node[x[1]], node[x[2]]), Lo(node[x[1]], node[x[2]])>> :
     x \in {c \in Cell : a[c] = "neq"}}

(* noll_graph_of_form, for a form that is not UNSAT. *)
GraphOfForm(f) ==
  LET node == NodesOfForm(f.pure)
  IN  [nodes |-> {node[i] : i \in Var},
       node  |-> node,
       edges |-> GraphOfSpace(node, f.space),
       diff  |-> GraphOfPure(node, f.pure)]

-----------------------------------------------------------------------------
(* g->mat[n], in the order the edges were pushed. *)
OutEdges(g, n) ==
  SetToSortSeq({i \in DOMAIN g.edges : g.edges[i].args[1] = n}, <)

(* g->diff at the two nodes; no node differs from itself. *)
IsDiff(g, n1, n2) == <<Hi(n1, n2), Lo(n1, n2)>> \in g.diff

(* noll_graph_get_var: the first variable at a node. *)
GetVar(g, n) == CHOOSE i \in Var : /\ g.node[i] = n
                                   /\ \A j \in 0 .. i - 1 : g.node[j] # n

(* noll_graph_is_ptosrc *)
IsPtoSrc(g, n) == \E i \in DOMAIN g.edges : /\ g.edges[i].kind = "pto"
                                            /\ g.edges[i].args[1] = n

(* noll_edge_in_label, for a predicate that calls no other predicate. *)
EdgeInLabel(e, pid) ==
  IF e.kind = "pto" THEN e.label \in Preds[pid].fields ELSE e.label = pid

=============================================================================
