---------------------------- MODULE NollPred2TAGen --------------------------
(***************************************************************************)
(* The tree automaton of a predicate whose name is not known               *)
(* (noll_pred2ta_gen.c), from its definition: the first recursive rule is  *)
(* unfolded twice, the graph of that formula is translated into a tree,    *)
(* and the tree is folded into an automaton with loops at the second cell. *)
(* The automata of the predicates it calls are added below.                *)
(*                                                                         *)
(* The second cell is taken to be the first existential variable of the    *)
(* rule.  No two variables of the rule are equal, so that a variable and   *)
(* its node have the same number; the disequalities of the formula, which  *)
(* noll_graph2ta does not read, are left out.                              *)
(***************************************************************************)
EXTENDS NollPred2TA

(* The first recursive rule, and its atoms but the recursive call.         *)
Rule(pid)   == Head(Preds[pid].rec)
Matrix(pid) == <<Rule(pid).pto>> \o SelectSeq(Rule(pid).calls, LAMBDA c : c.pid # pid)

(* The number of the variables of the rule, with nil.                      *)
RuleVars(pid) == 1 + Preds[pid].fargs + Rule(pid).exists

SecondCell(pid) == Preds[pid].fargs + 1

(* noll_space_sub *)
Sub(atom, alpha) ==
  IF atom.kind = "pto"
  THEN [atom EXCEPT !.src = alpha[@],
                    !.fields = [k \in DOMAIN @ |-> <<@[k][1], alpha[@[k][2]]>>]]
  ELSE [atom EXCEPT !.args = [k \in DOMAIN @ |-> alpha[@[k]]]]

(* The second unfolding is from the second cell to the end, and has its    *)
(* own copies of the other existential variables.                          *)
SecondUnfolding(pid) ==
  [v \in 0 .. RuleVars(pid) - 1 |->
     CASE v = 1               -> SecondCell(pid)
       [] v = SecondCell(pid) -> 2
       [] v > SecondCell(pid) -> RuleVars(pid) + v - SecondCell(pid) - 1
       [] OTHER               -> v]

(* noll_pred_get_matrix *)
GetMatrix(pid) ==
  Matrix(pid) \o [k \in DOMAIN Matrix(pid) |-> Sub(Matrix(pid)[k], SecondUnfolding(pid))]

(* noll_pred2graph: a loop is an edge like the one of any other segment.   *)
Pred2Graph(pid) ==
  LET last  == RuleVars(pid) + Rule(pid).exists - 2
      ident == [v \in 0 .. last |-> v]
      EdgesOf(at) == IF at.kind = "loop"
                     THEN << [kind |-> "pred", label |-> at.pid, args |-> at.args] >>
                     ELSE EdgesOfAtom(ident, at)
      atoms == GetMatrix(pid)
  IN  [nodes |-> 0 .. last, node |-> ident, diff |-> {},
       edges |-> FlattenSeq([k \in DOMAIN atoms |-> EdgesOf(atoms[k])])]

(* noll_pred2tree *)
Pred2Tree(pid) == Graph2TA(Pred2Graph(pid), [k \in 1 .. Preds[pid].fargs |-> k])

-----------------------------------------------------------------------------
(* noll_ta_symbol_get_vars and _get_marking. *)
SymbolVars(sym) == CASE sym.kind = "var"               -> {sym.var}
                     [] sym.kind \in {"alloc", "pred"} -> sym.vars
                     [] OTHER                          -> {}

(* noll_ta_symbol_get_unique_renamed: with the symbols y of the actual     *)
(* parameters.  Unless doSub a cell or a segment loses its variables; its  *)
(* marking stays the one in its own tree.                                  *)
Renamed(sym, doSub, y) ==
  CASE sym.kind \in {"alloc", "pred"} ->
         [sym EXCEPT !.vars = IF doSub THEN UNION {SymbolVars(y[v]) : v \in @} ELSE {}]
    [] sym.kind = "var" ->
         IF sym.var \notin DOMAIN y THEN sym
         ELSE IF y[sym.var].kind = "var" THEN y[sym.var] ELSE UpDownFst(y[sym.var].marking)
    [] OTHER -> sym

(* noll_ta_symbol_get_unique_aliased_symbol: a cell is named by its        *)
(* variable, or else as the first with its marking below an ancestor.      *)
AliasedSymbol(sym, y) ==
  LET r == Renamed(sym, TRUE, y)
  IN  IF IsAlias(sym) THEN r
      ELSE IF r.vars # {} THEN AliasVar(CHOOSE v \in r.vars : TRUE) ELSE UpDownFst(r.marking)

(* The state of a node of the tree: the first cell, the end, or its number *)
(* above the states that are used already.                                 *)
StateOf(i, src, dst, offset) == CASE i = 1 -> src [] i = 2 -> dst [] OTHER -> i + offset

(* The transitions of a node of the tree.  The second cell may lead on     *)
(* like the first one, the first one end like the second one.  At the top  *)
(* the symbol of the first cell keeps the number of the formal parameter.  *)
GenNode(tree, pid, i, src, dst, y, offset) ==
  LET sym  == tree.nodes[i].symbol
      Q(n) == StateOf(n, src, dst, offset)
      kids == [k \in DOMAIN tree.nodes[i].children |-> Q(tree.nodes[i].children[k])]
      tl   == SecondCell(pid)
  IN  CASE IsAlias(sym) ->
             IF i = 2 /\ offset # 0 THEN {} ELSE {Leaf(Q(i), Renamed(sym, offset = 0, y))}
        [] sym.kind = "pred" -> {T(Q(i), Renamed(sym, offset = 0, y), kids)}
        [] sym.kind = "alloc" ->
             {T(Q(i), IF offset # 0 /\ i = 1 THEN Renamed(sym, FALSE, y) ELSE sym, kids)}
               \union {T(tl + offset, tree.nodes[tl].symbol, kids) : n \in {1} \intersect {i}}
               \union {T(src, Renamed(tree.nodes[1].symbol, offset = 0, y), kids) : n \in {tl} \intersect {i}}

(* Segments from the second cell, and from the first one to the second;    *)
(* their further arguments are left out.                                   *)
GenSegments(tree, pid, src, srcSymbol, dst, offset) ==
  LET tl == SecondCell(pid) + offset
      tail == HigherPred(pid, {}, tree.nodes[SecondCell(pid)].symbol.marking)
  IN  {T(tl, tail, <<tl>>), T(tl, tail, <<dst>>),
       T(src, HigherPred(pid, srcSymbol.vars, srcSymbol.marking), <<tl>>)}

(* noll_edge2ta_gen_param: the actual parameters of a called predicate,    *)
(* from the segment at node i of the tree; those after the ends get a      *)
(* number whatever they are.                                               *)
GenParam(tree, pid, i, y) ==
  LET node == tree.nodes[i]
      end  == tree.nodes[node.children[1]]
  IN  [k \in 0 .. Preds[pid].fargs |->
         CASE k = 0 -> AliasVar(0)
           [] k = 1 -> AliasedSymbol(node.symbol, y)
           [] k = 2 -> AliasedSymbol(end.symbol, y)
           [] OTHER -> AliasVar(k - 1)]

RECURSIVE GenAux(_, _, _, _, _, _)

(* noll_edge2ta_gen_aux: the automaton from src to dst, whose other states *)
(* are above the offset.  A call may be empty, where its first state is    *)
(* an alias of its end.                                                    *)
GenAux(pid, src, srcSymbol, dst, y, offset) ==
  LET Own(tree) == UNION {GenNode(tree, pid, i, src, dst, y, offset) : i \in DOMAIN tree.nodes}
                     \union GenSegments(tree, pid, src, srcSymbol, dst, offset)
      Empty == IF offset = 0 THEN {} ELSE {Leaf(src, y[2])}
      Called(tree) == SetToSortSeq({i \in DOMAIN tree.nodes : tree.nodes[i].symbol.kind = "pred"}, <)
      Joined(acc, ta) == [last |-> ta.last, trans |-> acc.trans \union ta.trans]
      Calls(tree) ==
        FoldLeft(LAMBDA acc, i :
                   Joined(acc, GenAux(tree.nodes[i].symbol.pid, i + offset, tree.nodes[i].symbol,
                                      StateOf(tree.nodes[i].children[1], src, dst, offset),
                                      GenParam(tree, pid, i, y), acc.last)),
                 [last |-> Largest(DOMAIN tree.nodes) + offset, trans |-> Own(tree) \union Empty],
                 Called(tree))
  IN  Calls(Pred2Tree(pid))

(* noll_edge2ta_gen *)
Edge2TAGen(pid, args) ==
  LET y == [k \in 0 .. Len(args) |-> IF k = 0 THEN AliasVar(0) ELSE AliasVar(args[k])]
  IN  GenAux(pid, 1, Pred2Tree(pid).nodes[1].symbol, 2, y, 0).trans

(* noll_edge2ta *)
Edge2TA(pid, args) ==
  [root  |-> 1,
   trans |-> IF KnownName(Preds[pid].name) THEN Edge2TAKnown(pid, args) ELSE Edge2TAGen(pid, args)]

=============================================================================
