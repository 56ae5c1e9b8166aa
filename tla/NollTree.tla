------------------------------- MODULE NollTree -----------------------------
(***************************************************************************)
(* The alphabet of the tree automata (noll_ta_symbols.c), trees            *)
(* (noll_tree.c) and the inclusion of their languages (libvata).           *)
(*                                                                         *)
(* A marking is a sequence of fields that starts with Eps; a symbol is     *)
(* unique (noll_symbol_spawn looks it up first), so two symbols are the    *)
(* same when they are equal, with the variables of a cell as a set         *)
(* (noll_ta_symbol_match).  The strings of symbols are left out.  A tree   *)
(* is [root, nodes], nodes a function from states to [symbol, children];   *)
(* an automaton is [root, trans], trans a set of [from, symbol, children]. *)
(***************************************************************************)
EXTENDS Integers, SequencesExt

Eps == 0                 \* NOLL_MARKINGS_EPSILON; fields are numbered from 1
MarkEps == <<Eps>>

(* noll_ta_symbol_get_unique_allocated, _higher_pred and the aliases. *)
Allocated(sels, vs, m)  == [kind |-> "alloc", sels |-> sels, vars |-> vs, marking |-> m]
HigherPred(pid, vs, m)  == [kind |-> "pred", pid |-> pid, vars |-> vs, marking |-> m]
AliasVar(v)             == [kind |-> "var", var |-> v]
AliasMarking(rel, m)    == [kind |-> "marking", rel |-> rel, marking |-> m]

(* The relations of an alias with its node: above it, above it with the    *)
(* same marking, and the first below an ancestor.                          *)
Up(m)          == AliasMarking("up", m)
UpUp(m)        == AliasMarking("up_up", m)
UpDownFst(m)   == AliasMarking("up_down_fst", m)

(* noll_ta_symbol_match: spawning a symbol gives the one it matches.       *)
Match(s1, s2) == s1 = s2

(* A NULL symbol; it is added to the automaton like any other one. *)
NoSymbol == [kind |-> "null"]

IsAlias(sym) == sym.kind \in {"var", "marking"}

(* noll_marking_push (noll_pred2ta.c): a repeated field is not added. *)
MarkingPush(m, f) == IF m[Len(m)] = f THEN m ELSE Append(m, f)

-----------------------------------------------------------------------------
(* noll_tree_create_node for a leaf or an inner node. *)
TreeNode(sym, children) == [symbol |-> sym, children |-> children]

(* noll_tree_to_ta: a transition for each node that was created. *)
TreeToTA(tree) ==
  [root  |-> tree.root,
   trans |-> {[from |-> i, symbol |-> tree.nodes[i].symbol,
               children |-> tree.nodes[i].children] : i \in DOMAIN tree.nodes}]

States(ta) ==
  {ta.root} \union UNION {{t.from} \union Range(t.children) : t \in ta.trans}

(* The states from which a finite tree can be generated. *)
Productive(ta) ==
  LET More(Q) == {t.from : t \in {s \in ta.trans : Range(s.children) \subseteq Q}}
      prod[n \in Nat] == IF n = 0 THEN {} ELSE LET Q == prod[n - 1] IN Q \union More(Q)
  IN  prod[Cardinality(States(ta))]

(* The language of the automaton has no tree. *)
EmptyLanguage(ta) == ta.root \notin Productive(ta)

(* vata_check_inclusion, for a smaller automaton with one transition at    *)
(* most from each state: its language is empty or the one tree that the    *)
(* bigger automaton then has to accept.                                    *)
CheckInclusion(smaller, bigger) ==
  LET accepts[x \in States(smaller) \X States(bigger)] ==
        \E s \in smaller.trans, t \in bigger.trans :
          /\ s.from = x[1] /\ t.from = x[2]
          /\ Match(s.symbol, t.symbol)
          /\ Len(s.children) = Len(t.children)
          /\ \A k \in DOMAIN s.children : accepts[<<s.children[k], t.children[k]>>]
  IN  EmptyLanguage(smaller) \/ accepts[<<smaller.root, bigger.root>>]

=============================================================================
