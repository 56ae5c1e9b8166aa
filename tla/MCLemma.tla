------------------------------- MODULE MCLemma ------------------------------
(***************************************************************************)
(* The families of predicates of src/samples, each in every order and with *)
(* members missing, and families with parameters that the samples do not   *)
(* have: a border, the roots of one kind before those of another, data     *)
(* that stays the same along a list.  The record of the locations is 1.    *)
(***************************************************************************)
EXTENDS NollLemma

L == 1
B == BagType
I == IntType

Sig(name, tys) == [name |-> name, vars |-> <<0>> \o tys]

Segment(roots, pending, border) ==
  [roots |-> roots, pending |-> pending, border |-> border, ends |-> <<>>, cells |-> 0 .. 1, parts |-> {}]
Stronger(m) == [m EXCEPT !.cells = {1}]
Complete(roots, ends, parts) ==
  [roots |-> roots, pending |-> <<>>, border |-> {}, ends |-> ends, cells |-> 0 .. 1, parts |-> parts]

AvlSegment == Segment(<<1, 3, 4>>, <<2, 5, 6>>, {})
RbtSegment == Segment(<<1, 3, 4, 5>>, <<2, 6, 7, 8>>, {})

Families == {
  {Sig("ls", <<L, L>>), Sig("lss", <<L, L, L>>), Sig("dll", <<L, L, L, L>>)},
  {Sig("slist", <<L, B>>), Sig("slseg", <<L, L, B, B>>), Sig("ls", <<L, L>>)},
  {Sig("bst", <<L, B>>), Sig("bsthole", <<L, L, B, B>>), Sig("ldata", <<L, L, I>>)},
  {Sig("avl", <<L, B, I>>)} \union
    {Sig(name, <<L, L, B, I, B, I>>) : name \in {"avlhole", "bavlhole", "ubavlhole"}},
  {Sig("rbt", <<L, B, I, I>>)} \union
    {Sig(name, <<L, L, B, I, I, B, I, I>>) : name \in {"rbthole", "brrbthole", "rbrbthole"}},
  {Sig("len", <<L, B, I>>), Sig("lenseg", <<L, L, B, B, I, I>>), Sig("lenb", <<L, L, L, I, I>>)}}

MCSignatures == UNION Families

MCMeaning ==
  [name \in {s.name : s \in MCSignatures} |->
     CASE name = "ls"    -> Segment(<<1>>, <<2>>, {})
       [] name = "lss"   -> Segment(<<1>>, <<2>>, {3})
       [] name = "dll"   -> Segment(<<1, 3>>, <<4, 2>>, {})
       [] name = "ldata" -> Segment(<<1>>, <<2>>, {3})
       [] name = "slist" -> Complete(<<1, 2>>, <<0, 0>>, {"slseg"})
       [] name = "bst"   -> Complete(<<1, 2>>, <<0, 0>>, {"bsthole"})
       [] name \in {"slseg", "bsthole"} -> Segment(<<1, 3>>, <<2, 4>>, {})
       [] name = "avl"   -> Complete(<<1, 2, 3>>, <<0, 0, 0>>, {"avlhole", "bavlhole", "ubavlhole"})
       [] name = "avlhole" -> AvlSegment
       [] name \in {"bavlhole", "ubavlhole"} -> Stronger(AvlSegment)
       [] name = "rbt"   -> Complete(<<1, 2, 3, 4>>, <<0, 0, 1, 1>>, {"rbthole", "brrbthole", "rbrbthole"})
       [] name = "rbthole" -> RbtSegment
       [] name \in {"brrbthole", "rbrbthole"} -> Stronger(RbtSegment)
       [] name = "len"   -> Complete(<<1, 2, 3>>, <<0, 0, 0>>, {"lenseg"})
       [] name = "lenseg" -> Segment(<<1, 3, 5>>, <<2, 4, 6>>, {})
       [] name = "lenb"  -> Segment(<<1, 4>>, <<2, 5>>, {3})]

(* A script defines predicates of one family. *)
OneFamily == \E f \in Families : \A pid \in DOMAIN preds : \E s \in f : s.name = preds[pid].name

=============================================================================
