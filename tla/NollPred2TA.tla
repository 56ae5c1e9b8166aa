----------------------------- MODULE NollPred2TA ----------------------------
(***************************************************************************)
(* The tree automata of the predicates that are known by their name        *)
(* (noll_pred2ta.c).  Each noll_pred2ta_* adds the transitions of a        *)
(* predicate to an automaton, from a first state q on, with the variables  *)
(* vs and the marking m of the first cell and the symbol out of the end,   *)
(* and returns the last state it used; here it is [trans, last].  The      *)
(* arguments of the edge are nodes of the graph of the right side.         *)
(***************************************************************************)
EXTENDS NollGraph2TA

T(q, sym, children) == [from |-> q, symbol |-> sym, children |-> children]

(* A state that is a leaf with this symbol. *)
Leaf(q, sym) == T(q, sym, <<>>)

(* The last of the predicates that pid calls. *)
CalledPred(pid) == CHOOSE p \in Preds[pid].calls : \A r \in Preds[pid].calls : r <= p

Largest(S) == CHOOSE f \in S : \A h \in S : h <= f

-----------------------------------------------------------------------------
(* noll_pred2ta_ls: a first cell or segment, then any number of them. *)
LsTrans(pid, f, q, vs, m, out) ==
  LET mf == MarkingPush(m, f)
  IN  [last |-> q + 1,
       trans |-> {T(q, Allocated(<<f>>, vs, m), <<q + 1>>), T(q, HigherPred(pid, vs, m), <<q + 1>>),
                  T(q + 1, Allocated(<<f>>, {}, mf), <<q + 1>>),
                  T(q + 1, HigherPred(pid, {}, mf), <<q + 1>>), Leaf(q + 1, out)}]

(* noll_edge2ta_ls *)
Edge2TALs(pid, args) ==
  LsTrans(pid, Largest(FieldsWith(pid, {"bckbone"})), 1, {args[1]}, MarkEps, AliasVar(args[2])).trans

(* noll_edge2ta_lss: two fields lead to the same next cell, the second     *)
(* through an alias of the marking that is in front of it.                 *)
Edge2TALss(pid, args) ==
  LET bkb == FieldsWith(pid, {"bckbone"})
      fs  == SetToSortSeq(bkb, FieldLt)
      m   == MarkingPush(MarkEps, fs[1])
      From(q, vs, mk) == {T(q, Allocated(fs, vs, mk), <<2, 3>>), T(q, Allocated(fs, vs, mk), <<4, 4>>),
                          T(q, HigherPred(pid, vs, mk), <<2>>), T(q, HigherPred(pid, vs, mk), <<4>>)}
  IN  From(1, {args[1]}, MarkEps) \union From(2, {}, m)
        \union {Leaf(3, UpDownFst(m)), Leaf(4, AliasVar(args[2]))}

(* The fields of dll, forward and backward: the first ones of their kinds. *)
DllFields(pid) ==
  LET first(S) == CHOOSE f \in S : \A h \in S : f <= h
      next == first(FieldsWith(pid, {"bckbone"}))
  IN  <<next, first(FieldsWith(pid, {"bckbone", "inner", "null", "border"}) \ {next})>>

(* One cell, two cells, or more, where a segment is followed by its last   *)
(* cell.                                                                   *)
DllCells(pid, sel, in, out, mn) ==
  {T(1, Allocated(sel, in \union out, MarkEps), <<4, 5>>), T(1, Allocated(sel, in, MarkEps), <<2, 5>>),
   T(1, HigherPred(pid, in, MarkEps), <<8, 5>>),
   T(2, Allocated(sel, out, mn), <<4, 6>>), T(2, Allocated(sel, {}, mn), <<3, 6>>),
   T(2, HigherPred(pid, {}, mn), <<8, 6>>),
   T(3, Allocated(sel, {}, mn), <<3, 7>>), T(3, Allocated(sel, out, mn), <<4, 7>>),
   T(3, HigherPred(pid, {}, mn), <<8, 7>>)}

(* The ends of the fields, where from the third cell on the field backward *)
(* is an alias of the marking of the cell itself, and the explicit edge of *)
(* a segment to its last cell.                                             *)
DllEnds(sel, args, out, mn) ==
  {Leaf(4, AliasVar(args[4])), Leaf(5, AliasVar(args[3])), Leaf(6, AliasVar(args[1])),
   Leaf(7, UpUp(mn)),
   T(8, Allocated(<<sel[1]>>, {}, mn), <<3>>), T(8, Allocated(<<sel[1]>>, out, mn), <<4>>)}

(* noll_edge2ta_dll *)
Edge2TADll(pid, args) ==
  LET sel == DllFields(pid)
      mn  == MarkingPush(MarkEps, sel[1])
  IN  DllCells(pid, sel, {args[1]}, {args[2]}, mn) \union DllEnds(sel, args, {args[2]}, mn)

-----------------------------------------------------------------------------
(* The backbone, inner and nested field of a list of lists: the last ones. *)
ListFields(pid) ==
  [b |-> Largest(FieldsWith(pid, {"bckbone"})), z |-> Largest(FieldsWith(pid, {"inner"})),
   n |-> Largest(FieldsWith(pid, {"nested"}))]

(* noll_pred2ta_nll: each cell heads a list of the called predicate that   *)
(* ends in the border.                                                     *)
NllTrans(pid, fs, q, vs, m, out, brd) ==
  LET sel == <<fs.b, fs.z>>
      mb  == MarkingPush(m, fs.b)
      q2 == q + 1  qbrd == q + 2  q3 == q + 3
      head  == LsTrans(CalledPred(pid), fs.n, q3, {}, MarkingPush(m, fs.z), brd)
      q4    == head.last + 1
      inner == LsTrans(CalledPred(pid), fs.n, q4, {}, MarkingPush(mb, fs.z), brd)
  IN  [last |-> inner.last,
       trans |-> {T(q, Allocated(sel, vs, m), <<q2, q3>>), T(q, HigherPred(pid, vs, m), <<q2, qbrd>>),
                  Leaf(q3, brd), Leaf(qbrd, brd), Leaf(q2, out), Leaf(q4, brd),
                  T(q2, HigherPred(pid, {}, mb), <<q2, qbrd>>),
                  T(q2, Allocated(sel, {}, mb), <<q2, q4>>)}
                 \union head.trans \union inner.trans]

(* noll_edge2ta_nll *)
Edge2TANll(pid, args) ==
  NllTrans(pid, ListFields(pid), 1, {args[1]}, MarkEps, AliasVar(args[2]), AliasVar(args[3])).trans

(* noll_pred2ta_nlcl: each cell heads a cycle of the called predicate.     *)
NlclTrans(pid, fs, q, vs, m, out) ==
  LET sel == <<fs.b, fs.z>>
      mb  == MarkingPush(m, fs.b)
      mz  == MarkingPush(m, fs.z)
      mbz == MarkingPush(mb, fs.z)
      q2 == q + 1  q3 == q + 2
      head  == LsTrans(CalledPred(pid), fs.n, q3, {}, mz, Up(mz))
      q4    == head.last + 1
      inner == LsTrans(CalledPred(pid), fs.n, q4, {}, mbz, Up(mbz))
  IN  [last |-> inner.last,
       trans |-> {T(q, Allocated(sel, vs, m), <<q2, q3>>), T(q, HigherPred(pid, vs, m), <<q2>>),
                  Leaf(q2, out), T(q2, HigherPred(pid, {}, mb), <<q2>>),
                  T(q2, Allocated(sel, {}, mb), <<q2, q4>>)}
                 \union head.trans \union inner.trans]

(* noll_edge2ta_nlcl *)
Edge2TANlcl(pid, args) ==
  NlclTrans(pid, ListFields(pid), 1, {args[1]}, MarkEps, AliasVar(args[2])).trans

-----------------------------------------------------------------------------
(* Skip lists.  flds has the fields of the levels, the highest first, and  *)
(* k levels up from the last field is flds[Len(flds) - k].                 *)

(* MUTANT of Skl1Trans: the levels above the list lead to its next cell.   *)
Skl1TransNoNil(pid, flds, q, vs, m, out) ==
  LET mb == MarkingPush(m, flds[Len(flds)])
      up == [k \in 1 .. Len(flds) |-> q + 1]
  IN  [last |-> q + 2,
       trans |-> {T(q, Allocated(flds, vs, m), up), T(q, HigherPred(pid, {}, m), <<q + 1>>),
                  Leaf(q + 2, AliasVar(0)), Leaf(q + 1, out),
                  T(q + 1, Allocated(flds, {}, mb), up), T(q + 1, HigherPred(pid, {}, mb), <<q + 1>>)}]

(* noll_pred2ta_skl1: the levels above the list are nil, the variable 0.   *)
(* The segment from the first cell does not have its variables.            *)
Skl1Trans(pid, flds, q, vs, m, out) ==
  LET mb == MarkingPush(m, flds[Len(flds)])
      up == [k \in 1 .. Len(flds) |-> IF k < Len(flds) THEN q + 2 ELSE q + 1]
  IN  [last |-> q + 2,
       trans |-> {T(q, Allocated(flds, vs, m), up), T(q, HigherPred(pid, {}, m), <<q + 1>>),
                  Leaf(q + 2, AliasVar(0)), Leaf(q + 1, out),
                  T(q + 1, Allocated(flds, {}, mb), up), T(q + 1, HigherPred(pid, {}, mb), <<q + 1>>)}]

(* A cell of level 2 leads to the end or to the next cell of its level,    *)
(* and in between to a list of level 1, empty or not; or it is a segment.  *)
Skl2From(pid, flds, p, vs, m, nil, out, next) ==
  {T(p, HigherPred(pid, vs, m), <<out[1]>>), T(p, HigherPred(pid, vs, m), <<next[1]>>)}
    \union {T(p, Allocated(flds, vs, m), nil \o <<out[1], low>>) : low \in {out[1], out[2]}}
    \union {T(p, Allocated(flds, vs, m), nil \o <<next[1], low>>) : low \in {next[2], next[3]}}

(* noll_pred2ta_skl2: the first cell and the inner ones.  The called       *)
(* predicate is the first one defined.                                     *)
Skl2Trans(pid, flds, q, vs, m, out) ==
  LET n   == flds[Len(flds)]
      mb  == MarkingPush(m, flds[Len(flds) - 1])
      ref == UpDownFst(mb)
      nil == [k \in 1 .. Len(flds) - 2 |-> q + 1]
      qout == q + 2  q2 == q + 3  q12 == q + 4  q1out == q + 5
      outFirst == Skl1Trans(1, flds, q1out, {}, MarkingPush(m, n), out)
      q2out    == outFirst.last + 1
      outInner == Skl1Trans(1, flds, q2out, {}, MarkingPush(mb, n), out)
      q13      == outInner.last + 1
      refFirst == Skl1Trans(1, flds, q13, {}, MarkingPush(m, n), ref)
      q14      == refFirst.last + 1
      refInner == Skl1Trans(1, flds, q14, {}, MarkingPush(mb, n), ref)
  IN  [last |-> refInner.last,
       trans |-> Skl2From(pid, flds, q, vs, m, nil, <<qout, q1out>>, <<q2, q12, q13>>)
                 \union Skl2From(pid, flds, q2, {}, mb, nil, <<qout, q2out>>, <<q2, q12, q14>>)
                 \union {Leaf(q + 1, AliasVar(0)), Leaf(qout, out), Leaf(q12, ref)}
                 \union outFirst.trans \union outInner.trans
                 \union refFirst.trans \union refInner.trans]

(* The lists below a cell of level 3 with the marking m that leads to a    *)
(* cell with the symbol next: of level 1 and 2 up to it, of level 1 up to  *)
(* the cell of level 2, and the states of those cells.  The calls use up   *)
(* states from p on, in the order of the code.                             *)
Skl3Out(flds, m, p, next) ==
  LET n  == Len(flds)
      m1 == MarkingPush(m, flds[n])
      m2 == MarkingPush(m, flds[n - 1])
      one == Skl1Trans(1, flds, p, {}, m1, next)
      ref == one.last + 1
      two == Skl2Trans(2, flds, one.last + 2, {}, m2, next)
      low == Skl1Trans(1, flds, two.last + 1, {}, m1, UpDownFst(m2))
  IN  [one |-> p, ref |-> ref, two |-> one.last + 2, low |-> two.last + 1, last |-> low.last,
       trans |-> one.trans \union two.trans \union low.trans \union {Leaf(ref, UpDownFst(m2))}]

Skl3Ref(flds, m, p, next) ==
  LET n   == Len(flds)
      one == Skl1Trans(1, flds, p, {}, MarkingPush(m, flds[n]), next)
      two == Skl2Trans(2, flds, one.last + 1, {}, MarkingPush(m, flds[n - 1]), next)
  IN  [one |-> p, two |-> one.last + 1, last |-> two.last, trans |-> one.trans \union two.trans]

(* The transitions of a cell of level 3: a segment or a cell, with the     *)
(* lists of the levels below empty or not.                                 *)
Skl3From(pid, flds, p, vs, m, next, same, o, r) ==
  {T(p, HigherPred(pid, vs, m), <<next>>)}
    \union {T(p, Allocated(flds, vs, m), <<next>> \o c) :
              c \in {<<same, same>>, <<same, r.one>>, <<r.two, o.ref>>, <<r.two, o.low>>}}

(* noll_pred2ta_skl3: the first cell to the end, the first cell to an      *)
(* inner one, an inner one to the end and an inner one to an inner one.    *)
Skl3Trans(pid, flds, q, vs, m, out) ==
  LET m3   == MarkingPush(m, flds[Len(flds) - 2])
      ref3 == UpDownFst(m3)
      qout == q + 1  qn == q + 2
      fo   == Skl3Out(flds, m, q + 3, out)
      qref == fo.last + 1
      fi   == Skl3Ref(flds, m, fo.last + 2, ref3)
      io   == Skl3Out(flds, m3, fi.last + 1, out)
      ii   == Skl3Ref(flds, m3, io.last + 1, ref3)
  IN  [last |-> ii.last,
       trans |-> Skl3From(pid, flds, q, vs, m, qout, qout, fo, fo)
                 \union Skl3From(pid, flds, q, vs, m, qn, qref, fo, fi)
                 \union Skl3From(pid, flds, qn, {}, m3, qout, qout, io, io)
                 \union Skl3From(pid, flds, qn, {}, m3, qn, qref, io, ii)
                 \union {Leaf(qout, out), Leaf(qref, ref3)}
                 \union fo.trans \union fi.trans \union io.trans \union ii.trans]

(* noll_pred2ta_skl; a name with another level adds no transition. *)
SklTrans(pid, level, flds, q, vs, m, out) ==
  CASE level = 1 -> Skl1Trans(pid, flds, q, vs, m, out)
    [] level = 2 -> Skl2Trans(pid, flds, q, vs, m, out)
    [] level = 3 -> Skl3Trans(pid, flds, q, vs, m, out)
    [] OTHER     -> [last |-> q, trans |-> {}]

(* noll_edge2ta_skl: there are as many fields as the predicate uses, and   *)
(* they are the first of the order of all fields.                          *)
Edge2TASkl(pid, args) ==
  LET top  == Cardinality(FieldsWith(pid, {"bckbone", "inner", "null", "border"}))
      flds == [k \in 1 .. top |-> CHOOSE f \in DOMAIN FieldOrder : FieldOrder[f] = k - 1]
      digit == SubSeq(Preds[pid].name, 4, 4)
      level == CASE digit = "1" -> 1 [] digit = "2" -> 2 [] digit = "3" -> 3 [] OTHER -> 0
  IN  SklTrans(pid, level, flds, 1, {args[1]}, MarkEps, AliasVar(args[2])).trans

-----------------------------------------------------------------------------
(* noll_edge2ta, for the names it knows, where skl may be followed by any  *)
(* level.  The definition of the predicate is not looked at.               *)
KnownName(name) ==
  \/ name \in {"ls", "lso", "lsso", "dll", "nll", "nlcl"}
  \/ Len(name) >= 3 /\ SubSeq(name, 1, 3) = "skl"

Edge2TAKnown(pid, args) ==
  LET name == Preds[pid].name
  IN  CASE name \in {"ls", "lso"} -> Edge2TALs(pid, args)
        [] name = "lsso"          -> Edge2TALss(pid, args)
        [] name = "dll"           -> Edge2TADll(pid, args)
        [] name = "nll"           -> Edge2TANll(pid, args)
        [] name = "nlcl"          -> Edge2TANlcl(pid, args)
        [] OTHER                  -> Edge2TASkl(pid, args)

=============================================================================
