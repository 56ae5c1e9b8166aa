----------------------------- MODULE MCContext ------------------------------
(***************************************************************************)
(* The parser's context on a small instance: two globals, three names that *)
(* parameters and quantified variables take, the same one more than once.  *)
(* No step tells the names of a kind apart.                                *)
(***************************************************************************)
EXTENDS NollContext, TLC

CONSTANTS x, y, a, b, c

Globals == {x, y}
Locals  == {a, b, c}

Names == Permutations(Globals) \union Permutations(Locals)

=============================================================================
