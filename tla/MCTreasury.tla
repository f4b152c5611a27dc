------------------------------- MODULE MCTreasury -------------------------------
(***************************************************************************)
(* Instances of Treasury for TLC.                                          *)
(***************************************************************************)
EXTENDS Treasury

CONSTANTS g1, g2, other

Line(g, amount) == [account |-> g, amount |-> amount]
BooksLines == {<<Line(other, 1), Line(other, 2)>>, <<Line(g2, 1)>>}
================================================================================
