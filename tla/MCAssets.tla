-------------------------------- MODULE MCAssets --------------------------------
(***************************************************************************)
(* Instances of Assets for TLC.                                            *)
(***************************************************************************)
EXTENDS Assets, TLC

\* Two dates in the first month, one in each of the next two.
Calendar == <<1, 1, 2, 3>>

Row(cost, salvage, life, method, from) ==
  [cost |-> cost, salvage |-> salvage, life |-> life, method |-> method, from |-> from]

BooksTerms == {Row(5, 0, 2, "exact", 1), Row(5, 1, 3, "exact", 2), Row(2, 0, 2, "accelerated", 1),
               Row(2, 0, 2, "settings", 1)}
Symmetry == Permutations(Runs)
================================================================================
