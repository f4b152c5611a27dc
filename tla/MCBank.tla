--------------------------------- MODULE MCBank ---------------------------------
(***************************************************************************)
(* Instances of BankReconciliation for TLC.                                *)
(***************************************************************************)
EXTENDS BankReconciliation, TLC

\* A negative or an empty amount comes from a file whose columns carry signs.
FileAmounts == {-1, 0, 2}
Symmetry == Permutations(Clients) \cup Permutations(Documents)
================================================================================
