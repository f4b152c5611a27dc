------------------------------- MODULE MCLedger --------------------------------
(***************************************************************************)
(* Instances of Ledger for TLC: two accounts, so that a line set is a net  *)
(* amount per account, its mirror the negation and its balance the sum.    *)
(***************************************************************************)
EXTENDS Ledger, TLC

CONSTANTS y1, p1, p2

Amounts == {<<1, -1>>, <<-1, 1>>, <<1, 0>>, <<-1, 0>>}
SaleAndLopsided == {<<1, -1>>, <<1, 0>>}
SaleOnly == {<<1, -1>>}
BalancedAmounts == {a \in Amounts : a[1] + a[2] = 0}
Negation == [a \in Amounts |-> <<-a[1], -a[2]>>]

OneYear == [p \in Periods |-> y1]
NoEdits == {}
AnyEdit == 1 .. MaxNumber

Symmetry == Permutations(Entries) \cup Permutations(Sessions)
================================================================================
