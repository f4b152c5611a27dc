--------------------------------- MODULE MCTax ---------------------------------
(***************************************************************************)
(* Instances of TaxFiling for TLC.                                         *)
(***************************************************************************)
EXTENDS TaxFiling

Doc(side, point, date, vat, withheld) ==
  [side |-> side, point |-> point, date |-> date, vat |-> vat, withheld |-> withheld]

\* A sale with some tax withheld, and a purchase dated a period after its tax point.
BooksDocuments == {Doc("sales", 1, 1, 2, 1), Doc("purchase", 1, 2, 3, 0)}
================================================================================
