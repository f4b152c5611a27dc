----------------------------- MODULE MCReceivables -----------------------------
(***************************************************************************)
(* Instances of Receivables for TLC: documents of one kind are             *)
(* interchangeable.                                                        *)
(***************************************************************************)
EXTENDS Receivables, TLC

Symmetry == Permutations(Invoices) \cup Permutations(Receipts) \cup Permutations(Notes)
================================================================================
