------------------------------- MODULE MCPayables -------------------------------
(***************************************************************************)
(* An instance of Payables for TLC: one tax code of 100 %, so that a tax   *)
(* is never lost in rounding; documents of one kind and clients are        *)
(* interchangeable.                                                        *)
(***************************************************************************)
EXTENDS Payables, TLC

FullRate == [c \in Codes |-> 1]
Symmetry == Permutations(Bills) \cup Permutations(Payments) \cup Permutations(Clients)
================================================================================
