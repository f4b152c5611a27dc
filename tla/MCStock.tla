--------------------------------- MODULE MCStock -------------------------------
(***************************************************************************)
(* Instances of Stock for TLC: documents are interchangeable, and so are   *)
(* sessions.                                                               *)
(***************************************************************************)
EXTENDS Stock, TLC

Symmetry == Permutations(Docs) \cup Permutations(Sessions)
================================================================================
