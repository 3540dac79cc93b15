------------------------------ MODULE MCTransfer ------------------------------
(* Model-checking instances of Transfer. *)
EXTENDS Transfer, TLC

Symmetry == Permutations(Contents) \cup Permutations(Uploaders) \cup Permutations(Downloaders)
=============================================================================
