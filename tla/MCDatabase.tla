----------------------------- MODULE MCDatabase -----------------------------
(* Runs of a program are told apart by nothing but their names.              *)
EXTENDS Database, TLC

Symmetry == Permutations(Seeders) \cup Permutations(Queriers)
============================================================================
