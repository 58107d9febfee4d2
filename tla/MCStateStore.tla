---- MODULE MCStateStore ----
(* Instances of the state store for TLC. *)
EXTENDS StateStore, TLC

\* Processes differ in nothing but their names.
Symmetry == Permutations(Proc)
=============================================================================
