------------------------------- MODULE MCTasks -------------------------------
(* Small instances of Tasks for TLC. *)
EXTENDS Tasks

Symmetry == Permutations(Tasks) \cup Permutations(Users)

=============================================================================
