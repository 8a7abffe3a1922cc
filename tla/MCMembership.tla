---------------------------- MODULE MCMembership ----------------------------
(* Small instances of Membership for TLC. *)
EXTENDS Membership, TLC

Symmetry == Permutations(Users) \cup Permutations(Conns)

=============================================================================
