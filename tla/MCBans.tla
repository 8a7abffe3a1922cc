-------------------------------- MODULE MCBans --------------------------------
(* Bans with interchangeable names, addresses and devices. *)
EXTENDS Bans, TLC

Symmetry == Permutations(Names) \cup Permutations(Addrs) \cup Permutations(Uuids)
=============================================================================
