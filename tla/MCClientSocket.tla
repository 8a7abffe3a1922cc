--------------------------- MODULE MCClientSocket ---------------------------
(* Small instances of ClientSocket for TLC. *)
EXTENDS ClientSocket, TLC

Symmetry == Permutations(Sockets) \cup Permutations(Players)

=============================================================================
