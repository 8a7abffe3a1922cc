--------------------------- MODULE MCPacketStream ---------------------------
(* Small instances of PacketStream for TLC. *)
EXTENDS PacketStream

=============================================================================
