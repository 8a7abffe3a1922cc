--------------------------- MODULE MCRoomThreads ----------------------------
(* Small instances of RoomThreads for TLC. *)
EXTENDS RoomThreads, TLC

Symmetry ==
    Permutations(Threads) \cup Permutations(Rooms) \cup Permutations(Tasks)
        \cup Permutations(Md5s)

=============================================================================
