-------------------------------- MODULE Link --------------------------------
(***************************************************************************)
(* What the network layer promises about connections, without its queues,  *)
(* callbacks, timers and coroutines: a connection is open, then perhaps    *)
(* closing, then gone; it belongs to at most one player, and a player      *)
(* loses it only when it is gone, when a later login of the same player    *)
(* takes its place, or when it moves to the player's next object.          *)
(***************************************************************************)
CONSTANTS Sockets, Players, None

VARIABLES
    link,    \* socket -> "none", "open" or "closing"
    owner    \* socket -> the player it belongs to, or None

LinkInit ==
    /\ link = [s \in Sockets |-> "none"]
    /\ owner = [s \in Sockets |-> None]

\* A client connects. A connection that is refused is closing from the start.
Connect(s) ==
    /\ link[s] = "none"
    /\ \E l \in {"open", "closing"} : link' = [link EXCEPT ![s] = l]
    /\ UNCHANGED owner

\* The server asks a connection to close.
Close(s) ==
    /\ link[s] = "open"
    /\ link' = [link EXCEPT ![s] = "closing"]
    /\ UNCHANGED owner

\* A connection without a player becomes player p's. Connections of the account
\* are told to close: p's former one, which p gives up, or another object's.
LogIn(s, p, kicked) ==
    /\ link[s] # "none"
    /\ owner[s] = None
    /\ \A k \in kicked : link[k] # "none"
    /\ \A k \in Sockets \ {s} : owner[k] = p => k \in kicked
    /\ link' = [k \in Sockets |-> IF k \in kicked THEN "closing" ELSE link[k]]
    /\ owner' = [k \in Sockets |-> IF k = s THEN p
                                   ELSE IF owner[k] = p THEN None ELSE owner[k]]

\* A player who runs away takes the connection along to a new object q.
Move(s, q) ==
    /\ owner[s] # None
    /\ \A k \in Sockets : owner[k] # q
    /\ link' \in {link, [link EXCEPT ![s] = "closing"]}
    /\ owner' = [owner EXCEPT ![s] = q]

\* A connection is gone, and so is its hold on a player.
Gone(s) ==
    /\ link[s] # "none"
    /\ link' = [link EXCEPT ![s] = "none"]
    /\ owner' = [owner EXCEPT ![s] = None]

LinkNext ==
    \E s \in Sockets :
        \/ Connect(s)
        \/ Close(s)
        \/ \E p \in Players, k \in SUBSET (Sockets \ {s}) : LogIn(s, p, k)
        \/ \E q \in Players : Move(s, q)
        \/ Gone(s)

LinkSpec == LinkInit /\ [][LinkNext]_<<link, owner>>

=============================================================================
