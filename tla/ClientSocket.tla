---------------------------- MODULE ClientSocket ----------------------------
(***************************************************************************)
(* The sockets of the server: accepting a client, its sign-up under a      *)
(* timer, the queue of packets to send, closing, the reader coroutine, and *)
(* the routers of the players that use a socket.                           *)
(*                                                                         *)
(* Everything here runs on the main io_context, but one handler calls into *)
(* the other (closing calls the disconnected callback, which makes the     *)
(* player let go of its socket), and a shared_ptr dropped at the end of a  *)
(* handler destroys the object. As in Membership, a function of the source *)
(* is an operator on a record of the state, and an action is one handler.  *)
(***************************************************************************)
EXTENDS Naturals, Sequences, FiniteSets

CONSTANTS
    Sockets,    \* names of ClientSocket objects (bound: connections at a time)
    Players,    \* names of ServerPlayer objects, each with its Router
    MaxSends,   \* bound on the packets sent on one connection
    None        \* no socket

ASSUME NoneIsNoName ==
    /\ None \notin Sockets /\ None \notin Players
    /\ Players \cap {"log", "auth", "none"} = {}

ASSUME MaxSendsIsNat == MaxSends \in Nat

VARIABLES
    sock,      \* the ClientSocket objects
    holder,    \* Router::socket of each player
    grabbed    \* sockets a room thread has read to send on, held weakly until
               \* the main io_context runs the send

vars == <<sock, holder, grabbed>>

\* What a callback of a socket is bound to: the constructor's default, the
\* sign-up (which holds the socket), nothing any more, or a player's router
\* (whose disconnected callback holds the socket).
Callbacks == {"log", "auth", "none"} \cup Players

Sock == [fd : {"free", "open", "closed"},   \* "free": no such object
         reader : BOOLEAN,                  \* the coroutine runs
         up : BOOLEAN,                      \* the peer still takes data
         sent : Nat,                        \* packets given to send, numbered
         queue : Seq(Nat),                  \* send_queue
         writing : Seq(Nat),                \* async_writes in flight
         wire : Seq(Nat),                   \* packets written
         closing : BOOLEAN,                 \* is_closing
         onMessage : Callbacks,
         onLost : Callbacks,
         timer : {"off", "armed", "due"}]   \* timerSignup; due: handler queued

Free == [fd |-> "free", reader |-> FALSE, up |-> TRUE, sent |-> 0, queue |-> <<>>,
         writing |-> <<>>, wire |-> <<>>, closing |-> FALSE,
         onMessage |-> "none", onLost |-> "none", timer |-> "off"]

Now == [sock |-> sock, holder |-> holder, grabbed |-> grabbed]

\* Who keeps the object alive: a router, a callback bound to it, a write.
Referenced(w, s) ==
    \/ \E p \in Players : w.holder[p] = s
    \/ w.sock[s].onMessage = "auth"
    \/ w.sock[s].onLost \in Players
    \/ w.sock[s].writing # <<>>

\* The end of a handler: sockets without a shared_ptr are destroyed, which
\* closes the descriptor and lets the reader and the timer expire without effect.
Becomes(w) ==
    LET dead == {s \in Sockets : ~Referenced(w, s)}
    IN  /\ sock' = [s \in Sockets |-> IF s \in dead THEN Free ELSE w.sock[s]]
        /\ holder' = w.holder
        /\ grabbed' = w.grabbed \ dead

-----------------------------------------------------------------------------
(* Router and ServerPlayer *)

\* Router::setSocket: the callbacks of the former socket are unbound, then
\* those of the new one are bound.
SetSocket(w, p, s) ==
    LET old == w.holder[p]
    IN  [w EXCEPT !.holder[p] = s,
                  !.sock = [k \in Sockets |->
                    IF k = s THEN [@[k] EXCEPT !.onMessage = p, !.onLost = p]
                    ELSE IF k = old THEN [@[k] EXCEPT !.onMessage = "none", !.onLost = "log"]
                    ELSE @[k]]]

\* The disconnected callback of socket s: a player that still uses s lets go of
\* it (onDisconnected).
Lost(w, s) ==
    LET p == w.sock[s].onLost
    IN  IF p \in Players /\ w.holder[p] = s THEN SetSocket(w, p, None) ELSE w

-----------------------------------------------------------------------------
(* ClientSocket *)

\* Callbacks reset to null instead of to functions that do nothing.
UnbindToNull(w, s) == [w EXCEPT !.sock[s].onMessage = None, !.sock[s].onLost = None]

\* The callbacks are reset, as they may hold the socket itself.
Unbind(w, s) == [w EXCEPT !.sock[s].onMessage = "none", !.sock[s].onLost = "none"]

\* A do_close that does not tell anybody.
DoCloseSilently(w, s) == Unbind([w EXCEPT !.sock[s].fd = "closed"], s)

DoClose(w, s) == Unbind(Lost([w EXCEPT !.sock[s].fd = "closed"], s), s)

\* A send_loop that does not look at is_closing.
SendLoopOnly(w, s) ==
    IF w.sock[s].queue # <<>>
    THEN [w EXCEPT !.sock[s].writing = Append(@, Head(w.sock[s].queue))]
    ELSE w

SendLoop(w, s) ==
    IF w.sock[s].queue # <<>>
    THEN [w EXCEPT !.sock[s].writing = Append(@, Head(w.sock[s].queue))]
    ELSE IF w.sock[s].closing THEN DoClose(w, s)
    ELSE w

\* A send that starts a write each time.
SendAlwaysWrites(w, s) ==
    LET n == w.sock[s].sent + 1
    IN  SendLoop([w EXCEPT !.sock[s].sent = n, !.sock[s].queue = Append(@, n)], s)

\* send: only the packet that finds the queue empty starts the loop.
Send(w, s) ==
    LET n == w.sock[s].sent + 1
        x == [w EXCEPT !.sock[s].sent = n, !.sock[s].queue = Append(@, n)]
    IN  IF Len(x.sock[s].queue) = 1 THEN SendLoop(x, s) ELSE x

\* A disconnectFromHost that does not wait for the queue.
DisconnectAtOnce(w, s) == DoClose([w EXCEPT !.sock[s].closing = TRUE], s)

DisconnectFromHost(w, s) ==
    LET x == [w EXCEPT !.sock[s].closing = TRUE]
    IN  IF x.sock[s].queue = <<>> THEN DoClose(x, s) ELSE x

\* There is room for n more packets on s.
MaySend(s, n) == sock[s].sent + n <= MaxSends

-----------------------------------------------------------------------------
(* Handlers *)

Init ==
    /\ sock = [s \in Sockets |-> Free]
    /\ holder = [p \in Players |-> None]
    /\ grabbed = {}

\* A client is accepted. It is refused when its address is banned or the server
\* is full; otherwise sign-up starts, under a timer.
Accept(s) ==
    /\ sock[s].fd = "free"
    /\ MaySend(s, 1)
    /\ LET new == [Free EXCEPT !.fd = "open", !.reader = TRUE,
                               !.onMessage = "log", !.onLost = "log"]
           w   == Send([Now EXCEPT !.sock[s] = new], s)
       IN  \/ Becomes(DisconnectFromHost(w, s))
           \/ Becomes([w EXCEPT !.sock[s].onMessage = "auth", !.sock[s].timer = "armed"])

\* A packet is read while onMessage is bound to the sign-up.
SigningUp(s) == sock[s].reader /\ sock[s].fd = "open" /\ sock[s].onMessage = "auth"

\* The timer is cancelled; a handler already queued still runs.
StopTimer(w, s) == [w EXCEPT !.sock[s].timer = IF @ = "armed" THEN "off" ELSE @]

\* A sign-up that fails: one packet, two when the md5 differs, says why.
SignUpFails(s) ==
    /\ SigningUp(s)
    /\ LET x == StopTimer(Now, s)
       IN  \/ MaySend(s, 1) /\ Becomes(DisconnectFromHost(Send(x, s), s))
           \/ MaySend(s, 2) /\ Becomes(DisconnectFromHost(Send(Send(x, s), s), s))

\* A uuid with forbidden characters ends the sign-up without a word.
SignUpIgnored(s) == SigningUp(s) /\ Becomes(StopTimer(Now, s))

\* The player with this account, if it has a socket, is told and kicked.
KickedOut(w, q) ==
    IF w.holder[q] = None THEN w
    ELSE DisconnectFromHost(Send(w, w.holder[q]), w.holder[q])

\* A sign-up that succeeds: player p gets the socket. Either p is a new object
\* (createNewPlayer) and another one, q, may be online under the account, or p
\* plays under the account already (reconnect, q = p). One packet stands for all
\* that set the client up.
LogIn(s, p, q) ==
    /\ SigningUp(s)
    /\ q # p => holder[p] = None
    /\ MaySend(s, 1)
    /\ holder[q] # None => MaySend(holder[q], 1)
    /\ Becomes(Send(SetSocket(KickedOut(StopTimer(Now, s), q), p, s), s))

\* timerSignup expires; its handler closes the socket, whoever it belongs to by
\* then.
TimerExpires(s) ==
    /\ sock[s].timer = "armed"
    /\ Becomes([Now EXCEPT !.sock[s].timer = "due"])

TimerHandler(s) ==
    /\ sock[s].timer = "due"
    /\ Becomes(DisconnectFromHost([Now EXCEPT !.sock[s].timer = "off"], s))

\* The main io_context sends a packet to player p, or kicks p.
Notify(p) ==
    /\ holder[p] # None
    /\ MaySend(holder[p], 1)
    /\ Becomes(Send(Now, holder[p]))

Kick(p) == holder[p] # None /\ Becomes(DisconnectFromHost(Now, holder[p]))

\* A room thread sends a packet to p: it reads p's socket, and the main
\* io_context sends on that socket later, if it still exists.
Grab(p) ==
    /\ holder[p] # None
    /\ Becomes([Now EXCEPT !.grabbed = @ \cup {holder[p]}])

Dispatched(s) ==
    /\ s \in grabbed
    /\ MaySend(s, 1)
    /\ Becomes(Send([Now EXCEPT !.grabbed = @ \ {s}], s))

\* A removePlayer that binds the new object before it unbinds the old one.
RunAwayBindsFirst(p, q) ==
    /\ holder[p] # None /\ holder[q] = None
    /\ MaySend(holder[p], 1)
    /\ LET s == holder[p]
           w == Send(SetSocket(SetSocket(Now, q, s), p, None), s)
       IN  Becomes(w) \/ Becomes(DisconnectFromHost(w, s))

\* A player leaves a running game: the seat p lets go of the socket, the new
\* object q gets it, is told, and may be banned (Room::removePlayer).
RunAway(p, q) ==
    /\ holder[p] # None /\ holder[q] = None
    /\ MaySend(holder[p], 1)
    /\ LET s == holder[p]
           w == Send(SetSocket(SetSocket(Now, p, None), q, s), s)
       IN  Becomes(w) \/ Becomes(DisconnectFromHost(w, s))

\* An async_write completes, well or not: a connection that failed once keeps
\* failing.
WriteDone(s) ==
    \E i \in DOMAIN sock[s].writing, ok \in BOOLEAN :
        /\ ok => sock[s].up /\ sock[s].fd = "open"
        /\ LET w == [Now EXCEPT !.sock[s].up = ok,
                !.sock[s].wire = IF ok THEN Append(@, sock[s].writing[i]) ELSE @,
                !.sock[s].writing = SubSeq(@, 1, i - 1) \o SubSeq(@, i + 1, Len(@)),
                !.sock[s].queue = IF @ = <<>> THEN @ ELSE Tail(@)]
           IN  Becomes(SendLoop(w, s))

\* A reader that ends without resetting the callbacks.
ReaderEndsBound(s) ==
    /\ sock[s].reader
    /\ Becomes([Lost(Now, s) EXCEPT !.sock[s].reader = FALSE])

\* The reader ends: the peer closed, reading failed, or the data is malformed.
ReaderEnds(s) ==
    /\ sock[s].reader
    /\ Becomes([Unbind(Lost(Now, s), s) EXCEPT !.sock[s].reader = FALSE])

Next ==
    \/ \E s \in Sockets :
        \/ Accept(s)
        \/ SignUpFails(s)
        \/ SignUpIgnored(s)
        \/ \E p, q \in Players : LogIn(s, p, q)
        \/ TimerExpires(s)
        \/ TimerHandler(s)
        \/ Dispatched(s)
        \/ WriteDone(s)
        \/ ReaderEnds(s)
    \/ \E p \in Players :
        \/ Notify(p)
        \/ Kick(p)
        \/ Grab(p)
        \/ \E q \in Players : RunAway(p, q)

Spec == Init /\ [][Next]_vars

-----------------------------------------------------------------------------
(* Properties *)

\* Every variable has its type.
TypeOK ==
    /\ sock \in [Sockets -> Sock]
    /\ holder \in [Players -> Sockets \cup {None}]
    /\ grabbed \subseteq Sockets

\* One async_write at a time and packets on the wire in the order of send, even
\* when a send comes from the handler of a write or after close was asked (the
\* changelog of v0.1.10: overlapping async_writes once reordered packets).
InOrder ==
    \A s \in Sockets :
        /\ Len(sock[s].writing) <= 1
        /\ sock[s].wire = [i \in 1..Len(sock[s].wire) |-> i]

\* A player with a socket hears it: the socket is open and read, and both its
\* callbacks are bound to this player and no other, through logins that take
\* over, runaways that pass the socket on and sockets that close late.
Heard ==
    \A p \in Players : holder[p] # None =>
        LET s == sock[holder[p]]
        IN  /\ s.fd = "open" /\ s.reader
            /\ s.onMessage = p /\ s.onLost = p

\* A socket that is closed or no longer read is kept by a pending write only:
\* callbacks bound during sign-up or to a player never keep it alive.
NoLeak ==
    \A s \in Sockets : sock[s].fd # "free" =>
        \/ sock[s].fd = "open" /\ sock[s].reader
        \/ /\ sock[s].onMessage \notin {"auth"} \cup Players
           /\ sock[s].onLost \notin Players
           /\ \A p \in Players : holder[p] # s

\* The server closes a socket only after the write of the last packet it was
\* given, also of those sent after the close was asked: the packet that says why
\* somebody is kicked goes out before the end.
FlushedBeforeClose ==
    [][\A s \in Sockets :
        (sock[s].fd = "open" /\ sock'[s].fd # "open") =>
            \/ ReaderEnds(s)
            \/ sock[s].queue = <<>>
            \/ Len(sock[s].queue) = 1 /\ WriteDone(s)]_vars

\* A kick takes effect: a socket that was told to close and is still open has a
\* write in flight, after whose end it goes on until it is closed (send_loop,
\* disconnectFromHost).
KickUnderWay ==
    \A s \in Sockets : (sock[s].closing /\ sock[s].fd = "open") => sock[s].writing # <<>>

\* The connections as Link sees them: gone once closed or not read any more.
Gone(s) == sock[s].fd # "open" \/ ~sock[s].reader

Links ==
    [s \in Sockets |-> IF Gone(s) THEN "none"
                       ELSE IF sock[s].closing THEN "closing" ELSE "open"]

Owners ==
    [s \in Sockets |-> IF \E p \in Players : holder[p] = s
                       THEN CHOOSE p \in Players : holder[p] = s ELSE None]

Connections == INSTANCE Link WITH link <- Links, owner <- Owners

\* Queues, timers, callbacks and late closes keep what Link promises: a
\* connection that closes never opens again, and its player loses it only with
\* it, to a later login or to the player's next object.
LinkKept == Connections!LinkSpec

=============================================================================
