------------------------------ MODULE Requests ------------------------------
(***************************************************************************)
(* How a game asks its players. A room's Lua coroutine, on the room's      *)
(* thread, sets a timer, sends a request to some players, polls their      *)
(* routers for replies and yields until the main thread (a reply, a player *)
(* who left or trusts) or the timer wakes it up. Requests and replies      *)
(* cross: a reply may come late, when the next request is out already.     *)
(***************************************************************************)
EXTENDS Integers, Sequences, FiniteSets, Functions

CONSTANTS
    Players,      \* the humans of the room
    MaxRequests,  \* bound on the requests of a game
    MaxWakeUps,   \* bound on the wake-ups that wait, for steps that may repeat
    None          \* no player

ASSUME BoundsAreNats == MaxRequests \in Nat /\ MaxWakeUps \in Nat

ASSUME NoneIsNoPlayer == None \notin Players

VARIABLES
    pc,         \* where the room's coroutine is
    at,         \* the player it is sending a request to
    todo,       \* players still to be asked, or to be polled
    pending,    \* players of this round without an answer
    asked,      \* request id of this round, 0 for a player who was passed over
    lastId,     \* requestId
    wakeups,    \* ResumeRoom calls waiting on the room's thread
    timer,      \* the request timer is set
    late,       \* the time of this round is over
    state,      \* a player's state; one who ran away is Offline for good
    thinking,   \* m_thinking
    expected,   \* expectedReplyIds
    reply,      \* m_reply: the id of the request it answers, NotReady or Nothing
    via,        \* the socket the request under way is to go out on still lives
    client,     \* requests a client has received and not answered
    taken       \* the replies Lua took for requests that were sent

roomVars == <<pc, at, todo, pending, asked, lastId, timer, late, taken>>
vars == <<roomVars, wakeups, state, thinking, expected, reply, via, client>>

NotReady == 0    \* "__notready"
Nothing == -1    \* ""

Linked(p) == state[p] \in {"Online", "Trust"}

-----------------------------------------------------------------------------
Init ==
    /\ pc = "idle"
    /\ at = None
    /\ todo = {} /\ pending = {}
    /\ asked = [p \in Players |-> 0]
    /\ lastId = 0
    /\ wakeups = 0
    /\ timer = FALSE /\ late = FALSE
    /\ state = [p \in Players |-> "Online"]
    /\ thinking = [p \in Players |-> FALSE]
    /\ expected = [p \in Players |-> {}]
    /\ reply = [p \in Players |-> Nothing]
    /\ via = FALSE
    /\ client = [p \in Players |-> {}]
    /\ taken = [p \in Players |-> <<>>]

-----------------------------------------------------------------------------
(* The room's thread *)

\* A round begins: setRequestTimer, before any request.
StartRound(ps) ==
    /\ pc = "idle" /\ lastId + Cardinality(ps) <= MaxRequests
    /\ wakeups <= MaxWakeUps
    /\ pc' = "ask"
    /\ todo' = ps /\ pending' = ps
    /\ timer' = TRUE
    /\ UNCHANGED <<at, asked, late, lastId, wakeups, state, thinking, expected, reply, via, client, taken>>

\* doRequest: a player who is not Online is passed over, and its router keeps the
\* reply it has.
DoRequest(p) ==
    /\ pc = "ask" /\ p \in todo
    /\ todo' = todo \ {p}
    /\ IF state[p] = "Online"
       THEN /\ pc' = "push"
            /\ at' = p
            /\ lastId' = lastId + 1
            /\ asked' = [asked EXCEPT ![p] = lastId']
       ELSE UNCHANGED <<pc, at, lastId, asked>>
    /\ UNCHANGED <<pending, wakeups, timer, late, state, thinking, expected, reply,
                   via, client, taken>>

\* expectedReplyIds gets the new id; if a reply was handled in the middle of it,
\* the new id may be lost.
Extended ==
    \/ expected' = [expected EXCEPT ![at] = @ \cup {lastId}]
    \/ pc = "raced" /\ UNCHANGED expected

\* A request that leaves the last reply in place.
PushKeepsReply ==
    /\ pc \in {"push", "raced"}
    /\ pc' = "send"
    /\ Extended
    /\ via' = Linked(at)
    /\ UNCHANGED <<at, todo, pending, asked, lastId, wakeups, timer, late, state,
                   thinking, reply, client, taken>>

\* Router::request up to the send, which waits for the main loop.
Push ==
    /\ pc \in {"push", "raced"}
    /\ pc' = "send"
    /\ Extended
    /\ reply' = [reply EXCEPT ![at] = NotReady]
    /\ via' = Linked(at)
    /\ UNCHANGED <<at, todo, pending, asked, lastId, wakeups, timer, late, state,
                   thinking, client, taken>>

\* Everybody was asked: setThinking.
SetThinking ==
    /\ pc = "ask" /\ todo = {}
    /\ pc' = "poll"
    /\ todo' = pending
    /\ thinking' = [p \in Players |-> p \in pending]
    /\ UNCHANGED <<at, pending, asked, lastId, wakeups, timer, late, state, expected,
                   reply, via, client, taken>>

\* ServerPlayer::waitForReply, which never waits: "__cancel" for a player who is
\* not Online, otherwise what the router has.
WaitForReply(p) ==
    /\ pc = "poll" /\ p \in todo
    /\ todo' = todo \ {p}
    /\ LET answer == IF state[p] = "Online" THEN reply[p] ELSE Nothing
       IN  /\ pending' = IF answer = NotReady THEN pending ELSE pending \ {p}
           /\ taken' = IF answer > 0 /\ asked[p] > 0
                       THEN [taken EXCEPT ![p] = Append(@, answer)]
                       ELSE taken
    /\ UNCHANGED <<pc, at, asked, lastId, wakeups, timer, late, state, thinking,
                   expected, reply, via, client>>

\* All were polled: the round ends (destroyRequestTimer) or the coroutine yields.
EndPoll ==
    /\ pc = "poll" /\ todo = {}
    /\ IF pending = {} \/ late
       THEN /\ pc' = "idle"
            /\ pending' = {}
            /\ asked' = [p \in Players |-> 0]
            /\ timer' = FALSE /\ late' = FALSE
            /\ thinking' = [p \in Players |-> FALSE]
       ELSE /\ pc' = "wait"
            /\ UNCHANGED <<pending, asked, timer, late, thinking>>
    /\ UNCHANGED <<at, todo, lastId, wakeups, state, expected, reply,
                   via, client, taken>>

\* The room's thread is free and runs a wake-up. The coroutine polls again; one
\* meant for an earlier round finds it idle.
ResumeRoom ==
    /\ pc \in {"idle", "wait"} /\ wakeups > 0
    /\ wakeups' = wakeups - 1
    /\ pc' = IF pc = "wait" THEN "poll" ELSE pc
    /\ todo' = pending
    /\ UNCHANGED <<at, pending, asked, lastId, timer, late, state, thinking, expected,
                   reply, via, client, taken>>

\* A timer that wakes nobody.
TimerOnlyExpires ==
    /\ timer
    /\ timer' = FALSE /\ late' = TRUE
    /\ UNCHANGED <<pc, at, todo, pending, asked, lastId, wakeups, state, thinking,
                   expected, reply, via, client, taken>>

\* The timer expires; its handler is queued on the room's thread, and a cancel
\* that comes later does not take it back.
TimerExpires ==
    /\ timer
    /\ timer' = FALSE /\ late' = TRUE
    /\ wakeups' = wakeups + 1
    /\ UNCHANGED <<pc, at, todo, pending, asked, lastId, state, thinking, expected,
                   reply, via, client, taken>>

-----------------------------------------------------------------------------
(* The main thread *)

\* The main loop sends what the room's thread waits for, if the socket lives.
SendMessage ==
    /\ pc = "send"
    /\ pc' = "ask"
    /\ at' = None
    /\ via' = FALSE
    /\ client' = IF via THEN [client EXCEPT ![at] = @ \cup {lastId}] ELSE client
    /\ UNCHANGED <<todo, pending, asked, lastId, wakeups, timer, late, state, thinking,
                   expected, reply, taken>>

\* The room's thread is extending expectedReplyIds of p, without the lock.
Extending(p) == pc \in {"push", "raced"} /\ at = p

\* i is erased from expectedReplyIds; if the room's thread is extending the same
\* vector, i may come back.
Erased(p, i) ==
    /\ \/ expected' = [expected EXCEPT ![p] = @ \ {i}]
       \/ Extending(p) /\ UNCHANGED expected
    /\ pc' = IF Extending(p) THEN "raced" ELSE pc

\* Router::handlePacket of a reply: dropped when it is not expected or when the
\* time of the request is over (which may be before the room's timer).
HandleReply(p, i) ==
    /\ Linked(p) /\ i \in client[p]
    /\ client' = [client EXCEPT ![p] = @ \ {i}]
    /\ IF i \in expected[p]
       THEN /\ Erased(p, i)
            /\ \/ UNCHANGED <<reply, wakeups>>
               \/ /\ reply' = [reply EXCEPT ![p] = i]
                  /\ wakeups' = wakeups + 1
       ELSE UNCHANGED <<pc, expected, reply, wakeups>>
    /\ UNCHANGED <<at, todo, pending, asked, lastId, timer, late, taken, state,
                   thinking, via>>

\* A player's state changes; while it is thinking the room is woken up.
Woken(p) == wakeups' = IF thinking[p] THEN wakeups + 1 ELSE wakeups

\* A trust that tells nobody.
TrustSilently(p) ==
    /\ Linked(p) /\ wakeups < MaxWakeUps
    /\ state' = [state EXCEPT ![p] = IF @ = "Trust" THEN "Online" ELSE "Trust"]
    /\ UNCHANGED <<roomVars, wakeups, thinking, expected, reply, via, client>>

\* Room::trust.
Trust(p) ==
    /\ Linked(p) /\ wakeups < MaxWakeUps
    /\ IF state[p] = "Trust"
       THEN state' = [state EXCEPT ![p] = "Online"] /\ UNCHANGED wakeups
       ELSE state' = [state EXCEPT ![p] = "Trust"] /\ Woken(p)
    /\ UNCHANGED <<roomVars, thinking, expected, reply, via, client>>

\* The player loses its socket, by a disconnection or by leaving the game.
Leave(p) ==
    /\ Linked(p) /\ wakeups < MaxWakeUps
    /\ state' = [state EXCEPT ![p] = "Offline"]
    /\ Woken(p)
    /\ client' = [client EXCEPT ![p] = {}]
    /\ via' = (via /\ at # p)
    /\ UNCHANGED <<roomVars, thinking, expected, reply>>

\* ServerPlayer::reconnect, of a player who is offline or whose account logs in
\* again: a new socket, while the router goes on with the replies it has.
Reconnect(p) ==
    /\ state' = [state EXCEPT ![p] = "Online"]
    /\ client' = [client EXCEPT ![p] = {}]
    /\ via' = (via /\ at # p)
    /\ UNCHANGED <<roomVars, wakeups, thinking, expected, reply>>

-----------------------------------------------------------------------------
RoomStep ==
    \/ \E p \in Players : DoRequest(p) \/ WaitForReply(p)
    \/ Push \/ SetThinking \/ EndPoll \/ ResumeRoom

Next ==
    \/ \E ps \in SUBSET Players \ {{}} : StartRound(ps)
    \/ RoomStep
    \/ TimerExpires
    \/ SendMessage
    \/ \E p \in Players :
        \/ \E i \in client[p] : HandleReply(p, i)
        \/ Trust(p)
        \/ Leave(p)
        \/ Reconnect(p)

Spec == Init /\ [][Next]_vars

\* Lua runs once it is resumed, the main loop runs what is dispatched to it, and
\* timers expire. Nothing is assumed of the clients.
FairSpec == Spec /\ WF_vars(RoomStep) /\ WF_vars(TimerExpires) /\ WF_vars(SendMessage)

-----------------------------------------------------------------------------
(* Properties *)

\* No wake-up is lost: while the room waits for a player who has replied, left or
\* trusted, or when its time is over, a wake-up is on its way, however replies,
\* changes of state and the poll interleave.
NoLostWakeUp ==
    pc = "wait" /\ (late \/ \E p \in pending : state[p] # "Online" \/ reply[p] # NotReady)
        => wakeups > 0

\* No reply is taken twice for requests that were sent, if the client answers
\* each one once: late replies, reconnections and replies left in a router that
\* was passed over never answer a second request.
TakenOnce == \A p \in Players : IsInjective(taken[p])

\* The room never waits to death: every round ends, although clients may never
\* answer and replies may be dropped (room.cpp:956, what the timer is for).
RoundEnds == pc # "idle" ~> pc = "idle"

=============================================================================
