----------------------------- MODULE Membership -----------------------------
(***************************************************************************)
(* Who is where on a freekill-asio server: the ServerPlayer objects of     *)
(* UserManager, the lobby, the rooms of RoomManager, and the checks that   *)
(* the code posts to the main io_context to reclaim rooms.                 *)
(*                                                                         *)
(* Handlers nest deeply in the source (a closed socket deletes a player,   *)
(* whose destructor leaves the room, which may hand over its owner or post *)
(* a check), so each function of the source is an operator from a world,   *)
(* the record of all the state, to the set of worlds it may leave behind;  *)
(* an action of the specification is one whole handler.                    *)
(***************************************************************************)
EXTENDS Naturals, Integers, Sequences, FiniteSets

CONSTANTS
    Users,       \* account ids (positive ids of the source)
    Conns,       \* connIds: names of ServerPlayer objects (bound: live objects)
    Rooms,       \* room ids (bound: rooms at a time)
    Capacities,  \* capacities a client may ask for
    MaxPosts,    \* bound on checks waiting in the main io_context
    None,        \* no connection: connId 0, an absent map entry, no room
    Lobby,       \* the id of the lobby, 0 in the source
    Robot        \* the account of every robot (a negative id of the source)

ASSUME ConstantsDistinct ==
    /\ None \notin Conns /\ None \notin Rooms /\ None \notin Users
    /\ Lobby \notin Rooms /\ Robot \notin Users
    /\ None # Lobby

ASSUME BoundsAreNumbers == MaxPosts \in Nat /\ Capacities \subseteq Nat

VARIABLES
    player,   \* players_map: connId -> the ServerPlayer, None when there is none
    online,   \* online_players_map: account -> connId
    lobby,    \* Lobby::players
    room,     \* RoomManager::rooms: id -> the Room, None when there is none
    posts     \* _checkAbandoned calls posted to the main io_context, oldest first

vars == <<player, online, lobby, room, posts>>

-----------------------------------------------------------------------------
(* Types *)

States == {"Online", "Trust", "Run", "Robot", "Offline"}

\* A player's socket: none, open, or closing (disconnectFromHost was called and
\* the send queue still drains; packets are still read).
Links == {"none", "open", "closing"}

Player == [uid : Users \cup {Robot}, state : States, link : Links,
           place : Rooms \cup {Lobby}]

Room == [players : SUBSET Conns, observers : SUBSET Conns,
         owner : Conns \cup {None}, capacity : Nat, ref : Int,
         rejected : SUBSET Users, outdated : BOOLEAN]

ASSUME NoneIsNoRecord == None \notin Player /\ None \notin Room

Reasons == {"NoRefCount", "NoHuman"}

Post == Rooms \X Reasons

World == [player : [Conns -> Player \cup {None}],
          online : [Users -> Conns \cup {None}],
          lobby  : SUBSET Conns,
          room   : [Rooms -> Room \cup {None}],
          posts  : Seq(Post)]

\* The present state as a world, and the step to another one.
Now == [player |-> player, online |-> online, lobby |-> lobby,
        room |-> room, posts |-> posts]

Becomes(w) ==
    /\ player' = w.player
    /\ online' = w.online
    /\ lobby' = w.lobby
    /\ room' = w.room
    /\ posts' = w.posts

\* A step that leaves no more checks waiting than the bound allows.
BecomesBounded(w) == Len(w.posts) <= MaxPosts /\ Becomes(w)

-----------------------------------------------------------------------------
(* Reading a world *)

Alive(w, c) == w.player[c] # None

Exists(w, r) == w.room[r] # None

IsOnline(w, c) == Alive(w, c) /\ w.player[c].link # "none"

IsStarted(w, r) == w.room[r].ref > 0

IsFull(w, r) == Cardinality(w.room[r].players) >= w.room[r].capacity

IsAbandoned(w, r) == \A c \in w.room[r].players : ~IsOnline(w, c)

InsideGame(w, c) ==
    LET r == w.player[c].place
    IN  /\ r \in Rooms
        /\ Exists(w, r)
        /\ IsStarted(w, r)
        /\ c \notin w.room[r].observers

\* A connId no object has and nothing refers to: nextConnId only counts up, so
\* the number of a dead player is free again once it is forgotten everywhere.
FreshConns(w) ==
    {c \in Conns : /\ ~Alive(w, c)
                   /\ c \notin w.lobby
                   /\ \A u \in Users : w.online[u] # c
                   /\ \A r \in Rooms : Exists(w, r) =>
                        /\ c \notin w.room[r].players \cup w.room[r].observers
                        /\ w.room[r].owner # c}

FreshRooms(w) ==
    {r \in Rooms : /\ ~Exists(w, r)
                   /\ \A c \in Conns : Alive(w, c) => w.player[c].place # r
                   /\ \A i \in DOMAIN w.posts : w.posts[i][1] # r}

-----------------------------------------------------------------------------
(* UserManager *)

\* addPlayer: the new object takes the account's entry of online_players_map.
AddPlayer(w, c, p) ==
    [w EXCEPT !.player[c] = p,
              !.online = IF p.uid = Robot THEN @ ELSE [@ EXCEPT ![p.uid] = c]]

\* A deletePlayer that leaves the entry of online_players_map behind.
EraseKeepsEntry(w, cs) ==
    [w EXCEPT !.player = [c \in Conns |-> IF c \in cs THEN None ELSE @[c]]]

\* deletePlayer without the destructor: the account's entry goes only when it
\* still names this object.
Erase(w, cs) ==
    [w EXCEPT !.player = [c \in Conns |-> IF c \in cs THEN None ELSE @[c]],
              !.online = [u \in Users |-> IF @[u] \in cs THEN None ELSE @[u]]]

\* ServerPlayer::kick. Closing at once (an empty send queue) is this step and
\* then SocketClosed before any other.
Kick(w, cs) ==
    [w EXCEPT !.player = [c \in Conns |->
        IF c \in cs /\ IsOnline(w, c) THEN [@[c] EXCEPT !.link = "closing"] ELSE @[c]]]

-----------------------------------------------------------------------------
(* Lobby *)

\* An addPlayer that clears the player's room instead of setting it to the lobby.
LobbyAddClearsRoom(w, c) ==
    IF w.player[c].state = "Robot"
    THEN Erase(w, {c})
    ELSE [w EXCEPT !.lobby = @ \cup {c}, !.player[c].place = None]

\* Lobby::addPlayer: a robot is deleted, anybody else moves to the lobby.
LobbyAddPlayer(w, c) ==
    IF w.player[c].state = "Robot"
    THEN Erase(w, {c})
    ELSE [w EXCEPT !.lobby = @ \cup {c}, !.player[c].place = Lobby]

\* A removePlayer that forgets the list.
LobbyRemoveForgets(w, c) == w

LobbyRemovePlayer(w, c) == [w EXCEPT !.lobby = @ \ {c}]

-----------------------------------------------------------------------------
(* Room *)

CheckAbandoned(w, r, reason) == [w EXCEPT !.posts = Append(@, <<r, reason>>)]

\* The effect of a successful Room::addPlayer. A robot never becomes owner.
RoomAddPlayer(w, r, c) ==
    LET old == w.room[r].owner
        new == IF old = None /\ w.player[c].uid # Robot THEN c ELSE old
    IN  [w EXCEPT !.player[c].place = r,
                  !.room[r] = [w.room[r] EXCEPT !.players = @ \cup {c}, !.owner = new]]

\* The condition under which Room::addPlayer lets somebody in.
Admits(w, r, u) ==
    /\ u \notin w.room[r].rejected
    /\ ~IsFull(w, r)
    /\ ~IsStarted(w, r)

\* A removePlayer that never hands a room over.
ResettleKeepsOwner(w, r, gone) ==
    {IF IsAbandoned(w, r)
     THEN CheckAbandoned([w EXCEPT !.room[r].owner = None], r, "NoHuman") ELSE w}

\* The last part of Room::removePlayer: when no member has a socket the owner is
\* reset and a check is posted; when the owner is among those who left, an
\* online member inherits (the first in order of arrival; the order is not
\* modelled, so any may).
Resettle(w, r, gone) ==
    IF IsAbandoned(w, r)
    THEN {CheckAbandoned([w EXCEPT !.room[r].owner = None], r, "NoHuman")}
    ELSE IF w.room[r].owner \in gone
    THEN {[w EXCEPT !.room[r].owner = h] :
            h \in {c \in w.room[r].players : IsOnline(w, c)}}
    ELSE {w}

\* createRunnedPlayer: the socket of the player who left goes to a new object of
\* the same account in the lobby. It is banned, hence kicked, unless the room is
\* outdated or the player's character had died (not modelled: either may be).
CreateRunnedPlayer(w, r, p) ==
    {LobbyAddPlayer(
        AddPlayer(w, n, [uid |-> p.uid, state |-> "Online", place |-> Lobby,
            link |-> IF died \/ w.room[r].outdated \/ p.link = "none"
                     THEN p.link ELSE "closing"]), n) :
        n \in FreshConns(w), died \in BOOLEAN}

\* Room::removePlayer, of the player p with connId c. In a started game the
\* player keeps the seat, run by a robot (only Purge deletes a seated player of
\* a started game, and has that case to itself).
RoomRemovePlayer(w, r, c, p) ==
    IF c \in w.room[r].observers
    THEN {[w EXCEPT !.room[r].observers = @ \ {c}]}
    ELSE IF c \notin w.room[r].players
    THEN {w}
    ELSE IF ~IsStarted(w, r)
    THEN Resettle([w EXCEPT !.room[r].players = @ \ {c}], r, {c})
    ELSE UNION {Resettle(x, r, {c}) :
            x \in CreateRunnedPlayer([w EXCEPT !.player[c] =
                    [p EXCEPT !.state = "Run", !.link = "none"]], r, p)}

\* deletePlayer and the destructor that follows it, which leaves the place the
\* object believes to be in.
DeletePlayer(w, c) ==
    LET p == w.player[c]
        x == Erase(w, {c})
    IN  IF p.place = Lobby THEN {LobbyRemovePlayer(x, c)}
        ELSE IF Exists(x, p.place) THEN RoomRemovePlayer(x, p.place, c, p)
        ELSE {x}

\* A ~Room that deletes everybody inside.
DestroyRoomWithAll(w, r) ==
    [Erase(w, w.room[r].players \cup w.room[r].observers) EXCEPT !.room[r] = None]

\* A ~Room that sends everybody out but does not tell the lobby.
DestroyRoomUnlisted(w, r) ==
    LET inside == w.room[r].players \cup w.room[r].observers
        saved  == {c \in inside : IsOnline(w, c)}
    IN  [Erase(w, inside \ saved) EXCEPT !.room[r] = None,
            !.player = [c \in Conns |->
                IF c \in saved THEN [@[c] EXCEPT !.place = Lobby] ELSE @[c]]]

\* ~Room. The room is out of the map by then, so a deleted player leaves nothing
\* behind in it, and the checks already posted find it gone.
DestroyRoom(w, r) ==
    LET inside == w.room[r].players \cup w.room[r].observers
        saved  == {c \in inside : IsOnline(w, c)}
        x      == Erase(w, inside \ saved)
    IN  [x EXCEPT !.room[r] = None,
                  !.lobby   = @ \cup saved,
                  !.player  = [c \in Conns |->
                      IF c \in saved THEN [@[c] EXCEPT !.place = Lobby] ELSE @[c]]]

\* The members _checkAbandoned(NoRefCount) deletes: all without a socket.
Ghosts(w, r) == {c \in w.room[r].players : ~IsOnline(w, c)}

\* The deletions of _checkAbandoned(NoRefCount) while the room is not started.
PurgeIdle(w, r) ==
    LET gone == Ghosts(w, r)
    IN  Resettle([Erase(w, gone) EXCEPT !.room[r].players = @ \ gone], r, gone)

\* The same when a new game began before the check ran: the destructor of every
\* deleted member makes a new object without a socket in the lobby
\* (createRunnedPlayer), and the last one made for an account takes its entry.
\* Nothing remembers the deleted connId, so the new object may go by it here.
PurgeStarted(w, r) ==
    LET gone  == Ghosts(w, r)
        Of(u) == {c \in gone : w.player[c].uid = u}
        After(last) ==
            [w EXCEPT
                !.room[r].players = @ \ gone,
                !.lobby  = @ \cup gone,
                !.online = [u \in Users |-> IF Of(u) = {} THEN @[u] ELSE last[u]],
                !.player = [c \in Conns |->
                    IF c \in gone
                    THEN [@[c] EXCEPT !.state = "Online", !.place = Lobby] ELSE @[c]]]
    IN  UNION {Resettle(After(last), r, gone) :
            last \in {l \in [Users -> gone] : \A u \in Users : Of(u) # {} => l[u] \in Of(u)}}

\* A _checkAbandoned that only removes a room at the end of a game.
CheckOnlyAfterGame(w, r, reason) ==
    IF reason = "NoHuman" THEN {w}
    ELSE {IF IsAbandoned(x, r) /\ ~IsStarted(x, r) THEN DestroyRoom(x, r) ELSE x :
            x \in IF Ghosts(w, r) = {} THEN {w}
                  ELSE IF IsStarted(w, r) THEN PurgeStarted(w, r) ELSE PurgeIdle(w, r)}

\* _checkAbandoned. The wake-up of a started room only reaches Lua.
CheckAbandonedNow(w, r, reason) ==
    LET purged == IF reason = "NoHuman" \/ Ghosts(w, r) = {} THEN {w}
                  ELSE IF IsStarted(w, r) THEN PurgeStarted(w, r)
                  ELSE PurgeIdle(w, r)
    IN  {IF IsAbandoned(x, r) /\ ~IsStarted(x, r) THEN DestroyRoom(x, r) ELSE x :
            x \in purged}

-----------------------------------------------------------------------------
(* Handlers: connections *)

Init ==
    /\ player = [c \in Conns |-> None]
    /\ online = [u \in Users |-> None]
    /\ lobby = {}
    /\ room = [r \in Rooms |-> None]
    /\ posts = <<>>

\* The end of a successful checkPassword for account u: whoever is online under
\* the account is told and kicked; a player inside a game gets the new socket
\* (reconnect), anybody else a new object in the lobby (createNewPlayer).
Login(u) ==
    LET old == online[u]
        w   == IF old = None THEN Now ELSE Kick(Now, {old})
    IN  IF old # None /\ InsideGame(Now, old)
        THEN Becomes([w EXCEPT !.player[old].link = "open", !.player[old].state = "Online"])
        ELSE \E c \in FreshConns(w) :
                Becomes(LobbyAddPlayer(AddPlayer(w, c,
                    [uid |-> u, state |-> "Online", link |-> "open", place |-> Lobby]), c))

\* A socket closes, by the peer or at the end of a kick: onDisconnected.
SocketClosed(c) ==
    /\ IsOnline(Now, c)
    /\ LET w == [Now EXCEPT !.player[c].link = "none", !.player[c].state = "Offline"]
       IN  IF InsideGame(w, c) THEN Becomes(w)
           ELSE \E x \in DeletePlayer(w, c) : BecomesBounded(x)

\* Whoever plays under the account is kicked: the shell's kick and ban commands,
\* a heartbeat that ran out, a kick from Lua.
KickUser(u) ==
    /\ online[u] # None
    /\ player[online[u]].link = "open"
    /\ Becomes(Kick(Now, {online[u]}))

-----------------------------------------------------------------------------
(* Handlers: packets to the lobby *)

\* A packet from c is dispatched to the room or lobby its object believes in.
SendsTo(c, place) == IsOnline(Now, c) /\ player[c].place = place

CreateRoom(c, cap) ==
    /\ SendsTo(c, Lobby)
    /\ \E r \in FreshRooms(Now) :
        LET w == [Now EXCEPT !.room[r] =
                    [players |-> {}, observers |-> {}, owner |-> None, capacity |-> cap,
                     ref |-> 0, rejected |-> {}, outdated |-> FALSE]]
        IN  Becomes(IF Admits(w, r, player[c].uid)
                    THEN LobbyRemovePlayer(RoomAddPlayer(w, r, c), c) ELSE w)

EnterRoom(c, r) ==
    /\ SendsTo(c, Lobby)
    /\ Exists(Now, r)
    /\ ~room[r].outdated
    /\ Admits(Now, r, player[c].uid)
    /\ Becomes(LobbyRemovePlayer(RoomAddPlayer(Now, r, c), c))

ObserveRoom(c, r) ==
    /\ SendsTo(c, Lobby)
    /\ Exists(Now, r)
    /\ ~room[r].outdated
    /\ IsStarted(Now, r)
    /\ player[c].uid \notin room[r].rejected
    /\ Becomes(LobbyRemovePlayer(
                 [Now EXCEPT !.room[r].observers = @ \cup {c}, !.player[c].place = r], c))

-----------------------------------------------------------------------------
(* Handlers: packets to a room *)

\* quitRoom: only a player whose state is still Online goes back to the lobby;
\* in an outdated room the account is kicked as well.
QuitRoom(c, r) ==
    /\ SendsTo(c, r)
    /\ Exists(Now, r)
    /\ \E x \in RoomRemovePlayer(Now, r, c, player[c]) :
        LET y == IF x.player[c].state = "Online" THEN LobbyAddPlayer(x, c) ELSE x
            o == y.online[player[c].uid]
        IN  BecomesBounded(IF room[r].outdated /\ o # None THEN Kick(y, {o}) ELSE y)

\* addRobotRequest: the robot is created first; a started game then rejects it.
AddRobot(c, r) ==
    /\ SendsTo(c, r)
    /\ Exists(Now, r)
    /\ room[r].owner = c
    /\ ~IsFull(Now, r)
    /\ \E n \in FreshConns(Now) :
        LET w == AddPlayer(Now, n,
                    [uid |-> Robot, state |-> "Robot", link |-> "none", place |-> Lobby])
        IN  Becomes(IF IsStarted(w, r) THEN w ELSE RoomAddPlayer(w, r, n))

\* kickPlayer: any sender in the room, any target whose place is this room.
KickPlayer(c, r, t) ==
    /\ SendsTo(c, r)
    /\ Exists(Now, r)
    /\ ~IsStarted(Now, r)
    /\ Alive(Now, t)
    /\ player[t].place = r
    /\ LET u == player[t].uid
       IN  /\ u \in Users => online[u] = t
           /\ \E x \in RoomRemovePlayer(Now, r, t, player[t]) :
                BecomesBounded([LobbyAddPlayer(x, t) EXCEPT
                    !.room[r].rejected = IF u = Robot THEN @ ELSE @ \cup {u}])

\* The timer of kickPlayer, three minutes later.
RejectExpires(r, u) ==
    /\ Exists(Now, r)
    /\ u \in room[r].rejected
    /\ Becomes([Now EXCEPT !.room[r].rejected = @ \ {u}])

Trust(c, r) ==
    /\ SendsTo(c, r)
    /\ Exists(Now, r)
    /\ IsStarted(Now, r)
    /\ Becomes([Now EXCEPT !.player[c].state = IF @ = "Trust" THEN "Online" ELSE "Trust"])

ChangeRoom(c, r, cap) ==
    /\ SendsTo(c, r)
    /\ Exists(Now, r)
    /\ room[r].owner = c
    /\ cap >= Cardinality(room[r].players)
    /\ Becomes([Now EXCEPT !.room[r].capacity = cap])

\* startGame: in an outdated room everybody is kicked, otherwise manuallyStart.
StartGame(c, r) ==
    /\ SendsTo(c, r)
    /\ Exists(Now, r)
    /\ IF room[r].outdated
       THEN Becomes(Kick(Now, room[r].players))
       ELSE /\ IsFull(Now, r)
            /\ ~IsStarted(Now, r)
            /\ Becomes([Now EXCEPT !.room[r].ref = @ + 1])

-----------------------------------------------------------------------------
(* Calls from Lua, on the thread of the room *)

Playing(r) == Exists(Now, r) /\ IsStarted(Now, r)

\* gameOver: those who trusted are back; an absent runaway's account is banned,
\* which kicks whoever is online under it (whether one counts as a runaway
\* depends on death and reconnection, not modelled: any absent member may).
GameOver(r) ==
    /\ Playing(r)
    /\ LET humans == {c \in room[r].players : player[c].uid # Robot}
           w == [Now EXCEPT !.player = [c \in Conns |->
                    IF c \in humans /\ @[c].state = "Trust"
                    THEN [@[c] EXCEPT !.state = "Online"] ELSE @[c]]]
           absent == {c \in humans : ~IsOnline(w, c) /\ w.player[c].state = "Offline"}
       IN  \E banned \in IF room[r].outdated THEN {{}} ELSE SUBSET absent :
             Becomes(Kick(w, {online[player[c].uid] : c \in banned} \ {None}))

\* A decreaseRefCount that posts no check, and one that posts it for a room
\* without humans only.
DecreaseWithoutCheck(r) ==
    /\ Playing(r)
    /\ Becomes([Now EXCEPT !.room[r].ref = @ - 1])

DecreaseChecksAbandoned(r) ==
    /\ Playing(r)
    /\ LET w == [Now EXCEPT !.room[r].ref = @ - 1]
       IN  BecomesBounded(IF IsStarted(w, r) \/ ~IsAbandoned(w, r) THEN w
                          ELSE CheckAbandoned(w, r, "NoRefCount"))

DecreaseRefCount(r) ==
    /\ Playing(r)
    /\ LET w == [Now EXCEPT !.room[r].ref = @ - 1]
       IN  BecomesBounded(IF IsStarted(w, r) THEN w ELSE CheckAbandoned(w, r, "NoRefCount"))

AddNpc(r) ==
    /\ Playing(r)
    /\ \E n \in FreshConns(Now) :
        Becomes(RoomAddPlayer(AddPlayer(Now, n,
            [uid |-> Robot, state |-> "Robot", link |-> "none", place |-> Lobby]), r, n))

\* removeNpc: out of the list first, so the destructor finds nothing to do.
RemoveNpc(r, n) ==
    /\ Playing(r)
    /\ n \in room[r].players
    /\ player[n].uid = Robot
    /\ Becomes(Erase([Now EXCEPT !.room[r].players = @ \ {n}], {n}))

-----------------------------------------------------------------------------
(* The main io_context and the shell *)

\* The oldest posted check runs, if its room still exists.
RunPost ==
    /\ posts # <<>>
    /\ LET r == Head(posts)[1]
           w == [Now EXCEPT !.posts = Tail(@)]
       IN  IF Exists(w, r) THEN \E x \in CheckAbandonedNow(w, r, Head(posts)[2]) : Becomes(x)
           ELSE Becomes(w)

\* Loops that kick the members of a room walk the vector a kick shortens: the member
\* after one that closes at once takes its place and is passed over, and the last is
\* met again where the vector used to end. One of three is spared, two of five.
PassedOver(ms) == {s \in SUBSET ms : s = {} \/ 2 * Cardinality(s) < Cardinality(ms)}

\* _refreshMd5: with a new md5 every room becomes outdated, the members of
\* outdated rooms that have not started are kicked, and so is the whole lobby.
RefreshMd5(changed) ==
    LET old == {r \in Rooms : Exists(Now, r) /\ (changed \/ room[r].outdated)}
        w   == [Now EXCEPT !.room = [r \in Rooms |->
                    IF r \in old THEN [@[r] EXCEPT !.outdated = TRUE] ELSE @[r]]]
        idle == UNION {room[r].players : r \in {q \in old : ~IsStarted(Now, q)}}
    IN  \E spared \in SUBSET idle :
            /\ \A r \in old : spared \cap room[r].players \in PassedOver(room[r].players)
            /\ Becomes(Kick(w, (idle \ spared) \cup lobby))

\* The shell's killroom.
KillRoom(r) ==
    /\ Exists(Now, r)
    /\ LET humans == {c \in room[r].players : player[c].uid # Robot}
       IN  \E spared \in PassedOver(room[r].players) :
             BecomesBounded(CheckAbandoned(Kick(Now, humans \ spared), r, "NoHuman"))

\* Lobby::checkAbandoned, run by the shell's checklobby.
CheckLobby ==
    LET dead == {c \in lobby : ~IsOnline(Now, c)}
    IN  /\ dead # {}
        /\ Becomes([Erase(Now, dead) EXCEPT !.lobby = @ \ dead])

-----------------------------------------------------------------------------
\* What players and their games do.
Play ==
    \/ \E u \in Users : Login(u)
    \/ \E c \in Conns : SocketClosed(c)
    \/ \E c \in Conns, cap \in Capacities : CreateRoom(c, cap)
    \/ \E c \in Conns, r \in Rooms :
        \/ EnterRoom(c, r)
        \/ ObserveRoom(c, r)
        \/ QuitRoom(c, r)
        \/ Trust(c, r)
        \/ StartGame(c, r)
    \/ \E r \in Rooms : GameOver(r) \/ DecreaseRefCount(r)
    \/ RunPost

\* Robots, kicked players and changes to a room.
Manage ==
    \/ \E c \in Conns, r \in Rooms : AddRobot(c, r)
    \/ \E c, t \in Conns, r \in Rooms : KickPlayer(c, r, t)
    \/ \E r \in Rooms, u \in Users : RejectExpires(r, u)
    \/ \E c \in Conns, r \in Rooms, cap \in Capacities : ChangeRoom(c, r, cap)
    \/ \E r \in Rooms : AddNpc(r)
    \/ \E r \in Rooms, n \in Conns : RemoveNpc(r, n)

\* The operator of the server.
Administer ==
    \/ \E u \in Users : KickUser(u)
    \/ \E changed \in BOOLEAN : RefreshMd5(changed)
    \/ \E r \in Rooms : KillRoom(r)
    \/ CheckLobby

Next == Play \/ Manage \/ Administer

Spec == Init /\ [][Next]_vars

PlaySpec == Init /\ [][Play]_vars

\* The main loop runs what is posted to it, and Lua ends every game: its
\* requests have timers, and an abandoned room is woken to end. The bound on
\* posts may disable DecreaseRefCount for a while, hence its strong fairness.
Fairness ==
    /\ WF_vars(RunPost)
    /\ \A r \in Rooms : SF_vars(DecreaseRefCount(r))

FairPlaySpec == PlaySpec /\ Fairness

-----------------------------------------------------------------------------
(* Properties. Those about one state are stated of a world. *)

\* Every variable has its type.
TypeOK == Now \in World

\* Whoever a room or the lobby lists is alive and believes to be there, so nobody
\* is listed twice: the case addPlayer calls a disaster (a listed connId that
\* findPlayerByConnId does not find) never arises, although a list, the map of
\* players and the player's own roomId are written by different functions.
Placed(w) ==
    /\ \A r \in Rooms : Exists(w, r) =>
        /\ \A c \in w.room[r].players \cup w.room[r].observers :
             Alive(w, c) /\ w.player[c].place = r
        /\ w.room[r].players \cap w.room[r].observers = {}
    /\ \A c \in w.lobby : Alive(w, c) /\ w.player[c].place = Lobby

Placement == Placed(Now)

\* The entry of an account names a live player of that account, although
\* logging in twice and running away replace the entry under the old player.
EntriesSound(w) ==
    \A u \in Users : w.online[u] # None =>
        Alive(w, w.online[u]) /\ w.player[w.online[u]].uid = u

OnlineMapSound == EntriesSound(Now)

\* The owner of a room sits in it and is no robot, whoever leaves and however:
\* a room never waits for an owner who is gone.
OwnersSit(w) ==
    \A r \in Rooms : Exists(w, r) /\ w.room[r].owner # None =>
        /\ w.room[r].owner \in w.room[r].players
        /\ w.player[w.room[r].owner].uid # Robot

OwnerSeated == OwnersSit(Now)

\* No robot has a socket, and only robots are in state Robot.
RobotsUnlinked(w) ==
    \A c \in Conns : Alive(w, c) =>
        /\ w.player[c].uid = Robot => w.player[c].link = "none"
        /\ w.player[c].state = "Robot" => w.player[c].uid = Robot

\* The inductive invariant behind the theorems of MembershipProofs.
Consistent(w) ==
    w \in World /\ Placed(w) /\ EntriesSound(w) /\ OwnersSit(w) /\ RobotsUnlinked(w)

Consistency == Consistent(Now)

Pending(r, reasons) == \E i \in DOMAIN posts : posts[i][1] = r /\ posts[i][2] \in reasons

\* A room nobody ever sat in: its creator asked for no seats (lobby.cpp:167 takes a
\* capacity of 0), so it was full at once and no departure will have it checked.
Seatless(w, r) == w.room[r].capacity = 0

\* A room without humans that is not playing has a check on its way: no order of
\* leaving, disconnecting and ending the game leaks a room that has seats.
AbandonedRoomIsChecked ==
    \A r \in Rooms :
        Exists(Now, r) /\ ~Seatless(Now, r) /\ ~IsStarted(Now, r) /\ IsAbandoned(Now, r) =>
            Pending(r, Reasons)

\* A human seat without a socket exists only while a game runs, or until the
\* check posted at its end has run.
GhostSeatIsTemporary ==
    \A r \in Rooms : Exists(Now, r) /\ ~IsStarted(Now, r) =>
        \A c \in room[r].players :
            player[c].uid # Robot /\ ~IsOnline(Now, c) => Pending(r, {"NoRefCount"})

Connected(u) == {c \in Conns : IsOnline(Now, c) /\ player[c].uid = u}

\* No handler drops a connection on the floor: an account loses one only when a
\* socket closes, however often its players are replaced, taken over, moved out
\* of a dying room or deleted.
ConnectionsKept ==
    [][\A u \in Users :
        \/ Cardinality(Connected(u)') >= Cardinality(Connected(u))
        \/ \E c \in Connected(u) : SocketClosed(c)]_vars

\* A room without humans that has seats does not stay: it is removed, unless somebody
\* comes back.
RoomReclaimed ==
    \A r \in Rooms :
        (Exists(Now, r) /\ ~Seatless(Now, r) /\ IsAbandoned(Now, r)) ~>
            (~Exists(Now, r) \/ ~IsAbandoned(Now, r))

\* The room or the lobby that c believes to be in lists it.
Listed(c) ==
    IF player[c].place = Lobby THEN c \in lobby
    ELSE Exists(Now, player[c].place) /\
         c \in room[player[c].place].players \cup room[player[c].place].observers

\* A connected player never falls out of the lists, but for one who quits its room
\* in another state than Online and is not returned to the lobby (quitRoom;
\* serverplayer.h:91 calls roomId the room that the player is in).
StaysListed ==
    [][\A c \in Conns : (IsOnline(Now, c) /\ Listed(c) /\ IsOnline(Now, c)') =>
        \/ Listed(c)'
        \/ player[c].state # "Online" /\ player[c].place # Lobby /\ QuitRoom(c, player[c].place)]_vars

\* auth.cpp:469: a new login kicks whoever is online under the account, so an
\* account never has two sockets that are open and not about to close.
SingleSession ==
    \A u \in Users : \A c, d \in Connected(u) :
        player[c].link = "open" /\ player[d].link = "open" => c = d

=============================================================================
