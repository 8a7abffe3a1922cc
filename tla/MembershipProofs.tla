-------------------------- MODULE MembershipProofs --------------------------
(***************************************************************************)
(* Consistency is an invariant of Membership, for any number of users,     *)
(* connections and rooms, and so are the two properties about the checks   *)
(* that reclaim rooms. One lemma per operator says that it leads from      *)
(* consistent worlds to consistent worlds, one that it leaves the rooms as *)
(* well looked after as before (Carries), and one that whoever has a       *)
(* socket keeps it and stays listed (Spares), which two action properties  *)
(* rest on; an action has one lemma for each, and the theorems take one    *)
(* step per action.                                                        *)
(***************************************************************************)
EXTENDS Membership, FiniteSetTheorems, TLAPS

\* No room lists c.
Unlisted(w, c) ==
    \A r \in Rooms : Exists(w, r) => c \notin w.room[r].players \cup w.room[r].observers

-----------------------------------------------------------------------------
(* The types of the parts of a world *)

\* The parts of a world have the types World gives them.
LEMMA WorldParts ==
    ASSUME NEW w \in World
    PROVE  /\ w.player \in [Conns -> Player \cup {None}]
           /\ w.online \in [Users -> Conns \cup {None}]
           /\ w.lobby \in SUBSET Conns
           /\ w.room \in [Rooms -> Room \cup {None}]
           /\ w.posts \in Seq(Post)
           /\ \A c \in Conns : Alive(w, c) => w.player[c] \in Player
           /\ \A r \in Rooms : Exists(w, r) => w.room[r] \in Room
           /\ \A r \in Rooms : Exists(w, r) =>
                /\ w.room[r].players \subseteq Conns
                /\ w.room[r].observers \subseteq Conns
                /\ w.room[r].owner \in Conns \cup {None}
BY DEF World, Alive, Exists, Room

\* A player with another link is a player.
LEMMA WithLink ==
    ASSUME NEW p \in Player, NEW l \in Links, NEW q, q = [p EXCEPT !.link = l]
    PROVE  q \in Player /\ q.link = l /\ q.uid = p.uid /\ q.state = p.state /\ q.place = p.place
BY DEF Player

\* A player in another state is a player.
LEMMA WithState ==
    ASSUME NEW p \in Player, NEW s \in States, NEW q, q = [p EXCEPT !.state = s]
    PROVE  q \in Player /\ q.state = s /\ q.uid = p.uid /\ q.link = p.link /\ q.place = p.place
BY DEF Player

\* A player in another place is a player.
LEMMA WithPlace ==
    ASSUME NEW p \in Player, NEW a \in Rooms \cup {Lobby}, NEW q, q = [p EXCEPT !.place = a]
    PROVE  q \in Player /\ q.place = a /\ q.uid = p.uid /\ q.state = p.state /\ q.link = p.link
BY DEF Player

\* A world that differs from a consistent one in links, states and the parts of
\* rooms that list nobody is consistent, as long as robots stay without a socket.
LEMMA SameSeats ==
    ASSUME NEW w, Consistent(w), NEW v \in World,
           v.online = w.online, v.lobby = w.lobby,
           \A c \in Conns : Alive(v, c) <=> Alive(w, c),
           \A c \in Conns : Alive(w, c) => /\ v.player[c].uid = w.player[c].uid
                                           /\ v.player[c].place = w.player[c].place,
           \A r \in Rooms : Exists(v, r) <=> Exists(w, r),
           \A r \in Rooms : Exists(w, r) => /\ v.room[r].players = w.room[r].players
                                            /\ v.room[r].observers = w.room[r].observers
                                            /\ v.room[r].owner = w.room[r].owner,
           RobotsUnlinked(v)
    PROVE  Consistent(v)
<1>1. w \in World
  BY DEF Consistent
<1>2. Placed(v)
  BY <1>1, WorldParts DEF Consistent, Placed
<1>3. EntriesSound(v)
  BY <1>1, WorldParts DEF Consistent, EntriesSound
<1>4. OwnersSit(v)
  BY <1>1, WorldParts DEF Consistent, OwnersSit, Placed
<1> QED
  BY <1>2, <1>3, <1>4 DEF Consistent

-----------------------------------------------------------------------------
(* UserManager *)

\* What kick changes.
LEMMA KickParts ==
    ASSUME NEW w \in World, NEW cs
    PROVE  /\ Kick(w, cs) \in World
           /\ Kick(w, cs).online = w.online
           /\ Kick(w, cs).lobby = w.lobby
           /\ Kick(w, cs).room = w.room
           /\ Kick(w, cs).posts = w.posts
           /\ \A c \in Conns : Kick(w, cs).player[c] =
                IF c \in cs /\ IsOnline(w, c)
                THEN [w.player[c] EXCEPT !.link = "closing"] ELSE w.player[c]
<1> DEFINE f == [c \in Conns |-> IF c \in cs /\ IsOnline(w, c)
                    THEN [w.player[c] EXCEPT !.link = "closing"] ELSE w.player[c]]
<1>1. /\ Kick(w, cs).online = w.online
      /\ Kick(w, cs).lobby = w.lobby
      /\ Kick(w, cs).room = w.room
      /\ Kick(w, cs).posts = w.posts
      /\ Kick(w, cs).player = f
  BY DEF Kick, World
<1>2. \A c \in Conns : f[c] \in Player \cup {None}
  <2> TAKE c \in Conns
  <2>1. CASE c \in cs /\ IsOnline(w, c)
    BY <2>1, WorldParts, WithLink DEF IsOnline, Links
  <2>2. CASE ~(c \in cs /\ IsOnline(w, c))
    BY <2>2, WorldParts
  <2> QED
    BY <2>1, <2>2
<1>3. f \in [Conns -> Player \cup {None}]
  BY <1>2
<1>4. Kick(w, cs) \in World
  BY <1>1, <1>3, WorldParts DEF Kick, World
<1> QED
  BY <1>1, <1>4

\* Kicking keeps a world consistent, and everybody where they are.
LEMMA KickConsistent ==
    ASSUME NEW w, Consistent(w), NEW cs
    PROVE  Consistent(Kick(w, cs))
<1>1. w \in World
  BY DEF Consistent
<1>2. \A c \in Conns : /\ Alive(Kick(w, cs), c) <=> Alive(w, c)
                       /\ Alive(w, c) =>
                            /\ Kick(w, cs).player[c].uid = w.player[c].uid
                            /\ Kick(w, cs).player[c].place = w.player[c].place
                            /\ Kick(w, cs).player[c].state = w.player[c].state
                            /\ w.player[c].link = "none" => Kick(w, cs).player[c].link = "none"
  <2> TAKE c \in Conns
  <2>1. CASE c \in cs /\ IsOnline(w, c)
    <3>1. w.player[c] \in Player /\ "closing" \in Links /\ w.player[c].link # "none"
      BY <1>1, <2>1, WorldParts DEF IsOnline, Links
    <3>2. Kick(w, cs).player[c] = [w.player[c] EXCEPT !.link = "closing"]
      BY <1>1, <2>1, KickParts
    <3> QED
      BY <3>1, <3>2, WithLink, NoneIsNoRecord DEF Alive
  <2>2. CASE ~(c \in cs /\ IsOnline(w, c))
    BY <1>1, <2>2, KickParts DEF Alive
  <2> QED
    BY <2>1, <2>2
<1>3. RobotsUnlinked(Kick(w, cs))
  BY <1>2 DEF RobotsUnlinked, Consistent
<1> QED
  BY <1>1, <1>2, <1>3, KickParts, SameSeats DEF Exists

\* What deletePlayer changes.
LEMMA EraseParts ==
    ASSUME NEW w \in World, NEW cs
    PROVE  /\ Erase(w, cs) \in World
           /\ Erase(w, cs).lobby = w.lobby
           /\ Erase(w, cs).room = w.room
           /\ Erase(w, cs).posts = w.posts
           /\ \A c \in Conns :
                Erase(w, cs).player[c] = IF c \in cs THEN None ELSE w.player[c]
           /\ \A u \in Users :
                Erase(w, cs).online[u] = IF w.online[u] \in cs THEN None ELSE w.online[u]
<1> DEFINE f == [c \in Conns |-> IF c \in cs THEN None ELSE w.player[c]]
           g == [u \in Users |-> IF w.online[u] \in cs THEN None ELSE w.online[u]]
<1>1. /\ Erase(w, cs).lobby = w.lobby
      /\ Erase(w, cs).room = w.room
      /\ Erase(w, cs).posts = w.posts
      /\ Erase(w, cs).player = f
      /\ Erase(w, cs).online = g
  BY DEF Erase, World
<1>2. f \in [Conns -> Player \cup {None}] /\ g \in [Users -> Conns \cup {None}]
  BY WorldParts
<1>3. Erase(w, cs) \in World
  BY <1>1, <1>2, WorldParts DEF Erase, World
<1> QED
  BY <1>1, <1>3

\* Deleting players that nothing lists keeps a world consistent.
LEMMA EraseConsistent ==
    ASSUME NEW w, Consistent(w), NEW cs,
           \A c \in cs : Unlisted(w, c) /\ c \notin w.lobby
    PROVE  Consistent(Erase(w, cs))
<1> DEFINE v == Erase(w, cs)
<1>1. w \in World
  BY DEF Consistent
<1>2. /\ v \in World /\ v.lobby = w.lobby /\ v.room = w.room
      /\ \A c \in Conns : v.player[c] = IF c \in cs THEN None ELSE w.player[c]
      /\ \A u \in Users : v.online[u] = IF w.online[u] \in cs THEN None ELSE w.online[u]
  BY <1>1, EraseParts
<1> HIDE DEF v
<1>3. Placed(v)
  BY <1>1, <1>2, WorldParts DEF Consistent, Placed, Unlisted, Exists, Alive
<1>4. EntriesSound(v)
  BY <1>1, <1>2, WorldParts DEF Consistent, EntriesSound, Alive
<1>5. OwnersSit(v)
  BY <1>1, <1>2, WorldParts DEF Consistent, OwnersSit, Unlisted, Exists
<1>6. RobotsUnlinked(v)
  BY <1>2 DEF Consistent, RobotsUnlinked, Alive
<1> QED
  BY <1>2, <1>3, <1>4, <1>5, <1>6 DEF Consistent, v

\* Nothing refers to a fresh connId.
LEMMA FreshIsUnlisted ==
    ASSUME NEW w, NEW c \in FreshConns(w)
    PROVE  c \in Conns /\ Unlisted(w, c) /\ ~Alive(w, c) /\ c \notin w.lobby
BY DEF FreshConns, Unlisted

\* What addPlayer changes.
LEMMA AddPlayerParts ==
    ASSUME NEW w \in World, NEW c \in Conns, NEW p \in Player
    PROVE  /\ AddPlayer(w, c, p) \in World
           /\ AddPlayer(w, c, p).lobby = w.lobby
           /\ AddPlayer(w, c, p).room = w.room
           /\ AddPlayer(w, c, p).posts = w.posts
           /\ \A d \in Conns :
                AddPlayer(w, c, p).player[d] = IF d = c THEN p ELSE w.player[d]
           /\ \A u \in Users :
                AddPlayer(w, c, p).online[u] = IF u = p.uid THEN c ELSE w.online[u]
<1> DEFINE f == [w.player EXCEPT ![c] = p]
           g == IF p.uid = Robot THEN w.online ELSE [w.online EXCEPT ![p.uid] = c]
<1>1. /\ AddPlayer(w, c, p).lobby = w.lobby
      /\ AddPlayer(w, c, p).room = w.room
      /\ AddPlayer(w, c, p).posts = w.posts
      /\ AddPlayer(w, c, p).player = f
      /\ AddPlayer(w, c, p).online = g
  BY DEF AddPlayer, World
<1>2. f \in [Conns -> Player \cup {None}]
  BY WorldParts
<1>3. p.uid \in Users \cup {Robot}
  BY DEF Player
<1>4. /\ g \in [Users -> Conns \cup {None}]
      /\ \A u \in Users : g[u] = IF u = p.uid THEN c ELSE w.online[u]
  BY <1>3, WorldParts, ConstantsDistinct
<1>5. AddPlayer(w, c, p) \in World
  BY <1>1, <1>2, <1>4, WorldParts DEF AddPlayer, World
<1>6. \A d \in Conns : f[d] = IF d = c THEN p ELSE w.player[d]
  BY WorldParts
<1> QED
  BY <1>1, <1>4, <1>5, <1>6

\* A new object with a fresh connId keeps a world consistent.
LEMMA AddPlayerConsistent ==
    ASSUME NEW w, Consistent(w), NEW c \in FreshConns(w), NEW p \in Player,
           p.uid = Robot => p.link = "none",
           p.state = "Robot" => p.uid = Robot
    PROVE  Consistent(AddPlayer(w, c, p))
<1> DEFINE v == AddPlayer(w, c, p)
<1>1. w \in World /\ c \in Conns /\ Unlisted(w, c) /\ ~Alive(w, c) /\ c \notin w.lobby
  BY FreshIsUnlisted DEF Consistent
<1>2. /\ v \in World /\ v.lobby = w.lobby /\ v.room = w.room
      /\ \A d \in Conns : v.player[d] = IF d = c THEN p ELSE w.player[d]
      /\ \A u \in Users : v.online[u] = IF u = p.uid THEN c ELSE w.online[u]
  BY <1>1, AddPlayerParts
<1>3. p # None
  BY NoneIsNoRecord
<1> HIDE DEF v
<1>4. Placed(v)
  BY <1>1, <1>2, WorldParts DEF Consistent, Placed, Unlisted, Exists, Alive
<1>5. EntriesSound(v)
  BY <1>1, <1>2, <1>3, WorldParts DEF Consistent, EntriesSound, Alive
<1>6. OwnersSit(v)
  BY <1>1, <1>2, WorldParts DEF Consistent, OwnersSit, Unlisted, Exists
<1>7. RobotsUnlinked(v)
  BY <1>2 DEF Consistent, RobotsUnlinked, Alive
<1> QED
  BY <1>2, <1>4, <1>5, <1>6, <1>7 DEF Consistent, v

-----------------------------------------------------------------------------
(* Lobby *)

\* What moving a player to the lobby changes.
LEMMA LobbyAddParts ==
    ASSUME NEW w \in World, NEW c \in Conns, Alive(w, c), w.player[c].state # "Robot"
    PROVE  /\ LobbyAddPlayer(w, c) \in World
           /\ LobbyAddPlayer(w, c).lobby = w.lobby \cup {c}
           /\ LobbyAddPlayer(w, c).room = w.room
           /\ LobbyAddPlayer(w, c).posts = w.posts
           /\ LobbyAddPlayer(w, c).online = w.online
           /\ \A d \in Conns : LobbyAddPlayer(w, c).player[d] =
                IF d = c THEN [w.player[c] EXCEPT !.place = Lobby] ELSE w.player[d]
<1> DEFINE f == [w.player EXCEPT ![c] = [w.player[c] EXCEPT !.place = Lobby]]
<1>1. /\ LobbyAddPlayer(w, c).lobby = w.lobby \cup {c}
      /\ LobbyAddPlayer(w, c).room = w.room
      /\ LobbyAddPlayer(w, c).posts = w.posts
      /\ LobbyAddPlayer(w, c).online = w.online
      /\ LobbyAddPlayer(w, c).player = f
  BY DEF LobbyAddPlayer, World
<1>2. [w.player[c] EXCEPT !.place = Lobby] \in Player
  BY WorldParts, WithPlace
<1>3. /\ f \in [Conns -> Player \cup {None}]
      /\ \A d \in Conns :
            f[d] = IF d = c THEN [w.player[c] EXCEPT !.place = Lobby] ELSE w.player[d]
  BY <1>2, WorldParts
<1>4. LobbyAddPlayer(w, c) \in World
  BY <1>1, <1>3, WorldParts DEF LobbyAddPlayer, World
<1> QED
  BY <1>1, <1>3, <1>4

\* Whoever no room lists can be moved to the lobby; a robot is deleted.
LEMMA LobbyAddConsistent ==
    ASSUME NEW w, Consistent(w), NEW c \in Conns, Alive(w, c), Unlisted(w, c),
           w.player[c].state = "Robot" => c \notin w.lobby
    PROVE  Consistent(LobbyAddPlayer(w, c))
<1> DEFINE v == LobbyAddPlayer(w, c)
<1>1. w \in World
  BY DEF Consistent
<1>2. CASE w.player[c].state = "Robot"
  BY <1>2, EraseConsistent DEF LobbyAddPlayer
<1>3. CASE w.player[c].state # "Robot"
  <2>1. /\ v \in World /\ v.lobby = w.lobby \cup {c} /\ v.room = w.room /\ v.online = w.online
        /\ \A d \in Conns : v.player[d] =
              IF d = c THEN [w.player[c] EXCEPT !.place = Lobby] ELSE w.player[d]
    BY <1>1, <1>3, LobbyAddParts
  <2>2. /\ v.player[c] \in Player /\ v.player[c].place = Lobby
        /\ v.player[c].uid = w.player[c].uid /\ v.player[c].state = w.player[c].state
        /\ v.player[c].link = w.player[c].link
    <3>1. w.player[c] \in Player /\ Lobby \in Rooms \cup {Lobby}
      BY <1>1, WorldParts
    <3>2. v.player[c] = [w.player[c] EXCEPT !.place = Lobby]
      BY <2>1
    <3> QED
      BY <3>1, <3>2, WithPlace
  <2>3. v.player[c] # None
    BY <2>2, NoneIsNoRecord
  <2>4. \A d \in Conns : d # c => v.player[d] = w.player[d]
    BY <2>1
  <2> HIDE DEF v
  <2>5. Placed(v)
    BY <1>1, <2>1, <2>2, <2>3, <2>4, WorldParts DEF Consistent, Placed, Unlisted, Exists, Alive
  <2>6. EntriesSound(v)
    BY <1>1, <2>1, <2>2, <2>3, <2>4, WorldParts DEF Consistent, EntriesSound, Alive
  <2>7. OwnersSit(v)
    BY <1>1, <2>1, <2>2, <2>4, WorldParts DEF Consistent, OwnersSit, Exists
  <2>8. RobotsUnlinked(v)
    BY <2>2, <2>4 DEF Consistent, RobotsUnlinked, Alive
  <2> QED
    BY <2>1, <2>5, <2>6, <2>7, <2>8 DEF Consistent, v
<1> QED
  BY <1>2, <1>3

\* Taking somebody off the lobby's list keeps a world consistent.
LEMMA LobbyRemoveConsistent ==
    ASSUME NEW w, Consistent(w), NEW c
    PROVE  Consistent(LobbyRemovePlayer(w, c))
<1> DEFINE v == LobbyRemovePlayer(w, c)
<1>1. w \in World
  BY DEF Consistent
<1>2. /\ v \in World /\ v.lobby = w.lobby \ {c} /\ v.room = w.room
      /\ v.online = w.online /\ v.player = w.player
  BY <1>1 DEF LobbyRemovePlayer, World
<1> HIDE DEF v
<1> QED
  BY <1>2 DEF Consistent, v, Placed, EntriesSound, OwnersSit, RobotsUnlinked, Alive, Exists

-----------------------------------------------------------------------------
(* Room *)

\* A room with other members is a room.
LEMMA WithPlayers ==
    ASSUME NEW q \in Room, NEW ps \in SUBSET Conns, NEW x, x = [q EXCEPT !.players = ps]
    PROVE  x \in Room /\ x.players = ps /\ x.owner = q.owner /\ x.observers = q.observers /\ x.ref = q.ref
BY DEF Room

\* A room with another owner is a room.
LEMMA WithOwner ==
    ASSUME NEW q \in Room, NEW o \in Conns \cup {None}, NEW x, x = [q EXCEPT !.owner = o]
    PROVE  /\ x \in Room /\ x.players = q.players /\ x.owner = o /\ x.observers = q.observers
           /\ x.ref = q.ref /\ x.capacity = q.capacity
BY DEF Room

\* A room with other observers is a room.
LEMMA WithObservers ==
    ASSUME NEW q \in Room, NEW os \in SUBSET Conns, NEW x, x = [q EXCEPT !.observers = os]
    PROVE  x \in Room /\ x.players = q.players /\ x.owner = q.owner /\ x.observers = os /\ x.ref = q.ref
BY DEF Room

\* Replacing one room of a world.
LEMMA RoomParts ==
    ASSUME NEW w \in World, NEW r \in Rooms, NEW q \in Room \cup {None}
    PROVE  /\ [w EXCEPT !.room[r] = q] \in World
           /\ [w EXCEPT !.room[r] = q].player = w.player
           /\ [w EXCEPT !.room[r] = q].online = w.online
           /\ [w EXCEPT !.room[r] = q].lobby = w.lobby
           /\ [w EXCEPT !.room[r] = q].posts = w.posts
           /\ \A a \in Rooms :
                [w EXCEPT !.room[r] = q].room[a] = IF a = r THEN q ELSE w.room[a]
<1>1. [w.room EXCEPT ![r] = q] \in [Rooms -> Room \cup {None}]
  BY WorldParts
<1>2. [w EXCEPT !.room[r] = q].room = [w.room EXCEPT ![r] = q]
  BY DEF World
<1>3. \A a \in Rooms : [w.room EXCEPT ![r] = q][a] = IF a = r THEN q ELSE w.room[a]
  BY WorldParts
<1>4. /\ [w EXCEPT !.room[r] = q].player = w.player
      /\ [w EXCEPT !.room[r] = q].online = w.online
      /\ [w EXCEPT !.room[r] = q].lobby = w.lobby
      /\ [w EXCEPT !.room[r] = q].posts = w.posts
  BY DEF World
<1>5. [w EXCEPT !.room[r] = q] \in World
  BY <1>1, WorldParts DEF World
<1> QED
  BY <1>2, <1>3, <1>4, <1>5

\* Entering a room and leaving the lobby, in one step, keeps a world consistent.
LEMMA RoomAddConsistent ==
    ASSUME NEW w, Consistent(w), NEW r \in Rooms, Exists(w, r),
           NEW c \in Conns, Alive(w, c), Unlisted(w, c)
    PROVE  /\ Consistent(LobbyRemovePlayer(RoomAddPlayer(w, r, c), c))
           /\ c \notin w.lobby => Consistent(RoomAddPlayer(w, r, c))
<1> DEFINE o == IF w.room[r].owner = None /\ w.player[c].uid # Robot THEN c ELSE w.room[r].owner
           q == [w.room[r] EXCEPT !.players = w.room[r].players \cup {c}, !.owner = o]
           p == [w.player[c] EXCEPT !.place = r]
           f == [w.player EXCEPT ![c] = p]
           g == [w.room EXCEPT ![r] = q]
           a == RoomAddPlayer(w, r, c)
           b == LobbyRemovePlayer(a, c)
<1>1. /\ w \in World /\ w.player[c] \in Player /\ w.room[r] \in Room /\ r \in Rooms \cup {Lobby}
      /\ w.room[r].players \cup {c} \in SUBSET Conns /\ o \in Conns \cup {None}
  BY WorldParts DEF Consistent
<1>2. /\ p \in Player /\ p.place = r /\ p.uid = w.player[c].uid
      /\ p.state = w.player[c].state /\ p.link = w.player[c].link
  BY <1>1, WithPlace
<1>3. /\ q \in Room /\ q.players = w.room[r].players \cup {c} /\ q.owner = o
      /\ q.observers = w.room[r].observers
  <2> DEFINE ps == w.room[r].players \cup {c}
  <2>1. ps \in SUBSET Conns /\ o \in Conns \cup {None} /\ w.room[r] \in Room
    BY <1>1
  <2>2. q = [w.room[r] EXCEPT !.players = ps, !.owner = o]
    OBVIOUS
  <2> HIDE DEF ps, o, q
  <2>3. q \in Room /\ q.players = ps /\ q.owner = o /\ q.observers = w.room[r].observers
    BY <2>1, <2>2 DEF Room
  <2> QED
    BY <2>3 DEF ps
<1>4. /\ a.player = f /\ a.room = g /\ a.lobby = w.lobby /\ a.online = w.online
      /\ a.posts = w.posts
  <2>1. a = [w EXCEPT !.player[c].place = r, !.room[r] = q]
    BY DEF RoomAddPlayer
  <2> HIDE DEF a, q
  <2> QED
    BY <1>1, <2>1 DEF World
<1>5. f \in [Conns -> Player \cup {None}] /\ g \in [Rooms -> Room \cup {None}]
  BY <1>1, <1>2, <1>3, WorldParts
<1>6. a \in World
  BY <1>1, <1>4, <1>5, WorldParts DEF RoomAddPlayer, World
<1>7. b \in World /\ b.player = f /\ b.room = g /\ b.lobby = w.lobby \ {c} /\ b.online = w.online
  BY <1>4, <1>6 DEF LobbyRemovePlayer, World
<1>8. /\ \A d \in Conns : f[d] = IF d = c THEN p ELSE w.player[d]
      /\ \A e \in Rooms : g[e] = IF e = r THEN q ELSE w.room[e]
      /\ p # None /\ q # None
  BY <1>1, <1>2, <1>3, WorldParts, NoneIsNoRecord
<1> HIDE DEF a, b, f, g, p, q
<1>9. ASSUME NEW v \in World, v.player = f, v.room = g, v.lobby = w.lobby \ {c},
             v.online = w.online
      PROVE  Consistent(v)
  <2>1. Placed(v)
    BY <1>1, <1>2, <1>3, <1>8, <1>9, WorldParts DEF Consistent, Placed, Unlisted, Exists, Alive
  <2>2. EntriesSound(v)
    BY <1>1, <1>2, <1>8, <1>9, WorldParts DEF Consistent, EntriesSound, Alive
  <2>3. OwnersSit(v)
    BY <1>1, <1>2, <1>3, <1>8, <1>9, WorldParts, ConstantsDistinct DEF Consistent, OwnersSit, Exists
  <2>4. RobotsUnlinked(v)
    BY <1>2, <1>8, <1>9 DEF Consistent, RobotsUnlinked, Alive
  <2> QED
    BY <2>1, <2>2, <2>3, <2>4 DEF Consistent
<1>10. Consistent(b)
  BY <1>7, <1>9
<1>11. ASSUME c \notin w.lobby PROVE Consistent(a)
  <2>1. w.lobby \ {c} = w.lobby
    BY <1>11
  <2> QED
    BY <1>4, <1>6, <1>9, <2>1
<1> QED
  BY <1>10, <1>11 DEF a, b

\* The owner of r is none, somebody in gone, or seated; other owners are seated.
OwnersSitBut(w, r, gone) ==
    \A a \in Rooms : Exists(w, a) /\ w.room[a].owner # None =>
        \/ a = r /\ w.room[a].owner \in gone
        \/ /\ w.room[a].owner \in w.room[a].players
           /\ w.player[w.room[a].owner].uid # Robot

\* The end of removePlayer: whoever owned the room, afterwards its owner sits.
LEMMA ResettleConsistent ==
    ASSUME NEW w \in World, NEW r \in Rooms, Exists(w, r), NEW gone,
           Placed(w), EntriesSound(w), RobotsUnlinked(w), OwnersSitBut(w, r, gone),
           NEW x \in Resettle(w, r, gone)
    PROVE  /\ Consistent(x)
           /\ x.player = w.player /\ x.online = w.online /\ x.lobby = w.lobby
           /\ \A a \in Rooms : Exists(x, a) <=> Exists(w, a)
           /\ \A a \in Rooms : Exists(w, a) =>
                /\ x.room[a].players = w.room[a].players
                /\ x.room[a].observers = w.room[a].observers
                /\ x.room[a].ref = w.room[a].ref
<1>1. PICK o \in Conns \cup {None} :
        /\ x.room[r].owner = o
        /\ o # None => o \in w.room[r].players /\ w.player[o].uid # Robot
        /\ x \in World /\ x.player = w.player /\ x.online = w.online /\ x.lobby = w.lobby
        /\ \A a \in Rooms : a # r => x.room[a] = w.room[a]
        /\ x.room[r] \in Room
        /\ x.room[r].players = w.room[r].players
        /\ x.room[r].observers = w.room[r].observers
        /\ x.room[r].ref = w.room[r].ref
  <2>1. CASE IsAbandoned(w, r)
    <3> DEFINE q == [w.room[r] EXCEPT !.owner = None]
               y == [w EXCEPT !.room[r] = q]
    <3>1. w.room[r] \in Room /\ None \in Conns \cup {None}
      BY WorldParts
    <3>2. /\ q \in Room /\ q.players = w.room[r].players /\ q.owner = None
          /\ q.observers = w.room[r].observers /\ q.ref = w.room[r].ref
      BY <3>1, WithOwner
    <3>3. /\ y \in World /\ y.player = w.player /\ y.online = w.online /\ y.lobby = w.lobby
          /\ \A a \in Rooms : y.room[a] = IF a = r THEN q ELSE w.room[a]
      BY <3>2, RoomParts
    <3>4. [w EXCEPT !.room[r].owner = None] = y
      BY DEF World
    <3>5. x = [y EXCEPT !.posts = Append(y.posts, <<r, "NoHuman">>)]
      BY <2>1, <3>4 DEF Resettle, CheckAbandoned
    <3>6. Append(y.posts, <<r, "NoHuman">>) \in Seq(Post)
      BY <3>3, WorldParts DEF Post, Reasons
    <3> HIDE DEF y, q
    <3>7. /\ x \in World /\ x.player = y.player /\ x.online = y.online /\ x.lobby = y.lobby
          /\ x.room = y.room
      BY <3>3, <3>5, <3>6 DEF World
    <3> QED
      BY <3>2, <3>3, <3>7
  <2>2. CASE ~IsAbandoned(w, r) /\ w.room[r].owner \in gone
    <3>1. PICK h \in w.room[r].players : IsOnline(w, h) /\ x = [w EXCEPT !.room[r].owner = h]
      BY <2>2 DEF Resettle
    <3> DEFINE q == [w.room[r] EXCEPT !.owner = h]
               y == [w EXCEPT !.room[r] = q]
    <3>2. w.room[r] \in Room /\ h \in Conns \cup {None} /\ h \in Conns
      BY <3>1, WorldParts
    <3>3. /\ q \in Room /\ q.players = w.room[r].players /\ q.owner = h
          /\ q.observers = w.room[r].observers /\ q.ref = w.room[r].ref
      BY <3>2, WithOwner
    <3>4. /\ y \in World /\ y.player = w.player /\ y.online = w.online /\ y.lobby = w.lobby
          /\ \A a \in Rooms : y.room[a] = IF a = r THEN q ELSE w.room[a]
      BY <3>3, RoomParts
    <3>5. x = y
      BY <3>1 DEF World
    <3>6. w.player[h].uid # Robot
      BY <3>1, <3>2 DEF RobotsUnlinked, IsOnline
    <3> HIDE DEF y, q
    <3> QED
      BY <3>1, <3>2, <3>3, <3>4, <3>5, <3>6
  <2>3. CASE ~IsAbandoned(w, r) /\ w.room[r].owner \notin gone
    <3>1. x = w
      BY <2>3 DEF Resettle
    <3> QED
      BY <2>3, <3>1, WorldParts DEF OwnersSitBut
  <2> QED
    BY <2>1, <2>2, <2>3
<1>2. x.room[r] # None
  BY <1>1, NoneIsNoRecord
<1>3. Placed(x)
  BY <1>1, <1>2 DEF Placed, Exists, Alive
<1>4. EntriesSound(x)
  BY <1>1 DEF EntriesSound, Alive
<1>5. OwnersSit(x)
  BY <1>1 DEF OwnersSit, OwnersSitBut, Exists
<1>6. RobotsUnlinked(x)
  BY <1>1 DEF RobotsUnlinked, Alive
<1> QED
  BY <1>1, <1>2, <1>3, <1>4, <1>5, <1>6 DEF Consistent, Exists

-----------------------------------------------------------------------------
(* Leaving *)

\* v is w after the players cs have been deleted and taken off every list.
Forgotten(w, v, cs) ==
    /\ \A d \in Conns : v.player[d] = IF d \in cs THEN None ELSE w.player[d]
    /\ \A u \in Users : v.online[u] = IF w.online[u] \in cs THEN None ELSE w.online[u]
    /\ v.lobby \subseteq w.lobby \ cs
    /\ \A a \in Rooms : Exists(v, a) =>
        /\ Exists(w, a)
        /\ v.room[a].players \subseteq w.room[a].players \ cs
        /\ v.room[a].observers \subseteq w.room[a].observers \ cs

\* Forgetting players keeps all of consistency except perhaps the owners.
LEMMA ForgottenSound ==
    ASSUME NEW w, Consistent(w), NEW cs, NEW v \in World, Forgotten(w, v, cs)
    PROVE  Placed(v) /\ EntriesSound(v) /\ RobotsUnlinked(v)
<1>1. w \in World
  BY DEF Consistent
<1>2. Placed(v)
  <2>1. \A a \in Rooms : Exists(v, a) =>
            \A d \in v.room[a].players \cup v.room[a].observers :
                d \in Conns /\ d \notin cs /\ Alive(w, d) /\ w.player[d].place = a
    BY <1>1, WorldParts DEF Forgotten, Consistent, Placed
  <2>2. \A d \in v.lobby : d \in Conns /\ d \notin cs /\ Alive(w, d) /\ w.player[d].place = Lobby
    BY <1>1, WorldParts DEF Forgotten, Consistent, Placed
  <2>3. \A a \in Rooms : Exists(v, a) => v.room[a].players \cap v.room[a].observers = {}
    BY DEF Forgotten, Consistent, Placed
  <2> QED
    BY <2>1, <2>2, <2>3 DEF Forgotten, Placed, Alive
<1>3. EntriesSound(v)
  BY <1>1, WorldParts DEF Forgotten, Consistent, EntriesSound, Alive
<1>4. RobotsUnlinked(v)
  BY DEF Forgotten, Consistent, RobotsUnlinked, Alive
<1> QED
  BY <1>2, <1>3, <1>4

\* A runner's new object changes no room and nobody who was there.
LEMMA CreateRunnedConsistent ==
    ASSUME NEW w, Consistent(w), NEW r \in Rooms, NEW p \in Player,
           p.uid = Robot => p.link = "none",
           NEW x \in CreateRunnedPlayer(w, r, p)
    PROVE  /\ Consistent(x)
           /\ x.room = w.room
           /\ \A d \in Conns : Alive(w, d) => /\ x.player[d] = w.player[d]
                                              /\ d \in x.lobby => d \in w.lobby
<1>1. PICK n \in FreshConns(w), died \in BOOLEAN :
        x = LobbyAddPlayer(AddPlayer(w, n,
              [uid |-> p.uid, state |-> "Online", place |-> Lobby,
               link |-> IF died \/ w.room[r].outdated \/ p.link = "none"
                        THEN p.link ELSE "closing"]), n)
  BY DEF CreateRunnedPlayer
<1> DEFINE l == IF died \/ w.room[r].outdated \/ p.link = "none" THEN p.link ELSE "closing"
           q == [uid |-> p.uid, state |-> "Online", place |-> Lobby, link |-> l]
           y == AddPlayer(w, n, q)
<1>2. x = LobbyAddPlayer(y, n)
  BY <1>1
<1>3. q \in Player /\ q.uid = p.uid /\ q.state = "Online" /\ (q.uid = Robot => q.link = "none")
  BY DEF Player, States, Links
<1>4. w \in World /\ n \in Conns /\ Unlisted(w, n) /\ ~Alive(w, n) /\ n \notin w.lobby
  BY FreshIsUnlisted DEF Consistent
<1> HIDE DEF q
<1>5. Consistent(y)
  BY <1>3, AddPlayerConsistent
<1>6. /\ y \in World /\ y.lobby = w.lobby /\ y.room = w.room
      /\ \A d \in Conns : y.player[d] = IF d = n THEN q ELSE w.player[d]
  BY <1>3, <1>4, AddPlayerParts
<1>7. Alive(y, n) /\ Unlisted(y, n) /\ y.player[n].state # "Robot"
  BY <1>3, <1>4, <1>6, NoneIsNoRecord DEF Alive, Unlisted, Exists
<1> HIDE DEF y
<1>8. Consistent(x)
  BY <1>2, <1>4, <1>5, <1>7, LobbyAddConsistent
<1>9. /\ x.lobby = y.lobby \cup {n} /\ x.room = y.room
      /\ \A d \in Conns : d # n => x.player[d] = y.player[d]
  <2>1. /\ LobbyAddPlayer(y, n).lobby = y.lobby \cup {n} /\ LobbyAddPlayer(y, n).room = y.room
        /\ \A d \in Conns : LobbyAddPlayer(y, n).player[d] =
              IF d = n THEN [y.player[n] EXCEPT !.place = Lobby] ELSE y.player[d]
    BY <1>4, <1>6, <1>7, LobbyAddParts
  <2> QED
    BY <1>2, <2>1
<1> QED
  BY <1>4, <1>6, <1>8, <1>9 DEF Alive

\* Room::removePlayer of somebody whose place is the room: afterwards the player
\* is off every list, or keeps the seat as a runner.
LEMMA RoomRemoveConsistent ==
    ASSUME NEW w, Consistent(w), NEW r \in Rooms, Exists(w, r),
           NEW c \in Conns, Alive(w, c), w.player[c].place = r,
           NEW x \in RoomRemovePlayer(w, r, c, w.player[c])
    PROVE  /\ Consistent(x) /\ Exists(x, r)
           /\ Alive(x, c) /\ x.player[c].uid = w.player[c].uid /\ c \notin x.lobby
           /\ x.player[c].state = "Run" \/ Unlisted(x, c)
           /\ ~IsStarted(w, r) => Unlisted(x, c)
<1>1. /\ w \in World /\ w.player[c] \in Player /\ w.room[r] \in Room
      /\ c \notin w.lobby
      /\ \A a \in Rooms : Exists(w, a) /\ a # r =>
            c \notin w.room[a].players \cup w.room[a].observers
      /\ w.room[r].players \cap w.room[r].observers = {}
  BY WorldParts, ConstantsDistinct DEF Consistent, Placed
<1>2. CASE c \in w.room[r].observers
  <2> DEFINE q == [w.room[r] EXCEPT !.observers = w.room[r].observers \ {c}]
             v == [w EXCEPT !.room[r] = q]
  <2>1. w.room[r].observers \ {c} \in SUBSET Conns
    BY <1>1, WorldParts
  <2>2. /\ q \in Room /\ q.players = w.room[r].players /\ q.owner = w.room[r].owner
        /\ q.observers = w.room[r].observers \ {c}
    BY <1>1, <2>1 DEF Room
  <2> HIDE DEF q
  <2>3. /\ v \in World /\ v.player = w.player /\ v.online = w.online /\ v.lobby = w.lobby
        /\ \A a \in Rooms : v.room[a] = IF a = r THEN q ELSE w.room[a]
    BY <1>1, <2>2, RoomParts
  <2>4. x = v
    BY <1>1, <1>2 DEF RoomRemovePlayer, World, q
  <2>5. q # None
    BY <2>2, NoneIsNoRecord
  <2> HIDE DEF v
  <2>6. Placed(v)
    BY <2>2, <2>3, <2>5 DEF Consistent, Placed, Exists, Alive
  <2>7. EntriesSound(v) /\ RobotsUnlinked(v)
    BY <2>3 DEF Consistent, EntriesSound, RobotsUnlinked, Alive
  <2>8. OwnersSit(v)
    BY <2>2, <2>3, <2>5 DEF Consistent, OwnersSit, Exists
  <2>9. Unlisted(v, c)
    BY <1>1, <1>2, <2>2, <2>3, <2>5 DEF Unlisted, Exists
  <2> QED
    BY <1>1, <2>3, <2>4, <2>5, <2>6, <2>7, <2>8, <2>9 DEF Consistent, Alive, Exists
<1>3. CASE c \notin w.room[r].observers /\ c \notin w.room[r].players
  <2>1. x = w
    BY <1>3 DEF RoomRemovePlayer
  <2> QED
    BY <1>1, <1>3, <2>1 DEF Unlisted
<1>4. CASE c \notin w.room[r].observers /\ c \in w.room[r].players /\ ~IsStarted(w, r)
  <2> DEFINE q == [w.room[r] EXCEPT !.players = w.room[r].players \ {c}]
             v == [w EXCEPT !.room[r] = q]
  <2>1. w.room[r].players \ {c} \in SUBSET Conns
    BY <1>1, WorldParts
  <2>2. /\ q \in Room /\ q.players = w.room[r].players \ {c} /\ q.owner = w.room[r].owner
        /\ q.observers = w.room[r].observers
    BY <1>1, <2>1 DEF Room
  <2> HIDE DEF q
  <2>3. /\ v \in World /\ v.player = w.player /\ v.online = w.online /\ v.lobby = w.lobby
        /\ \A a \in Rooms : v.room[a] = IF a = r THEN q ELSE w.room[a]
    BY <1>1, <2>2, RoomParts
  <2>4. [w EXCEPT !.room[r].players = @ \ {c}] = v
    BY <1>1 DEF World, q
  <2>5. x \in Resettle(v, r, {c})
    BY <1>4, <2>4 DEF RoomRemovePlayer
  <2>6. q # None
    BY <2>2, NoneIsNoRecord
  <2> HIDE DEF v
  <2>7. Placed(v)
    BY <2>2, <2>3, <2>6 DEF Consistent, Placed, Exists, Alive
  <2>8. EntriesSound(v) /\ RobotsUnlinked(v)
    BY <2>3 DEF Consistent, EntriesSound, RobotsUnlinked, Alive
  <2>9. OwnersSitBut(v, r, {c})
    BY <2>2, <2>3, <2>6 DEF Consistent, OwnersSit, OwnersSitBut, Exists
  <2>10. Exists(v, r) /\ Unlisted(v, c)
    BY <1>1, <1>4, <2>2, <2>3, <2>6 DEF Unlisted, Exists
  <2>11. /\ Consistent(x)
         /\ x.player = v.player /\ x.online = v.online /\ x.lobby = v.lobby
         /\ \A a \in Rooms : Exists(x, a) <=> Exists(v, a)
         /\ \A a \in Rooms : Exists(v, a) => /\ x.room[a].players = v.room[a].players
                                             /\ x.room[a].observers = v.room[a].observers
    BY <2>3, <2>5, <2>7, <2>8, <2>9, <2>10, ResettleConsistent
  <2>12. Unlisted(x, c)
    BY <2>10, <2>11 DEF Unlisted
  <2> QED
    BY <1>1, <2>3, <2>10, <2>11, <2>12 DEF Alive
<1>5. CASE c \notin w.room[r].observers /\ c \in w.room[r].players /\ IsStarted(w, r)
  <2> DEFINE p == w.player[c]
             q == [p EXCEPT !.state = "Run", !.link = "none"]
             f == [w.player EXCEPT ![c] = q]
             v == [w EXCEPT !.player[c] = q]
  <2>1. PICK y \in CreateRunnedPlayer(v, r, p) : x \in Resettle(y, r, {c})
    BY <1>5 DEF RoomRemovePlayer
  <2>2. /\ q \in Player /\ q.state = "Run" /\ q.link = "none" /\ q.uid = p.uid
        /\ q.place = p.place
    BY <1>1 DEF Player, States, Links
  <2>3. f \in [Conns -> Player \cup {None}] /\ \A d \in Conns : f[d] = IF d = c THEN q ELSE w.player[d]
    BY <1>1, <2>2, WorldParts
  <2>4. /\ v \in World /\ v.online = w.online /\ v.lobby = w.lobby /\ v.room = w.room
        /\ v.player = f
    BY <1>1, <2>3, WorldParts DEF World
  <2>5. q # None
    BY <2>2, NoneIsNoRecord
  <2>6. p \in Player /\ (p.uid = Robot => p.link = "none")
    BY <1>1 DEF Consistent, RobotsUnlinked
  <2> HIDE DEF v, f, q
  <2>7. RobotsUnlinked(v)
    BY <2>2, <2>3, <2>4 DEF Consistent, RobotsUnlinked, Alive
  <2>8. Consistent(v)
    BY <2>2, <2>3, <2>4, <2>5, <2>7, SameSeats DEF Exists, Alive
  <2>9. Alive(v, c) /\ v.player[c] = q
    BY <2>3, <2>4, <2>5 DEF Alive
  <2> HIDE DEF p
  <2>10. /\ Consistent(y) /\ y.room = v.room /\ y.player[c] = q /\ c \notin y.lobby
    BY <1>1, <2>1, <2>4, <2>6, <2>8, <2>9, CreateRunnedConsistent
  <2>11. /\ y \in World /\ Placed(y) /\ EntriesSound(y) /\ RobotsUnlinked(y)
         /\ OwnersSitBut(y, r, {c}) /\ Exists(y, r)
    BY <2>4, <2>10 DEF Consistent, OwnersSit, OwnersSitBut, Exists
  <2>12. /\ Consistent(x) /\ x.player = y.player /\ x.lobby = y.lobby
         /\ \A a \in Rooms : Exists(x, a) <=> Exists(y, a)
    BY <2>1, <2>11, ResettleConsistent
  <2> QED
    BY <1>5, <2>2, <2>5, <2>10, <2>11, <2>12 DEF Alive, p
<1> QED
  BY <1>2, <1>3, <1>4, <1>5

\* deletePlayer with its destructor, of somebody who is in no running game.
LEMMA DeleteConsistent ==
    ASSUME NEW w, Consistent(w), NEW c \in Conns, Alive(w, c), ~InsideGame(w, c),
           NEW x \in DeletePlayer(w, c)
    PROVE  Consistent(x)
<1> DEFINE p == w.player[c]
           e == Erase(w, {c})
<1>1. w \in World /\ p \in Player /\ p.place \in Rooms \cup {Lobby}
  BY WorldParts DEF Consistent, Player
<1>2. /\ e \in World /\ e.lobby = w.lobby /\ e.room = w.room
      /\ \A d \in Conns : e.player[d] = IF d \in {c} THEN None ELSE w.player[d]
      /\ \A u \in Users : e.online[u] = IF w.online[u] \in {c} THEN None ELSE w.online[u]
  BY <1>1, EraseParts
<1>3. CASE p.place = Lobby
  <2>1. x = LobbyRemovePlayer(e, c)
    BY <1>3 DEF DeletePlayer
  <2> HIDE DEF e
  <2>2. /\ x \in World /\ x.lobby = e.lobby \ {c} /\ x.room = e.room
        /\ x.online = e.online /\ x.player = e.player
    BY <1>2, <2>1 DEF LobbyRemovePlayer, World
  <2>3. \A a \in Rooms : Exists(w, a) => c \notin w.room[a].players \cup w.room[a].observers
    BY <1>3, ConstantsDistinct DEF Consistent, Placed
  <2>4. /\ x.lobby \subseteq w.lobby \ {c}
        /\ \A a \in Rooms : Exists(x, a) =>
              /\ Exists(w, a)
              /\ x.room[a].players \subseteq w.room[a].players \ {c}
              /\ x.room[a].observers \subseteq w.room[a].observers \ {c}
    BY <1>2, <2>2, <2>3 DEF Exists
  <2>5. Placed(x) /\ EntriesSound(x) /\ RobotsUnlinked(x)
    <3>1. Forgotten(w, x, {c})
      BY <1>2, <2>2, <2>4 DEF Forgotten
    <3> QED
      BY <2>2, <3>1, ForgottenSound
  <2>6. OwnersSit(x)
    BY <1>1, <1>2, <2>2, <2>3, WorldParts DEF Consistent, OwnersSit, Exists
  <2> QED
    BY <2>2, <2>5, <2>6 DEF Consistent
<1>4. CASE p.place \in Rooms
  <2> DEFINE r == p.place
  <2>1. p.place # Lobby /\ c \notin w.lobby
    BY <1>4, ConstantsDistinct DEF Consistent, Placed
  <2>2. \A a \in Rooms : Exists(w, a) /\ a # r =>
            c \notin w.room[a].players \cup w.room[a].observers
    BY DEF Consistent, Placed
  <2>3. CASE Unlisted(w, c) /\ x = e
    BY <2>1, <2>3, EraseConsistent
  <2>4. CASE ~(Unlisted(w, c) /\ x = e)
    <3>1. Exists(w, r) /\ x \in RoomRemovePlayer(e, r, c, p)
      BY <1>2, <1>4, <2>1, <2>2, <2>4 DEF DeletePlayer, Exists, Unlisted
    <3>2. /\ w.room[r] \in Room /\ w.room[r].players \cap w.room[r].observers = {}
          /\ w.room[r].players \subseteq Conns /\ w.room[r].observers \subseteq Conns
      BY <1>1, <1>4, <3>1, WorldParts DEF Consistent, Placed
    <3>3. c \in w.room[r].players \/ c \in w.room[r].observers
      <4>1. SUFFICES ASSUME c \notin w.room[r].players, c \notin w.room[r].observers
                     PROVE  FALSE
        OBVIOUS
      <4>2. x = e
        BY <1>2, <3>1, <4>1 DEF RoomRemovePlayer
      <4> QED
        BY <2>2, <2>4, <4>1, <4>2 DEF Unlisted
    <3> HIDE DEF e, r
    <3>4. r \in Rooms /\ w.player[c].place = r
      BY <1>4 DEF r
    <3>5. CASE c \in w.room[r].observers
      <4> DEFINE os == w.room[r].observers \ {c}
                 q == [w.room[r] EXCEPT !.observers = os]
                 v == [e EXCEPT !.room[r] = q]
      <4>1. os \in SUBSET Conns
        BY <3>2
      <4>2. x = v
        BY <1>2, <3>1, <3>5 DEF RoomRemovePlayer, World
      <4> HIDE DEF os
      <4>3. /\ q \in Room /\ q.players = w.room[r].players /\ q.owner = w.room[r].owner
            /\ q.observers = os
        BY <3>2, <4>1 DEF Room
      <4> HIDE DEF q
      <4>4. /\ v \in World /\ v.player = e.player /\ v.online = e.online /\ v.lobby = e.lobby
            /\ \A a \in Rooms : v.room[a] = IF a = r THEN q ELSE e.room[a]
        BY <1>2, <3>4, <4>3, RoomParts
      <4> HIDE DEF v
      <4>5. /\ v.lobby \subseteq w.lobby \ {c}
            /\ \A a \in Rooms : Exists(v, a) =>
                  /\ Exists(w, a)
                  /\ v.room[a].players \subseteq w.room[a].players \ {c}
                  /\ v.room[a].observers \subseteq w.room[a].observers \ {c}
        BY <1>2, <2>1, <2>2, <3>1, <3>2, <3>5, <4>3, <4>4 DEF Exists, os
      <4>6. Placed(v) /\ EntriesSound(v) /\ RobotsUnlinked(v)
        <5>1. Forgotten(w, v, {c})
          BY <1>2, <4>4, <4>5 DEF Forgotten
        <5> QED
          BY <4>4, <5>1, ForgottenSound
      <4>7. \A a \in Rooms : Exists(v, a) => /\ v.room[a].players = w.room[a].players
                                             /\ v.room[a].owner = w.room[a].owner
        BY <1>2, <4>3, <4>4
      <4>8. \A a \in Rooms : Exists(w, a) => c \notin w.room[a].players
        BY <2>2, <3>2, <3>5
      <4>9. OwnersSit(v)
        <5> SUFFICES ASSUME NEW a \in Rooms, Exists(v, a), v.room[a].owner # None
                     PROVE  /\ v.room[a].owner \in v.room[a].players
                            /\ v.player[v.room[a].owner].uid # Robot
          BY DEF OwnersSit
        <5>1. /\ w.room[a].owner \in w.room[a].players
              /\ w.player[w.room[a].owner].uid # Robot
          BY <4>5, <4>7 DEF Consistent, OwnersSit
        <5>2. w.room[a].owner \in Conns /\ w.room[a].owner # c
          BY <1>1, <4>5, <4>8, <5>1, WorldParts
        <5> QED
          BY <1>2, <4>4, <4>7, <5>1, <5>2
      <4> QED
        BY <4>2, <4>4, <4>6, <4>9 DEF Consistent
    <3>6. CASE c \in w.room[r].players /\ c \notin w.room[r].observers
      <4> DEFINE ps == w.room[r].players \ {c}
                 q == [w.room[r] EXCEPT !.players = ps]
                 v == [e EXCEPT !.room[r] = q]
      <4>1. ps \in SUBSET Conns
        BY <3>2
      <4>2. ~IsStarted(e, r)
        BY <1>2, <3>1, <3>4, <3>6 DEF InsideGame, IsStarted
      <4>3. x \in Resettle([e EXCEPT !.room[r].players = @ \ {c}], r, {c})
        BY <1>2, <3>1, <3>6, <4>2 DEF RoomRemovePlayer
      <4>4. [e EXCEPT !.room[r].players = @ \ {c}] = v
        BY <1>2 DEF World
      <4> HIDE DEF ps
      <4>5. /\ q \in Room /\ q.players = ps /\ q.owner = w.room[r].owner
            /\ q.observers = w.room[r].observers
        BY <3>2, <4>1 DEF Room
      <4> HIDE DEF q
      <4>6. /\ v \in World /\ v.player = e.player /\ v.online = e.online /\ v.lobby = e.lobby
            /\ \A a \in Rooms : v.room[a] = IF a = r THEN q ELSE e.room[a]
        BY <1>2, <3>4, <4>5, RoomParts
      <4> HIDE DEF v
      <4>7. /\ v.lobby \subseteq w.lobby \ {c}
            /\ \A a \in Rooms : Exists(v, a) =>
                  /\ Exists(w, a)
                  /\ v.room[a].players \subseteq w.room[a].players \ {c}
                  /\ v.room[a].observers \subseteq w.room[a].observers \ {c}
        BY <1>2, <2>1, <2>2, <3>1, <3>2, <3>6, <4>5, <4>6 DEF Exists, ps
      <4>8. Placed(v) /\ EntriesSound(v) /\ RobotsUnlinked(v)
        <5>1. Forgotten(w, v, {c})
          BY <1>2, <4>6, <4>7 DEF Forgotten
        <5> QED
          BY <4>6, <5>1, ForgottenSound
      <4>9. OwnersSitBut(v, r, {c})
        <5> SUFFICES ASSUME NEW a \in Rooms, Exists(v, a), v.room[a].owner # None,
                            ~(a = r /\ v.room[a].owner \in {c})
                     PROVE  /\ v.room[a].owner \in v.room[a].players
                            /\ v.player[v.room[a].owner].uid # Robot
          BY DEF OwnersSitBut
        <5>1. Exists(w, a) /\ v.room[a].owner = w.room[a].owner
          BY <1>2, <4>5, <4>6, <4>7
        <5>2. /\ w.room[a].owner \in w.room[a].players
              /\ w.player[w.room[a].owner].uid # Robot
          BY <5>1 DEF Consistent, OwnersSit
        <5>3. w.room[a].owner \in Conns /\ w.room[a].owner # c
          BY <1>1, <2>2, <5>1, <5>2, WorldParts
        <5>4. v.room[a].owner \in v.room[a].players
          BY <1>2, <4>5, <4>6, <5>1, <5>2, <5>3 DEF ps
        <5> QED
          BY <1>2, <4>6, <5>1, <5>2, <5>3, <5>4
      <4>10. Exists(v, r)
        BY <3>4, <4>5, <4>6, NoneIsNoRecord DEF Exists
      <4>11. x \in Resettle(v, r, {c})
        BY <4>3, <4>4
      <4> QED
        BY <3>4, <4>6, <4>8, <4>9, <4>10, <4>11, ResettleConsistent
    <3> QED
      BY <3>3, <3>5, <3>6
  <2> QED
    BY <2>3, <2>4
<1> QED
  BY <1>1, <1>3, <1>4

-----------------------------------------------------------------------------
(* The end of a room *)

\* ~Room leaves a consistent world: whoever is online is in the lobby, the rest
\* are deleted, and nothing is left that points to the room.
LEMMA DestroyConsistent ==
    ASSUME NEW w, Consistent(w), NEW r \in Rooms, Exists(w, r)
    PROVE  Consistent(DestroyRoom(w, r))
<1> DEFINE inside == w.room[r].players \cup w.room[r].observers
           saved  == {c \in inside : IsOnline(w, c)}
           cs     == inside \ saved
           e      == Erase(w, cs)
           f      == [c \in Conns |->
                        IF c \in saved THEN [e.player[c] EXCEPT !.place = Lobby] ELSE e.player[c]]
           g      == [w.room EXCEPT ![r] = None]
           v      == DestroyRoom(w, r)
<1>1. /\ w \in World /\ inside \subseteq Conns
      /\ \A c \in inside : Alive(w, c) /\ w.player[c].place = r
  BY WorldParts DEF Consistent, Placed
<1>2. /\ e \in World /\ e.lobby = w.lobby /\ e.room = w.room
      /\ \A d \in Conns : e.player[d] = IF d \in cs THEN None ELSE w.player[d]
      /\ \A u \in Users : e.online[u] = IF w.online[u] \in cs THEN None ELSE w.online[u]
  BY <1>1, EraseParts
<1>3. /\ v.room = g /\ v.lobby = w.lobby \cup saved /\ v.player = f
      /\ v.online = e.online /\ v.posts = e.posts
  <2>1. v = [e EXCEPT !.room[r] = None, !.lobby = @ \cup saved,
              !.player = [c \in Conns |->
                  IF c \in saved THEN [@[c] EXCEPT !.place = Lobby] ELSE @[c]]]
    BY DEF DestroyRoom
  <2> HIDE DEF v, e, saved
  <2> QED
    BY <1>2, <2>1 DEF World
<1> HIDE DEF e
<1>4. \A c \in saved : /\ c \in Conns /\ c \notin cs /\ e.player[c] = w.player[c]
                       /\ e.player[c] \in Player /\ f[c] \in Player /\ f[c].place = Lobby
                       /\ f[c].uid = w.player[c].uid /\ f[c].state = w.player[c].state
                       /\ f[c].link = w.player[c].link
  <2> TAKE c \in saved
  <2>1. c \in Conns /\ c \notin cs /\ Alive(w, c)
    BY <1>1
  <2>2. e.player[c] = w.player[c] /\ e.player[c] \in Player /\ Lobby \in Rooms \cup {Lobby}
    BY <1>1, <1>2, <2>1, WorldParts
  <2>3. f[c] = [e.player[c] EXCEPT !.place = Lobby]
    BY <2>1
  <2> HIDE DEF f
  <2> QED
    BY <2>1, <2>2, <2>3, WithPlace
<1>5. \A c \in Conns : c \notin saved => f[c] = IF c \in inside THEN None ELSE w.player[c]
  BY <1>2
<1>6. f \in [Conns -> Player \cup {None}]
  <2>1. \A c \in Conns : f[c] \in Player \cup {None}
    <3> TAKE c \in Conns
    <3> HIDE DEF f, saved, inside
    <3>1. CASE c \in saved
      BY <1>4, <3>1
    <3>2. CASE c \notin saved
      BY <1>1, <1>5, <3>2, WorldParts
    <3> QED
      BY <3>1, <3>2
  <2> QED
    BY <2>1
<1>7. g \in [Rooms -> Room \cup {None}] /\ \A a \in Rooms : g[a] = IF a = r THEN None ELSE w.room[a]
  BY <1>1, WorldParts
<1>8. w.lobby \cup saved \in SUBSET Conns
  BY <1>1, WorldParts
<1>9. v \in World
  <2>1. v = [e EXCEPT !.room = g, !.lobby = w.lobby \cup saved, !.player = f]
    BY <1>2 DEF DestroyRoom, World, e
  <2> HIDE DEF v, f, g, saved
  <2> QED
    BY <1>2, <1>6, <1>7, <1>8, <2>1 DEF World
<1> HIDE DEF v, f, g
<1>10. /\ saved \subseteq inside
       /\ \A c \in w.lobby : c \notin inside /\ c \in Conns
       /\ \A a \in Rooms : a # r /\ Exists(w, a) =>
            \A c \in w.room[a].players \cup w.room[a].observers : c \notin inside /\ c \in Conns
  BY <1>1, WorldParts, ConstantsDistinct DEF Consistent, Placed
<1> HIDE DEF inside, saved, cs
<1>11. \A c \in saved : f[c] # None
  BY <1>4, NoneIsNoRecord
<1>12. Placed(v)
  <2>1. \A a \in Rooms : Exists(v, a) => a # r /\ Exists(w, a) /\ v.room[a] = w.room[a]
    BY <1>3, <1>7 DEF Exists
  <2>2. \A a \in Rooms : Exists(v, a) =>
            \A c \in v.room[a].players \cup v.room[a].observers :
                f[c] = w.player[c] /\ Alive(w, c) /\ w.player[c].place = a
    BY <1>5, <1>10, <2>1 DEF Consistent, Placed
  <2>3. \A c \in v.lobby : f[c] # None /\ f[c].place = Lobby
    <3> TAKE c \in v.lobby
    <3>1. CASE c \in saved
      BY <1>4, <1>11, <3>1
    <3>2. CASE c \notin saved
      BY <1>3, <1>5, <1>10, <3>2 DEF Consistent, Placed, Alive
    <3> QED
      BY <3>1, <3>2
  <2> QED
    BY <1>3, <2>1, <2>2, <2>3 DEF Placed, Alive, Consistent
<1>13. EntriesSound(v)
  <2> SUFFICES ASSUME NEW u \in Users, v.online[u] # None
               PROVE  Alive(v, v.online[u]) /\ v.player[v.online[u]].uid = u
    BY DEF EntriesSound
  <2> DEFINE c == w.online[u]
  <2>1. v.online[u] = c /\ c \notin cs
    BY <1>2, <1>3
  <2>2. c \in Conns /\ Alive(w, c) /\ w.player[c].uid = u
    BY <1>1, <2>1, WorldParts DEF Consistent, EntriesSound
  <2>3. CASE c \in saved
    BY <1>3, <1>4, <1>11, <2>1, <2>2, <2>3 DEF Alive
  <2>4. CASE c \notin saved
    BY <1>3, <1>5, <2>1, <2>2, <2>4 DEF Alive, cs
  <2> QED
    BY <2>3, <2>4
<1>14. OwnersSit(v)
  <2> SUFFICES ASSUME NEW a \in Rooms, Exists(v, a), v.room[a].owner # None
               PROVE  /\ v.room[a].owner \in v.room[a].players
                      /\ v.player[v.room[a].owner].uid # Robot
    BY DEF OwnersSit
  <2>1. a # r /\ v.room[a] = w.room[a] /\ Exists(w, a)
    BY <1>3, <1>7 DEF Exists
  <2>2. w.room[a].owner \in w.room[a].players /\ w.player[w.room[a].owner].uid # Robot
    BY <2>1 DEF Consistent, OwnersSit
  <2>3. v.player[w.room[a].owner] = w.player[w.room[a].owner]
    BY <1>3, <1>5, <1>10, <2>1, <2>2
  <2> QED
    BY <2>1, <2>2, <2>3
<1>15. RobotsUnlinked(v)
  <2> SUFFICES ASSUME NEW c \in Conns, Alive(v, c)
               PROVE  /\ v.player[c].uid = Robot => v.player[c].link = "none"
                      /\ v.player[c].state = "Robot" => v.player[c].uid = Robot
    BY DEF RobotsUnlinked
  <2>1. Alive(w, c) /\ v.player[c].uid = w.player[c].uid /\ v.player[c].link = w.player[c].link
        /\ v.player[c].state = w.player[c].state
    <3>1. CASE c \in saved
      BY <1>1, <1>3, <1>4, <1>10, <3>1 DEF inside
    <3>2. CASE c \notin saved
      BY <1>3, <1>5, <3>2 DEF Alive
    <3> QED
      BY <3>1, <3>2
  <2> QED
    BY <2>1 DEF Consistent, RobotsUnlinked
<1> QED
  BY <1>9, <1>12, <1>13, <1>14, <1>15 DEF Consistent, v

\* The deletions of a check in a room that is not playing.
LEMMA PurgeIdleConsistent ==
    ASSUME NEW w, Consistent(w), NEW r \in Rooms, Exists(w, r), NEW x \in PurgeIdle(w, r)
    PROVE  Consistent(x) /\ Exists(x, r)
<1> DEFINE gone == Ghosts(w, r)
           e == Erase(w, gone)
           ps == w.room[r].players \ gone
           q == [w.room[r] EXCEPT !.players = ps]
           v == [e EXCEPT !.room[r] = q]
<1>1. /\ w \in World /\ w.room[r] \in Room /\ gone \subseteq w.room[r].players
      /\ w.room[r].players \subseteq Conns
      /\ w.room[r].players \cap w.room[r].observers = {}
      /\ \A c \in gone : c \notin w.lobby /\ \A a \in Rooms : Exists(w, a) /\ a # r =>
            c \notin w.room[a].players \cup w.room[a].observers
  BY WorldParts, ConstantsDistinct DEF Consistent, Placed, Ghosts
<1> HIDE DEF gone
<1>2. /\ e \in World /\ e.lobby = w.lobby /\ e.room = w.room
      /\ \A d \in Conns : e.player[d] = IF d \in gone THEN None ELSE w.player[d]
      /\ \A u \in Users : e.online[u] = IF w.online[u] \in gone THEN None ELSE w.online[u]
  BY <1>1, EraseParts
<1>3. ps \in SUBSET Conns
  BY <1>1
<1>4. x \in Resettle([e EXCEPT !.room[r].players = @ \ gone], r, gone)
  BY DEF PurgeIdle, gone
<1> HIDE DEF e
<1>5. [e EXCEPT !.room[r].players = @ \ gone] = v
  BY <1>2 DEF World
<1>6. x \in Resettle(v, r, gone)
  BY <1>4, <1>5
<1> HIDE DEF ps
<1>7. /\ q \in Room /\ q.players = ps /\ q.owner = w.room[r].owner
      /\ q.observers = w.room[r].observers
  BY <1>1, <1>3 DEF Room
<1> HIDE DEF q
<1>8. /\ v \in World /\ v.player = e.player /\ v.online = e.online /\ v.lobby = e.lobby
      /\ \A a \in Rooms : v.room[a] = IF a = r THEN q ELSE e.room[a]
  BY <1>2, <1>7, RoomParts
<1> HIDE DEF v
<1>9. Exists(v, r)
  BY <1>7, <1>8, NoneIsNoRecord DEF Exists
<1>10. Forgotten(w, v, gone)
  <2>1. v.lobby \subseteq w.lobby \ gone
    BY <1>1, <1>2, <1>8
  <2>2. \A a \in Rooms : Exists(v, a) =>
        /\ Exists(w, a)
        /\ v.room[a].players \subseteq w.room[a].players \ gone
        /\ v.room[a].observers \subseteq w.room[a].observers \ gone
    BY <1>1, <1>2, <1>7, <1>8 DEF Exists, ps
  <2> QED
    BY <1>2, <1>8, <2>1, <2>2 DEF Forgotten
<1>11. Placed(v) /\ EntriesSound(v) /\ RobotsUnlinked(v)
  BY <1>8, <1>10, ForgottenSound
<1>12. OwnersSitBut(v, r, gone)
  <2> SUFFICES ASSUME NEW a \in Rooms, Exists(v, a), v.room[a].owner # None,
                      ~(a = r /\ v.room[a].owner \in gone)
               PROVE  /\ v.room[a].owner \in v.room[a].players
                      /\ v.player[v.room[a].owner].uid # Robot
    BY DEF OwnersSitBut
  <2>1. Exists(w, a) /\ v.room[a].owner = w.room[a].owner
    BY <1>2, <1>7, <1>8 DEF Exists
  <2>2. w.room[a].owner \in w.room[a].players /\ w.player[w.room[a].owner].uid # Robot
    BY <2>1 DEF Consistent, OwnersSit
  <2>3. w.room[a].owner \in Conns /\ w.room[a].owner \notin gone
    BY <1>1, <2>1, <2>2, WorldParts
  <2>4. v.room[a].owner \in v.room[a].players
    BY <1>2, <1>7, <1>8, <2>1, <2>2, <2>3 DEF ps
  <2> QED
    BY <1>2, <1>8, <2>1, <2>2, <2>3, <2>4
<1> QED
  BY <1>6, <1>8, <1>9, <1>11, <1>12, ResettleConsistent

\* The deletions of a check in a room that plays again: the deleted members are
\* back in the lobby as new objects, and the room goes on.
LEMMA PurgeStartedConsistent ==
    ASSUME NEW w, Consistent(w), NEW r \in Rooms, Exists(w, r), NEW x \in PurgeStarted(w, r)
    PROVE  /\ Consistent(x) /\ Exists(x, r)
           /\ \E v \in World :
                /\ x \in Resettle(v, r, Ghosts(w, r))
                /\ v.posts = w.posts /\ Exists(v, r) /\ v.room[r].ref = w.room[r].ref
                /\ \A a \in Rooms : a # r => v.room[a] = w.room[a]
                /\ \A c \in Conns : c \notin Ghosts(w, r) => v.player[c] = w.player[c]
                /\ w.lobby \subseteq v.lobby
                /\ v.room[r].players = w.room[r].players \ Ghosts(w, r)
                /\ v.room[r].observers = w.room[r].observers
<1> DEFINE gone == Ghosts(w, r)
           Of(u) == {c \in gone : w.player[c].uid = u}
           ps == w.room[r].players \ gone
           q == [w.room[r] EXCEPT !.players = ps]
           g == [w.room EXCEPT ![r] = q]
           f == [c \in Conns |-> IF c \in gone
                    THEN [w.player[c] EXCEPT !.state = "Online", !.place = Lobby] ELSE w.player[c]]
           o(last) == [u \in Users |-> IF Of(u) = {} THEN w.online[u] ELSE last[u]]
           After(last) ==
            [w EXCEPT
                !.room[r].players = @ \ gone,
                !.lobby  = @ \cup gone,
                !.online = [u \in Users |-> IF Of(u) = {} THEN @[u] ELSE last[u]],
                !.player = [c \in Conns |->
                    IF c \in gone
                    THEN [@[c] EXCEPT !.state = "Online", !.place = Lobby] ELSE @[c]]]
<1>1. /\ w \in World /\ w.room[r] \in Room /\ gone \subseteq w.room[r].players
      /\ w.room[r].players \subseteq Conns /\ gone \subseteq Conns
      /\ w.room[r].players \cap w.room[r].observers = {}
      /\ \A c \in gone : /\ c \notin w.lobby
                         /\ Alive(w, c)
                         /\ w.player[c].link = "none"
                         /\ \A a \in Rooms : Exists(w, a) /\ a # r =>
                              c \notin w.room[a].players \cup w.room[a].observers
  BY WorldParts, ConstantsDistinct DEF Consistent, Placed, Ghosts, IsOnline
<1>2. PICK last \in [Users -> gone] :
        /\ \A u \in Users : Of(u) # {} => last[u] \in Of(u)
        /\ x \in Resettle(After(last), r, gone)
  BY DEF PurgeStarted
<1> DEFINE v == After(last)
<1> HIDE DEF gone
<1>3. v.room = g /\ v.lobby = w.lobby \cup gone /\ v.online = o(last) /\ v.player = f
      /\ v.posts = w.posts
  <2> HIDE DEF Of
  <2> QED
    BY <1>1 DEF World
<1>4. v = [w EXCEPT !.room = g, !.lobby = w.lobby \cup gone, !.online = o(last), !.player = f]
  <2> HIDE DEF Of
  <2> QED
    BY <1>1 DEF World
<1>5. x \in Resettle(v, r, gone)
  BY <1>2
<1> HIDE DEF v, After
<1>6. \A c \in gone : /\ f[c] \in Player /\ f[c].place = Lobby /\ f[c].state = "Online"
                      /\ f[c].uid = w.player[c].uid /\ f[c].link = "none"
  <2> TAKE c \in gone
  <2>1. c \in Conns /\ w.player[c] \in Player /\ w.player[c].link = "none"
    BY <1>1, WorldParts
  <2>2. f[c] = [w.player[c] EXCEPT !.state = "Online", !.place = Lobby]
    BY <2>1
  <2> HIDE DEF f
  <2> QED
    BY <2>1, <2>2 DEF Player, States
<1>7. \A c \in Conns : c \notin gone => f[c] = w.player[c]
  OBVIOUS
<1>8. f \in [Conns -> Player \cup {None}]
  <2>1. \A c \in Conns : f[c] \in Player \cup {None}
    <3> HIDE DEF f
    <3> QED
      BY <1>1, <1>6, <1>7, WorldParts
  <2> QED
    BY <2>1
<1>9. /\ q \in Room /\ q.players = ps /\ q.owner = w.room[r].owner
      /\ q.observers = w.room[r].observers /\ q.ref = w.room[r].ref
  <2>1. ps \in SUBSET Conns
    BY <1>1
  <2> HIDE DEF ps
  <2> QED
    BY <1>1, <2>1 DEF Room
<1> HIDE DEF q
<1>10. /\ g \in [Rooms -> Room \cup {None}]
       /\ \A a \in Rooms : g[a] = IF a = r THEN q ELSE w.room[a]
  BY <1>1, <1>9, WorldParts
<1>11. \A u \in Users : /\ o(last)[u] \in Conns \cup {None}
                        /\ Of(u) = {} => o(last)[u] = w.online[u]
                        /\ Of(u) # {} => o(last)[u] \in gone /\ w.player[o(last)[u]].uid = u
  BY <1>1, <1>2, WorldParts
<1>12. o(last) \in [Users -> Conns \cup {None}]
  BY <1>11
<1>13. w.lobby \cup gone \in SUBSET Conns
  BY <1>1, WorldParts
<1> HIDE DEF f, g, o
<1>14. v \in World
  BY <1>1, <1>4, <1>8, <1>10, <1>12, <1>13 DEF World
<1>15. /\ Exists(v, r) /\ \A c \in gone : f[c] # None
       /\ \A a \in Rooms : Exists(v, a) => Exists(w, a)
       /\ \A a \in Rooms : Exists(v, a) => v.room[a].owner = w.room[a].owner
       /\ \A a \in Rooms : Exists(v, a) => v.room[a].players = w.room[a].players \ gone
       /\ \A a \in Rooms : Exists(v, a) => v.room[a].observers = w.room[a].observers
  BY <1>1, <1>3, <1>6, <1>9, <1>10, NoneIsNoRecord DEF Exists
<1>16. Placed(v)
  <2>1. \A a \in Rooms : Exists(v, a) =>
            \A c \in v.room[a].players \cup v.room[a].observers :
                c \in Conns /\ c \notin gone /\ Alive(w, c) /\ w.player[c].place = a
    BY <1>1, <1>15, WorldParts DEF Consistent, Placed
  <2>2. \A c \in v.lobby : f[c] # None /\ f[c].place = Lobby
    <3> TAKE c \in v.lobby
    <3>1. CASE c \in gone
      BY <1>6, <1>15, <3>1
    <3>2. CASE c \notin gone
      BY <1>1, <1>3, <1>7, <3>2, WorldParts DEF Consistent, Placed, Alive
    <3> QED
      BY <3>1, <3>2
  <2>3. \A a \in Rooms : Exists(v, a) => v.room[a].players \cap v.room[a].observers = {}
    BY <1>15 DEF Consistent, Placed
  <2> QED
    BY <1>3, <1>7, <2>1, <2>2, <2>3 DEF Placed, Alive
<1>17. EntriesSound(v)
  <2> SUFFICES ASSUME NEW u \in Users, v.online[u] # None
               PROVE  Alive(v, v.online[u]) /\ v.player[v.online[u]].uid = u
    BY DEF EntriesSound
  <2>1. CASE Of(u) # {}
    BY <1>3, <1>6, <1>11, <1>15, <2>1 DEF Alive
  <2>2. CASE Of(u) = {}
    <3>1. v.online[u] = w.online[u]
      BY <1>3, <1>11, <2>2
    <3>2. w.online[u] \in Conns /\ Alive(w, w.online[u]) /\ w.player[w.online[u]].uid = u
      BY <1>1, <3>1, WorldParts DEF Consistent, EntriesSound
    <3>3. w.online[u] \notin gone
      BY <2>2, <3>2
    <3> QED
      BY <1>3, <1>7, <3>1, <3>2, <3>3 DEF Alive
  <2> QED
    BY <2>1, <2>2
<1>18. RobotsUnlinked(v)
  <2> SUFFICES ASSUME NEW c \in Conns, Alive(v, c)
               PROVE  /\ v.player[c].uid = Robot => v.player[c].link = "none"
                      /\ v.player[c].state = "Robot" => v.player[c].uid = Robot
    BY DEF RobotsUnlinked
  <2>1. CASE c \in gone
    BY <1>3, <1>6, <2>1
  <2>2. CASE c \notin gone
    BY <1>3, <1>7, <2>2 DEF Consistent, RobotsUnlinked, Alive
  <2> QED
    BY <2>1, <2>2
<1>19. OwnersSitBut(v, r, gone)
  <2> SUFFICES ASSUME NEW a \in Rooms, Exists(v, a), v.room[a].owner # None,
                      ~(a = r /\ v.room[a].owner \in gone)
               PROVE  /\ v.room[a].owner \in v.room[a].players
                      /\ v.player[v.room[a].owner].uid # Robot
    BY DEF OwnersSitBut
  <2>1. w.room[a].owner \in w.room[a].players /\ w.player[w.room[a].owner].uid # Robot
    BY <1>15 DEF Consistent, OwnersSit
  <2>2. w.room[a].owner \in Conns /\ w.room[a].owner \notin gone
    BY <1>1, <1>15, <2>1, WorldParts
  <2> QED
    BY <1>3, <1>7, <1>15, <2>1, <2>2
<1>20. Consistent(x) /\ Exists(x, r)
  BY <1>5, <1>14, <1>15, <1>16, <1>17, <1>18, <1>19, ResettleConsistent
<1>21. /\ v.posts = w.posts /\ v.room[r].ref = w.room[r].ref
       /\ \A a \in Rooms : a # r => v.room[a] = w.room[a]
       /\ \A c \in Conns : c \notin gone => v.player[c] = w.player[c]
       /\ w.lobby \subseteq v.lobby
       /\ v.room[r].players = w.room[r].players \ gone
       /\ v.room[r].observers = w.room[r].observers
  BY <1>3, <1>7, <1>9, <1>10
<1> QED
  BY <1>5, <1>14, <1>15, <1>20, <1>21 DEF gone

\* A check, whatever its reason and whatever happened since it was posted.
LEMMA CheckConsistent ==
    ASSUME NEW w, Consistent(w), NEW r \in Rooms, Exists(w, r), NEW reason,
           NEW x \in CheckAbandonedNow(w, r, reason)
    PROVE  Consistent(x)
<1> DEFINE purged == IF reason = "NoHuman" \/ Ghosts(w, r) = {} THEN {w}
                     ELSE IF IsStarted(w, r) THEN PurgeStarted(w, r)
                     ELSE PurgeIdle(w, r)
<1>1. PICK y \in purged :
        x = IF IsAbandoned(y, r) /\ ~IsStarted(y, r) THEN DestroyRoom(y, r) ELSE y
  BY DEF CheckAbandonedNow
<1>2. y = w \/ y \in PurgeStarted(w, r) \/ y \in PurgeIdle(w, r)
  BY <1>1
<1> HIDE DEF purged
<1>3. Consistent(y) /\ Exists(y, r)
  BY <1>2, PurgeStartedConsistent, PurgeIdleConsistent
<1> QED
  BY <1>1, <1>3, DestroyConsistent

-----------------------------------------------------------------------------
(* One lemma per action *)

\* A step to a consistent world is a step to a consistent state.
LEMMA Landing ==
    ASSUME NEW w, Consistent(w), Becomes(w)
    PROVE  Consistency'
<1>1. w \in World
  BY DEF Consistent
<1>2. w = [player |-> w.player, online |-> w.online, lobby |-> w.lobby,
           room |-> w.room, posts |-> w.posts]
  BY <1>1 DEF World
<1>3. Now' = w
  BY <1>2 DEF Becomes, Now
<1> QED
  BY <1>3 DEF Consistency

\* One player of a consistent world may change its link and state, as long as
\* robots stay without a socket and nobody becomes one.
LEMMA PlayerChangeConsistent ==
    ASSUME NEW w, Consistent(w), NEW c \in Conns, Alive(w, c), NEW p \in Player,
           p.uid = w.player[c].uid, p.place = w.player[c].place,
           p.uid = Robot => p.link = "none", p.state = "Robot" => p.uid = Robot
    PROVE  Consistent([w EXCEPT !.player[c] = p]) /\ Alive([w EXCEPT !.player[c] = p], c)
<1> DEFINE f == [w.player EXCEPT ![c] = p]
           v == [w EXCEPT !.player[c] = p]
<1>1. w \in World /\ w.player[c] \in Player
  BY WorldParts DEF Consistent
<1>2. v.player = f /\ v.online = w.online /\ v.lobby = w.lobby /\ v.room = w.room
      /\ v = [w EXCEPT !.player = f]
  BY <1>1 DEF World
<1>3. f \in [Conns -> Player \cup {None}] /\ \A d \in Conns : f[d] = IF d = c THEN p ELSE w.player[d]
  BY <1>1, WorldParts
<1> HIDE DEF f, v
<1>4. v \in World
  BY <1>1, <1>2, <1>3 DEF World
<1>5. p # None
  BY NoneIsNoRecord
<1>6. RobotsUnlinked(v)
  BY <1>2, <1>3 DEF Consistent, RobotsUnlinked, Alive
<1>7. \A d \in Conns : Alive(v, d) <=> Alive(w, d)
  BY <1>2, <1>3, <1>5 DEF Alive
<1>8. \A d \in Conns : Alive(w, d) => /\ v.player[d].uid = w.player[d].uid
                                      /\ v.player[d].place = w.player[d].place
  BY <1>2, <1>3
<1>9. \A a \in Rooms : Exists(v, a) <=> Exists(w, a)
  BY <1>2 DEF Exists
<1>10. Consistent(v)
  BY <1>2, <1>4, <1>6, <1>7, <1>8, <1>9, SameSeats
<1> QED
  BY <1>2, <1>3, <1>5, <1>10 DEF Alive, v

\* The same for a link and a state set together.
LEMMA RelinkConsistent ==
    ASSUME NEW w, Consistent(w), NEW c \in Conns, Alive(w, c), NEW l \in Links, NEW s \in States,
           w.player[c].uid = Robot => l = "none",
           s = "Robot" => w.player[c].uid = Robot,
           NEW v, v = [w EXCEPT !.player[c].link = l, !.player[c].state = s]
    PROVE  Consistent(v) /\ Alive(v, c)
<1> DEFINE p == [[w.player[c] EXCEPT !.link = l] EXCEPT !.state = s]
<1>1. w \in World /\ w.player[c] \in Player
  BY WorldParts DEF Consistent
<1>2. /\ p \in Player /\ p.link = l /\ p.state = s /\ p.uid = w.player[c].uid
      /\ p.place = w.player[c].place
  BY <1>1 DEF Player
<1>3. v = [w EXCEPT !.player[c] = p]
  BY <1>1 DEF World
<1> HIDE DEF p
<1>4. (p.uid = Robot => p.link = "none") /\ (p.state = "Robot" => p.uid = Robot)
  BY <1>2
<1>5. Consistent([w EXCEPT !.player[c] = p]) /\ Alive([w EXCEPT !.player[c] = p], c)
  BY <1>2, <1>4, PlayerChangeConsistent
<1> QED
  BY <1>3, <1>5

\* A change to what a room says of itself, not of who is in it.
LEMMA RoomChangeConsistent ==
    ASSUME NEW w, Consistent(w), NEW r \in Rooms, Exists(w, r), NEW q \in Room,
           q.players = w.room[r].players, q.observers = w.room[r].observers,
           q.owner = w.room[r].owner
    PROVE  Consistent([w EXCEPT !.room[r] = q])
<1> DEFINE v == [w EXCEPT !.room[r] = q]
<1>1. w \in World
  BY DEF Consistent
<1>2. /\ v \in World /\ v.player = w.player /\ v.online = w.online /\ v.lobby = w.lobby
      /\ \A a \in Rooms : v.room[a] = IF a = r THEN q ELSE w.room[a]
  BY <1>1, RoomParts
<1>3. q # None
  BY NoneIsNoRecord
<1> HIDE DEF v
<1>4. RobotsUnlinked(v)
  BY <1>2 DEF Consistent, RobotsUnlinked, Alive
<1>5. Consistent(v)
  BY <1>2, <1>3, <1>4, SameSeats DEF Exists, Alive
<1> QED
  BY <1>5 DEF v

\* A check more or fewer in the queue changes nothing about who is where.
LEMMA PostsConsistent ==
    ASSUME NEW w, Consistent(w), NEW ps \in Seq(Post)
    PROVE  Consistent([w EXCEPT !.posts = ps])
<1> DEFINE v == [w EXCEPT !.posts = ps]
<1>1. w \in World
  BY DEF Consistent
<1>2. /\ v \in World /\ v.player = w.player /\ v.online = w.online /\ v.lobby = w.lobby
      /\ v.room = w.room
  BY <1>1 DEF World
<1> HIDE DEF v
<1>3. RobotsUnlinked(v)
  BY <1>2 DEF Consistent, RobotsUnlinked, Alive
<1>4. Consistent(v)
  BY <1>2, <1>3, SameSeats DEF Exists, Alive
<1> QED
  BY <1>4 DEF v

\* Login.
LEMMA LoginKeeps ==
    ASSUME Consistency, NEW u \in Users, Login(u)
    PROVE  Consistency'
<1> DEFINE old == online[u]
           w == IF old = None THEN Now ELSE Kick(Now, {old})
<1>1. Consistent(w)
  BY KickConsistent DEF Consistency
<1>2. CASE old # None /\ InsideGame(Now, old)
  <2>1. old \in Conns /\ Alive(Now, old) /\ Now.player[old].uid = u
    BY <1>2, WorldParts DEF Consistency, Consistent, EntriesSound, Now
  <2>2. Alive(w, old) /\ w.player[old].uid = u
    <3>1. Now \in World /\ w = Kick(Now, {old})
      BY <1>2 DEF Consistency, Consistent
    <3>2. w \in World /\ w.online[u] = old
      BY <3>1, KickParts DEF Now
    <3> QED
      BY <1>1, <1>2, <3>2 DEF Consistent, EntriesSound
  <2> HIDE DEF w
  <2> DEFINE v == [w EXCEPT !.player[old].link = "open", !.player[old].state = "Online"]
  <2>3. Becomes(v)
    BY <1>2 DEF Login, w
  <2>4. /\ "open" \in Links /\ "Online" \in States
        /\ w.player[old].uid # Robot
    BY <2>2, ConstantsDistinct DEF Links, States
  <2>5. Consistent(v)
    BY <1>1, <2>1, <2>2, <2>4, RelinkConsistent
  <2> QED
    BY <2>3, <2>5, Landing
<1>3. CASE ~(old # None /\ InsideGame(Now, old))
  <2> DEFINE p == [uid |-> u, state |-> "Online", link |-> "open", place |-> Lobby]
  <2>1. PICK c \in FreshConns(w) : Becomes(LobbyAddPlayer(AddPlayer(w, c, p), c))
    BY <1>3 DEF Login
  <2>2. p \in Player /\ p.uid # Robot /\ p.state # "Robot"
    BY ConstantsDistinct DEF Player, States, Links
  <2>3. w \in World /\ c \in Conns /\ Unlisted(w, c)
    BY <1>1, FreshIsUnlisted DEF Consistent
  <2> HIDE DEF w, p
  <2> DEFINE y == AddPlayer(w, c, p)
  <2>4. Consistent(y)
    BY <1>1, <2>2, AddPlayerConsistent
  <2>5. y.room = w.room /\ y.player[c] = p
    BY <2>2, <2>3, AddPlayerParts
  <2>6. Alive(y, c) /\ Unlisted(y, c) /\ y.player[c].state # "Robot"
    BY <2>2, <2>3, <2>5, NoneIsNoRecord DEF Alive, Unlisted, Exists
  <2> HIDE DEF y
  <2>7. Consistent(LobbyAddPlayer(y, c))
    BY <2>3, <2>4, <2>6, LobbyAddConsistent
  <2> QED
    BY <2>1, <2>7, Landing DEF y
<1> QED
  BY <1>2, <1>3

\* A socket closes.
LEMMA SocketClosedKeeps ==
    ASSUME Consistency, NEW c \in Conns, SocketClosed(c)
    PROVE  Consistency'
<1> DEFINE w == [Now EXCEPT !.player[c].link = "none", !.player[c].state = "Offline"]
<1>1. Consistent(Now) /\ Alive(Now, c)
  BY DEF Consistency, SocketClosed, IsOnline
<1>2. "none" \in Links /\ "Offline" \in States
  BY DEF Links, States
<1>3. Consistent(w) /\ Alive(w, c)
  BY <1>1, <1>2, RelinkConsistent
<1>4. IF InsideGame(w, c) THEN Becomes(w) ELSE \E x \in DeletePlayer(w, c) : BecomesBounded(x)
  BY DEF SocketClosed
<1> HIDE DEF w
<1>5. CASE InsideGame(w, c)
  BY <1>3, <1>4, <1>5, Landing
<1>6. CASE ~InsideGame(w, c)
  <2>1. PICK x \in DeletePlayer(w, c) : Becomes(x)
    BY <1>4, <1>6 DEF BecomesBounded
  <2> QED
    BY <1>3, <1>6, <2>1, DeleteConsistent, Landing
<1> QED
  BY <1>5, <1>6

\* The account's player is kicked.
LEMMA KickUserKeeps ==
    ASSUME Consistency, NEW u \in Users, KickUser(u)
    PROVE  Consistency'
BY KickConsistent, Landing DEF Consistency, KickUser

\* Whoever's place is the lobby is on no room's list.
LEMMA LobbyIsUnlisted ==
    ASSUME NEW w, Consistent(w), NEW c \in Conns, Alive(w, c), w.player[c].place = Lobby
    PROVE  Unlisted(w, c)
BY ConstantsDistinct DEF Consistent, Placed, Unlisted

\* A new object keeps the rooms and is on no list.
LEMMA AddPlayerFresh ==
    ASSUME NEW w, Consistent(w), NEW c \in FreshConns(w), NEW p \in Player,
           p.uid = Robot => p.link = "none",
           p.state = "Robot" => p.uid = Robot
    PROVE  /\ Consistent(AddPlayer(w, c, p))
           /\ AddPlayer(w, c, p).room = w.room
           /\ c \in Conns /\ c \notin AddPlayer(w, c, p).lobby
           /\ Alive(AddPlayer(w, c, p), c) /\ Unlisted(AddPlayer(w, c, p), c)
<1>1. w \in World /\ c \in Conns /\ Unlisted(w, c) /\ c \notin w.lobby
  BY FreshIsUnlisted DEF Consistent
<1>2. Consistent(AddPlayer(w, c, p))
  BY AddPlayerConsistent
<1>3. /\ AddPlayer(w, c, p).room = w.room /\ AddPlayer(w, c, p).lobby = w.lobby
      /\ AddPlayer(w, c, p).player[c] = p
  BY <1>1, AddPlayerParts
<1> QED
  BY <1>1, <1>2, <1>3, NoneIsNoRecord DEF Alive, Unlisted, Exists

\* createRoom.
LEMMA CreateRoomKeeps ==
    ASSUME Consistency, NEW c \in Conns, NEW cap \in Capacities, CreateRoom(c, cap)
    PROVE  Consistency'
<1> DEFINE q == [players |-> {}, observers |-> {}, owner |-> None, capacity |-> cap,
                 ref |-> 0, rejected |-> {}, outdated |-> FALSE]
           W(r) == [Now EXCEPT !.room[r] = q]
<1>1. PICK r \in FreshRooms(Now) :
        Becomes(IF Admits(W(r), r, player[c].uid)
                THEN LobbyRemovePlayer(RoomAddPlayer(W(r), r, c), c) ELSE W(r))
  BY DEF CreateRoom
<1>2. r \in Rooms /\ ~Exists(Now, r)
  BY DEF FreshRooms
<1>3. Consistent(Now) /\ Now \in World /\ Alive(Now, c) /\ Now.player[c].place = Lobby
  BY DEF Consistency, Consistent, CreateRoom, SendsTo, IsOnline, Now
<1>4. q \in Room /\ q.players = {} /\ q.observers = {} /\ q.owner = None
  BY BoundsAreNumbers DEF Room
<1> HIDE DEF q
<1> DEFINE w == W(r)
<1>5. /\ w \in World /\ w.player = Now.player /\ w.online = Now.online /\ w.lobby = Now.lobby
      /\ \A a \in Rooms : w.room[a] = IF a = r THEN q ELSE Now.room[a]
  BY <1>2, <1>3, <1>4, RoomParts
<1>6. q # None
  BY <1>4, NoneIsNoRecord
<1> HIDE DEF W
<1>7. Placed(w)
  BY <1>3, <1>4, <1>5, <1>6 DEF Consistent, Placed, Exists, Alive
<1>8. EntriesSound(w) /\ RobotsUnlinked(w)
  BY <1>3, <1>5 DEF Consistent, EntriesSound, RobotsUnlinked, Alive
<1>9. OwnersSit(w)
  BY <1>3, <1>4, <1>5, <1>6 DEF Consistent, OwnersSit, Exists
<1>10. Consistent(w) /\ Exists(w, r) /\ Alive(w, c) /\ w.player[c].place = Lobby
  BY <1>2, <1>3, <1>5, <1>6, <1>7, <1>8, <1>9 DEF Consistent, Exists, Alive
<1>11. Consistent(LobbyRemovePlayer(RoomAddPlayer(w, r, c), c))
  BY <1>2, <1>10, LobbyIsUnlisted, RoomAddConsistent
<1> QED
  BY <1>1, <1>10, <1>11, Landing

\* enterRoom.
LEMMA EnterRoomKeeps ==
    ASSUME Consistency, NEW c \in Conns, NEW r \in Rooms, EnterRoom(c, r)
    PROVE  Consistency'
<1>1. Consistent(Now) /\ Alive(Now, c) /\ Now.player[c].place = Lobby /\ Exists(Now, r)
  BY DEF Consistency, EnterRoom, SendsTo, IsOnline, Now
<1>2. Consistent(LobbyRemovePlayer(RoomAddPlayer(Now, r, c), c))
  BY <1>1, LobbyIsUnlisted, RoomAddConsistent
<1> QED
  BY <1>2, Landing DEF EnterRoom

\* observeRoom.
LEMMA ObserveRoomKeeps ==
    ASSUME Consistency, NEW c \in Conns, NEW r \in Rooms, ObserveRoom(c, r)
    PROVE  Consistency'
<1> DEFINE w == Now
           os == w.room[r].observers \cup {c}
           q == [w.room[r] EXCEPT !.observers = os]
           p == [w.player[c] EXCEPT !.place = r]
           f == [w.player EXCEPT ![c] = p]
           g == [w.room EXCEPT ![r] = q]
           v == LobbyRemovePlayer(
                  [w EXCEPT !.room[r].observers = @ \cup {c}, !.player[c].place = r], c)
<1>1. Consistent(w) /\ Alive(w, c) /\ w.player[c].place = Lobby /\ Exists(w, r) /\ Becomes(v)
  BY DEF Consistency, ObserveRoom, SendsTo, IsOnline, Now
<1> HIDE DEF w
<1>2. Unlisted(w, c)
  BY <1>1, LobbyIsUnlisted
<1>3. /\ w \in World /\ w.player[c] \in Player /\ w.room[r] \in Room /\ r \in Rooms \cup {Lobby}
      /\ os \in SUBSET Conns
  BY <1>1, WorldParts DEF Consistent
<1>4. /\ v.player = f /\ v.room = g /\ v.lobby = w.lobby \ {c} /\ v.online = w.online
      /\ v = [w EXCEPT !.player = f, !.room = g, !.lobby = w.lobby \ {c}]
  BY <1>3 DEF LobbyRemovePlayer, World
<1> HIDE DEF os, v
<1>5. /\ q \in Room /\ q.players = w.room[r].players /\ q.owner = w.room[r].owner
      /\ q.observers = os
  BY <1>3 DEF Room
<1>6. /\ p \in Player /\ p.place = r /\ p.uid = w.player[c].uid
      /\ p.state = w.player[c].state /\ p.link = w.player[c].link
  BY <1>3, WithPlace
<1> HIDE DEF p, q
<1>7. /\ f \in [Conns -> Player \cup {None}] /\ g \in [Rooms -> Room \cup {None}]
      /\ \A d \in Conns : f[d] = IF d = c THEN p ELSE w.player[d]
      /\ \A e \in Rooms : g[e] = IF e = r THEN q ELSE w.room[e]
      /\ p # None /\ q # None
  BY <1>3, <1>5, <1>6, WorldParts, NoneIsNoRecord
<1> HIDE DEF f, g
<1>8. v \in World
  BY <1>3, <1>4, <1>7 DEF World
<1>9. Placed(v)
  BY <1>1, <1>2, <1>3, <1>4, <1>5, <1>6, <1>7, WorldParts
     DEF Consistent, Placed, Unlisted, Exists, Alive, os
<1>10. EntriesSound(v)
  BY <1>1, <1>3, <1>4, <1>6, <1>7, WorldParts DEF Consistent, EntriesSound, Alive
<1>11. OwnersSit(v)
  <2> SUFFICES ASSUME NEW a \in Rooms, Exists(v, a), v.room[a].owner # None
               PROVE  /\ v.room[a].owner \in v.room[a].players
                      /\ v.player[v.room[a].owner].uid # Robot
    BY DEF OwnersSit
  <2>1. /\ Exists(w, a) /\ v.room[a].owner = w.room[a].owner
        /\ v.room[a].players = w.room[a].players
    BY <1>1, <1>4, <1>5, <1>7 DEF Exists
  <2>2. w.room[a].owner \in w.room[a].players /\ w.player[w.room[a].owner].uid # Robot
    BY <1>1, <2>1 DEF Consistent, OwnersSit
  <2>3. w.room[a].owner \in Conns
    BY <1>3, <2>1, <2>2, WorldParts
  <2> QED
    BY <1>4, <1>6, <1>7, <2>1, <2>2, <2>3
<1>12. RobotsUnlinked(v)
  BY <1>1, <1>4, <1>6, <1>7 DEF Consistent, RobotsUnlinked, Alive
<1>13. Consistent(v)
  BY <1>8, <1>9, <1>10, <1>11, <1>12 DEF Consistent
<1> QED
  BY <1>1, <1>13, Landing

\* quitRoom.
LEMMA QuitRoomKeeps ==
    ASSUME Consistency, NEW c \in Conns, NEW r \in Rooms, QuitRoom(c, r)
    PROVE  Consistency'
<1>1. Consistent(Now) /\ Alive(Now, c) /\ Now.player[c].place = r /\ Exists(Now, r)
  BY DEF Consistency, QuitRoom, SendsTo, IsOnline, Now
<1> DEFINE Y(x) == IF x.player[c].state = "Online" THEN LobbyAddPlayer(x, c) ELSE x
           o(x) == Y(x).online[player[c].uid]
<1>2. PICK x \in RoomRemovePlayer(Now, r, c, Now.player[c]) :
        Becomes(IF room[r].outdated /\ o(x) # None THEN Kick(Y(x), {o(x)}) ELSE Y(x))
  BY DEF QuitRoom, BecomesBounded, Now
<1>3. /\ Consistent(x) /\ Alive(x, c) /\ c \notin x.lobby
      /\ x.player[c].state = "Run" \/ Unlisted(x, c)
  BY <1>1, RoomRemoveConsistent
<1>4. Consistent(Y(x))
  <2>1. CASE x.player[c].state = "Online"
    <3>1. Unlisted(x, c)
      BY <1>3, <2>1
    <3> QED
      BY <1>3, <2>1, <3>1, LobbyAddConsistent
  <2>2. CASE x.player[c].state # "Online"
    BY <1>3, <2>2
  <2> QED
    BY <2>1, <2>2
<1> DEFINE y == Y(x)
           oo == o(x)
<1> HIDE DEF Y, o
<1>5. Consistent(Kick(y, {oo}))
  BY <1>4, KickConsistent
<1> QED
  BY <1>2, <1>4, <1>5, Landing

\* addRobotRequest.
LEMMA AddRobotKeeps ==
    ASSUME Consistency, NEW c \in Conns, NEW r \in Rooms, AddRobot(c, r)
    PROVE  Consistency'
<1> DEFINE p == [uid |-> Robot, state |-> "Robot", link |-> "none", place |-> Lobby]
           W(n) == AddPlayer(Now, n, p)
<1>1. PICK n \in FreshConns(Now) :
        Becomes(IF IsStarted(W(n), r) THEN W(n) ELSE RoomAddPlayer(W(n), r, n))
  BY DEF AddRobot
<1>2. Consistent(Now) /\ Exists(Now, r)
  BY DEF Consistency, AddRobot
<1>3. p \in Player /\ p.uid = Robot /\ p.link = "none"
  BY DEF Player, States, Links
<1> HIDE DEF p
<1>4. /\ Consistent(W(n)) /\ W(n).room = Now.room /\ n \in Conns /\ n \notin W(n).lobby
      /\ Alive(W(n), n) /\ Unlisted(W(n), n)
  BY <1>2, <1>3, AddPlayerFresh
<1>5. Exists(W(n), r)
  BY <1>2, <1>4 DEF Exists
<1> HIDE DEF W
<1>6. Consistent(RoomAddPlayer(W(n), r, n))
  BY <1>4, <1>5, RoomAddConsistent
<1> QED
  BY <1>1, <1>4, <1>6, Landing

\* addNpc.
LEMMA AddNpcKeeps ==
    ASSUME Consistency, NEW r \in Rooms, AddNpc(r)
    PROVE  Consistency'
<1> DEFINE p == [uid |-> Robot, state |-> "Robot", link |-> "none", place |-> Lobby]
           W(n) == AddPlayer(Now, n, p)
<1>1. PICK n \in FreshConns(Now) : Becomes(RoomAddPlayer(W(n), r, n))
  BY DEF AddNpc
<1>2. Consistent(Now) /\ Exists(Now, r)
  BY DEF Consistency, AddNpc, Playing
<1>3. p \in Player /\ p.uid = Robot /\ p.link = "none"
  BY DEF Player, States, Links
<1> HIDE DEF p
<1>4. /\ Consistent(W(n)) /\ W(n).room = Now.room /\ n \in Conns /\ n \notin W(n).lobby
      /\ Alive(W(n), n) /\ Unlisted(W(n), n)
  BY <1>2, <1>3, AddPlayerFresh
<1>5. Exists(W(n), r)
  BY <1>2, <1>4 DEF Exists
<1> HIDE DEF W
<1>6. Consistent(RoomAddPlayer(W(n), r, n))
  BY <1>4, <1>5, RoomAddConsistent
<1> QED
  BY <1>1, <1>6, Landing

\* removeNpc.
LEMMA RemoveNpcKeeps ==
    ASSUME Consistency, NEW r \in Rooms, NEW n \in Conns, RemoveNpc(r, n)
    PROVE  Consistency'
<1> DEFINE w == Now
           ps == w.room[r].players \ {n}
           q == [w.room[r] EXCEPT !.players = ps]
           v == [w EXCEPT !.room[r] = q]
<1>1. /\ Consistent(w) /\ Exists(w, r) /\ n \in w.room[r].players /\ w.player[n].uid = Robot
      /\ Becomes(Erase([w EXCEPT !.room[r].players = @ \ {n}], {n}))
  BY DEF Consistency, RemoveNpc, Playing, Now
<1> HIDE DEF w
<1>2. w \in World /\ w.room[r] \in Room /\ ps \in SUBSET Conns
  BY <1>1, WorldParts DEF Consistent
<1>3. [w EXCEPT !.room[r].players = @ \ {n}] = v
  BY <1>2 DEF World
<1> HIDE DEF ps
<1>4. /\ q \in Room /\ q.players = ps /\ q.owner = w.room[r].owner
      /\ q.observers = w.room[r].observers
  BY <1>2 DEF Room
<1> HIDE DEF q
<1>5. /\ v \in World /\ v.player = w.player /\ v.online = w.online /\ v.lobby = w.lobby
      /\ \A a \in Rooms : v.room[a] = IF a = r THEN q ELSE w.room[a]
  BY <1>2, <1>4, RoomParts
<1>6. q # None
  BY <1>4, NoneIsNoRecord
<1> HIDE DEF v
<1>7. Placed(v)
  BY <1>1, <1>4, <1>5, <1>6 DEF Consistent, Placed, Exists, Alive, ps
<1>8. EntriesSound(v) /\ RobotsUnlinked(v)
  BY <1>1, <1>5 DEF Consistent, EntriesSound, RobotsUnlinked, Alive
<1>9. OwnersSit(v)
  BY <1>1, <1>4, <1>5, <1>6 DEF Consistent, OwnersSit, Exists, ps
<1>10. Consistent(v)
  BY <1>5, <1>7, <1>8, <1>9 DEF Consistent
<1>11. \A a \in Rooms : Exists(w, a) /\ a # r => n \notin w.room[a].players \cup w.room[a].observers
  BY <1>1 DEF Consistent, Placed
<1>12. n \notin w.room[r].observers /\ n \notin w.lobby
  BY <1>1, ConstantsDistinct DEF Consistent, Placed
<1>13. Unlisted(v, n) /\ n \notin v.lobby
  BY <1>4, <1>5, <1>6, <1>11, <1>12 DEF Unlisted, Exists, ps
<1>14. Consistent(Erase(v, {n}))
  BY <1>10, <1>13, EraseConsistent
<1> QED
  BY <1>1, <1>3, <1>14, Landing

\* kickPlayer.
LEMMA KickPlayerKeeps ==
    ASSUME Consistency, NEW c \in Conns, NEW r \in Rooms, NEW t \in Conns, KickPlayer(c, r, t)
    PROVE  Consistency'
<1> DEFINE w == Now
           u == w.player[t].uid
           Y(x) == LobbyAddPlayer(x, t)
<1>1. /\ Consistent(w) /\ Alive(w, t) /\ w.player[t].place = r /\ Exists(w, r)
      /\ ~IsStarted(w, r)
      /\ \E x \in RoomRemovePlayer(w, r, t, w.player[t]) :
            Becomes([Y(x) EXCEPT !.room[r].rejected = IF u = Robot THEN @ ELSE @ \cup {u}])
  BY DEF Consistency, KickPlayer, BecomesBounded, Now
<1> HIDE DEF w
<1>2. PICK x \in RoomRemovePlayer(w, r, t, w.player[t]) :
            Becomes([Y(x) EXCEPT !.room[r].rejected = IF u = Robot THEN @ ELSE @ \cup {u}])
  BY <1>1
<1>3. /\ Consistent(x) /\ Exists(x, r) /\ Alive(x, t) /\ t \notin x.lobby /\ Unlisted(x, t)
  BY <1>1, RoomRemoveConsistent
<1> DEFINE y == Y(x)
<1>4. Consistent(y)
  BY <1>3, LobbyAddConsistent
<1>5. y.room = x.room
  <2>1. x \in World
    BY <1>3 DEF Consistent
  <2>2. CASE x.player[t].state = "Robot"
    BY <2>1, <2>2, EraseParts DEF LobbyAddPlayer
  <2>3. CASE x.player[t].state # "Robot"
    BY <1>3, <2>1, <2>3, LobbyAddParts
  <2> QED
    BY <2>2, <2>3
<1> DEFINE us == IF u = Robot THEN y.room[r].rejected ELSE y.room[r].rejected \cup {u}
           q == [y.room[r] EXCEPT !.rejected = us]
           v == [y EXCEPT !.room[r] = q]
<1>6. u \in Users \cup {Robot}
  BY <1>1, WorldParts DEF Consistent, Player
<1> HIDE DEF Y, u
<1>7. y \in World /\ Exists(y, r) /\ y.room[r] \in Room
  BY <1>3, <1>4, <1>5, WorldParts DEF Consistent, Exists
<1>8. us \in SUBSET Users
  BY <1>6, <1>7 DEF Room
<1>9. [y EXCEPT !.room[r].rejected = IF u = Robot THEN @ ELSE @ \cup {u}] = v
  BY <1>7 DEF World
<1> HIDE DEF us
<1>10. /\ q \in Room /\ q.players = y.room[r].players /\ q.owner = y.room[r].owner
       /\ q.observers = y.room[r].observers
  BY <1>7, <1>8 DEF Room
<1> HIDE DEF q
<1>11. Consistent(v)
  BY <1>4, <1>7, <1>10, RoomChangeConsistent
<1> QED
  BY <1>2, <1>9, <1>11, Landing

\* The rejection timer.
LEMMA RejectExpiresKeeps ==
    ASSUME Consistency, NEW r \in Rooms, NEW u \in Users, RejectExpires(r, u)
    PROVE  Consistency'
<1> DEFINE w == Now
           us == w.room[r].rejected \ {u}
           q == [w.room[r] EXCEPT !.rejected = us]
           v == [w EXCEPT !.room[r] = q]
<1>1. /\ Consistent(w) /\ w \in World /\ Exists(w, r)
      /\ Becomes([w EXCEPT !.room[r].rejected = @ \ {u}])
  BY DEF Consistency, Consistent, RejectExpires
<1> HIDE DEF w
<1>2. w.room[r] \in Room /\ us \in SUBSET Users
  BY <1>1, WorldParts DEF Room
<1>3. [w EXCEPT !.room[r].rejected = @ \ {u}] = v
  BY <1>1 DEF World
<1> HIDE DEF us
<1>4. /\ q \in Room /\ q.players = w.room[r].players /\ q.owner = w.room[r].owner
      /\ q.observers = w.room[r].observers
  BY <1>2 DEF Room
<1> HIDE DEF q
<1>5. Consistent(v)
  BY <1>1, <1>4, RoomChangeConsistent
<1> QED
  BY <1>1, <1>3, <1>5, Landing

\* changeRoom.
LEMMA ChangeRoomKeeps ==
    ASSUME Consistency, NEW c \in Conns, NEW r \in Rooms, NEW cap \in Capacities,
           ChangeRoom(c, r, cap)
    PROVE  Consistency'
<1> DEFINE w == Now
           q == [w.room[r] EXCEPT !.capacity = cap]
           v == [w EXCEPT !.room[r] = q]
<1>1. Consistent(w) /\ w \in World /\ Exists(w, r) /\ Becomes([w EXCEPT !.room[r].capacity = cap])
  BY DEF Consistency, Consistent, ChangeRoom
<1> HIDE DEF w
<1>2. w.room[r] \in Room /\ cap \in Nat
  BY <1>1, WorldParts, BoundsAreNumbers
<1>3. [w EXCEPT !.room[r].capacity = cap] = v
  BY <1>1 DEF World
<1>4. /\ q \in Room /\ q.players = w.room[r].players /\ q.owner = w.room[r].owner
      /\ q.observers = w.room[r].observers
  BY <1>2 DEF Room
<1> HIDE DEF q
<1>5. Consistent(v)
  BY <1>1, <1>4, RoomChangeConsistent
<1> QED
  BY <1>1, <1>3, <1>5, Landing

\* Another reference count of a room.
LEMMA RefConsistent ==
    ASSUME NEW w, Consistent(w), NEW r \in Rooms, Exists(w, r), NEW n \in Int
    PROVE  Consistent([w EXCEPT !.room[r].ref = n])
<1> DEFINE q == [w.room[r] EXCEPT !.ref = n]
           v == [w EXCEPT !.room[r] = q]
<1>1. w \in World /\ w.room[r] \in Room
  BY WorldParts DEF Consistent
<1>2. [w EXCEPT !.room[r].ref = n] = v
  BY <1>1 DEF World
<1>3. /\ q \in Room /\ q.players = w.room[r].players /\ q.owner = w.room[r].owner
      /\ q.observers = w.room[r].observers
  BY <1>1 DEF Room
<1> HIDE DEF q
<1>4. Consistent(v)
  BY <1>3, RoomChangeConsistent
<1> QED
  BY <1>2, <1>4

\* startGame.
LEMMA StartGameKeeps ==
    ASSUME Consistency, NEW c \in Conns, NEW r \in Rooms, StartGame(c, r)
    PROVE  Consistency'
<1> DEFINE n == Now.room[r].ref + 1
<1>1. Consistent(Now) /\ Exists(Now, r)
  BY DEF Consistency, StartGame
<1>2. n \in Int
  BY <1>1, WorldParts DEF Consistent, Room
<1>3. Becomes(Kick(Now, room[r].players)) \/ Becomes([Now EXCEPT !.room[r].ref = n])
  BY DEF StartGame
<1> HIDE DEF n
<1>4. Consistent([Now EXCEPT !.room[r].ref = n]) /\ Consistent(Kick(Now, room[r].players))
  BY <1>1, <1>2, RefConsistent, KickConsistent
<1> QED
  BY <1>3, <1>4, Landing

\* decreaseRefCount.
LEMMA DecreaseRefCountKeeps ==
    ASSUME Consistency, NEW r \in Rooms, DecreaseRefCount(r)
    PROVE  Consistency'
<1> DEFINE n == Now.room[r].ref - 1
           w == [Now EXCEPT !.room[r].ref = n]
           ps == Append(w.posts, <<r, "NoRefCount">>)
<1>1. Consistent(Now) /\ Exists(Now, r)
  BY DEF Consistency, DecreaseRefCount, Playing
<1>2. n \in Int
  BY <1>1, WorldParts DEF Consistent, Room
<1>3. Becomes(w) \/ Becomes([w EXCEPT !.posts = ps])
  BY DEF DecreaseRefCount, BecomesBounded, CheckAbandoned
<1> HIDE DEF n
<1>4. Consistent(w)
  BY <1>1, <1>2, RefConsistent
<1> HIDE DEF w
<1>5. ps \in Seq(Post)
  BY <1>4, WorldParts DEF Consistent, Post, Reasons
<1> HIDE DEF ps
<1>6. Consistent([w EXCEPT !.posts = ps])
  BY <1>4, <1>5, PostsConsistent
<1> QED
  BY <1>3, <1>4, <1>6, Landing

\* trust.
LEMMA TrustKeeps ==
    ASSUME Consistency, NEW c \in Conns, NEW r \in Rooms, Trust(c, r)
    PROVE  Consistency'
<1> DEFINE w == Now
           s == IF w.player[c].state = "Trust" THEN "Online" ELSE "Trust"
           p == [w.player[c] EXCEPT !.state = s]
           v == [w EXCEPT !.player[c] = p]
<1>1. /\ Consistent(w) /\ w \in World /\ Alive(w, c) /\ w.player[c].link # "none"
      /\ Becomes([w EXCEPT !.player[c].state = IF @ = "Trust" THEN "Online" ELSE "Trust"])
  BY DEF Consistency, Consistent, Trust, SendsTo, IsOnline
<1> HIDE DEF w
<1>2. w.player[c] \in Player /\ s \in States /\ s # "Robot" /\ w.player[c].uid # Robot
  BY <1>1, WorldParts DEF States, Consistent, RobotsUnlinked
<1>3. [w EXCEPT !.player[c].state = IF @ = "Trust" THEN "Online" ELSE "Trust"] = v
  BY <1>1 DEF World
<1> HIDE DEF s
<1>4. /\ p \in Player /\ p.uid = w.player[c].uid /\ p.place = w.player[c].place /\ p.state = s
  BY <1>2, WithState
<1> HIDE DEF p
<1>5. Consistent(v)
  BY <1>1, <1>2, <1>4, PlayerChangeConsistent
<1> QED
  BY <1>1, <1>3, <1>5, Landing

\* gameOver.
LEMMA GameOverKeeps ==
    ASSUME Consistency, NEW r \in Rooms, GameOver(r)
    PROVE  Consistency'
<1> DEFINE humans == {c \in room[r].players : player[c].uid # Robot}
           f == [c \in Conns |-> IF c \in humans /\ Now.player[c].state = "Trust"
                    THEN [Now.player[c] EXCEPT !.state = "Online"] ELSE Now.player[c]]
           w == [Now EXCEPT !.player = [c \in Conns |->
                    IF c \in humans /\ @[c].state = "Trust"
                    THEN [@[c] EXCEPT !.state = "Online"] ELSE @[c]]]
<1>1. \E cs : Becomes(Kick(w, cs))
  BY DEF GameOver
<1>2. /\ Consistent(Now) /\ Now \in World
      /\ \A c \in humans : c \in Conns /\ Alive(Now, c)
  BY WorldParts DEF Consistency, Consistent, GameOver, Playing, Placed, Now
<1> HIDE DEF humans
<1>3. w = [Now EXCEPT !.player = f]
  BY <1>2 DEF World
<1>4. \A c \in Conns :
        \/ f[c] = Now.player[c]
        \/ /\ f[c] \in Player /\ f[c].uid = Now.player[c].uid /\ Now.player[c] # None
           /\ f[c].place = Now.player[c].place
           /\ f[c].state = "Online" /\ f[c].link = Now.player[c].link
  <2> TAKE c \in Conns
  <2>1. CASE c \in humans /\ Now.player[c].state = "Trust"
    <3>1. Now.player[c] \in Player /\ Now.player[c] # None /\ "Online" \in States
      BY <1>2, <2>1, WorldParts DEF States, Alive
    <3>2. f[c] = [Now.player[c] EXCEPT !.state = "Online"]
      BY <2>1
    <3> HIDE DEF f
    <3> QED
      BY <3>1, <3>2, WithState
  <2>2. CASE ~(c \in humans /\ Now.player[c].state = "Trust")
    BY <2>2
  <2> QED
    BY <2>1, <2>2
<1>5. f \in [Conns -> Player \cup {None}]
  <2>1. \A c \in Conns : f[c] \in Player \cup {None}
    <3> HIDE DEF f
    <3> QED
      BY <1>2, <1>4, WorldParts
  <2> QED
    BY <2>1
<1> HIDE DEF f, w
<1>6. /\ w \in World /\ w.player = f /\ w.online = Now.online /\ w.lobby = Now.lobby
      /\ w.room = Now.room
  BY <1>2, <1>3, <1>5 DEF World
<1>7. \A c \in Conns : Alive(w, c) <=> Alive(Now, c)
  BY <1>4, <1>6, NoneIsNoRecord DEF Alive
<1>8. \A c \in Conns : Alive(Now, c) => /\ w.player[c].uid = Now.player[c].uid
                                        /\ w.player[c].place = Now.player[c].place
  BY <1>4, <1>6
<1>9. RobotsUnlinked(w)
  BY <1>2, <1>4, <1>6, <1>7 DEF Consistent, RobotsUnlinked
<1>10. \A a \in Rooms : Exists(w, a) <=> Exists(Now, a)
  BY <1>6 DEF Exists
<1>11. Consistent(w)
  BY <1>2, <1>6, <1>7, <1>8, <1>9, <1>10, SameSeats
<1> QED
  BY <1>1, <1>11, KickConsistent, Landing

\* A posted check runs.
LEMMA RunPostKeeps ==
    ASSUME Consistency, RunPost
    PROVE  Consistency'
<1> DEFINE r == Head(Now.posts)[1]
           ps == Tail(Now.posts)
           w == [Now EXCEPT !.posts = ps]
<1>1. Consistent(Now) /\ Now.posts \in Seq(Post) /\ Now.posts # <<>>
  BY WorldParts DEF Consistency, Consistent, RunPost, Now
<1>2. r \in Rooms /\ ps \in Seq(Post)
  BY <1>1 DEF Post
<1>3. IF Exists(w, r) THEN \E x \in CheckAbandonedNow(w, r, Head(posts)[2]) : Becomes(x)
      ELSE Becomes(w)
  BY DEF RunPost, Now
<1> HIDE DEF ps, r
<1>4. Consistent(w)
  BY <1>1, <1>2, PostsConsistent
<1> HIDE DEF w
<1>5. CASE Exists(w, r)
  <2>1. PICK x \in CheckAbandonedNow(w, r, Head(posts)[2]) : Becomes(x)
    BY <1>3, <1>5
  <2>2. Consistent(x)
    BY <1>2, <1>4, <1>5, <2>1, CheckConsistent
  <2> QED
    BY <2>1, <2>2, Landing
<1>6. CASE ~Exists(w, r)
  BY <1>3, <1>4, <1>6, Landing
<1> QED
  BY <1>5, <1>6

\* _refreshMd5.
LEMMA RefreshMd5Keeps ==
    ASSUME Consistency, NEW changed \in BOOLEAN, RefreshMd5(changed)
    PROVE  Consistency'
<1> DEFINE old == {r \in Rooms : Exists(Now, r) /\ (changed \/ room[r].outdated)}
           g == [r \in Rooms |->
                    IF r \in old THEN [Now.room[r] EXCEPT !.outdated = TRUE] ELSE Now.room[r]]
           w == [Now EXCEPT !.room = [r \in Rooms |->
                    IF r \in old THEN [@[r] EXCEPT !.outdated = TRUE] ELSE @[r]]]
<1>1. \E cs : Becomes(Kick(w, cs))
  BY DEF RefreshMd5
<1>2. Consistent(Now) /\ Now \in World /\ \A r \in old : r \in Rooms /\ Exists(Now, r)
  BY DEF Consistency, Consistent
<1> HIDE DEF old
<1>3. w = [Now EXCEPT !.room = g]
  BY <1>2 DEF World
<1>4. \A r \in Rooms :
        \/ g[r] = Now.room[r]
        \/ /\ g[r] \in Room /\ Now.room[r] # None
           /\ g[r].players = Now.room[r].players
           /\ g[r].observers = Now.room[r].observers
           /\ g[r].owner = Now.room[r].owner
  <2> TAKE r \in Rooms
  <2>1. CASE r \in old
    <3>1. Now.room[r] \in Room /\ Now.room[r] # None
      BY <1>2, <2>1, WorldParts DEF Exists
    <3>2. g[r] = [Now.room[r] EXCEPT !.outdated = TRUE]
      BY <2>1
    <3> HIDE DEF g
    <3> QED
      BY <3>1, <3>2 DEF Room
  <2>2. CASE r \notin old
    BY <2>2
  <2> QED
    BY <2>1, <2>2
<1>5. g \in [Rooms -> Room \cup {None}]
  <2>1. \A r \in Rooms : g[r] \in Room \cup {None}
    <3> HIDE DEF g
    <3> QED
      BY <1>2, <1>4, WorldParts
  <2> QED
    BY <2>1
<1> HIDE DEF g, w
<1>6. /\ w \in World /\ w.player = Now.player /\ w.online = Now.online /\ w.lobby = Now.lobby
      /\ w.room = g
  BY <1>2, <1>3, <1>5 DEF World
<1>7. \A r \in Rooms : Exists(w, r) <=> Exists(Now, r)
  BY <1>4, <1>6, NoneIsNoRecord DEF Exists
<1>8. \A r \in Rooms : Exists(Now, r) => /\ w.room[r].players = Now.room[r].players
                                         /\ w.room[r].observers = Now.room[r].observers
                                         /\ w.room[r].owner = Now.room[r].owner
  BY <1>4, <1>6
<1>9. RobotsUnlinked(w) /\ \A c \in Conns : Alive(w, c) <=> Alive(Now, c)
  BY <1>2, <1>6 DEF Consistent, RobotsUnlinked, Alive
<1>10. Consistent(w)
  BY <1>2, <1>6, <1>7, <1>8, <1>9, SameSeats
<1> QED
  BY <1>1, <1>10, KickConsistent, Landing

\* killroom.
LEMMA KillRoomKeeps ==
    ASSUME Consistency, NEW r \in Rooms, KillRoom(r)
    PROVE  Consistency'
<1> DEFINE ps(w) == Append(w.posts, <<r, "NoHuman">>)
<1>1. PICK cs : Becomes([Kick(Now, cs) EXCEPT !.posts = ps(Kick(Now, cs))])
  BY DEF KillRoom, BecomesBounded, CheckAbandoned
<1> DEFINE w == Kick(Now, cs)
<1>2. Consistent(w)
  BY KickConsistent DEF Consistency
<1> HIDE DEF w
<1>3. ps(w) \in Seq(Post)
  BY <1>2, WorldParts DEF Consistent, Post, Reasons
<1>4. Becomes([w EXCEPT !.posts = ps(w)])
  BY <1>1 DEF w
<1> HIDE DEF ps
<1>5. Consistent([w EXCEPT !.posts = ps(w)])
  BY <1>2, <1>3, PostsConsistent
<1> QED
  BY <1>4, <1>5, Landing

\* checklobby.
LEMMA CheckLobbyKeeps ==
    ASSUME Consistency, CheckLobby
    PROVE  Consistency'
<1> DEFINE w == Now
           dead == {c \in lobby : ~IsOnline(Now, c)}
           e == Erase(w, dead)
           v == [e EXCEPT !.lobby = @ \ dead]
<1>1. Becomes(v)
  BY DEF CheckLobby
<1>2. /\ Consistent(w) /\ w \in World
      /\ \A c \in dead : c \in Conns /\ Alive(w, c) /\ w.player[c].place = Lobby
  BY WorldParts DEF Consistency, Consistent, Placed, Now
<1> HIDE DEF dead, w
<1>3. /\ e \in World /\ e.lobby = w.lobby /\ e.room = w.room
      /\ \A d \in Conns : e.player[d] = IF d \in dead THEN None ELSE w.player[d]
      /\ \A u \in Users : e.online[u] = IF w.online[u] \in dead THEN None ELSE w.online[u]
  BY <1>2, EraseParts
<1> HIDE DEF e
<1>4. /\ v \in World /\ v.lobby = w.lobby \ dead /\ v.room = w.room /\ v.player = e.player
      /\ v.online = e.online
  BY <1>3 DEF World
<1> HIDE DEF v
<1>5. \A a \in Rooms : Exists(w, a) =>
        \A c \in dead : c \notin w.room[a].players \cup w.room[a].observers
  BY <1>2, LobbyIsUnlisted DEF Unlisted
<1>6. Forgotten(w, v, dead)
  <2>1. \A a \in Rooms : Exists(v, a) =>
        /\ Exists(w, a)
        /\ v.room[a].players \subseteq w.room[a].players \ dead
        /\ v.room[a].observers \subseteq w.room[a].observers \ dead
    BY <1>4, <1>5 DEF Exists
  <2> QED
    BY <1>3, <1>4, <2>1 DEF Forgotten
<1>7. Placed(v) /\ EntriesSound(v) /\ RobotsUnlinked(v)
  BY <1>2, <1>4, <1>6, ForgottenSound
<1>8. OwnersSit(v)
  <2> SUFFICES ASSUME NEW a \in Rooms, Exists(v, a), v.room[a].owner # None
               PROVE  /\ v.room[a].owner \in v.room[a].players
                      /\ v.player[v.room[a].owner].uid # Robot
    BY DEF OwnersSit
  <2>1. Exists(w, a) /\ v.room[a] = w.room[a]
    BY <1>4 DEF Exists
  <2>2. w.room[a].owner \in w.room[a].players /\ w.player[w.room[a].owner].uid # Robot
    BY <1>2, <2>1 DEF Consistent, OwnersSit
  <2>3. w.room[a].owner \in Conns /\ w.room[a].owner \notin dead
    BY <1>2, <1>5, <2>1, <2>2, WorldParts
  <2> QED
    BY <1>3, <1>4, <2>1, <2>2, <2>3
<1>9. Consistent(v)
  BY <1>4, <1>7, <1>8 DEF Consistent
<1> QED
  BY <1>1, <1>9, Landing

-----------------------------------------------------------------------------
(* Rooms that nobody uses are checked *)

\* The reasons of the checks that wait for room r.
Checks(w, r) == {z \in Reasons : \E i \in DOMAIN w.posts : w.posts[i] = <<r, z>>}

\* r has seats, does not play and nobody in it has a socket: it needs a check.
IdleWithout(w, r) ==
    Exists(w, r) /\ ~Seatless(w, r) /\ ~IsStarted(w, r) /\ IsAbandoned(w, r)

\* r does not play and a human sits in it without a socket: it needs the check that
\* decreaseRefCount posts.
HasGhost(w, r) ==
    /\ Exists(w, r) /\ ~IsStarted(w, r)
    /\ \E c \in w.room[r].players : w.player[c].uid # Robot /\ ~IsOnline(w, c)

\* Room r has the checks it needs.
EmptyChecked(w, r) == IdleWithout(w, r) => Checks(w, r) # {}

GhostsChecked(w, r) == HasGhost(w, r) => "NoRefCount" \in Checks(w, r)

\* v leaves r as well looked after as w does.
Carries(w, v, r) ==
    /\ EmptyChecked(w, r) => EmptyChecked(v, r)
    /\ GhostsChecked(w, r) => GhostsChecked(v, r)

\* Steps in a row.
LEMMA CarriesOn ==
    ASSUME NEW w, NEW v, NEW x, NEW r, Carries(w, v, r), Carries(v, x, r)
    PROVE  Carries(w, x, r)
BY DEF Carries

\* A step that keeps the members of r, their sockets and the checks of r.
LEMMA Undisturbed ==
    ASSUME NEW w, NEW v, NEW r, Checks(w, r) \subseteq Checks(v, r),
           Exists(v, r) /\ ~IsStarted(v, r) =>
              /\ Exists(w, r) /\ ~IsStarted(w, r)
              /\ v.room[r].players = w.room[r].players
              /\ v.room[r].capacity = w.room[r].capacity
              /\ \A c \in v.room[r].players : /\ IsOnline(v, c) <=> IsOnline(w, c)
                                              /\ v.player[c].uid = w.player[c].uid
    PROVE  Carries(w, v, r)
<1>1. IdleWithout(v, r) => IdleWithout(w, r)
  BY DEF IdleWithout, IsAbandoned, Seatless
<1>2. HasGhost(v, r) => HasGhost(w, r)
  BY DEF HasGhost
<1> QED
  BY <1>1, <1>2 DEF Carries, EmptyChecked, GhostsChecked

\* The same when rooms and posts are left alone.
LEMMA OnlyPlayers ==
    ASSUME NEW w, NEW v, NEW r \in Rooms, v.room = w.room, v.posts = w.posts,
           Exists(w, r) /\ ~IsStarted(w, r) =>
              \A c \in w.room[r].players : /\ IsOnline(v, c) <=> IsOnline(w, c)
                                           /\ v.player[c].uid = w.player[c].uid
    PROVE  Carries(w, v, r)
<1>1. Checks(w, r) \subseteq Checks(v, r)
  BY DEF Checks
<1>2. Exists(v, r) = Exists(w, r) /\ IsStarted(v, r) = IsStarted(w, r)
  BY DEF Exists, IsStarted
<1> QED
  BY <1>1, <1>2, Undisturbed

\* A started game, or a room that is gone, needs no check.
LEMMA BusyCarries ==
    ASSUME NEW w, NEW v, NEW r, ~Exists(v, r) \/ IsStarted(v, r)
    PROVE  Carries(w, v, r)
BY DEF Carries, EmptyChecked, GhostsChecked, IdleWithout, HasGhost

\* A change to one player touches no room in which that player has no seat.
LEMMA OnePlayer ==
    ASSUME NEW w \in World, NEW v, NEW r \in Rooms, NEW c,
           v.room = w.room, v.posts = w.posts,
           \A d \in Conns : d # c => v.player[d] = w.player[d],
           Exists(w, r) /\ ~IsStarted(w, r) => c \notin w.room[r].players
    PROVE  Carries(w, v, r)
<1>1. Exists(w, r) /\ ~IsStarted(w, r) =>
        \A d \in w.room[r].players : /\ IsOnline(v, d) <=> IsOnline(w, d)
                                     /\ v.player[d].uid = w.player[d].uid
  BY WorldParts DEF IsOnline, Alive
<1> QED
  BY <1>1, OnlyPlayers

\* kick.
LEMMA KickCarries ==
    ASSUME NEW w \in World, NEW cs, NEW r \in Rooms
    PROVE  Carries(w, Kick(w, cs), r)
<1> DEFINE v == Kick(w, cs)
<1>1. v \in World /\ v.room = w.room /\ v.posts = w.posts
  BY KickParts
<1>2. \A c \in Conns : /\ IsOnline(v, c) <=> IsOnline(w, c)
                       /\ Alive(w, c) => v.player[c].uid = w.player[c].uid
                       /\ ~Alive(w, c) => v.player[c] = w.player[c]
  <2> TAKE c \in Conns
  <2>1. CASE c \in cs /\ IsOnline(w, c)
    <3>1. w.player[c] \in Player /\ "closing" \in Links /\ Alive(w, c)
      BY <2>1, WorldParts DEF IsOnline, Links
    <3>2. v.player[c] = [w.player[c] EXCEPT !.link = "closing"]
      BY <2>1, KickParts
    <3> HIDE DEF v
    <3>3. v.player[c] \in Player /\ v.player[c].link = "closing" /\ v.player[c].uid = w.player[c].uid
      BY <3>1, <3>2, WithLink
    <3> QED
      BY <2>1, <3>1, <3>3, NoneIsNoRecord DEF IsOnline, Alive
  <2>2. CASE ~(c \in cs /\ IsOnline(w, c))
    <3>1. v.player[c] = w.player[c]
      BY <2>2, KickParts
    <3> HIDE DEF v
    <3> QED
      BY <3>1 DEF IsOnline, Alive
  <2> QED
    BY <2>1, <2>2
<1> HIDE DEF v
<1>3. Exists(w, r) => \A c \in w.room[r].players : c \in Conns
  BY WorldParts
<1>4. Carries(w, v, r)
  BY <1>1, <1>2, <1>3, OnlyPlayers
<1> QED
  BY <1>4 DEF v

\* deletePlayer, without the destructor, of somebody on no list.
LEMMA EraseCarries ==
    ASSUME NEW w \in World, NEW cs, NEW r \in Rooms, \A c \in cs : Unlisted(w, c)
    PROVE  Carries(w, Erase(w, cs), r)
<1>1. /\ Erase(w, cs).room = w.room /\ Erase(w, cs).posts = w.posts
      /\ \A c \in Conns : c \notin cs => Erase(w, cs).player[c] = w.player[c]
  BY EraseParts
<1>2. Exists(w, r) => \A c \in w.room[r].players : c \in Conns /\ c \notin cs
  BY WorldParts DEF Unlisted
<1> QED
  BY <1>1, <1>2, OnlyPlayers DEF IsOnline, Alive

\* addPlayer of the user manager.
LEMMA AddPlayerCarries ==
    ASSUME NEW w \in World, NEW c \in FreshConns(w), NEW p \in Player, NEW r \in Rooms
    PROVE  Carries(w, AddPlayer(w, c, p), r)
<1>1. c \in Conns /\ Unlisted(w, c)
  BY FreshIsUnlisted
<1>2. /\ AddPlayer(w, c, p).room = w.room /\ AddPlayer(w, c, p).posts = w.posts
      /\ \A d \in Conns : d # c => AddPlayer(w, c, p).player[d] = w.player[d]
  BY <1>1, AddPlayerParts
<1> QED
  BY <1>1, <1>2, OnePlayer DEF Unlisted

\* addPlayer of the lobby, of somebody no room lists.
LEMMA LobbyAddCarries ==
    ASSUME NEW w \in World, NEW c \in Conns, Alive(w, c), Unlisted(w, c), NEW r \in Rooms
    PROVE  Carries(w, LobbyAddPlayer(w, c), r)
<1>1. CASE w.player[c].state = "Robot"
  BY <1>1, EraseCarries DEF LobbyAddPlayer
<1>2. CASE w.player[c].state # "Robot"
  <2>1. /\ LobbyAddPlayer(w, c).room = w.room /\ LobbyAddPlayer(w, c).posts = w.posts
        /\ \A d \in Conns : d # c => LobbyAddPlayer(w, c).player[d] = w.player[d]
    BY <1>2, LobbyAddParts
  <2> QED
    BY <2>1, OnePlayer DEF Unlisted
<1> QED
  BY <1>1, <1>2

\* removePlayer of the lobby.
LEMMA LobbyRemoveCarries ==
    ASSUME NEW w \in World, NEW c, NEW r \in Rooms
    PROVE  Carries(w, LobbyRemovePlayer(w, c), r)
<1>1. /\ LobbyRemovePlayer(w, c).room = w.room /\ LobbyRemovePlayer(w, c).posts = w.posts
      /\ LobbyRemovePlayer(w, c).player = w.player
  BY DEF LobbyRemovePlayer, World
<1> QED
  BY <1>1, OnlyPlayers DEF IsOnline, Alive

\* Room::addPlayer, of somebody with a socket, or of a robot that joins one who
\* has a socket or a running game.
LEMMA RoomAddCarries ==
    ASSUME NEW w \in World, NEW r \in Rooms, Exists(w, r),
           NEW c \in Conns, Alive(w, c), Unlisted(w, c),
           IsOnline(w, c) \/ w.player[c].uid = Robot,
           IsOnline(w, c) \/ IsStarted(w, r) \/ ~IsAbandoned(w, r),
           NEW a \in Rooms
    PROVE  /\ RoomAddPlayer(w, r, c) \in World
           /\ Carries(w, RoomAddPlayer(w, r, c), a)
           /\ IsOnline(w, c) => EmptyChecked(RoomAddPlayer(w, r, c), r)
<1> DEFINE o == IF w.room[r].owner = None /\ w.player[c].uid # Robot THEN c ELSE w.room[r].owner
           ps == w.room[r].players \cup {c}
           q == [w.room[r] EXCEPT !.players = w.room[r].players \cup {c}, !.owner = o]
           p == [w.player[c] EXCEPT !.place = r]
           f == [w.player EXCEPT ![c] = p]
           g == [w.room EXCEPT ![r] = q]
           v == RoomAddPlayer(w, r, c)
<1>1. /\ w.player[c] \in Player /\ w.room[r] \in Room /\ r \in Rooms \cup {Lobby}
      /\ ps \in SUBSET Conns /\ o \in Conns \cup {None}
  BY WorldParts
<1>2. /\ p \in Player /\ p.uid = w.player[c].uid /\ p.link = w.player[c].link
  BY <1>1, WithPlace
<1>3. q \in Room /\ q.players = ps /\ q.ref = w.room[r].ref
  <2>1. q = [w.room[r] EXCEPT !.players = ps, !.owner = o]
    OBVIOUS
  <2> HIDE DEF ps, o, q
  <2> QED
    BY <1>1, <2>1 DEF Room
<1>4. v = [w EXCEPT !.player = f, !.room = g]
  <2>1. v = [w EXCEPT !.player[c].place = r, !.room[r] = q]
    BY DEF RoomAddPlayer
  <2> HIDE DEF v, q
  <2> QED
    BY <1>1, <2>1 DEF World
<1>5. f \in [Conns -> Player \cup {None}] /\ g \in [Rooms -> Room \cup {None}]
  BY <1>1, <1>2, <1>3, WorldParts
<1>6. /\ \A d \in Conns : f[d] = IF d = c THEN p ELSE w.player[d]
      /\ \A e \in Rooms : g[e] = IF e = r THEN q ELSE w.room[e]
      /\ p # None /\ q # None
  BY <1>1, <1>2, <1>3, WorldParts, NoneIsNoRecord
<1> HIDE DEF v, f, g, p, q
<1>7. v \in World /\ v.player = f /\ v.room = g /\ v.posts = w.posts
  BY <1>4, <1>5 DEF World
<1>8. \A d \in Conns : (IsOnline(v, d) <=> IsOnline(w, d)) /\ v.player[d].uid = w.player[d].uid
  BY <1>2, <1>6, <1>7 DEF IsOnline, Alive
<1>9. ASSUME a # r PROVE Carries(w, v, a)
  <2>1. v.room[a] = w.room[a]
    BY <1>6, <1>7, <1>9
  <2>2. Exists(w, a) => \A d \in w.room[a].players : d \in Conns
    BY WorldParts
  <2>3. Checks(w, a) \subseteq Checks(v, a)
    BY <1>7 DEF Checks
  <2>4. Exists(v, a) /\ ~IsStarted(v, a) =>
          /\ Exists(w, a) /\ ~IsStarted(w, a)
          /\ v.room[a].players = w.room[a].players
          /\ v.room[a].capacity = w.room[a].capacity
          /\ \A d \in v.room[a].players : /\ IsOnline(v, d) <=> IsOnline(w, d)
                                          /\ v.player[d].uid = w.player[d].uid
    BY <1>8, <2>1, <2>2 DEF Exists, IsStarted
  <2> QED
    BY <2>3, <2>4, Undisturbed
<1>10. ASSUME a = r PROVE Carries(w, v, r)
  <2>1. v.room[r].players = ps /\ (IsStarted(v, r) <=> IsStarted(w, r))
    BY <1>3, <1>6, <1>7 DEF IsStarted
  <2>2. CASE IsStarted(w, r)
    <3>1. IsStarted(v, r)
      BY <2>1, <2>2
    <3> QED
      BY <3>1, BusyCarries
  <2>3. CASE ~IsStarted(w, r)
    <3>1. \E d \in ps : IsOnline(w, d)
      BY <2>3 DEF IsAbandoned
    <3>2. ~IsAbandoned(v, r)
      BY <1>1, <1>8, <2>1, <3>1 DEF IsAbandoned
    <3>3. HasGhost(v, r) => HasGhost(w, r)
      BY <1>1, <1>8, <2>1 DEF HasGhost
    <3>4. Checks(w, r) = Checks(v, r)
      BY <1>7 DEF Checks
    <3> QED
      BY <3>2, <3>3, <3>4 DEF Carries, EmptyChecked, GhostsChecked, IdleWithout
  <2> QED
    BY <2>2, <2>3
<1>11. IsOnline(w, c) => EmptyChecked(v, r)
  BY <1>3, <1>6, <1>7, <1>8 DEF EmptyChecked, IdleWithout, IsAbandoned
<1> QED
  BY <1>7, <1>9, <1>10, <1>11 DEF v

\* One more post adds its reason.
LEMMA PostAdds ==
    ASSUME NEW w \in World, NEW r \in Rooms, NEW z \in Reasons
    PROVE  LET v == CheckAbandoned(w, r, z)
           IN  /\ v \in World /\ v.player = w.player /\ v.lobby = w.lobby /\ v.room = w.room
               /\ z \in Checks(v, r)
               /\ \A a \in Rooms : Checks(w, a) \subseteq Checks(v, a)
<1> DEFINE p == <<r, z>>
           ps == Append(w.posts, p)
           v == CheckAbandoned(w, r, z)
<1>1. w.posts \in Seq(Post) /\ p \in Post
  BY WorldParts DEF Post
<1>2. v = [w EXCEPT !.posts = ps]
  BY DEF CheckAbandoned
<1>3. /\ ps \in Seq(Post) /\ \A i \in DOMAIN w.posts : i \in DOMAIN ps /\ ps[i] = w.posts[i]
      /\ \E i \in DOMAIN ps : ps[i] = p
  <2> HIDE DEF p
  <2>1. ps \in Seq(Post) /\ Len(ps) = Len(w.posts) + 1 /\ ps[Len(w.posts) + 1] = p
    BY <1>1
  <2>2. \A i \in 1..Len(w.posts) : ps[i] = w.posts[i]
    BY <1>1
  <2>3. Len(w.posts) \in Nat
    BY <1>1
  <2> QED
    BY <1>1, <2>1, <2>2, <2>3
<1> HIDE DEF ps, v
<1>4. /\ v \in World /\ v.player = w.player /\ v.lobby = w.lobby /\ v.room = w.room
      /\ v.posts = ps
  BY <1>2, <1>3 DEF World
<1>5. z \in Checks(v, r)
  BY <1>3, <1>4 DEF Checks
<1>6. \A a \in Rooms : Checks(w, a) \subseteq Checks(v, a)
  BY <1>3, <1>4 DEF Checks
<1> QED
  BY <1>4, <1>5, <1>6 DEF v

-----------------------------------------------------------------------------
(* Leaving, and who looks after the room then *)

\* What the end of removePlayer leaves alone, and the check of an empty room.
LEMMA ResettleParts ==
    ASSUME NEW w \in World, NEW r \in Rooms, Exists(w, r), NEW gone,
           NEW x \in Resettle(w, r, gone)
    PROVE  /\ x \in World /\ x.player = w.player /\ x.lobby = w.lobby
           /\ \A a \in Rooms : /\ Exists(x, a) <=> Exists(w, a)
                               /\ Checks(w, a) \subseteq Checks(x, a)
                               /\ Exists(w, a) => /\ x.room[a].players = w.room[a].players
                                                  /\ x.room[a].observers = w.room[a].observers
                                                  /\ x.room[a].ref = w.room[a].ref
                                                  /\ x.room[a].capacity = w.room[a].capacity
           /\ IsAbandoned(w, r) => Checks(x, r) # {}
<1>1. ASSUME NEW o \in Conns \cup {None}
      PROVE  LET y == [w EXCEPT !.room[r].owner = o]
             IN  /\ y \in World /\ y.player = w.player /\ y.lobby = w.lobby /\ y.posts = w.posts
                 /\ \A a \in Rooms :
                      /\ Exists(y, a) <=> Exists(w, a)
                      /\ Exists(w, a) => /\ y.room[a].players = w.room[a].players
                                         /\ y.room[a].observers = w.room[a].observers
                                         /\ y.room[a].ref = w.room[a].ref
                                         /\ y.room[a].capacity = w.room[a].capacity
  <2> DEFINE q == [w.room[r] EXCEPT !.owner = o]
             y == [w EXCEPT !.room[r] = q]
  <2>1. w.room[r] \in Room
    BY WorldParts
  <2>2. /\ q \in Room /\ q.players = w.room[r].players /\ q.ref = w.room[r].ref
        /\ q.observers = w.room[r].observers /\ q.capacity = w.room[r].capacity
    BY <1>1, <2>1, WithOwner
  <2>3. [w EXCEPT !.room[r].owner = o] = y
    BY DEF World
  <2> HIDE DEF q
  <2>4. /\ y \in World /\ y.player = w.player /\ y.lobby = w.lobby /\ y.posts = w.posts
        /\ \A a \in Rooms : y.room[a] = IF a = r THEN q ELSE w.room[a]
    BY <2>2, RoomParts
  <2> HIDE DEF y
  <2> QED
    BY <2>2, <2>3, <2>4, NoneIsNoRecord DEF Exists
<1>2. CASE IsAbandoned(w, r)
  <2> DEFINE y == [w EXCEPT !.room[r].owner = None]
  <2>1. x = CheckAbandoned(y, r, "NoHuman")
    BY <1>2 DEF Resettle
  <2>2. /\ y \in World /\ y.player = w.player /\ y.lobby = w.lobby /\ y.posts = w.posts
        /\ \A a \in Rooms : /\ Exists(y, a) <=> Exists(w, a)
                            /\ Exists(w, a) => /\ y.room[a].players = w.room[a].players
                                               /\ y.room[a].observers = w.room[a].observers
                                               /\ y.room[a].ref = w.room[a].ref
                                               /\ y.room[a].capacity = w.room[a].capacity
    BY <1>1
  <2> HIDE DEF y
  <2>3. "NoHuman" \in Reasons
    BY DEF Reasons
  <2>4. /\ x \in World /\ x.player = y.player /\ x.lobby = y.lobby /\ x.room = y.room
        /\ "NoHuman" \in Checks(x, r)
        /\ \A a \in Rooms : Checks(y, a) \subseteq Checks(x, a)
    BY <2>1, <2>2, <2>3, PostAdds
  <2>5. \A a \in Rooms : Checks(y, a) = Checks(w, a)
    BY <2>2 DEF Checks
  <2> QED
    BY <2>2, <2>4, <2>5 DEF Exists
<1>3. CASE ~IsAbandoned(w, r) /\ w.room[r].owner \in gone
  <2>1. PICK h \in w.room[r].players : x = [w EXCEPT !.room[r].owner = h]
    BY <1>3 DEF Resettle
  <2>2. h \in Conns \cup {None}
    BY WorldParts
  <2>3. /\ x \in World /\ x.player = w.player /\ x.lobby = w.lobby /\ x.posts = w.posts
        /\ \A a \in Rooms : /\ Exists(x, a) <=> Exists(w, a)
                            /\ Exists(w, a) => /\ x.room[a].players = w.room[a].players
                                               /\ x.room[a].observers = w.room[a].observers
                                               /\ x.room[a].ref = w.room[a].ref
                                               /\ x.room[a].capacity = w.room[a].capacity
    BY <1>1, <2>1, <2>2
  <2>4. \A a \in Rooms : Checks(x, a) = Checks(w, a)
    BY <2>3 DEF Checks
  <2> QED
    BY <1>3, <2>3, <2>4
<1>4. CASE ~IsAbandoned(w, r) /\ w.room[r].owner \notin gone
  BY <1>4 DEF Resettle
<1> QED
  BY <1>2, <1>3, <1>4

\* After the end of removePlayer the room is looked after, if no ghost has joined;
\* other rooms are left alone.
LEMMA ResettleCarries ==
    ASSUME NEW w \in World, NEW v \in World, NEW r \in Rooms, Exists(v, r), NEW gone,
           NEW x \in Resettle(v, r, gone),
           \A a \in Rooms : Checks(w, a) \subseteq Checks(v, a),
           \A a \in Rooms : a # r => Carries(w, v, a),
           HasGhost(v, r) => HasGhost(w, r),
           NEW a \in Rooms
    PROVE  Carries(w, x, a)
<1>1. /\ x \in World /\ x.player = v.player
      /\ Exists(x, a) <=> Exists(v, a)
      /\ Checks(v, a) \subseteq Checks(x, a)
      /\ Exists(v, a) => /\ x.room[a].players = v.room[a].players
                         /\ x.room[a].ref = v.room[a].ref
                         /\ x.room[a].capacity = v.room[a].capacity
      /\ IsAbandoned(v, r) => Checks(x, r) # {}
  BY ResettleParts
<1>2. /\ IdleWithout(x, a) <=> IdleWithout(v, a)
      /\ HasGhost(x, a) <=> HasGhost(v, a)
  BY <1>1 DEF IdleWithout, HasGhost, Seatless, IsStarted, IsAbandoned, IsOnline, Alive
<1>3. CASE a # r
  <2>1. Carries(w, v, a)
    BY <1>3
  <2> QED
    BY <1>1, <1>2, <2>1 DEF Carries, EmptyChecked, GhostsChecked
<1>4. CASE a = r
  <2>1. Checks(w, a) \subseteq Checks(v, a) /\ (HasGhost(v, a) => HasGhost(w, a))
    BY <1>4
  <2>2. IdleWithout(v, a) => Checks(x, a) # {}
    BY <1>1, <1>4 DEF IdleWithout
  <2> QED
    BY <1>1, <1>2, <2>1, <2>2 DEF Carries, EmptyChecked, GhostsChecked
<1> QED
  BY <1>3, <1>4

\* A change to a room, not to who plays in it, to its game or to how many fit in.
LEMMA RoomChangeCarries ==
    ASSUME NEW w \in World, NEW r \in Rooms, Exists(w, r), NEW q \in Room,
           q.players = w.room[r].players, q.ref = w.room[r].ref,
           q.capacity = w.room[r].capacity, NEW a \in Rooms
    PROVE  Carries(w, [w EXCEPT !.room[r] = q], a)
<1> DEFINE v == [w EXCEPT !.room[r] = q]
<1>1. /\ v.player = w.player /\ v.posts = w.posts
      /\ \A b \in Rooms : v.room[b] = IF b = r THEN q ELSE w.room[b]
  <2>1. q \in Room \cup {None}
    OBVIOUS
  <2> HIDE DEF v
  <2> QED
    BY <2>1, RoomParts DEF v
<1> HIDE DEF v
<1>2. Checks(w, a) \subseteq Checks(v, a)
  BY <1>1 DEF Checks
<1>3. Exists(v, a) /\ ~IsStarted(v, a) =>
        /\ Exists(w, a) /\ ~IsStarted(w, a)
        /\ v.room[a].players = w.room[a].players
        /\ v.room[a].capacity = w.room[a].capacity
        /\ \A d \in v.room[a].players : /\ IsOnline(v, d) <=> IsOnline(w, d)
                                        /\ v.player[d].uid = w.player[d].uid
  BY <1>1 DEF Exists, IsStarted, IsOnline, Alive
<1>4. Carries(w, v, a)
  BY <1>2, <1>3, Undisturbed
<1> QED
  BY <1>4 DEF v

\* A new object in the lobby for somebody who runs away.
LEMMA CreateRunnedCarries ==
    ASSUME NEW w \in World, NEW r \in Rooms, NEW p \in Player,
           NEW x \in CreateRunnedPlayer(w, r, p), NEW a \in Rooms
    PROVE  x \in World /\ x.room = w.room /\ x.posts = w.posts /\ Carries(w, x, a)
<1>1. PICK n \in FreshConns(w), died \in BOOLEAN :
        x = LobbyAddPlayer(AddPlayer(w, n,
              [uid |-> p.uid, state |-> "Online", place |-> Lobby,
               link |-> IF died \/ w.room[r].outdated \/ p.link = "none"
                        THEN p.link ELSE "closing"]), n)
  BY DEF CreateRunnedPlayer
<1> DEFINE l == IF died \/ w.room[r].outdated \/ p.link = "none" THEN p.link ELSE "closing"
           q == [uid |-> p.uid, state |-> "Online", place |-> Lobby, link |-> l]
           y == AddPlayer(w, n, q)
<1>2. x = LobbyAddPlayer(y, n)
  BY <1>1
<1>3. q \in Player /\ q.state = "Online"
  BY DEF Player, States, Links
<1>4. n \in Conns /\ Unlisted(w, n)
  BY FreshIsUnlisted
<1> HIDE DEF q
<1>5. /\ y \in World /\ y.room = w.room /\ y.posts = w.posts /\ y.player[n] = q
      /\ Carries(w, y, a)
  BY <1>3, <1>4, AddPlayerParts, AddPlayerCarries
<1>6. Alive(y, n) /\ Unlisted(y, n) /\ y.player[n].state # "Robot"
  BY <1>3, <1>4, <1>5, NoneIsNoRecord DEF Alive, Unlisted, Exists
<1> HIDE DEF y
<1>7. /\ x \in World /\ x.room = y.room /\ x.posts = y.posts /\ Carries(y, x, a)
  BY <1>2, <1>4, <1>5, <1>6, LobbyAddParts, LobbyAddCarries
<1> QED
  BY <1>5, <1>7, CarriesOn

\* Room::removePlayer of c, which may have lost its socket or be deleted by then
\* (w is the world before that, e the world in which removePlayer starts).
LEMMA RoomRemoveCarries ==
    ASSUME NEW w \in World, NEW e \in World, NEW r \in Rooms, Exists(w, r),
           NEW c \in Conns, NEW p \in Player,
           e.room = w.room, e.posts = w.posts,
           \A d \in Conns : d # c => e.player[d] = w.player[d],
           \A a \in Rooms : Exists(w, a) /\ a # r => c \notin w.room[a].players,
           w.room[r].players \cap w.room[r].observers = {},
           NEW x \in RoomRemovePlayer(e, r, c, p), NEW a \in Rooms
    PROVE  Carries(w, x, a)
<1>1. e.room[r] \in Room /\ Exists(e, r) /\ (IsStarted(e, r) <=> IsStarted(w, r))
  BY WorldParts DEF Exists, IsStarted
<1>2. ASSUME c \notin w.room[r].players PROVE Carries(w, e, a)
  BY <1>2, OnePlayer
<1>3. CASE c \in w.room[r].observers
  <2> DEFINE os == w.room[r].observers \ {c}
             q == [e.room[r] EXCEPT !.observers = os]
             v == [e EXCEPT !.room[r] = q]
  <2>1. os \in SUBSET Conns /\ c \notin w.room[r].players
    BY <1>3, WorldParts
  <2>2. x = v
    BY <1>3 DEF RoomRemovePlayer, World
  <2> HIDE DEF os
  <2>3. /\ q \in Room /\ q.players = e.room[r].players /\ q.ref = e.room[r].ref
        /\ q.capacity = e.room[r].capacity
    BY <1>1, <2>1 DEF Room
  <2> HIDE DEF q
  <2>4. Carries(e, v, a)
    BY <1>1, <2>3, RoomChangeCarries
  <2> QED
    BY <1>2, <2>1, <2>2, <2>4, CarriesOn
<1>4. CASE c \notin w.room[r].observers /\ c \notin w.room[r].players
  <2>1. x = e
    BY <1>4 DEF RoomRemovePlayer
  <2> QED
    BY <1>2, <1>4, <2>1
<1>5. CASE c \notin w.room[r].observers /\ c \in w.room[r].players /\ ~IsStarted(w, r)
  <2> DEFINE ps == w.room[r].players \ {c}
             q == [e.room[r] EXCEPT !.players = ps]
             v == [e EXCEPT !.room[r] = q]
  <2>1. ps \in SUBSET Conns
    BY WorldParts
  <2>2. [e EXCEPT !.room[r].players = @ \ {c}] = v
    BY DEF World
  <2>3. x \in Resettle(v, r, {c})
    BY <1>1, <1>5, <2>2 DEF RoomRemovePlayer
  <2> HIDE DEF ps
  <2>4. q \in Room /\ q.players = ps /\ q.ref = e.room[r].ref
    BY <1>1, <2>1 DEF Room
  <2> HIDE DEF q
  <2>5. /\ v \in World /\ v.player = e.player /\ v.posts = w.posts
        /\ \A b \in Rooms : v.room[b] = IF b = r THEN q ELSE w.room[b]
    BY <2>4, RoomParts
  <2> HIDE DEF v
  <2>6. Exists(v, r)
    BY <2>4, <2>5, NoneIsNoRecord DEF Exists
  <2>7. \A b \in Rooms : Checks(w, b) \subseteq Checks(v, b)
    BY <2>5 DEF Checks
  <2>8. ASSUME NEW b \in Rooms, b # r PROVE Carries(w, v, b)
    <3>1. Exists(v, b) /\ ~IsStarted(v, b) =>
            /\ Exists(w, b) /\ ~IsStarted(w, b)
            /\ v.room[b].players = w.room[b].players
            /\ v.room[b].capacity = w.room[b].capacity
            /\ \A d \in v.room[b].players : d \in Conns /\ d # c
      BY <2>5, <2>8, WorldParts DEF Exists, IsStarted
    <3>2. \A d \in Conns : d # c => /\ IsOnline(v, d) <=> IsOnline(w, d)
                                   /\ v.player[d].uid = w.player[d].uid
      BY <2>5 DEF IsOnline, Alive
    <3>3. Checks(w, b) \subseteq Checks(v, b)
      BY <2>7
    <3> QED
      BY <3>1, <3>2, <3>3, Undisturbed
  <2>9. HasGhost(v, r) => HasGhost(w, r)
    <3>1. \A d \in ps : d \in Conns /\ d \in w.room[r].players /\ v.player[d] = w.player[d]
      BY <2>5, WorldParts DEF ps
    <3> QED
      BY <1>5, <2>4, <2>5, <3>1 DEF HasGhost, IsOnline, Alive
  <2> QED
    BY <2>3, <2>5, <2>6, <2>7, <2>8, <2>9, ResettleCarries
<1>6. CASE c \notin w.room[r].observers /\ c \in w.room[r].players /\ IsStarted(w, r)
  <2> DEFINE q == [p EXCEPT !.state = "Run", !.link = "none"]
             v == [e EXCEPT !.player[c] = q]
  <2>1. PICK y \in CreateRunnedPlayer(v, r, p) : x \in Resettle(y, r, {c})
    BY <1>1, <1>6 DEF RoomRemovePlayer
  <2>2. q \in Player
    BY DEF Player, States, Links
  <2> HIDE DEF q
  <2>3. /\ v \in World /\ v.room = w.room /\ v.posts = w.posts
        /\ \A d \in Conns : d # c => v.player[d] = w.player[d]
    BY <2>2 DEF World
  <2> HIDE DEF v
  <2>4. y \in World /\ y.room = w.room /\ y.posts = w.posts
    BY <2>1, <2>3, CreateRunnedCarries
  <2>5. \A b \in Rooms : Checks(w, b) \subseteq Checks(y, b)
    BY <2>4 DEF Checks
  <2>6. Exists(y, r) /\ IsStarted(y, r) /\ ~HasGhost(y, r)
    BY <1>1, <1>6, <2>4 DEF Exists, IsStarted, HasGhost
  <2>7. ASSUME NEW b \in Rooms, b # r PROVE Carries(w, y, b)
    <3>1. Carries(w, v, b)
      BY <2>3, <2>7, OnePlayer
    <3>2. Carries(v, y, b)
      BY <2>1, <2>3, CreateRunnedCarries
    <3> QED
      BY <3>1, <3>2, CarriesOn
  <2> QED
    BY <2>1, <2>4, <2>5, <2>6, <2>7, ResettleCarries
<1> QED
  BY <1>3, <1>4, <1>5, <1>6

\* deletePlayer of c, which may have lost its socket just before.
LEMMA DeleteCarries ==
    ASSUME NEW w, Consistent(w), NEW v \in World, NEW c \in Conns, Alive(w, c),
           v.room = w.room, v.posts = w.posts,
           \A d \in Conns : d # c => v.player[d] = w.player[d],
           v.player[c] \in Player, v.player[c].place = w.player[c].place,
           NEW x \in DeletePlayer(v, c), NEW a \in Rooms
    PROVE  Carries(w, x, a)
<1> DEFINE p == v.player[c]
           e == Erase(v, {c})
<1>1. /\ w \in World
      /\ \A b \in Rooms : Exists(w, b) /\ b # p.place => c \notin w.room[b].players
      /\ \A b \in Rooms : Exists(w, b) => w.room[b].players \cap w.room[b].observers = {}
  BY DEF Consistent, Placed
<1>2. /\ e \in World /\ e.room = w.room /\ e.posts = w.posts
      /\ \A d \in Conns : d # c => e.player[d] = w.player[d]
  BY EraseParts
<1>3. p \in Player /\ p.place \in Rooms \cup {Lobby}
  BY DEF Player
<1>4. \/ p.place = Lobby /\ x = LobbyRemovePlayer(e, c)
      \/ p.place # Lobby /\ Exists(e, p.place) /\ x \in RoomRemovePlayer(e, p.place, c, p)
      \/ p.place # Lobby /\ ~Exists(e, p.place) /\ x = e
  BY DEF DeletePlayer
<1> HIDE DEF e, p
<1>5. CASE p.place = Lobby /\ x = LobbyRemovePlayer(e, c)
  <2>1. Carries(w, e, a)
    BY <1>1, <1>2, <1>5, ConstantsDistinct, OnePlayer
  <2>2. Carries(e, x, a)
    BY <1>2, <1>5, LobbyRemoveCarries
  <2> QED
    BY <2>1, <2>2, CarriesOn
<1>6. CASE p.place # Lobby /\ Exists(e, p.place) /\ x \in RoomRemovePlayer(e, p.place, c, p)
  <2>1. p.place \in Rooms /\ Exists(w, p.place)
    BY <1>2, <1>3, <1>6 DEF Exists
  <2> QED
    BY <1>1, <1>2, <1>3, <1>6, <2>1, RoomRemoveCarries
<1>7. CASE p.place # Lobby /\ ~Exists(e, p.place) /\ x = e
  <2>1. Exists(w, a) => c \notin w.room[a].players
    BY <1>1, <1>2, <1>7 DEF Exists
  <2> QED
    BY <1>1, <1>2, <1>7, <2>1, OnePlayer
<1> QED
  BY <1>4, <1>5, <1>6, <1>7

-----------------------------------------------------------------------------
(* What a check leaves behind *)

\* ~Room leaves the other rooms alone.
LEMMA DestroyCarries ==
    ASSUME NEW w, Consistent(w), NEW r \in Rooms, Exists(w, r), NEW a \in Rooms
    PROVE  Carries(w, DestroyRoom(w, r), a) /\ ~Exists(DestroyRoom(w, r), r)
<1> DEFINE inside == w.room[r].players \cup w.room[r].observers
           saved  == {c \in inside : IsOnline(w, c)}
           cs     == inside \ saved
           e      == Erase(w, cs)
           f      == [c \in Conns |->
                        IF c \in saved THEN [e.player[c] EXCEPT !.place = Lobby] ELSE e.player[c]]
           g      == [w.room EXCEPT ![r] = None]
           v      == DestroyRoom(w, r)
<1>1. /\ w \in World
      /\ \A b \in Rooms : Exists(w, b) /\ b # r =>
            \A c \in w.room[b].players : c \in Conns /\ c \notin inside
  BY WorldParts DEF Consistent, Placed
<1>2. /\ e \in World /\ e.room = w.room /\ e.posts = w.posts
      /\ \A d \in Conns : d \notin cs => e.player[d] = w.player[d]
  BY <1>1, EraseParts
<1>3. v.room = g /\ v.player = f /\ v.posts = e.posts
  <2>1. v = [e EXCEPT !.room[r] = None, !.lobby = @ \cup saved,
              !.player = [c \in Conns |->
                  IF c \in saved THEN [@[c] EXCEPT !.place = Lobby] ELSE @[c]]]
    BY DEF DestroyRoom
  <2> HIDE DEF v, e, saved
  <2> QED
    BY <1>2, <2>1 DEF World
<1>4. \A d \in Conns : d \notin inside => f[d] = w.player[d]
  BY <1>2
<1>5. \A b \in Rooms : g[b] = IF b = r THEN None ELSE w.room[b]
  BY <1>1, WorldParts
<1> HIDE DEF v, f, g, e, inside
<1>6. ~Exists(v, r)
  BY <1>3, <1>5 DEF Exists
<1>7. CASE a = r
  BY <1>6, <1>7, BusyCarries DEF v
<1>8. CASE a # r
  <2>1. v.room[a] = w.room[a]
    BY <1>3, <1>5, <1>8
  <2>2. Checks(w, a) \subseteq Checks(v, a)
    BY <1>2, <1>3 DEF Checks
  <2>3. Exists(v, a) /\ ~IsStarted(v, a) =>
          /\ Exists(w, a) /\ ~IsStarted(w, a)
          /\ v.room[a].players = w.room[a].players
          /\ v.room[a].capacity = w.room[a].capacity
          /\ \A d \in v.room[a].players : /\ IsOnline(v, d) <=> IsOnline(w, d)
                                          /\ v.player[d].uid = w.player[d].uid
    BY <1>1, <1>3, <1>4, <1>8, <2>1 DEF Exists, IsStarted, IsOnline, Alive
  <2>4. Carries(w, v, a)
    BY <2>2, <2>3, Undisturbed
  <2> QED
    BY <1>6, <2>4 DEF v
<1> QED
  BY <1>7, <1>8

\* The deletions of a check leave no ghost in the room, and a check if it is empty.
LEMMA PurgeIdleCarries ==
    ASSUME NEW w, Consistent(w), NEW r \in Rooms, Exists(w, r), NEW x \in PurgeIdle(w, r),
           NEW a \in Rooms
    PROVE  Carries(w, x, a) /\ ~HasGhost(x, r)
<1> DEFINE gone == Ghosts(w, r)
           e == Erase(w, gone)
           ps == w.room[r].players \ gone
           q == [w.room[r] EXCEPT !.players = ps]
           v == [e EXCEPT !.room[r] = q]
<1>1. /\ w \in World /\ w.room[r] \in Room
      /\ w.room[r].players \subseteq Conns
      /\ \A b \in Rooms : Exists(w, b) /\ b # r =>
            \A c \in w.room[b].players : c \in Conns /\ c \notin gone
      /\ \A c \in ps : c \in Conns /\ c \notin gone /\ IsOnline(w, c)
  BY WorldParts DEF Consistent, Placed, Ghosts
<1>2. x \in Resettle([e EXCEPT !.room[r].players = @ \ gone], r, gone)
  BY DEF PurgeIdle
<1> HIDE DEF gone
<1>3. /\ e \in World /\ e.room = w.room /\ e.posts = w.posts
      /\ \A d \in Conns : d \notin gone => e.player[d] = w.player[d]
  BY <1>1, EraseParts
<1>4. ps \in SUBSET Conns
  BY <1>1
<1> HIDE DEF e
<1>5. x \in Resettle(v, r, gone)
  <2>1. [e EXCEPT !.room[r].players = @ \ gone] = v
    BY <1>3 DEF World
  <2> QED
    BY <1>2, <2>1
<1> HIDE DEF ps
<1>6. q \in Room /\ q.players = ps
  BY <1>1, <1>4 DEF Room
<1> HIDE DEF q
<1>7. /\ v \in World /\ v.player = e.player /\ v.posts = e.posts
      /\ \A b \in Rooms : v.room[b] = IF b = r THEN q ELSE e.room[b]
  BY <1>3, <1>6, RoomParts
<1> HIDE DEF v
<1>8. Exists(v, r)
  BY <1>6, <1>7, NoneIsNoRecord DEF Exists
<1>9. ~HasGhost(v, r)
  BY <1>1, <1>3, <1>6, <1>7 DEF HasGhost, IsOnline, Alive
<1>10. \A b \in Rooms : Checks(w, b) \subseteq Checks(v, b)
  BY <1>3, <1>7 DEF Checks
<1>11. ASSUME NEW b \in Rooms, b # r PROVE Carries(w, v, b)
  <2>1. Exists(v, b) /\ ~IsStarted(v, b) =>
          /\ Exists(w, b) /\ ~IsStarted(w, b)
          /\ v.room[b].players = w.room[b].players
          /\ v.room[b].capacity = w.room[b].capacity
          /\ \A d \in v.room[b].players : /\ IsOnline(v, d) <=> IsOnline(w, d)
                                          /\ v.player[d].uid = w.player[d].uid
    BY <1>1, <1>3, <1>7, <1>11 DEF Exists, IsStarted, IsOnline, Alive
  <2>2. Checks(w, b) \subseteq Checks(v, b)
    BY <1>10
  <2> QED
    BY <2>1, <2>2, Undisturbed
<1>12. Carries(w, x, a)
  BY <1>1, <1>5, <1>7, <1>8, <1>9, <1>10, <1>11, ResettleCarries
<1>13. ~HasGhost(x, r)
  <2>1. /\ x.player = v.player /\ x.room[r].players = v.room[r].players
        /\ x.room[r].ref = v.room[r].ref /\ (Exists(x, r) <=> Exists(v, r))
    BY <1>5, <1>7, <1>8, ResettleParts
  <2> QED
    BY <1>9, <2>1 DEF HasGhost, IsStarted, IsOnline, Alive
<1> QED
  BY <1>12, <1>13

\* The deletions of a check that finds a new game: it goes on.
LEMMA PurgeStartedCarries ==
    ASSUME NEW w, Consistent(w), NEW r \in Rooms, Exists(w, r), IsStarted(w, r),
           NEW x \in PurgeStarted(w, r), NEW a \in Rooms
    PROVE  Carries(w, x, a) /\ IsStarted(x, r)
<1> DEFINE gone == Ghosts(w, r)
<1>1. /\ w \in World
      /\ \A b \in Rooms : Exists(w, b) /\ b # r =>
            \A c \in w.room[b].players : c \in Conns /\ c \notin gone
  BY WorldParts DEF Consistent, Placed, Ghosts
<1>2. PICK v \in World :
        /\ x \in Resettle(v, r, gone)
        /\ v.posts = w.posts /\ Exists(v, r) /\ v.room[r].ref = w.room[r].ref
        /\ \A b \in Rooms : b # r => v.room[b] = w.room[b]
        /\ \A c \in Conns : c \notin gone => v.player[c] = w.player[c]
  BY PurgeStartedConsistent
<1> HIDE DEF gone
<1>3. IsStarted(v, r) /\ ~HasGhost(v, r)
  BY <1>2 DEF IsStarted, HasGhost
<1>4. \A b \in Rooms : Checks(w, b) \subseteq Checks(v, b)
  BY <1>2 DEF Checks
<1>5. ASSUME NEW b \in Rooms, b # r PROVE Carries(w, v, b)
  <2>1. Exists(v, b) /\ ~IsStarted(v, b) =>
          /\ Exists(w, b) /\ ~IsStarted(w, b)
          /\ v.room[b].players = w.room[b].players
          /\ v.room[b].capacity = w.room[b].capacity
          /\ \A d \in v.room[b].players : /\ IsOnline(v, d) <=> IsOnline(w, d)
                                          /\ v.player[d].uid = w.player[d].uid
    BY <1>1, <1>2, <1>5 DEF Exists, IsStarted, IsOnline, Alive
  <2>2. Checks(w, b) \subseteq Checks(v, b)
    BY <1>4
  <2> QED
    BY <2>1, <2>2, Undisturbed
<1>6. Carries(w, x, a)
  BY <1>1, <1>2, <1>3, <1>4, <1>5, ResettleCarries
<1>7. IsStarted(x, r)
  BY <1>2, <1>3, ResettleParts DEF IsStarted
<1> QED
  BY <1>6, <1>7

\* A check leaves its room looked after: gone, in use, or with another check. It
\* leaves ghosts only if it was posted for another reason than the end of a game.
LEMMA CheckCarries ==
    ASSUME NEW w, Consistent(w), NEW r \in Rooms, Exists(w, r), NEW reason \in Reasons,
           NEW x \in CheckAbandonedNow(w, r, reason)
    PROVE  /\ \A a \in Rooms : a # r => Carries(w, x, a)
           /\ EmptyChecked(x, r)
           /\ reason = "NoRefCount" \/ GhostsChecked(w, r) => GhostsChecked(x, r)
<1> DEFINE purged == IF reason = "NoHuman" \/ Ghosts(w, r) = {} THEN {w}
                     ELSE IF IsStarted(w, r) THEN PurgeStarted(w, r)
                     ELSE PurgeIdle(w, r)
<1>1. PICK y \in purged :
        x = IF IsAbandoned(y, r) /\ ~IsStarted(y, r) THEN DestroyRoom(y, r) ELSE y
  BY DEF CheckAbandonedNow
<1>2. /\ Consistent(y) /\ Exists(y, r)
      /\ \A a \in Rooms : Carries(w, y, a)
      /\ reason = "NoRefCount" => ~HasGhost(y, r)
  <2>1. CASE reason = "NoHuman" \/ Ghosts(w, r) = {}
    <3>1. y = w
      BY <1>1, <2>1
    <3>2. reason = "NoRefCount" => ~HasGhost(w, r)
      BY <2>1 DEF Ghosts, HasGhost
    <3> QED
      BY <3>1, <3>2 DEF Carries
  <2>2. CASE ~(reason = "NoHuman" \/ Ghosts(w, r) = {}) /\ IsStarted(w, r)
    <3>1. y \in PurgeStarted(w, r)
      BY <1>1, <2>2
    <3>2. IsStarted(y, r) => ~HasGhost(y, r)
      BY DEF HasGhost
    <3> HIDE DEF purged
    <3> QED
      BY <2>2, <3>1, <3>2, PurgeStartedConsistent, PurgeStartedCarries
  <2>3. CASE ~(reason = "NoHuman" \/ Ghosts(w, r) = {}) /\ ~IsStarted(w, r)
    <3>1. y \in PurgeIdle(w, r)
      BY <1>1, <2>3
    <3> HIDE DEF purged
    <3> QED
      BY <3>1, PurgeIdleConsistent, PurgeIdleCarries
  <2> QED
    BY <2>1, <2>2, <2>3
<1> HIDE DEF purged
<1>3. CASE IsAbandoned(y, r) /\ ~IsStarted(y, r)
  <2>1. x = DestroyRoom(y, r)
    BY <1>1, <1>3
  <2>2. ~Exists(x, r) /\ \A a \in Rooms : Carries(y, x, a)
    BY <1>2, <2>1, DestroyCarries
  <2>3. \A a \in Rooms : Carries(w, x, a)
    BY <1>2, <2>2 DEF Carries
  <2> QED
    BY <2>2, <2>3 DEF EmptyChecked, GhostsChecked, IdleWithout, HasGhost
<1>4. CASE ~(IsAbandoned(y, r) /\ ~IsStarted(y, r))
  <2>1. x = y
    BY <1>1, <1>4
  <2>2. EmptyChecked(y, r)
    BY <1>4 DEF EmptyChecked, IdleWithout
  <2>3. reason = "NoRefCount" => GhostsChecked(y, r)
    BY <1>2 DEF GhostsChecked
  <2> QED
    BY <1>2, <2>1, <2>2, <2>3 DEF Carries
<1> QED
  BY <1>3, <1>4

-----------------------------------------------------------------------------
(* Each action looks after the rooms *)

\* Every room has them.
EmptyRoomsChecked == \A r \in Rooms : EmptyChecked(Now, r)

GhostRoomsChecked == \A r \in Rooms : GhostsChecked(Now, r)

\* A step after which whatever was looked after still is.
Tends ==
    /\ EmptyRoomsChecked => EmptyRoomsChecked'
    /\ GhostRoomsChecked => GhostRoomsChecked'

\* What is said of a world is said of the state it becomes.
LEMMA LandingChecks ==
    ASSUME NEW w, Becomes(w)
    PROVE  /\ EmptyRoomsChecked' <=> \A r \in Rooms : EmptyChecked(w, r)
           /\ GhostRoomsChecked' <=> \A r \in Rooms : GhostsChecked(w, r)
BY DEF Becomes, Now, EmptyRoomsChecked, GhostRoomsChecked, EmptyChecked, GhostsChecked,
   IdleWithout, HasGhost, Checks, Exists, Seatless, IsStarted, IsAbandoned, IsOnline, Alive

\* A step to a world that carries every room.
LEMMA LandingTends ==
    ASSUME NEW w, Becomes(w), \A r \in Rooms : Carries(Now, w, r)
    PROVE  Tends
BY LandingChecks DEF Carries, Tends, EmptyRoomsChecked, GhostRoomsChecked

\* Login.
LEMMA LoginTends ==
    ASSUME Consistency, NEW u \in Users, Login(u)
    PROVE  Tends
<1> DEFINE old == online[u]
           w == IF old = None THEN Now ELSE Kick(Now, {old})
<1>1. Now \in World /\ Consistent(Now)
  BY DEF Consistency, Consistent
<1>2. /\ Consistent(w) /\ w \in World /\ w.room = Now.room
      /\ \A r \in Rooms : Carries(Now, w, r)
  BY <1>1, KickConsistent, KickParts, KickCarries DEF Consistent, Carries
<1>3. CASE old # None /\ InsideGame(Now, old)
  <2> DEFINE v == [w EXCEPT !.player[old].link = "open", !.player[old].state = "Online"]
  <2>1. Becomes(v)
    BY <1>3 DEF Login
  <2> HIDE DEF w
  <2>2. v.room = w.room /\ v.posts = w.posts
    BY <1>2 DEF World
  <2>3. \A d \in Conns : d # old => v.player[d] = w.player[d]
    BY <1>2 DEF World
  <2> HIDE DEF v
  <2>4. \A r \in Rooms : Exists(w, r) /\ ~IsStarted(w, r) => old \notin w.room[r].players
    BY <1>1, <1>2, <1>3 DEF InsideGame, Consistent, Placed, Exists, IsStarted
  <2>5. \A r \in Rooms : Carries(w, v, r)
    BY <1>2, <2>2, <2>3, <2>4, OnePlayer
  <2>6. \A r \in Rooms : Carries(Now, v, r)
    BY <1>2, <2>5, CarriesOn
  <2> QED
    BY <2>1, <2>6, LandingTends
<1>4. CASE ~(old # None /\ InsideGame(Now, old))
  <2> DEFINE p == [uid |-> u, state |-> "Online", link |-> "open", place |-> Lobby]
  <2>1. PICK c \in FreshConns(w) : Becomes(LobbyAddPlayer(AddPlayer(w, c, p), c))
    BY <1>4 DEF Login
  <2>2. p \in Player /\ p.uid # Robot /\ p.state # "Robot"
    BY ConstantsDistinct DEF Player, States, Links
  <2> HIDE DEF w, p
  <2> DEFINE y == AddPlayer(w, c, p)
  <2>3. /\ Consistent(y) /\ c \in Conns /\ Alive(y, c) /\ Unlisted(y, c)
        /\ \A r \in Rooms : Carries(w, y, r)
    BY <1>2, <2>2, AddPlayerFresh, AddPlayerCarries
  <2> HIDE DEF y
  <2>4. \A r \in Rooms : Carries(y, LobbyAddPlayer(y, c), r)
    BY <2>3, LobbyAddCarries DEF Consistent
  <2>5. \A r \in Rooms : Carries(Now, LobbyAddPlayer(y, c), r)
    BY <1>2, <2>3, <2>4 DEF Carries
  <2> QED
    BY <2>1, <2>5, LandingTends DEF y
<1> QED
  BY <1>3, <1>4

\* A socket closes.
LEMMA SocketClosedTends ==
    ASSUME Consistency, NEW c \in Conns, SocketClosed(c)
    PROVE  Tends
<1> DEFINE w == [Now EXCEPT !.player[c].link = "none", !.player[c].state = "Offline"]
<1>1. Consistent(Now) /\ Now \in World /\ Alive(Now, c)
  BY DEF Consistency, Consistent, SocketClosed, IsOnline
<1>2. Consistent(w) /\ w \in World /\ Alive(w, c)
  <2>1. "none" \in Links /\ "Offline" \in States
    BY DEF Links, States
  <2> QED
    BY <1>1, <2>1, RelinkConsistent DEF Consistent
<1>3. /\ w.room = Now.room /\ w.posts = Now.posts
      /\ \A d \in Conns : d # c => w.player[d] = Now.player[d]
      /\ w.player[c].place = Now.player[c].place
  <2> DEFINE q == [Now.player[c] EXCEPT !.link = "none", !.state = "Offline"]
             f == [Now.player EXCEPT ![c] = q]
  <2>1. Now.player[c] \in Player
    BY <1>1, WorldParts
  <2>2. q.place = Now.player[c].place
    BY <2>1 DEF Player
  <2>3. w = [Now EXCEPT !.player = f]
    BY <1>1 DEF World
  <2> HIDE DEF q
  <2>4. f[c] = q /\ \A d \in Conns : d # c => f[d] = Now.player[d]
    BY <1>1, WorldParts
  <2> HIDE DEF w, f
  <2> QED
    BY <1>1, <2>2, <2>3, <2>4 DEF World
<1>4. IF InsideGame(w, c) THEN Becomes(w) ELSE \E x \in DeletePlayer(w, c) : BecomesBounded(x)
  BY DEF SocketClosed
<1> HIDE DEF w
<1>5. CASE InsideGame(w, c)
  <2>1. \A r \in Rooms : Exists(Now, r) /\ ~IsStarted(Now, r) => c \notin Now.room[r].players
    BY <1>1, <1>3, <1>5 DEF InsideGame, Consistent, Placed, Exists, IsStarted
  <2>2. \A r \in Rooms : Carries(Now, w, r)
    BY <1>1, <1>3, <2>1, OnePlayer
  <2> QED
    BY <1>4, <1>5, <2>2, LandingTends
<1>6. CASE ~InsideGame(w, c)
  <2>1. PICK x \in DeletePlayer(w, c) : Becomes(x)
    BY <1>4, <1>6 DEF BecomesBounded
  <2>2. w.player[c] \in Player
    BY <1>2, WorldParts
  <2>3. \A r \in Rooms : Carries(Now, x, r)
    BY <1>1, <1>2, <1>3, <2>1, <2>2, DeleteCarries
  <2> QED
    BY <2>1, <2>3, LandingTends
<1> QED
  BY <1>5, <1>6

\* The account's player is kicked.
LEMMA KickUserTends ==
    ASSUME Consistency, NEW u \in Users, KickUser(u)
    PROVE  Tends
BY KickCarries, LandingTends DEF Consistency, Consistent, KickUser

\* createRoom: a room that its creator cannot enter is the one that nothing checks.
LEMMA CreateRoomTends ==
    ASSUME Consistency, NEW c \in Conns, NEW cap \in Capacities, CreateRoom(c, cap)
    PROVE  Tends
<1> DEFINE q == [players |-> {}, observers |-> {}, owner |-> None, capacity |-> cap,
                 ref |-> 0, rejected |-> {}, outdated |-> FALSE]
           W(r) == [Now EXCEPT !.room[r] = q]
<1>1. PICK r \in FreshRooms(Now) :
        Becomes(IF Admits(W(r), r, player[c].uid)
                THEN LobbyRemovePlayer(RoomAddPlayer(W(r), r, c), c) ELSE W(r))
  BY DEF CreateRoom
<1>2. r \in Rooms /\ ~Exists(Now, r)
  BY DEF FreshRooms
<1>3. /\ Consistent(Now) /\ Now \in World /\ IsOnline(Now, c) /\ Now.player[c].place = Lobby
      /\ Alive(Now, c) /\ Unlisted(Now, c)
  BY LobbyIsUnlisted DEF Consistency, Consistent, CreateRoom, SendsTo, IsOnline, Now
<1>4. /\ q \in Room /\ q.players = {} /\ q.observers = {} /\ q.ref = 0 /\ q.capacity = cap
      /\ q.rejected = {}
  BY BoundsAreNumbers DEF Room
<1> HIDE DEF q
<1> DEFINE w == W(r)
<1>5. /\ w \in World /\ w.player = Now.player /\ w.posts = Now.posts
      /\ \A a \in Rooms : w.room[a] = IF a = r THEN q ELSE Now.room[a]
  BY <1>2, <1>3, <1>4, RoomParts
<1> HIDE DEF W
<1>6. /\ Exists(w, r) /\ Alive(w, c) /\ IsOnline(w, c) /\ Unlisted(w, c)
  BY <1>2, <1>3, <1>4, <1>5, NoneIsNoRecord DEF Exists, Alive, IsOnline, Unlisted
<1>7. \A a \in Rooms : a # r => Carries(Now, w, a)
  <2> SUFFICES ASSUME NEW a \in Rooms, a # r PROVE Carries(Now, w, a)
    OBVIOUS
  <2>1. Checks(Now, a) \subseteq Checks(w, a)
    BY <1>5 DEF Checks
  <2>2. Exists(w, a) /\ ~IsStarted(w, a) =>
          /\ Exists(Now, a) /\ ~IsStarted(Now, a)
          /\ w.room[a].players = Now.room[a].players
          /\ w.room[a].capacity = Now.room[a].capacity
          /\ \A d \in w.room[a].players : /\ IsOnline(w, d) <=> IsOnline(Now, d)
                                          /\ w.player[d].uid = Now.player[d].uid
    BY <1>5 DEF Exists, IsStarted, IsOnline, Alive
  <2> QED
    BY <2>1, <2>2, Undisturbed
<1>8. GhostsChecked(w, r)
  BY <1>2, <1>4, <1>5 DEF GhostsChecked, HasGhost
<1> DEFINE x == RoomAddPlayer(w, r, c)
           y == LobbyRemovePlayer(x, c)
<1>9. x \in World /\ (\A a \in Rooms : Carries(w, x, a)) /\ EmptyChecked(x, r)
  BY <1>2, <1>5, <1>6, RoomAddCarries
<1> HIDE DEF x
<1>10. \A a \in Rooms : Carries(x, y, a)
  BY <1>9, LobbyRemoveCarries
<1> HIDE DEF y
<1>11. /\ \A a \in Rooms : a # r => Carries(Now, y, a)
       /\ GhostsChecked(y, r) /\ EmptyChecked(y, r)
  BY <1>2, <1>7, <1>8, <1>9, <1>10 DEF Carries
<1>12. cap # 0 => Admits(w, r, player[c].uid)
  <2>1. Cardinality({}) = 0 /\ cap \in Nat
    BY FS_EmptySet, BoundsAreNumbers
  <2> QED
    BY <1>2, <1>4, <1>5, <2>1 DEF Admits, IsFull, IsStarted
<1>13. CASE Admits(w, r, player[c].uid)
  <2>1. Becomes(y)
    BY <1>1, <1>13 DEF y, x
  <2> QED
    BY <1>11, <2>1, LandingChecks DEF Tends, Carries, EmptyRoomsChecked, GhostRoomsChecked
<1>14. CASE ~Admits(w, r, player[c].uid)
  <2>1. Becomes(w) /\ cap = 0
    BY <1>1, <1>12, <1>14
  <2>2. EmptyChecked(w, r)
    BY <1>2, <1>4, <1>5, <2>1 DEF EmptyChecked, IdleWithout, Seatless
  <2> QED
    BY <1>7, <1>8, <2>1, <2>2, LandingChecks
       DEF Tends, Carries, EmptyRoomsChecked, GhostRoomsChecked
<1> QED
  BY <1>13, <1>14

\* enterRoom.
LEMMA EnterRoomTends ==
    ASSUME Consistency, NEW c \in Conns, NEW r \in Rooms, EnterRoom(c, r)
    PROVE  Tends
<1> DEFINE x == RoomAddPlayer(Now, r, c)
           y == LobbyRemovePlayer(x, c)
<1>1. /\ Consistent(Now) /\ Now \in World /\ IsOnline(Now, c) /\ Now.player[c].place = Lobby
      /\ Exists(Now, r) /\ Becomes(y)
  BY DEF Consistency, Consistent, EnterRoom, SendsTo, IsOnline, Now
<1>2. Alive(Now, c) /\ Unlisted(Now, c)
  BY <1>1, LobbyIsUnlisted DEF IsOnline
<1>3. x \in World /\ \A a \in Rooms : Carries(Now, x, a)
  BY <1>1, <1>2, RoomAddCarries
<1> HIDE DEF x
<1>4. \A a \in Rooms : Carries(x, y, a)
  BY <1>3, LobbyRemoveCarries
<1> HIDE DEF y
<1>5. \A a \in Rooms : Carries(Now, y, a)
  BY <1>3, <1>4 DEF Carries
<1> QED
  BY <1>1, <1>5, LandingTends

\* observeRoom.
LEMMA ObserveRoomTends ==
    ASSUME Consistency, NEW c \in Conns, NEW r \in Rooms, ObserveRoom(c, r)
    PROVE  Tends
<1> DEFINE w == Now
           os == w.room[r].observers \cup {c}
           q == [w.room[r] EXCEPT !.observers = os]
           u == [w EXCEPT !.room[r] = q]
           v == LobbyRemovePlayer(
                  [w EXCEPT !.room[r].observers = @ \cup {c}, !.player[c].place = r], c)
<1>1. /\ Consistent(w) /\ w \in World /\ Alive(w, c) /\ Unlisted(w, c) /\ Exists(w, r)
      /\ Becomes(v)
  BY LobbyIsUnlisted DEF Consistency, Consistent, ObserveRoom, SendsTo, IsOnline, Now
<1> HIDE DEF w
<1>2. os \in SUBSET Conns /\ w.room[r] \in Room
  BY <1>1, WorldParts
<1>3. /\ v.room = u.room /\ v.posts = u.posts
      /\ \A d \in Conns : d # c => v.player[d] = u.player[d]
  BY <1>1 DEF LobbyRemovePlayer, World
<1> HIDE DEF v, os
<1>4. /\ q \in Room /\ q.players = w.room[r].players /\ q.ref = w.room[r].ref
      /\ q.capacity = w.room[r].capacity
  BY <1>2 DEF Room
<1> HIDE DEF q
<1>5. /\ u \in World /\ \A a \in Rooms : u.room[a] = IF a = r THEN q ELSE w.room[a]
  BY <1>1, <1>4, RoomParts
<1>6. \A a \in Rooms : Carries(w, u, a)
  BY <1>1, <1>4, RoomChangeCarries
<1> HIDE DEF u
<1>7. \A a \in Rooms : Exists(u, a) => c \notin u.room[a].players
  BY <1>1, <1>4, <1>5 DEF Unlisted, Exists
<1>8. \A a \in Rooms : Carries(u, v, a)
  BY <1>3, <1>5, <1>7, OnePlayer
<1>9. \A a \in Rooms : Carries(w, v, a)
  BY <1>6, <1>8 DEF Carries
<1> QED
  BY <1>1, <1>9, LandingTends DEF w

\* removePlayer of a room by one of its handlers.
LEMMA LeaveCarries ==
    ASSUME NEW w, Consistent(w), NEW r \in Rooms, Exists(w, r),
           NEW c \in Conns, Alive(w, c), w.player[c].place = r,
           NEW x \in RoomRemovePlayer(w, r, c, w.player[c]), NEW a \in Rooms
    PROVE  Carries(w, x, a)
<1>1. /\ w \in World /\ w.player[c] \in Player
      /\ \A b \in Rooms : Exists(w, b) /\ b # r => c \notin w.room[b].players
      /\ w.room[r].players \cap w.room[r].observers = {}
  BY WorldParts DEF Consistent, Placed
<1> QED
  BY <1>1, RoomRemoveCarries

\* quitRoom.
LEMMA QuitRoomTends ==
    ASSUME Consistency, NEW c \in Conns, NEW r \in Rooms, QuitRoom(c, r)
    PROVE  Tends
<1>1. Consistent(Now) /\ Alive(Now, c) /\ Now.player[c].place = r /\ Exists(Now, r)
  BY DEF Consistency, QuitRoom, SendsTo, IsOnline, Now
<1> DEFINE Y(x) == IF x.player[c].state = "Online" THEN LobbyAddPlayer(x, c) ELSE x
           o(x) == Y(x).online[player[c].uid]
<1>2. PICK x \in RoomRemovePlayer(Now, r, c, Now.player[c]) :
        Becomes(IF room[r].outdated /\ o(x) # None THEN Kick(Y(x), {o(x)}) ELSE Y(x))
  BY DEF QuitRoom, BecomesBounded, Now
<1>3. /\ Consistent(x) /\ x \in World /\ Alive(x, c) /\ c \notin x.lobby
      /\ x.player[c].state = "Run" \/ Unlisted(x, c)
  BY <1>1, RoomRemoveConsistent DEF Consistent
<1>4. \A a \in Rooms : Carries(Now, x, a)
  BY <1>1, LeaveCarries
<1> DEFINE y == Y(x)
           oo == o(x)
<1>5. y \in World /\ \A a \in Rooms : Carries(x, y, a)
  <2>1. CASE x.player[c].state = "Online"
    <3>1. Unlisted(x, c)
      BY <1>3, <2>1
    <3>2. Consistent(LobbyAddPlayer(x, c))
      BY <1>3, <2>1, <3>1, LobbyAddConsistent
    <3> QED
      BY <1>3, <2>1, <3>1, <3>2, LobbyAddCarries DEF Consistent
  <2>2. CASE x.player[c].state # "Online"
    BY <1>3, <2>2 DEF Carries
  <2> QED
    BY <2>1, <2>2
<1> HIDE DEF Y, o
<1>6. \A a \in Rooms : Carries(y, Kick(y, {oo}), a)
  BY <1>5, KickCarries
<1>7. \A a \in Rooms : Carries(Now, y, a) /\ Carries(Now, Kick(y, {oo}), a)
  BY <1>4, <1>5, <1>6 DEF Carries
<1> QED
  BY <1>2, <1>7, LandingTends

\* addRobotRequest: it comes from the owner, who sits in the room and has a socket.
LEMMA AddRobotTends ==
    ASSUME Consistency, NEW c \in Conns, NEW r \in Rooms, AddRobot(c, r)
    PROVE  Tends
<1> DEFINE p == [uid |-> Robot, state |-> "Robot", link |-> "none", place |-> Lobby]
           W(n) == AddPlayer(Now, n, p)
<1>1. PICK n \in FreshConns(Now) :
        Becomes(IF IsStarted(W(n), r) THEN W(n) ELSE RoomAddPlayer(W(n), r, n))
  BY DEF AddRobot
<1>2. /\ Consistent(Now) /\ Now \in World /\ Exists(Now, r)
      /\ IsOnline(Now, c) /\ c \in Now.room[r].players
  BY ConstantsDistinct DEF Consistency, Consistent, AddRobot, SendsTo, OwnersSit, Now
<1>3. p \in Player /\ p.uid = Robot /\ p.link = "none"
  BY DEF Player, States, Links
<1> HIDE DEF p
<1>4. /\ Consistent(W(n)) /\ W(n).room = Now.room /\ n \in Conns
      /\ Alive(W(n), n) /\ Unlisted(W(n), n) /\ W(n).player[n] = p
      /\ \A d \in Conns : d # n => W(n).player[d] = Now.player[d]
      /\ \A a \in Rooms : Carries(Now, W(n), a)
  BY <1>2, <1>3, AddPlayerFresh, AddPlayerParts, AddPlayerCarries
<1> DEFINE w == W(n)
<1> HIDE DEF W
<1>5. w \in World /\ Exists(w, r) /\ w.player[n].uid = Robot
  BY <1>2, <1>3, <1>4 DEF Exists, Consistent
<1>6. ~IsAbandoned(w, r)
  <2>1. n \notin Now.room[r].players
    BY <1>2, <1>4 DEF Unlisted, Exists
  <2> QED
    BY <1>2, <1>4, <2>1 DEF IsAbandoned, IsOnline, Alive
<1>7. \A a \in Rooms : Carries(w, RoomAddPlayer(w, r, n), a)
  BY <1>4, <1>5, <1>6, RoomAddCarries
<1>8. \A a \in Rooms : Carries(Now, RoomAddPlayer(w, r, n), a)
  BY <1>4, <1>7 DEF Carries
<1> QED
  BY <1>1, <1>4, <1>8, LandingTends

\* addNpc: a game runs.
LEMMA AddNpcTends ==
    ASSUME Consistency, NEW r \in Rooms, AddNpc(r)
    PROVE  Tends
<1> DEFINE p == [uid |-> Robot, state |-> "Robot", link |-> "none", place |-> Lobby]
           W(n) == AddPlayer(Now, n, p)
<1>1. PICK n \in FreshConns(Now) : Becomes(RoomAddPlayer(W(n), r, n))
  BY DEF AddNpc
<1>2. /\ Consistent(Now) /\ Now \in World /\ Exists(Now, r) /\ IsStarted(Now, r)
  BY DEF Consistency, Consistent, AddNpc, Playing
<1>3. p \in Player /\ p.uid = Robot /\ p.link = "none"
  BY DEF Player, States, Links
<1> HIDE DEF p
<1>4. /\ Consistent(W(n)) /\ W(n).room = Now.room /\ n \in Conns
      /\ Alive(W(n), n) /\ Unlisted(W(n), n) /\ W(n).player[n] = p
      /\ \A a \in Rooms : Carries(Now, W(n), a)
  BY <1>2, <1>3, AddPlayerFresh, AddPlayerParts, AddPlayerCarries
<1> DEFINE w == W(n)
<1> HIDE DEF W
<1>5. w \in World /\ Exists(w, r) /\ IsStarted(w, r) /\ w.player[n].uid = Robot
  BY <1>2, <1>3, <1>4 DEF Exists, IsStarted, Consistent
<1>6. \A a \in Rooms : Carries(w, RoomAddPlayer(w, r, n), a)
  BY <1>4, <1>5, RoomAddCarries
<1>7. \A a \in Rooms : Carries(Now, RoomAddPlayer(w, r, n), a)
  BY <1>4, <1>6 DEF Carries
<1> QED
  BY <1>1, <1>7, LandingTends

\* removeNpc: a game runs.
LEMMA RemoveNpcTends ==
    ASSUME Consistency, NEW r \in Rooms, NEW n \in Conns, RemoveNpc(r, n)
    PROVE  Tends
<1> DEFINE w == Now
           ps == w.room[r].players \ {n}
           q == [w.room[r] EXCEPT !.players = ps]
           v == [w EXCEPT !.room[r] = q]
           x == Erase(v, {n})
<1>1. /\ Consistent(w) /\ w \in World /\ Exists(w, r) /\ IsStarted(w, r)
      /\ n \in w.room[r].players
      /\ Becomes(Erase([w EXCEPT !.room[r].players = @ \ {n}], {n}))
  BY DEF Consistency, Consistent, RemoveNpc, Playing, Now
<1> HIDE DEF w
<1>2. w.room[r] \in Room /\ ps \in SUBSET Conns
  BY <1>1, WorldParts
<1>3. [w EXCEPT !.room[r].players = @ \ {n}] = v
  BY <1>1 DEF World
<1> HIDE DEF ps
<1>4. q \in Room /\ q.ref = w.room[r].ref
  BY <1>2 DEF Room
<1> HIDE DEF q
<1>5. /\ v \in World /\ v.player = w.player /\ v.posts = w.posts
      /\ \A a \in Rooms : v.room[a] = IF a = r THEN q ELSE w.room[a]
  BY <1>1, <1>4, RoomParts
<1>6. Becomes(x)
  BY <1>1, <1>3
<1> HIDE DEF v
<1>7. /\ x.room = v.room /\ x.posts = v.posts
      /\ \A d \in Conns : d # n => x.player[d] = v.player[d]
  BY <1>5, EraseParts
<1> HIDE DEF x
<1>8. ASSUME NEW a \in Rooms PROVE Carries(w, x, a)
  <2>1. CASE a = r
    <3>1. IsStarted(x, a)
      BY <1>1, <1>4, <1>5, <1>7, <2>1 DEF IsStarted
    <3> QED
      BY <3>1, BusyCarries
  <2>2. CASE a # r
    <3>1. Checks(w, a) \subseteq Checks(x, a)
      BY <1>5, <1>7 DEF Checks
    <3>2. Exists(w, a) => \A d \in w.room[a].players : d \in Conns /\ d # n
      BY <1>1, <2>2, WorldParts DEF Consistent, Placed
    <3>3. Exists(x, a) /\ ~IsStarted(x, a) =>
            /\ Exists(w, a) /\ ~IsStarted(w, a)
            /\ x.room[a].players = w.room[a].players
            /\ x.room[a].capacity = w.room[a].capacity
            /\ \A d \in x.room[a].players : /\ IsOnline(x, d) <=> IsOnline(w, d)
                                            /\ x.player[d].uid = w.player[d].uid
      BY <1>5, <1>7, <2>2, <3>2 DEF Exists, IsStarted, IsOnline, Alive
    <3> QED
      BY <3>1, <3>3, Undisturbed
  <2> QED
    BY <2>1, <2>2
<1> QED
  BY <1>6, <1>8, LandingTends DEF w

\* kickPlayer.
LEMMA KickPlayerTends ==
    ASSUME Consistency, NEW c \in Conns, NEW r \in Rooms, NEW t \in Conns, KickPlayer(c, r, t)
    PROVE  Tends
<1> DEFINE w == Now
           u == w.player[t].uid
           Y(x) == LobbyAddPlayer(x, t)
<1>1. /\ Consistent(w) /\ Alive(w, t) /\ w.player[t].place = r /\ Exists(w, r)
      /\ ~IsStarted(w, r)
      /\ \E x \in RoomRemovePlayer(w, r, t, w.player[t]) :
            Becomes([Y(x) EXCEPT !.room[r].rejected = IF u = Robot THEN @ ELSE @ \cup {u}])
  BY DEF Consistency, KickPlayer, BecomesBounded, Now
<1> HIDE DEF w
<1>2. PICK x \in RoomRemovePlayer(w, r, t, w.player[t]) :
            Becomes([Y(x) EXCEPT !.room[r].rejected = IF u = Robot THEN @ ELSE @ \cup {u}])
  BY <1>1
<1>3. /\ Consistent(x) /\ x \in World /\ Exists(x, r) /\ Alive(x, t) /\ t \notin x.lobby
      /\ Unlisted(x, t)
  BY <1>1, RoomRemoveConsistent DEF Consistent
<1>4. \A a \in Rooms : Carries(w, x, a)
  BY <1>1, LeaveCarries
<1> DEFINE y == Y(x)
<1>5. /\ y \in World /\ y.room = x.room
      /\ \A a \in Rooms : Carries(x, y, a)
  <2>1. y.room = x.room
    <3>1. CASE x.player[t].state = "Robot"
      BY <1>3, <3>1, EraseParts DEF LobbyAddPlayer
    <3>2. CASE x.player[t].state # "Robot"
      BY <1>3, <3>2, LobbyAddParts
    <3> QED
      BY <3>1, <3>2
  <2>2. y \in World
    BY <1>3, LobbyAddConsistent DEF Consistent
  <2>3. \A a \in Rooms : Carries(x, y, a)
    BY <1>3, LobbyAddCarries
  <2> QED
    BY <2>1, <2>2, <2>3
<1> DEFINE us == IF u = Robot THEN y.room[r].rejected ELSE y.room[r].rejected \cup {u}
           q == [y.room[r] EXCEPT !.rejected = us]
           v == [y EXCEPT !.room[r] = q]
<1>6. u \in Users \cup {Robot}
  BY <1>1, WorldParts DEF Consistent, Player
<1> HIDE DEF Y, u
<1>7. Exists(y, r) /\ y.room[r] \in Room
  BY <1>3, <1>5, WorldParts DEF Exists
<1>8. us \in SUBSET Users
  BY <1>6, <1>7 DEF Room
<1>9. [y EXCEPT !.room[r].rejected = IF u = Robot THEN @ ELSE @ \cup {u}] = v
  BY <1>5 DEF World
<1> HIDE DEF us
<1>10. /\ q \in Room /\ q.players = y.room[r].players /\ q.ref = y.room[r].ref
       /\ q.capacity = y.room[r].capacity
  BY <1>7, <1>8 DEF Room
<1> HIDE DEF q
<1>11. \A a \in Rooms : Carries(y, v, a)
  BY <1>5, <1>7, <1>10, RoomChangeCarries
<1> HIDE DEF v
<1>12. \A a \in Rooms : Carries(w, v, a)
  BY <1>4, <1>5, <1>11 DEF Carries
<1>13. Becomes(v)
  BY <1>2, <1>9
<1> QED
  BY <1>12, <1>13, LandingTends DEF w

\* The rejection timer.
LEMMA RejectExpiresTends ==
    ASSUME Consistency, NEW r \in Rooms, NEW u \in Users, RejectExpires(r, u)
    PROVE  Tends
<1> DEFINE w == Now
           us == w.room[r].rejected \ {u}
           q == [w.room[r] EXCEPT !.rejected = us]
           v == [w EXCEPT !.room[r] = q]
<1>1. w \in World /\ Exists(w, r) /\ Becomes([w EXCEPT !.room[r].rejected = @ \ {u}])
  BY DEF Consistency, Consistent, RejectExpires
<1> HIDE DEF w
<1>2. w.room[r] \in Room /\ us \in SUBSET Users
  BY <1>1, WorldParts DEF Room
<1>3. [w EXCEPT !.room[r].rejected = @ \ {u}] = v
  BY <1>1 DEF World
<1> HIDE DEF us
<1>4. /\ q \in Room /\ q.players = w.room[r].players /\ q.ref = w.room[r].ref
      /\ q.capacity = w.room[r].capacity
  BY <1>2 DEF Room
<1> HIDE DEF q
<1>5. \A a \in Rooms : Carries(w, v, a)
  BY <1>1, <1>4, RoomChangeCarries
<1> QED
  BY <1>1, <1>3, <1>5, LandingTends DEF w

\* A change to one room alone carries the others.
LEMMA OtherRooms ==
    ASSUME NEW w, NEW v, NEW a, v.player = w.player, v.room[a] = w.room[a],
           Checks(w, a) \subseteq Checks(v, a)
    PROVE  Carries(w, v, a)
<1>1. IdleWithout(v, a) <=> IdleWithout(w, a)
  BY DEF IdleWithout, Seatless, Exists, IsStarted, IsAbandoned, IsOnline, Alive
<1>2. HasGhost(v, a) <=> HasGhost(w, a)
  BY DEF HasGhost, Exists, IsStarted, IsOnline, Alive
<1> QED
  BY <1>1, <1>2 DEF Carries, EmptyChecked, GhostsChecked

\* changeRoom.
LEMMA ChangeRoomTends ==
    ASSUME Consistency, NEW c \in Conns, NEW r \in Rooms, NEW cap \in Capacities,
           ChangeRoom(c, r, cap)
    PROVE  Tends
<1> DEFINE w == Now
           q == [w.room[r] EXCEPT !.capacity = cap]
           v == [w EXCEPT !.room[r] = q]
<1>1. /\ w \in World /\ Exists(w, r) /\ Becomes([w EXCEPT !.room[r].capacity = cap])
      /\ Consistent(w) /\ IsOnline(w, c) /\ w.room[r].owner = c
  BY DEF Consistency, Consistent, ChangeRoom, SendsTo, Now
<1> HIDE DEF w
<1>2. w.room[r] \in Room /\ cap \in Nat
  BY <1>1, WorldParts, BoundsAreNumbers
<1>3. [w EXCEPT !.room[r].capacity = cap] = v
  BY <1>1 DEF World
<1>4. q \in Room /\ q.players = w.room[r].players /\ q.ref = w.room[r].ref
  BY <1>2 DEF Room
<1> HIDE DEF q
<1>5. /\ v.player = w.player /\ v.posts = w.posts
      /\ \A a \in Rooms : v.room[a] = IF a = r THEN q ELSE w.room[a]
  BY <1>1, <1>4, RoomParts
<1> HIDE DEF v
<1>6. \A a \in Rooms : Checks(w, a) \subseteq Checks(v, a)
  BY <1>5 DEF Checks
<1>7. Carries(w, v, r)
  <2>1. c \in v.room[r].players
    BY <1>1, <1>4, <1>5, ConstantsDistinct DEF Consistent, OwnersSit
  <2>2. ~IdleWithout(v, r)
    BY <1>1, <1>5, <2>1 DEF IdleWithout, IsAbandoned, IsOnline, Alive
  <2>3. HasGhost(v, r) => HasGhost(w, r)
    BY <1>1, <1>4, <1>5 DEF HasGhost, IsStarted, IsOnline, Alive
  <2> QED
    BY <1>6, <2>2, <2>3 DEF Carries, EmptyChecked, GhostsChecked
<1>8. \A a \in Rooms : Carries(w, v, a)
  BY <1>5, <1>6, <1>7, OtherRooms
<1> QED
  BY <1>1, <1>3, <1>8, LandingTends DEF w

\* Another reference count touches only the room that has it.
LEMMA RefParts ==
    ASSUME NEW w \in World, NEW r \in Rooms, Exists(w, r), NEW n \in Int
    PROVE  LET v == [w EXCEPT !.room[r].ref = n]
           IN  /\ v \in World /\ v.player = w.player /\ v.posts = w.posts
               /\ Exists(v, r) /\ v.room[r].ref = n /\ v.room[r].players = w.room[r].players
               /\ v.room[r].capacity = w.room[r].capacity
               /\ \A a \in Rooms : a # r => v.room[a] = w.room[a]
<1> DEFINE q == [w.room[r] EXCEPT !.ref = n]
           v == [w EXCEPT !.room[r] = q]
<1>1. w.room[r] \in Room
  BY WorldParts
<1>2. [w EXCEPT !.room[r].ref = n] = v
  BY DEF World
<1>3. q \in Room /\ q.players = w.room[r].players /\ q.ref = n /\ q.capacity = w.room[r].capacity
  BY <1>1 DEF Room
<1> HIDE DEF q
<1>4. /\ v \in World /\ v.player = w.player /\ v.posts = w.posts
      /\ \A a \in Rooms : v.room[a] = IF a = r THEN q ELSE w.room[a]
  BY <1>3, RoomParts
<1> HIDE DEF v
<1> QED
  BY <1>2, <1>3, <1>4, NoneIsNoRecord DEF Exists

\* startGame.
LEMMA StartGameTends ==
    ASSUME Consistency, NEW c \in Conns, NEW r \in Rooms, StartGame(c, r)
    PROVE  Tends
<1> DEFINE n == Now.room[r].ref + 1
           v == [Now EXCEPT !.room[r].ref = n]
<1>1. Now \in World /\ Exists(Now, r)
  BY DEF Consistency, Consistent, StartGame
<1>2. n \in Int
  BY <1>1, WorldParts DEF Room
<1>3. Becomes(Kick(Now, room[r].players)) \/ Becomes(v)
  BY DEF StartGame
<1>4. /\ v.player = Now.player /\ v.posts = Now.posts
      /\ Exists(v, r) /\ v.room[r].ref = n /\ v.room[r].players = Now.room[r].players
      /\ v.room[r].capacity = Now.room[r].capacity
      /\ \A a \in Rooms : a # r => v.room[a] = Now.room[a]
  <2> HIDE DEF n
  <2> QED
    BY <1>1, <1>2, RefParts
<1> HIDE DEF v
<1>5. IsStarted(v, r) \/ ~IsStarted(Now, r)
  BY <1>1, <1>2, <1>4, WorldParts DEF IsStarted, Room
<1>6. \A a \in Rooms : Checks(Now, a) \subseteq Checks(v, a)
  BY <1>4 DEF Checks
<1> HIDE DEF n
<1>7. Carries(Now, v, r)
  <2>1. CASE IsStarted(v, r)
    BY <2>1, BusyCarries
  <2>2. CASE ~IsStarted(v, r)
    <3>1. /\ \A d \in v.room[r].players : /\ IsOnline(v, d) <=> IsOnline(Now, d)
                                          /\ v.player[d].uid = Now.player[d].uid
          /\ ~IsStarted(Now, r) /\ v.room[r].players = Now.room[r].players
          /\ v.room[r].capacity = Now.room[r].capacity
      BY <1>4, <1>5, <2>2 DEF IsOnline, Alive
    <3> QED
      BY <1>1, <1>6, <3>1, Undisturbed
  <2> QED
    BY <2>1, <2>2
<1>8. \A a \in Rooms : Carries(Now, v, a)
  BY <1>4, <1>6, <1>7, OtherRooms
<1>9. \A a \in Rooms : Carries(Now, Kick(Now, room[r].players), a)
  BY <1>1, KickCarries
<1> QED
  BY <1>3, <1>8, <1>9, LandingTends

\* decreaseRefCount: the end of the game posts the check.
LEMMA DecreaseRefCountTends ==
    ASSUME Consistency, NEW r \in Rooms, DecreaseRefCount(r)
    PROVE  Tends
<1> DEFINE n == Now.room[r].ref - 1
           w == [Now EXCEPT !.room[r].ref = n]
           v == CheckAbandoned(w, r, "NoRefCount")
<1>1. Now \in World /\ Exists(Now, r)
  BY DEF Consistency, Consistent, DecreaseRefCount, Playing
<1>2. n \in Int
  BY <1>1, WorldParts DEF Room
<1>3. Becomes(IF IsStarted(w, r) THEN w ELSE v)
  BY DEF DecreaseRefCount, BecomesBounded
<1> HIDE DEF n
<1>4. /\ w \in World /\ w.player = Now.player /\ w.posts = Now.posts
      /\ \A a \in Rooms : a # r => w.room[a] = Now.room[a]
  BY <1>1, <1>2, RefParts
<1> HIDE DEF w
<1>5. \A a \in Rooms : Checks(Now, a) = Checks(w, a)
  BY <1>4 DEF Checks
<1>6. /\ v.player = w.player /\ v.room = w.room /\ "NoRefCount" \in Checks(v, r)
      /\ \A a \in Rooms : Checks(w, a) \subseteq Checks(v, a)
  <2>1. "NoRefCount" \in Reasons
    BY DEF Reasons
  <2> QED
    BY <1>4, <2>1, PostAdds
<1> HIDE DEF v
<1>7. \A a \in Rooms : a # r => Carries(Now, w, a) /\ Carries(Now, v, a)
  BY <1>4, <1>5, <1>6, OtherRooms
<1>8. Carries(Now, v, r)
  BY <1>6 DEF Carries, EmptyChecked, GhostsChecked
<1>9. IsStarted(w, r) => Carries(Now, w, r)
  BY BusyCarries
<1>10. CASE IsStarted(w, r)
  BY <1>3, <1>7, <1>9, <1>10, LandingTends
<1>11. CASE ~IsStarted(w, r)
  BY <1>3, <1>7, <1>8, <1>11, LandingTends
<1> QED
  BY <1>10, <1>11

\* trust.
LEMMA TrustTends ==
    ASSUME Consistency, NEW c \in Conns, NEW r \in Rooms, Trust(c, r)
    PROVE  Tends
<1> DEFINE w == Now
           v == [w EXCEPT !.player[c].state = IF @ = "Trust" THEN "Online" ELSE "Trust"]
<1>1. /\ Consistent(w) /\ w \in World /\ Alive(w, c) /\ w.player[c].place = r
      /\ Exists(w, r) /\ IsStarted(w, r) /\ Becomes(v)
  BY DEF Consistency, Consistent, Trust, SendsTo, IsOnline, Now
<1> HIDE DEF w
<1>2. /\ v.room = w.room /\ v.posts = w.posts
      /\ \A d \in Conns : d # c => v.player[d] = w.player[d]
  BY <1>1 DEF World
<1> HIDE DEF v
<1>3. \A a \in Rooms : Exists(w, a) /\ ~IsStarted(w, a) => c \notin w.room[a].players
  BY <1>1 DEF Consistent, Placed
<1>4. \A a \in Rooms : Carries(w, v, a)
  BY <1>1, <1>2, <1>3, OnePlayer
<1> QED
  BY <1>1, <1>4, LandingTends DEF w

\* gameOver: nobody gains or loses a socket.
LEMMA GameOverTends ==
    ASSUME Consistency, NEW r \in Rooms, GameOver(r)
    PROVE  Tends
<1> DEFINE humans == {c \in room[r].players : player[c].uid # Robot}
           f == [c \in Conns |-> IF c \in humans /\ Now.player[c].state = "Trust"
                    THEN [Now.player[c] EXCEPT !.state = "Online"] ELSE Now.player[c]]
           w == [Now EXCEPT !.player = [c \in Conns |->
                    IF c \in humans /\ @[c].state = "Trust"
                    THEN [@[c] EXCEPT !.state = "Online"] ELSE @[c]]]
<1>1. PICK cs : Becomes(Kick(w, cs))
  BY DEF GameOver
<1>2. /\ Consistent(Now) /\ Now \in World
      /\ \A c \in humans : c \in Conns /\ Alive(Now, c)
  BY WorldParts DEF Consistency, Consistent, GameOver, Playing, Placed, Now
<1> HIDE DEF humans
<1>3. w = [Now EXCEPT !.player = f]
  BY <1>2 DEF World
<1>4. \A c \in Conns :
        \/ f[c] = Now.player[c]
        \/ /\ f[c] \in Player /\ f[c].uid = Now.player[c].uid /\ Now.player[c] # None
           /\ f[c].link = Now.player[c].link
  <2> TAKE c \in Conns
  <2>1. CASE c \in humans /\ Now.player[c].state = "Trust"
    <3>1. Now.player[c] \in Player /\ Now.player[c] # None /\ "Online" \in States
      BY <1>2, <2>1, WorldParts DEF States, Alive
    <3>2. f[c] = [Now.player[c] EXCEPT !.state = "Online"]
      BY <2>1
    <3> HIDE DEF f
    <3> QED
      BY <3>1, <3>2, WithState
  <2>2. CASE ~(c \in humans /\ Now.player[c].state = "Trust")
    BY <2>2
  <2> QED
    BY <2>1, <2>2
<1>5. f \in [Conns -> Player \cup {None}]
  <2>1. \A c \in Conns : f[c] \in Player \cup {None}
    <3> HIDE DEF f
    <3> QED
      BY <1>2, <1>4, WorldParts
  <2> QED
    BY <2>1
<1> HIDE DEF f, w
<1>6. w \in World /\ w.player = f /\ w.room = Now.room /\ w.posts = Now.posts
  BY <1>2, <1>3, <1>5 DEF World
<1>7. \A c \in Conns : /\ IsOnline(w, c) <=> IsOnline(Now, c)
                       /\ w.player[c].uid = Now.player[c].uid
  BY <1>4, <1>6, NoneIsNoRecord DEF IsOnline, Alive
<1>8. \A a \in Rooms : Exists(Now, a) => \A c \in Now.room[a].players : c \in Conns
  BY <1>2, WorldParts
<1>9. \A a \in Rooms : Carries(Now, w, a)
  BY <1>6, <1>7, <1>8, OnlyPlayers
<1>10. \A a \in Rooms : Carries(w, Kick(w, cs), a)
  BY <1>6, KickCarries
<1>11. \A a \in Rooms : Carries(Now, Kick(w, cs), a)
  BY <1>9, <1>10 DEF Carries
<1> QED
  BY <1>1, <1>11, LandingTends

\* A check runs: of the checks that wait for its room it takes away one.
LEMMA RunPostTends ==
    ASSUME Consistency, RunPost
    PROVE  Tends
<1> DEFINE p == Head(Now.posts)
           r == p[1]
           z == p[2]
           ps == Tail(Now.posts)
           w == [Now EXCEPT !.posts = ps]
<1>1. Consistent(Now) /\ Now \in World /\ Now.posts \in Seq(Post) /\ Now.posts # <<>>
  BY WorldParts DEF Consistency, Consistent, RunPost, Now
<1>2. /\ p \in Post /\ r \in Rooms /\ z \in Reasons /\ p = <<r, z>> /\ ps \in Seq(Post)
      /\ \A i \in DOMAIN Now.posts : Now.posts[i] = p \/ \E j \in DOMAIN ps : ps[j] = Now.posts[i]
  <2>1. p \in Post /\ ps \in Seq(Post)
    BY <1>1
  <2>2. \A i \in DOMAIN Now.posts : i = 1 \/ (i - 1 \in DOMAIN ps /\ ps[i - 1] = Now.posts[i])
    <3>1. Len(ps) = Len(Now.posts) - 1 /\ Len(Now.posts) \in Nat /\ Len(Now.posts) # 0
      BY <1>1
    <3>2. \A j \in 1..Len(ps) : ps[j] = Now.posts[j + 1]
      BY <1>1
    <3> HIDE DEF ps
    <3>3. DOMAIN ps = 1..Len(ps) /\ DOMAIN Now.posts = 1..Len(Now.posts) /\ Len(ps) \in Nat
      BY <1>1, <2>1
    <3>4. ASSUME NEW i \in 1..Len(Now.posts), i # 1
          PROVE  i - 1 \in 1..Len(ps) /\ ps[i - 1] = Now.posts[i]
      <4>1. i - 1 \in 1..Len(ps) /\ (i - 1) + 1 = i
        BY <3>1, <3>4
      <4> QED
        BY <3>2, <4>1
    <3> QED
      BY <3>3, <3>4
  <2>3. Now.posts[1] = p
    BY <1>1
  <2>4. r \in Rooms /\ z \in Reasons /\ p = <<r, z>>
    BY <2>1 DEF Post
  <2> HIDE DEF p, ps
  <2> QED
    BY <2>1, <2>2, <2>3, <2>4
<1>3. IF Exists(w, r) THEN \E x \in CheckAbandonedNow(w, r, z) : Becomes(x)
      ELSE Becomes(w)
  BY DEF RunPost, Now
<1>4. w \in World /\ w.player = Now.player /\ w.room = Now.room /\ w.posts = ps
  BY <1>1, <1>2 DEF World
<1>5. Consistent(w)
  BY <1>1, <1>2, PostsConsistent
<1> HIDE DEF w, ps
<1>6. \A a \in Rooms : \A y \in Reasons : <<a, y>> # p /\ y \in Checks(Now, a) => y \in Checks(w, a)
  BY <1>2, <1>4 DEF Checks
<1> HIDE DEF p, r, z
<1>7. \A a \in Rooms : a # r => Carries(Now, w, a)
  <2> SUFFICES ASSUME NEW a \in Rooms, a # r PROVE Carries(Now, w, a)
    OBVIOUS
  <2>1. Checks(Now, a) \subseteq Checks(w, a)
    BY <1>2, <1>6 DEF Checks
  <2> QED
    BY <1>4, <2>1, OtherRooms
<1>8. z # "NoRefCount" /\ GhostsChecked(Now, r) => GhostsChecked(w, r)
  <2>1. HasGhost(w, r) <=> HasGhost(Now, r)
    BY <1>4 DEF HasGhost, Exists, IsStarted, IsOnline, Alive
  <2>2. "NoRefCount" \in Checks(Now, r) /\ z # "NoRefCount" => "NoRefCount" \in Checks(w, r)
    BY <1>2, <1>6 DEF Reasons
  <2> QED
    BY <2>1, <2>2 DEF GhostsChecked
<1>9. CASE Exists(w, r)
  <2>1. PICK x \in CheckAbandonedNow(w, r, z) : Becomes(x)
    BY <1>3, <1>9
  <2>2. /\ \A a \in Rooms : a # r => Carries(w, x, a)
        /\ EmptyChecked(x, r)
        /\ z = "NoRefCount" \/ GhostsChecked(w, r) => GhostsChecked(x, r)
    BY <1>2, <1>5, <1>9, CheckCarries
  <2>3. \A a \in Rooms : Carries(Now, x, a)
    BY <1>7, <1>8, <2>2 DEF Carries
  <2> QED
    BY <2>1, <2>3, LandingTends
<1>10. CASE ~Exists(w, r)
  <2>1. \A a \in Rooms : Carries(Now, w, a)
    BY <1>7, <1>10, BusyCarries
  <2> QED
    BY <1>3, <1>10, <2>1, LandingTends
<1> QED
  BY <1>9, <1>10

\* _refreshMd5: rooms grow outdated, and a kick only begins to close a socket.
LEMMA RefreshMd5Tends ==
    ASSUME Consistency, NEW changed \in BOOLEAN, RefreshMd5(changed)
    PROVE  Tends
<1> DEFINE old == {r \in Rooms : Exists(Now, r) /\ (changed \/ room[r].outdated)}
           g == [r \in Rooms |->
                    IF r \in old THEN [Now.room[r] EXCEPT !.outdated = TRUE] ELSE Now.room[r]]
           w == [Now EXCEPT !.room = [r \in Rooms |->
                    IF r \in old THEN [@[r] EXCEPT !.outdated = TRUE] ELSE @[r]]]
<1>1. PICK cs : Becomes(Kick(w, cs))
  BY DEF RefreshMd5
<1>2. Now \in World /\ \A r \in old : r \in Rooms /\ Exists(Now, r)
  BY DEF Consistency, Consistent
<1> HIDE DEF old
<1>3. w = [Now EXCEPT !.room = g]
  BY <1>2 DEF World
<1>4. \A r \in Rooms :
        \/ g[r] = Now.room[r]
        \/ /\ g[r] \in Room /\ Now.room[r] # None
           /\ g[r].players = Now.room[r].players /\ g[r].ref = Now.room[r].ref
           /\ g[r].capacity = Now.room[r].capacity
  <2> TAKE r \in Rooms
  <2>1. CASE r \in old
    <3>1. Now.room[r] \in Room /\ Now.room[r] # None
      BY <1>2, <2>1, WorldParts DEF Exists
    <3>2. g[r] = [Now.room[r] EXCEPT !.outdated = TRUE]
      BY <2>1
    <3> HIDE DEF g
    <3> QED
      BY <3>1, <3>2 DEF Room
  <2>2. CASE r \notin old
    BY <2>2
  <2> QED
    BY <2>1, <2>2
<1>5. g \in [Rooms -> Room \cup {None}]
  <2>1. \A r \in Rooms : g[r] \in Room \cup {None}
    <3> HIDE DEF g
    <3> QED
      BY <1>2, <1>4, WorldParts
  <2> QED
    BY <2>1
<1> HIDE DEF g, w
<1>6. w \in World /\ w.player = Now.player /\ w.room = g /\ w.posts = Now.posts
  BY <1>2, <1>3, <1>5 DEF World
<1>7. ASSUME NEW a \in Rooms PROVE Carries(Now, w, a)
  <2>1. /\ Exists(w, a) => Exists(Now, a)
        /\ w.room[a].players = Now.room[a].players /\ w.room[a].ref = Now.room[a].ref
        /\ w.room[a].capacity = Now.room[a].capacity
    BY <1>4, <1>6 DEF Exists
  <2>2. Checks(Now, a) \subseteq Checks(w, a)
    BY <1>6 DEF Checks
  <2>3. Exists(w, a) /\ ~IsStarted(w, a) =>
          /\ Exists(Now, a) /\ ~IsStarted(Now, a)
          /\ w.room[a].players = Now.room[a].players
          /\ w.room[a].capacity = Now.room[a].capacity
          /\ \A d \in w.room[a].players : /\ IsOnline(w, d) <=> IsOnline(Now, d)
                                          /\ w.player[d].uid = Now.player[d].uid
    BY <1>6, <2>1 DEF IsStarted, IsOnline, Alive
  <2> QED
    BY <2>2, <2>3, Undisturbed
<1>8. \A a \in Rooms : Carries(Now, Kick(w, cs), a)
  BY <1>6, <1>7, KickCarries, CarriesOn
<1> QED
  BY <1>1, <1>8, LandingTends

\* killroom.
LEMMA KillRoomTends ==
    ASSUME Consistency, NEW r \in Rooms, KillRoom(r)
    PROVE  Tends
<1>1. PICK cs : Becomes(CheckAbandoned(Kick(Now, cs), r, "NoHuman"))
  BY DEF KillRoom, BecomesBounded
<1> DEFINE w == Kick(Now, cs)
           v == CheckAbandoned(w, r, "NoHuman")
<1>2. /\ w \in World /\ \A a \in Rooms : Carries(Now, w, a)
  BY KickParts, KickCarries DEF Consistency, Consistent
<1> HIDE DEF w
<1>3. v.player = w.player /\ v.room = w.room /\ \A a \in Rooms : Checks(w, a) \subseteq Checks(v, a)
  <2>1. "NoHuman" \in Reasons
    BY DEF Reasons
  <2> QED
    BY <1>2, <2>1, PostAdds
<1> HIDE DEF v
<1>4. \A a \in Rooms : Carries(w, v, a)
  BY <1>3, OtherRooms
<1>5. \A a \in Rooms : Carries(Now, v, a)
  BY <1>2, <1>4, CarriesOn
<1> QED
  BY <1>1, <1>5, LandingTends DEF v, w

\* checklobby: who is in the lobby sits in no room.
LEMMA CheckLobbyTends ==
    ASSUME Consistency, CheckLobby
    PROVE  Tends
<1> DEFINE w == Now
           dead == {c \in lobby : ~IsOnline(Now, c)}
           e == Erase(w, dead)
           v == [e EXCEPT !.lobby = @ \ dead]
<1>1. Becomes(v)
  BY DEF CheckLobby
<1>2. /\ Consistent(w) /\ w \in World
      /\ \A c \in dead : c \in Conns /\ Alive(w, c) /\ w.player[c].place = Lobby
  BY WorldParts DEF Consistency, Consistent, Placed, Now
<1> HIDE DEF dead, w
<1>3. \A c \in dead : Unlisted(w, c)
  BY <1>2, LobbyIsUnlisted
<1>4. e \in World /\ \A a \in Rooms : Carries(w, e, a)
  BY <1>2, <1>3, EraseParts, EraseCarries
<1> HIDE DEF e
<1>5. v.player = e.player /\ v.room = e.room /\ v.posts = e.posts
  BY <1>4 DEF World
<1> HIDE DEF v
<1>6. \A a \in Rooms : Carries(e, v, a)
  BY <1>5, OtherRooms DEF Checks
<1>7. \A a \in Rooms : Carries(w, v, a)
  BY <1>4, <1>6, CarriesOn
<1> QED
  BY <1>1, <1>7, LandingTends DEF w

-----------------------------------------------------------------------------
(* Connections are kept *)

\* The room or the lobby that c believes to be in lists it.
ListedIn(w, c) ==
    IF w.player[c].place = Lobby THEN c \in w.lobby
    ELSE Exists(w, w.player[c].place) /\
         c \in w.room[w.player[c].place].players \cup w.room[w.player[c].place].observers

\* If c has a socket in w, it still has one in v, under the same account, and is still
\* listed where it believes to be.
Spares(w, v, c) ==
    IsOnline(w, c) =>
        /\ IsOnline(v, c) /\ v.player[c].uid = w.player[c].uid
        /\ ListedIn(w, c) => ListedIn(v, c)

\* The lists that name c in w do so in v.
SeatsKept(w, v, c) ==
    /\ c \in w.lobby => c \in v.lobby
    /\ \A r \in Rooms : Exists(w, r) /\ c \in w.room[r].players \cup w.room[r].observers =>
         Exists(v, r) /\ c \in v.room[r].players \cup v.room[r].observers

\* Steps in a row.
LEMMA SparesOn ==
    ASSUME NEW w, NEW v, NEW x, NEW c, Spares(w, v, c), Spares(v, x, c)
    PROVE  Spares(w, x, c)
BY DEF Spares

\* A step that keeps the object of c, but for its state, and its seats.
LEMMA SparedIfLeft ==
    ASSUME NEW w \in World, NEW v, NEW c \in Conns, SeatsKept(w, v, c),
           IsOnline(w, c) => /\ IsOnline(v, c) /\ v.player[c].uid = w.player[c].uid
                             /\ v.player[c].place = w.player[c].place
    PROVE  Spares(w, v, c)
<1>1. IsOnline(w, c) => w.player[c].place \in Rooms \cup {Lobby}
  BY WorldParts DEF IsOnline, Player
<1> QED
  BY <1>1 DEF Spares, SeatsKept, ListedIn

\* The same when the object of c is left alone.
LEMMA SparedIfSame ==
    ASSUME NEW w \in World, NEW v, NEW c \in Conns, SeatsKept(w, v, c),
           v.player[c] = w.player[c]
    PROVE  Spares(w, v, c)
BY SparedIfLeft DEF IsOnline, Alive

\* kick: the socket is closed later.
LEMMA KickSpares ==
    ASSUME NEW w \in World, NEW cs, NEW c \in Conns
    PROVE  Spares(w, Kick(w, cs), c)
<1> DEFINE v == Kick(w, cs)
<1>1. v.lobby = w.lobby /\ v.room = w.room
  BY KickParts
<1>2. SeatsKept(w, v, c)
  BY <1>1 DEF SeatsKept, Exists
<1>3. CASE c \in cs /\ IsOnline(w, c)
  <2>1. w.player[c] \in Player /\ "closing" \in Links
    BY <1>3, WorldParts DEF IsOnline, Links
  <2>2. v.player[c] = [w.player[c] EXCEPT !.link = "closing"]
    BY <1>3, KickParts
  <2> HIDE DEF v
  <2>3. /\ v.player[c] \in Player /\ v.player[c].link = "closing"
        /\ v.player[c].uid = w.player[c].uid /\ v.player[c].place = w.player[c].place
    BY <2>1, <2>2, WithLink
  <2>4. IsOnline(v, c)
    BY <2>3, NoneIsNoRecord DEF IsOnline, Alive
  <2>5. Spares(w, v, c)
    BY <1>2, <2>3, <2>4, SparedIfLeft
  <2> QED
    BY <2>5 DEF v
<1>4. CASE ~(c \in cs /\ IsOnline(w, c))
  <2>1. v.player[c] = w.player[c]
    BY <1>4, KickParts
  <2> QED
    BY <1>2, <2>1, SparedIfSame
<1> QED
  BY <1>3, <1>4

\* deletePlayer, without the destructor, of others or of players without a socket.
LEMMA EraseSpares ==
    ASSUME NEW w \in World, NEW cs, NEW c \in Conns, IsOnline(w, c) => c \notin cs
    PROVE  Spares(w, Erase(w, cs), c)
<1>1. /\ Erase(w, cs).lobby = w.lobby /\ Erase(w, cs).room = w.room
      /\ c \notin cs => Erase(w, cs).player[c] = w.player[c]
  BY EraseParts
<1>2. SeatsKept(w, Erase(w, cs), c)
  BY <1>1 DEF SeatsKept, Exists
<1>3. c \notin cs => Spares(w, Erase(w, cs), c)
  BY <1>1, <1>2, SparedIfSame
<1> QED
  BY <1>3 DEF Spares

\* addPlayer of the user manager: a new object replaces none.
LEMMA AddPlayerSpares ==
    ASSUME NEW w \in World, NEW n \in FreshConns(w), NEW p \in Player, NEW c \in Conns
    PROVE  Spares(w, AddPlayer(w, n, p), c)
<1>1. n \in Conns /\ ~Alive(w, n)
  BY FreshIsUnlisted
<1>2. /\ AddPlayer(w, n, p).lobby = w.lobby /\ AddPlayer(w, n, p).room = w.room
      /\ c # n => AddPlayer(w, n, p).player[c] = w.player[c]
  BY <1>1, AddPlayerParts
<1>3. SeatsKept(w, AddPlayer(w, n, p), c)
  BY <1>2 DEF SeatsKept, Exists
<1>4. c # n => Spares(w, AddPlayer(w, n, p), c)
  BY <1>2, <1>3, SparedIfSame
<1> QED
  BY <1>1, <1>4 DEF Spares, IsOnline

\* addPlayer of the lobby: a robot that goes has no socket, and who has one is listed.
LEMMA LobbyAddSpares ==
    ASSUME NEW w \in World, RobotsUnlinked(w), NEW d \in Conns, Alive(w, d), NEW c \in Conns
    PROVE  /\ Spares(w, LobbyAddPlayer(w, d), c)
           /\ IsOnline(w, d) => ListedIn(LobbyAddPlayer(w, d), d)
<1>1. CASE w.player[d].state = "Robot"
  <2>1. ~IsOnline(w, d)
    BY <1>1 DEF RobotsUnlinked, IsOnline
  <2>2. LobbyAddPlayer(w, d) = Erase(w, {d})
    BY <1>1 DEF LobbyAddPlayer
  <2> QED
    BY <2>1, <2>2, EraseSpares
<1>2. CASE w.player[d].state # "Robot"
  <2> DEFINE v == LobbyAddPlayer(w, d)
             p == [w.player[d] EXCEPT !.place = Lobby]
  <2>1. /\ v.lobby = w.lobby \cup {d} /\ v.room = w.room
        /\ v.player[c] = IF c = d THEN p ELSE w.player[c]
    BY <1>2, LobbyAddParts
  <2> HIDE DEF v
  <2>2. SeatsKept(w, v, c)
    BY <2>1 DEF SeatsKept, Exists
  <2>3. w.player[d] \in Player
    BY WorldParts
  <2>4. p \in Player /\ p.uid = w.player[d].uid /\ p.link = w.player[d].link /\ p.place = Lobby
    BY <2>3, WithPlace
  <2> HIDE DEF p
  <2>5. ListedIn(v, d)
    <3>1. v.player[d] = p /\ d \in v.lobby
      BY <1>2, <2>1, LobbyAddParts DEF v, p
    <3> QED
      BY <2>4, <3>1 DEF ListedIn
  <2>6. ASSUME c = d PROVE Spares(w, v, c)
    <3>1. IsOnline(w, c) => IsOnline(v, c) /\ v.player[c].uid = w.player[c].uid
      BY <2>1, <2>4, <2>6, NoneIsNoRecord DEF IsOnline, Alive
    <3> QED
      BY <2>5, <2>6, <3>1 DEF Spares
  <2>7. ASSUME c # d PROVE Spares(w, v, c)
    BY <2>1, <2>2, <2>7, SparedIfSame
  <2> QED
    BY <2>5, <2>6, <2>7 DEF v
<1> QED
  BY <1>1, <1>2

\* removePlayer of the lobby, of somebody else or of somebody who is in a room.
LEMMA LobbyRemoveSpares ==
    ASSUME NEW w \in World, NEW d, NEW c \in Conns, c # d \/ w.player[c].place # Lobby
    PROVE  Spares(w, LobbyRemovePlayer(w, d), c)
<1> DEFINE v == LobbyRemovePlayer(w, d)
<1>1. v.player = w.player /\ v.room = w.room /\ v.lobby = w.lobby \ {d}
  BY DEF LobbyRemovePlayer, World
<1> HIDE DEF v
<1>2. Spares(w, v, c)
  BY <1>1 DEF Spares, ListedIn, IsOnline, Alive, Exists
<1> QED
  BY <1>2 DEF v

\* A change to a room that drops nobody but players without a socket.
LEMMA RoomChangeSpares ==
    ASSUME NEW w \in World, NEW r \in Rooms, Exists(w, r), NEW q \in Room, NEW c \in Conns,
           IsOnline(w, c) /\ c \in w.room[r].players \cup w.room[r].observers =>
              c \in q.players \cup q.observers
    PROVE  Spares(w, [w EXCEPT !.room[r] = q], c)
<1> DEFINE v == [w EXCEPT !.room[r] = q]
<1>1. /\ v.player = w.player /\ v.lobby = w.lobby
      /\ \A b \in Rooms : v.room[b] = IF b = r THEN q ELSE w.room[b]
  <2>1. q \in Room \cup {None}
    OBVIOUS
  <2> HIDE DEF v
  <2> QED
    BY <2>1, RoomParts DEF v
<1> HIDE DEF v
<1>2. CASE IsOnline(w, c)
  <2>1. SeatsKept(w, v, c)
    BY <1>1, <1>2, NoneIsNoRecord DEF SeatsKept, Exists
  <2> QED
    BY <1>1, <2>1, SparedIfSame DEF v
<1>3. CASE ~IsOnline(w, c)
  BY <1>3 DEF Spares
<1> QED
  BY <1>2, <1>3

\* Room::addPlayer takes nobody else's seat, and gives d one.
LEMMA RoomAddSpares ==
    ASSUME NEW w \in World, NEW r \in Rooms, Exists(w, r), NEW d \in Conns, Alive(w, d),
           NEW c \in Conns
    PROVE  LET v == RoomAddPlayer(w, r, d)
           IN  /\ v \in World /\ v.player[d].place = r
               /\ Spares(w, v, c)
<1> DEFINE o == IF w.room[r].owner = None /\ w.player[d].uid # Robot THEN d ELSE w.room[r].owner
           ps == w.room[r].players \cup {d}
           q == [w.room[r] EXCEPT !.players = w.room[r].players \cup {d}, !.owner = o]
           p == [w.player[d] EXCEPT !.place = r]
           f == [w.player EXCEPT ![d] = p]
           g == [w.room EXCEPT ![r] = q]
           v == RoomAddPlayer(w, r, d)
<1>1. /\ w.player[d] \in Player /\ w.room[r] \in Room /\ r \in Rooms \cup {Lobby}
      /\ ps \in SUBSET Conns /\ o \in Conns \cup {None}
  BY WorldParts
<1>2. /\ p \in Player /\ p.uid = w.player[d].uid /\ p.link = w.player[d].link /\ p.place = r
  BY <1>1, WithPlace
<1>3. q \in Room /\ q.players = ps /\ q.observers = w.room[r].observers
  <2>1. q = [w.room[r] EXCEPT !.players = ps, !.owner = o]
    OBVIOUS
  <2> HIDE DEF ps, o, q
  <2> QED
    BY <1>1, <2>1 DEF Room
<1>4. v = [w EXCEPT !.player = f, !.room = g]
  <2>1. v = [w EXCEPT !.player[d].place = r, !.room[r] = q]
    BY DEF RoomAddPlayer
  <2> HIDE DEF v, q
  <2> QED
    BY <1>1, <2>1 DEF World
<1>5. f \in [Conns -> Player \cup {None}] /\ g \in [Rooms -> Room \cup {None}]
  BY <1>1, <1>2, <1>3, WorldParts
<1>6. /\ \A e \in Conns : f[e] = IF e = d THEN p ELSE w.player[e]
      /\ \A e \in Rooms : g[e] = IF e = r THEN q ELSE w.room[e]
      /\ p # None /\ q # None
  BY <1>1, <1>2, <1>3, WorldParts, NoneIsNoRecord
<1> HIDE DEF v, f, g, p, q
<1>7. v \in World /\ v.player = f /\ v.room = g /\ v.lobby = w.lobby
  BY <1>4, <1>5 DEF World
<1>8. SeatsKept(w, v, c)
  BY <1>3, <1>6, <1>7 DEF SeatsKept, Exists
<1>9. CASE c = d
  <2>1. IsOnline(w, c) => IsOnline(v, c) /\ v.player[c].uid = w.player[c].uid
    BY <1>2, <1>6, <1>7, <1>9 DEF IsOnline, Alive
  <2>2. ListedIn(v, c)
    BY <1>2, <1>3, <1>6, <1>7, <1>9, ConstantsDistinct DEF ListedIn, Exists
  <2>3. Spares(w, v, c)
    BY <2>1, <2>2 DEF Spares
  <2> QED
    BY <1>2, <1>6, <1>7, <2>3 DEF v
<1>10. CASE c # d
  <2>1. Spares(w, v, c)
    BY <1>6, <1>7, <1>8, <1>10, SparedIfSame
  <2> QED
    BY <1>2, <1>6, <1>7, <2>1 DEF v
<1> QED
  BY <1>9, <1>10

\* The end of removePlayer hands over a room, and moves nobody.
LEMMA ResettleSpares ==
    ASSUME NEW w \in World, NEW r \in Rooms, Exists(w, r), NEW gone,
           NEW x \in Resettle(w, r, gone), NEW c \in Conns
    PROVE  Spares(w, x, c)
<1>1. /\ x.player = w.player /\ x.lobby = w.lobby
      /\ \A a \in Rooms : /\ Exists(x, a) <=> Exists(w, a)
                          /\ Exists(w, a) => /\ x.room[a].players = w.room[a].players
                                             /\ x.room[a].observers = w.room[a].observers
  BY ResettleParts
<1>2. SeatsKept(w, x, c)
  BY <1>1 DEF SeatsKept
<1> QED
  BY <1>1, <1>2, SparedIfSame

\* The new object of somebody who runs away has the socket of the old one.
LEMMA CreateRunnedParts ==
    ASSUME NEW w \in World, NEW r \in Rooms, NEW p \in Player, p.link # "none",
           NEW x \in CreateRunnedPlayer(w, r, p)
    PROVE  /\ x \in World
           /\ \A c \in Conns : Spares(w, x, c)
           /\ \A d \in Conns : Alive(w, d) => x.player[d] = w.player[d]
           /\ \E n \in Conns : ~Alive(w, n) /\ IsOnline(x, n) /\ x.player[n].uid = p.uid
<1>1. PICK n \in FreshConns(w), died \in BOOLEAN :
        x = LobbyAddPlayer(AddPlayer(w, n,
              [uid |-> p.uid, state |-> "Online", place |-> Lobby,
               link |-> IF died \/ w.room[r].outdated \/ p.link = "none"
                        THEN p.link ELSE "closing"]), n)
  BY DEF CreateRunnedPlayer
<1> DEFINE l == IF died \/ w.room[r].outdated \/ p.link = "none" THEN p.link ELSE "closing"
           q == [uid |-> p.uid, state |-> "Online", place |-> Lobby, link |-> l]
           y == AddPlayer(w, n, q)
<1>2. x = LobbyAddPlayer(y, n)
  BY <1>1
<1>3. q \in Player /\ q.state = "Online" /\ q.uid = p.uid /\ q.link # "none"
  BY DEF Player, States, Links
<1>4. n \in Conns /\ ~Alive(w, n)
  BY FreshIsUnlisted
<1> HIDE DEF q
<1>5. /\ y \in World /\ \A d \in Conns : y.player[d] = IF d = n THEN q ELSE w.player[d]
      /\ y.lobby = w.lobby /\ y.room = w.room
  BY <1>3, <1>4, AddPlayerParts
<1>7. Alive(y, n) /\ IsOnline(y, n) /\ y.player[n].state # "Robot"
  BY <1>3, <1>4, <1>5, NoneIsNoRecord DEF Alive, IsOnline
<1> HIDE DEF y
<1>8. /\ x \in World
      /\ x.player[n] = [y.player[n] EXCEPT !.place = Lobby]
      /\ \A d \in Conns : d # n => x.player[d] = y.player[d]
      /\ x.lobby = y.lobby \cup {n} /\ x.room = y.room
  <2> DEFINE v == LobbyAddPlayer(y, n)
  <2>1. /\ v \in World
        /\ v.player[n] = [y.player[n] EXCEPT !.place = Lobby]
        /\ \A d \in Conns : d # n => v.player[d] = y.player[d]
        /\ v.lobby = y.lobby \cup {n} /\ v.room = y.room
    BY <1>4, <1>5, <1>7, LobbyAddParts
  <2> QED
    BY <1>2, <2>1
<1> DEFINE z == [q EXCEPT !.place = Lobby]
<1>9. z \in Player /\ z.uid = p.uid /\ z.link # "none"
  BY <1>3, WithPlace
<1>10. x.player[n] = z
  BY <1>4, <1>5, <1>8
<1> HIDE DEF z
<1>11. IsOnline(x, n) /\ x.player[n].uid = p.uid
  BY <1>9, <1>10, NoneIsNoRecord DEF IsOnline, Alive
<1>12. \A d \in Conns : Alive(w, d) => x.player[d] = w.player[d]
  BY <1>4, <1>5, <1>8
<1>13. ASSUME NEW c \in Conns PROVE Spares(w, x, c)
  <2>1. CASE IsOnline(w, c)
    <3>1. x.player[c] = w.player[c]
      BY <1>12, <2>1 DEF IsOnline
    <3>2. SeatsKept(w, x, c)
      BY <1>5, <1>8 DEF SeatsKept, Exists
    <3> QED
      BY <3>1, <3>2, SparedIfSame
  <2>2. CASE ~IsOnline(w, c)
    BY <2>2 DEF Spares
  <2> QED
    BY <2>1, <2>2
<1> QED
  BY <1>4, <1>8, <1>11, <1>12, <1>13

\* Room::removePlayer of d, who has just lost its socket or was deleted, or is about to
\* lose its seat: the others keep theirs.
LEMMA RoomRemoveSpares ==
    ASSUME NEW w \in World, NEW r \in Rooms, Exists(w, r), NEW d \in Conns, NEW p \in Player,
           IsStarted(w, r) /\ d \in w.room[r].players /\ d \notin w.room[r].observers =>
              Alive(w, d) /\ p.link # "none",
           NEW x \in RoomRemovePlayer(w, r, d, p), NEW c \in Conns, c # d
    PROVE  Spares(w, x, c)
<1>1. w.room[r] \in Room
  BY WorldParts
<1>2. CASE d \in w.room[r].observers
  <2> DEFINE os == w.room[r].observers \ {d}
             q == [w.room[r] EXCEPT !.observers = os]
             v == [w EXCEPT !.room[r] = q]
  <2>1. os \in SUBSET Conns
    BY WorldParts
  <2>2. x = v
    BY <1>2 DEF RoomRemovePlayer, World
  <2>3. q \in Room /\ q.players = w.room[r].players /\ q.observers = os
    <3> HIDE DEF os
    <3> QED
      BY <1>1, <2>1 DEF Room
  <2> HIDE DEF q
  <2> QED
    BY <2>2, <2>3, RoomChangeSpares
<1>3. CASE d \notin w.room[r].observers /\ d \notin w.room[r].players
  <2>1. x = w
    BY <1>3 DEF RoomRemovePlayer
  <2> QED
    BY <2>1 DEF Spares
<1>4. CASE d \notin w.room[r].observers /\ d \in w.room[r].players /\ ~IsStarted(w, r)
  <2> DEFINE ps == w.room[r].players \ {d}
             q == [w.room[r] EXCEPT !.players = ps]
             v == [w EXCEPT !.room[r] = q]
  <2>1. ps \in SUBSET Conns
    BY WorldParts
  <2>2. [w EXCEPT !.room[r].players = @ \ {d}] = v
    BY DEF World
  <2>3. x \in Resettle(v, r, {d})
    BY <1>4, <2>2 DEF RoomRemovePlayer
  <2>4. q \in Room /\ q.players = ps /\ q.observers = w.room[r].observers
    <3> HIDE DEF ps
    <3> QED
      BY <1>1, <2>1 DEF Room
  <2> HIDE DEF q
  <2>5. v \in World /\ \A b \in Rooms : v.room[b] = IF b = r THEN q ELSE w.room[b]
    BY <2>4, RoomParts
  <2>6. Spares(w, v, c)
    BY <2>4, RoomChangeSpares
  <2> HIDE DEF v
  <2>7. Exists(v, r)
    BY <2>4, <2>5, NoneIsNoRecord DEF Exists
  <2>8. Spares(v, x, c)
    BY <2>3, <2>5, <2>7, ResettleSpares
  <2> QED
    BY <2>6, <2>8, SparesOn
<1>5. CASE d \notin w.room[r].observers /\ d \in w.room[r].players /\ IsStarted(w, r)
  <2> DEFINE q == [p EXCEPT !.state = "Run", !.link = "none"]
             v == [w EXCEPT !.player[d] = q]
  <2>1. PICK y \in CreateRunnedPlayer(v, r, p) : x \in Resettle(y, r, {d})
    BY <1>5 DEF RoomRemovePlayer
  <2>2. q \in Player
    BY DEF Player, States, Links
  <2> HIDE DEF q
  <2>3. /\ v \in World /\ v.room = w.room /\ v.lobby = w.lobby
        /\ v.player[c] = w.player[c]
    BY <2>2 DEF World
  <2> HIDE DEF v
  <2>4. SeatsKept(w, v, c)
    BY <2>3 DEF SeatsKept, Exists
  <2>5. Spares(w, v, c)
    BY <2>3, <2>4, SparedIfSame
  <2>6. y \in World /\ y.room = v.room /\ Spares(v, y, c)
    BY <1>5, <2>1, <2>3, CreateRunnedParts, CreateRunnedCarries
  <2>7. Spares(y, x, c)
    BY <2>1, <2>3, <2>6, ResettleSpares DEF Exists
  <2> QED
    BY <2>5, <2>6, <2>7, SparesOn
<1> QED
  BY <1>2, <1>3, <1>4, <1>5

\* In a room that does not play, or watching it, d leaves with its object as it is.
LEMMA LeaverKept ==
    ASSUME NEW w \in World, NEW r \in Rooms, Exists(w, r), NEW d \in Conns, NEW p \in Player,
           ~IsStarted(w, r) \/ d \notin w.room[r].players \/ d \in w.room[r].observers,
           NEW x \in RoomRemovePlayer(w, r, d, p)
    PROVE  x.player = w.player
<1>1. w.room[r] \in Room
  BY WorldParts
<1>2. CASE d \in w.room[r].observers \/ d \notin w.room[r].players
  BY <1>2 DEF RoomRemovePlayer, World
<1>3. CASE d \notin w.room[r].observers /\ d \in w.room[r].players /\ ~IsStarted(w, r)
  <2> DEFINE ps == w.room[r].players \ {d}
             q == [w.room[r] EXCEPT !.players = ps]
             v == [w EXCEPT !.room[r] = q]
  <2>1. ps \in SUBSET Conns
    BY WorldParts
  <2>2. [w EXCEPT !.room[r].players = @ \ {d}] = v
    BY DEF World
  <2>3. x \in Resettle(v, r, {d})
    BY <1>3, <2>2 DEF RoomRemovePlayer
  <2>4. q \in Room
    <3> HIDE DEF ps
    <3> QED
      BY <1>1, <2>1 DEF Room
  <2> HIDE DEF q
  <2>5. /\ v \in World /\ v.player = w.player
        /\ \A b \in Rooms : v.room[b] = IF b = r THEN q ELSE w.room[b]
    BY <2>4, RoomParts
  <2> HIDE DEF v
  <2>6. Exists(v, r)
    BY <2>4, <2>5, NoneIsNoRecord DEF Exists
  <2> QED
    BY <2>3, <2>5, <2>6, ResettleParts
<1> QED
  BY <1>2, <1>3

\* In a game, d leaves its seat without a socket, and its socket to a new object.
LEMMA RunawayReplaced ==
    ASSUME NEW w \in World, NEW r \in Rooms, Exists(w, r), NEW d \in Conns, NEW p \in Player,
           IsStarted(w, r), d \in w.room[r].players, d \notin w.room[r].observers,
           Alive(w, d), p.link # "none",
           NEW x \in RoomRemovePlayer(w, r, d, p)
    PROVE  /\ x.player[d].link = "none" /\ x.player[d].state = "Run"
           /\ \E n \in Conns : ~Alive(w, n) /\ IsOnline(x, n) /\ x.player[n].uid = p.uid
<1> DEFINE q == [p EXCEPT !.state = "Run", !.link = "none"]
           v == [w EXCEPT !.player[d] = q]
<1>1. PICK y \in CreateRunnedPlayer(v, r, p) : x \in Resettle(y, r, {d})
  BY DEF RoomRemovePlayer
<1>2. q \in Player /\ q.state = "Run" /\ q.link = "none"
  BY DEF Player, States, Links
<1> HIDE DEF q
<1>3. /\ v \in World /\ v.room = w.room
      /\ \A c \in Conns : v.player[c] = IF c = d THEN q ELSE w.player[c]
  BY <1>2 DEF World
<1> HIDE DEF v
<1>4. Alive(v, d)
  BY <1>2, <1>3, NoneIsNoRecord DEF Alive
<1>5. /\ y \in World /\ y.room = v.room /\ y.player[d] = v.player[d]
      /\ \E n \in Conns : ~Alive(v, n) /\ IsOnline(y, n) /\ y.player[n].uid = p.uid
  BY <1>1, <1>3, <1>4, CreateRunnedParts, CreateRunnedCarries
<1>6. x.player = y.player
  BY <1>1, <1>3, <1>5, ResettleParts DEF Exists
<1>7. PICK n \in Conns : ~Alive(v, n) /\ IsOnline(y, n) /\ y.player[n].uid = p.uid
  BY <1>5
<1>8. ~Alive(w, n)
  BY <1>3, <1>4, <1>7 DEF Alive
<1> QED
  BY <1>2, <1>3, <1>5, <1>6, <1>7, <1>8 DEF IsOnline, Alive

\* deletePlayer of d, who is in no game: d is gone, and the others stay.
LEMMA DeleteSpares ==
    ASSUME NEW w, Consistent(w), NEW d \in Conns, Alive(w, d), ~InsideGame(w, d),
           NEW x \in DeletePlayer(w, d)
    PROVE  /\ ~Alive(x, d)
           /\ \A c \in Conns : c # d => Spares(w, x, c)
<1> DEFINE p == w.player[d]
           e == Erase(w, {d})
<1>1. /\ w \in World /\ p \in Player /\ p.place \in Rooms \cup {Lobby}
  BY WorldParts DEF Consistent, Player
<1>2. /\ e \in World /\ e.room = w.room /\ e.player[d] = None
      /\ \A c \in Conns : c # d => Spares(w, e, c)
  BY <1>1, EraseParts, EraseSpares
<1>3. \/ p.place = Lobby /\ x = LobbyRemovePlayer(e, d)
      \/ p.place # Lobby /\ Exists(e, p.place) /\ x \in RoomRemovePlayer(e, p.place, d, p)
      \/ p.place # Lobby /\ ~Exists(e, p.place) /\ x = e
  BY DEF DeletePlayer
<1>4. p.place # Lobby /\ Exists(e, p.place) =>
        \/ ~IsStarted(e, p.place) \/ d \in e.room[p.place].observers
  BY <1>1, <1>2 DEF InsideGame, Exists, IsStarted
<1> HIDE DEF e, p
<1>5. CASE p.place = Lobby /\ x = LobbyRemovePlayer(e, d)
  <2>1. \A c \in Conns : c # d => Spares(e, x, c)
    BY <1>2, <1>5, LobbyRemoveSpares
  <2>2. x.player = e.player
    BY <1>2, <1>5 DEF LobbyRemovePlayer, World
  <2> QED
    BY <1>2, <2>1, <2>2, SparesOn DEF Alive
<1>6. CASE p.place # Lobby /\ Exists(e, p.place) /\ x \in RoomRemovePlayer(e, p.place, d, p)
  <2>1. p.place \in Rooms
    BY <1>1, <1>6
  <2>2. \A c \in Conns : c # d => Spares(e, x, c)
    BY <1>1, <1>2, <1>4, <1>6, <2>1, RoomRemoveSpares
  <2>3. x.player = e.player
    BY <1>1, <1>2, <1>4, <1>6, <2>1, LeaverKept
  <2> QED
    BY <1>2, <2>2, <2>3, SparesOn DEF Alive
<1>7. CASE p.place # Lobby /\ ~Exists(e, p.place) /\ x = e
  BY <1>2, <1>7 DEF Alive
<1> QED
  BY <1>3, <1>5, <1>6, <1>7

\* ~Room sends everybody with a socket to the lobby.
LEMMA DestroySpares ==
    ASSUME NEW w, Consistent(w), NEW r \in Rooms, Exists(w, r), NEW c \in Conns
    PROVE  Spares(w, DestroyRoom(w, r), c)
<1> DEFINE inside == w.room[r].players \cup w.room[r].observers
           saved  == {d \in inside : IsOnline(w, d)}
           cs     == inside \ saved
           e      == Erase(w, cs)
           f      == [d \in Conns |->
                        IF d \in saved THEN [e.player[d] EXCEPT !.place = Lobby] ELSE e.player[d]]
           g      == [w.room EXCEPT ![r] = None]
           v      == DestroyRoom(w, r)
<1>1. w \in World
  BY DEF Consistent
<1>2. /\ e \in World /\ e.room = w.room /\ e.lobby = w.lobby
      /\ \A d \in Conns : d \notin cs => e.player[d] = w.player[d]
  BY <1>1, EraseParts
<1>3. v.room = g /\ v.player = f /\ v.lobby = w.lobby \cup saved
  <2>1. v = [e EXCEPT !.room[r] = None, !.lobby = @ \cup saved,
              !.player = [d \in Conns |->
                  IF d \in saved THEN [@[d] EXCEPT !.place = Lobby] ELSE @[d]]]
    BY DEF DestroyRoom
  <2> HIDE DEF v, e, saved
  <2> QED
    BY <1>2, <2>1 DEF World
<1>4. /\ c \notin inside => f[c] = w.player[c]
      /\ c \in saved => f[c] = [w.player[c] EXCEPT !.place = Lobby]
  BY <1>2
<1>5. \A b \in Rooms : g[b] = IF b = r THEN None ELSE w.room[b]
  BY <1>1, WorldParts
<1> HIDE DEF v, f, g, e
<1>6. CASE c \notin inside
  <2>1. SeatsKept(w, v, c)
    BY <1>3, <1>5, <1>6 DEF SeatsKept, Exists
  <2> QED
    BY <1>1, <1>3, <1>4, <1>6, <2>1, SparedIfSame DEF v
<1>7. CASE c \in saved
  <2> DEFINE p == [w.player[c] EXCEPT !.place = Lobby]
  <2>1. p \in Player /\ p.uid = w.player[c].uid /\ p.link = w.player[c].link /\ p.place = Lobby
    <3>1. w.player[c] \in Player
      BY <1>1, <1>7, WorldParts DEF IsOnline
    <3> QED
      BY <3>1, WithPlace
  <2>2. v.player[c] = p
    BY <1>3, <1>4, <1>7
  <2> HIDE DEF p
  <2>3. ListedIn(v, c) /\ IsOnline(v, c)
    BY <1>3, <1>7, <2>1, <2>2, NoneIsNoRecord DEF ListedIn, IsOnline, Alive
  <2> QED
    BY <2>1, <2>2, <2>3 DEF Spares, v
<1>8. CASE c \in inside /\ c \notin saved
  BY <1>8 DEF Spares
<1> QED
  BY <1>6, <1>7, <1>8

\* The deletions of a check are of members without a socket.
LEMMA PurgeIdleSpares ==
    ASSUME NEW w, Consistent(w), NEW r \in Rooms, Exists(w, r), NEW x \in PurgeIdle(w, r),
           NEW c \in Conns
    PROVE  Spares(w, x, c)
<1> DEFINE gone == Ghosts(w, r)
           e == Erase(w, gone)
           ps == w.room[r].players \ gone
           q == [w.room[r] EXCEPT !.players = ps]
           v == [e EXCEPT !.room[r] = q]
<1>1. /\ w \in World /\ w.room[r] \in Room /\ ps \in SUBSET Conns
      /\ IsOnline(w, c) => c \notin gone
  BY WorldParts DEF Consistent, Ghosts
<1>2. x \in Resettle([e EXCEPT !.room[r].players = @ \ gone], r, gone)
  BY DEF PurgeIdle
<1> HIDE DEF gone
<1>3. e \in World /\ e.room = w.room /\ Spares(w, e, c)
  BY <1>1, EraseParts, EraseSpares
<1>4. \A d \in Conns : d \notin gone => e.player[d] = w.player[d]
  BY <1>1, EraseParts
<1>5. \A d \in gone : d \in Conns => ~IsOnline(e, d)
  BY <1>1, EraseParts DEF IsOnline, Alive
<1> HIDE DEF e
<1>6. x \in Resettle(v, r, gone)
  <2>1. [e EXCEPT !.room[r].players = @ \ gone] = v
    BY <1>3 DEF World
  <2> QED
    BY <1>2, <2>1
<1>7. q \in Room /\ q.players = ps /\ q.observers = w.room[r].observers
  <2> HIDE DEF ps
  <2> QED
    BY <1>1 DEF Room
<1> HIDE DEF q
<1>8. v \in World /\ \A b \in Rooms : v.room[b] = IF b = r THEN q ELSE e.room[b]
  BY <1>3, <1>7, RoomParts
<1>9. Exists(v, r)
  BY <1>7, <1>8, NoneIsNoRecord DEF Exists
<1>10. Spares(e, v, c)
  BY <1>3, <1>5, <1>7, RoomChangeSpares DEF Exists
<1> HIDE DEF v
<1>11. Spares(v, x, c)
  BY <1>6, <1>8, <1>9, ResettleSpares
<1> QED
  BY <1>3, <1>10, <1>11, SparesOn

\* The same in a game.
LEMMA PurgeStartedSpares ==
    ASSUME NEW w, Consistent(w), NEW r \in Rooms, Exists(w, r), NEW x \in PurgeStarted(w, r),
           NEW c \in Conns
    PROVE  Spares(w, x, c)
<1>1. w \in World /\ (IsOnline(w, c) => c \notin Ghosts(w, r))
  BY DEF Consistent, Ghosts
<1> DEFINE gone == Ghosts(w, r)
<1>2. PICK v \in World :
        /\ x \in Resettle(v, r, gone) /\ Exists(v, r)
        /\ \A b \in Rooms : b # r => v.room[b] = w.room[b]
        /\ \A d \in Conns : d \notin gone => v.player[d] = w.player[d]
        /\ w.lobby \subseteq v.lobby
        /\ v.room[r].players = w.room[r].players \ gone
        /\ v.room[r].observers = w.room[r].observers
  BY PurgeStartedConsistent
<1> HIDE DEF gone
<1>3. Spares(v, x, c)
  BY <1>2, ResettleSpares
<1>4. CASE IsOnline(w, c)
  <2>1. c \notin gone
    BY <1>1, <1>4 DEF gone
  <2>2. SeatsKept(w, v, c)
    BY <1>2, <2>1 DEF SeatsKept, Exists
  <2>3. Spares(w, v, c)
    BY <1>1, <1>2, <2>1, <2>2, SparedIfSame
  <2> QED
    BY <1>3, <2>3, SparesOn
<1>5. CASE ~IsOnline(w, c)
  BY <1>5 DEF Spares
<1> QED
  BY <1>4, <1>5

\* A check takes nobody's connection, whatever it deletes and whoever it sends away.
LEMMA CheckSpares ==
    ASSUME NEW w, Consistent(w), NEW r \in Rooms, Exists(w, r), NEW reason,
           NEW x \in CheckAbandonedNow(w, r, reason), NEW c \in Conns
    PROVE  Spares(w, x, c)
<1> DEFINE purged == IF reason = "NoHuman" \/ Ghosts(w, r) = {} THEN {w}
                     ELSE IF IsStarted(w, r) THEN PurgeStarted(w, r)
                     ELSE PurgeIdle(w, r)
<1>1. PICK y \in purged :
        x = IF IsAbandoned(y, r) /\ ~IsStarted(y, r) THEN DestroyRoom(y, r) ELSE y
  BY DEF CheckAbandonedNow
<1>2. y = w \/ y \in PurgeStarted(w, r) \/ y \in PurgeIdle(w, r)
  BY <1>1
<1> HIDE DEF purged
<1>3. Consistent(y) /\ Exists(y, r)
  BY <1>2, PurgeStartedConsistent, PurgeIdleConsistent
<1>4. Spares(w, y, c)
  BY <1>2, PurgeStartedSpares, PurgeIdleSpares DEF Spares
<1>5. x = y \/ Spares(y, x, c)
  BY <1>1, <1>3, DestroySpares
<1> QED
  BY <1>4, <1>5, SparesOn

-----------------------------------------------------------------------------
(* Each action keeps connections *)

\* A connected player stays so, under its account, and stays listed.
Spared(c) ==
    IsOnline(Now, c) =>
        /\ IsOnline(Now, c)' /\ player'[c].uid = player[c].uid
        /\ Listed(c) => Listed(c)'

EverybodySpared == \A c \in Conns : Spared(c)

\* What is said of a world is said of the state it becomes.
LEMMA LandingSpares ==
    ASSUME NEW w, Becomes(w), NEW c, Spares(Now, w, c)
    PROVE  Spared(c)
BY DEF Becomes, Now, Spares, Spared, ListedIn, Listed, IsOnline, Alive, Exists

\* Another link and another state, of one player.
LEMMA RelinkParts ==
    ASSUME NEW w \in World, NEW c \in Conns, Alive(w, c), NEW l \in Links, NEW s \in States
    PROVE  LET v == [w EXCEPT !.player[c].link = l, !.player[c].state = s]
           IN  /\ v.room = w.room /\ v.lobby = w.lobby
               /\ \A d \in Conns : d # c => v.player[d] = w.player[d]
               /\ v.player[c] \in Player /\ v.player[c].link = l
               /\ v.player[c].uid = w.player[c].uid /\ v.player[c].place = w.player[c].place
<1> DEFINE q == [w.player[c] EXCEPT !.link = l, !.state = s]
           f == [w.player EXCEPT ![c] = q]
           v == [w EXCEPT !.player[c].link = l, !.player[c].state = s]
<1>1. w.player[c] \in Player
  BY WorldParts
<1>2. q \in Player /\ q.place = w.player[c].place /\ q.uid = w.player[c].uid /\ q.link = l
  BY <1>1 DEF Player
<1>3. v = [w EXCEPT !.player = f]
  BY DEF World
<1> HIDE DEF q
<1>4. f[c] = q /\ \A d \in Conns : d # c => f[d] = w.player[d]
  BY WorldParts
<1> HIDE DEF v, f
<1>5. v.player = f /\ v.room = w.room /\ v.lobby = w.lobby
  BY <1>3 DEF World
<1> QED
  BY <1>2, <1>4, <1>5 DEF v

\* Login: the socket of the old object, if it has one, is about to close, and not yet
\* closed; a reconnection gives the old object another one.
LEMMA LoginSpares ==
    ASSUME Consistency, NEW u \in Users, Login(u)
    PROVE  EverybodySpared
<1> DEFINE old == online[u]
           w == IF old = None THEN Now ELSE Kick(Now, {old})
<1>1. Now \in World /\ Consistent(Now)
  BY DEF Consistency, Consistent
<1>2. /\ Consistent(w) /\ w \in World
      /\ \A c \in Conns : Spares(Now, w, c)
  BY <1>1, KickConsistent, KickParts, KickSpares DEF Consistent, Spares
<1>3. CASE old # None /\ InsideGame(Now, old)
  <2> DEFINE v == [w EXCEPT !.player[old].link = "open", !.player[old].state = "Online"]
  <2>1. Becomes(v)
    BY <1>3 DEF Login
  <2>2. old \in Conns /\ Alive(w, old)
    <3>1. old \in Conns /\ Alive(Now, old)
      BY <1>1, <1>3, WorldParts DEF Consistent, EntriesSound, Now
    <3> DEFINE n == Now
               o == old
               k == Kick(n, {o})
               q == [n.player[o] EXCEPT !.link = "closing"]
    <3>2. n \in World /\ o \in Conns /\ Alive(n, o) /\ w = k
      BY <1>1, <1>3, <3>1
    <3> HIDE DEF n, w, o
    <3>3. k.player[o] = IF IsOnline(n, o) THEN q ELSE n.player[o]
      <4>1. \A d \in Conns : k.player[d] = IF d \in {o} /\ IsOnline(n, d)
                              THEN [n.player[d] EXCEPT !.link = "closing"] ELSE n.player[d]
        BY <3>2, KickParts
      <4> HIDE DEF k
      <4> QED
        BY <3>2, <4>1
    <3>4. q \in Player
      <4>1. n.player[o] \in Player /\ "closing" \in Links
        BY <3>2, WorldParts DEF Links
      <4> QED
        BY <4>1, WithLink
    <3> HIDE DEF k, q
    <3>5. Alive(k, o)
      BY <3>2, <3>3, <3>4, NoneIsNoRecord DEF Alive
    <3> QED
      BY <3>1, <3>2, <3>5 DEF o
  <2>3. "open" \in Links /\ "Online" \in States
    BY DEF Links, States
  <2> HIDE DEF w, old
  <2>4. /\ v.room = w.room /\ v.lobby = w.lobby
        /\ \A d \in Conns : d # old => v.player[d] = w.player[d]
        /\ v.player[old] \in Player /\ v.player[old].link = "open"
        /\ v.player[old].uid = w.player[old].uid /\ v.player[old].place = w.player[old].place
    BY <1>2, <2>2, <2>3, RelinkParts
  <2> HIDE DEF v
  <2>5. ASSUME NEW c \in Conns PROVE Spares(w, v, c)
    <3>1. SeatsKept(w, v, c)
      BY <2>4 DEF SeatsKept, Exists
    <3>2. IsOnline(w, c) => /\ IsOnline(v, c) /\ v.player[c].uid = w.player[c].uid
                            /\ v.player[c].place = w.player[c].place
      BY <2>4, NoneIsNoRecord DEF IsOnline, Alive
    <3> QED
      BY <1>2, <3>1, <3>2, SparedIfLeft
  <2>6. \A c \in Conns : Spares(Now, v, c)
    BY <1>2, <2>5, SparesOn
  <2> QED
    BY <2>1, <2>6, LandingSpares DEF EverybodySpared
<1>4. CASE ~(old # None /\ InsideGame(Now, old))
  <2> DEFINE p == [uid |-> u, state |-> "Online", link |-> "open", place |-> Lobby]
  <2>1. PICK c \in FreshConns(w) : Becomes(LobbyAddPlayer(AddPlayer(w, c, p), c))
    BY <1>4 DEF Login
  <2>2. p \in Player /\ p.uid # Robot /\ p.state # "Robot"
    BY ConstantsDistinct DEF Player, States, Links
  <2> HIDE DEF w, p
  <2> DEFINE y == AddPlayer(w, c, p)
  <2>3. /\ Consistent(y) /\ c \in Conns /\ Alive(y, c)
        /\ \A d \in Conns : Spares(w, y, d)
    BY <1>2, <2>2, AddPlayerFresh, AddPlayerSpares
  <2> HIDE DEF y
  <2>4. \A d \in Conns : Spares(y, LobbyAddPlayer(y, c), d)
    BY <2>3, LobbyAddSpares DEF Consistent
  <2>5. \A d \in Conns : Spares(Now, LobbyAddPlayer(y, c), d)
    BY <1>2, <2>3, <2>4 DEF Spares
  <2> QED
    BY <2>1, <2>5, LandingSpares DEF y, EverybodySpared
<1> QED
  BY <1>3, <1>4

\* A socket closes: its player is without one, and nobody else loses anything.
LEMMA SocketClosedSpares ==
    ASSUME Consistency, NEW c \in Conns, SocketClosed(c)
    PROVE  /\ ~IsOnline(Now, c)'
           /\ \A d \in Conns : d # c => Spared(d)
<1> DEFINE w == [Now EXCEPT !.player[c].link = "none", !.player[c].state = "Offline"]
<1>1. Consistent(Now) /\ Now \in World /\ Alive(Now, c)
  BY DEF Consistency, Consistent, SocketClosed, IsOnline
<1>2. "none" \in Links /\ "Offline" \in States
  BY DEF Links, States
<1>3. Consistent(w) /\ w \in World /\ Alive(w, c)
  BY <1>1, <1>2, RelinkConsistent DEF Consistent
<1>4. /\ w.room = Now.room /\ w.lobby = Now.lobby
      /\ \A d \in Conns : d # c => w.player[d] = Now.player[d]
      /\ w.player[c].link = "none"
  <2> DEFINE n == Now
             l == "none"
             s == "Offline"
             v == [n EXCEPT !.player[c].link = l, !.player[c].state = s]
  <2>1. n \in World /\ Alive(n, c) /\ l \in Links /\ s \in States /\ l = "none"
    BY <1>1, <1>2
  <2>3. w = v
    OBVIOUS
  <2> HIDE DEF w, l, s, n
  <2>2. /\ v.room = n.room /\ v.lobby = n.lobby
        /\ \A d \in Conns : d # c => v.player[d] = n.player[d]
        /\ v.player[c] \in Player /\ v.player[c].link = l
        /\ v.player[c].uid = n.player[c].uid /\ v.player[c].place = n.player[c].place
    BY <2>1, RelinkParts
  <2> HIDE DEF v
  <2> QED
    BY <2>1, <2>2, <2>3 DEF n
<1>5. IF InsideGame(w, c) THEN Becomes(w) ELSE \E x \in DeletePlayer(w, c) : BecomesBounded(x)
  BY DEF SocketClosed
<1> HIDE DEF w
<1>6. ASSUME NEW d \in Conns, d # c PROVE Spares(Now, w, d)
  <2>1. SeatsKept(Now, w, d)
    BY <1>4 DEF SeatsKept, Exists
  <2> QED
    BY <1>1, <1>4, <1>6, <2>1, SparedIfSame
<1>7. CASE InsideGame(w, c)
  <2>1. ~IsOnline(Now, c)'
    BY <1>4, <1>5, <1>7 DEF Becomes, Now, IsOnline, Alive
  <2> QED
    BY <1>5, <1>6, <1>7, <2>1, LandingSpares
<1>8. CASE ~InsideGame(w, c)
  <2>1. PICK x \in DeletePlayer(w, c) : Becomes(x)
    BY <1>5, <1>8 DEF BecomesBounded
  <2>2. ~Alive(x, c) /\ \A d \in Conns : d # c => Spares(w, x, d)
    BY <1>3, <1>8, DeleteSpares
  <2>3. \A d \in Conns : d # c => Spares(Now, x, d)
    BY <1>6, <2>2, SparesOn
  <2>4. ~IsOnline(Now, c)'
    BY <2>1, <2>2 DEF Becomes, Now, IsOnline, Alive
  <2> QED
    BY <2>1, <2>3, <2>4, LandingSpares
<1> QED
  BY <1>7, <1>8

\* The account's player is kicked.
LEMMA KickUserSpares ==
    ASSUME Consistency, NEW u \in Users, KickUser(u)
    PROVE  EverybodySpared
BY KickSpares, LandingSpares DEF Consistency, Consistent, KickUser, EverybodySpared

\* From the lobby into a room.
LEMMA EnteringSpares ==
    ASSUME NEW w \in World, NEW r \in Rooms, Exists(w, r), NEW d \in Conns, Alive(w, d),
           NEW c \in Conns
    PROVE  Spares(w, LobbyRemovePlayer(RoomAddPlayer(w, r, d), d), c)
<1> DEFINE v == RoomAddPlayer(w, r, d)
<1>1. v \in World /\ v.player[d].place = r /\ Spares(w, v, c)
  BY RoomAddSpares
<1> HIDE DEF v
<1>2. r # Lobby
  BY ConstantsDistinct
<1>3. Spares(v, LobbyRemovePlayer(v, d), c)
  BY <1>1, <1>2, LobbyRemoveSpares
<1>4. Spares(w, LobbyRemovePlayer(v, d), c)
  BY <1>1, <1>3, SparesOn
<1> QED
  BY <1>4 DEF v

\* createRoom.
LEMMA CreateRoomSpares ==
    ASSUME Consistency, NEW c \in Conns, NEW cap \in Capacities, CreateRoom(c, cap)
    PROVE  EverybodySpared
<1> DEFINE q == [players |-> {}, observers |-> {}, owner |-> None, capacity |-> cap,
                 ref |-> 0, rejected |-> {}, outdated |-> FALSE]
           W(r) == [Now EXCEPT !.room[r] = q]
<1>1. PICK r \in FreshRooms(Now) :
        Becomes(IF Admits(W(r), r, player[c].uid)
                THEN LobbyRemovePlayer(RoomAddPlayer(W(r), r, c), c) ELSE W(r))
  BY DEF CreateRoom
<1>2. r \in Rooms /\ ~Exists(Now, r)
  BY DEF FreshRooms
<1>3. Now \in World /\ Alive(Now, c)
  BY DEF Consistency, Consistent, CreateRoom, SendsTo, IsOnline
<1>4. q \in Room
  BY BoundsAreNumbers DEF Room
<1> HIDE DEF q
<1> DEFINE w == W(r)
<1>5. /\ w \in World /\ w.player = Now.player /\ w.lobby = Now.lobby
      /\ \A a \in Rooms : w.room[a] = IF a = r THEN q ELSE Now.room[a]
  BY <1>2, <1>3, <1>4, RoomParts
<1> HIDE DEF W
<1>6. Exists(w, r) /\ Alive(w, c)
  BY <1>2, <1>3, <1>4, <1>5, NoneIsNoRecord DEF Exists, Alive
<1>7. ASSUME NEW d \in Conns PROVE Spares(Now, w, d)
  <2>1. SeatsKept(Now, w, d)
    BY <1>2, <1>5 DEF SeatsKept, Exists
  <2> QED
    BY <1>3, <1>5, <2>1, SparedIfSame
<1>8. \A d \in Conns : Spares(w, LobbyRemovePlayer(RoomAddPlayer(w, r, c), c), d)
  BY <1>2, <1>5, <1>6, EnteringSpares
<1>9. \A d \in Conns : Spares(Now, LobbyRemovePlayer(RoomAddPlayer(w, r, c), c), d)
  BY <1>7, <1>8, SparesOn
<1> QED
  BY <1>1, <1>7, <1>9, LandingSpares DEF EverybodySpared

\* enterRoom.
LEMMA EnterRoomSpares ==
    ASSUME Consistency, NEW c \in Conns, NEW r \in Rooms, EnterRoom(c, r)
    PROVE  EverybodySpared
<1>1. /\ Now \in World /\ Alive(Now, c) /\ Exists(Now, r)
      /\ Becomes(LobbyRemovePlayer(RoomAddPlayer(Now, r, c), c))
  BY DEF Consistency, Consistent, EnterRoom, SendsTo, IsOnline
<1>2. \A d \in Conns : Spares(Now, LobbyRemovePlayer(RoomAddPlayer(Now, r, c), c), d)
  BY <1>1, EnteringSpares
<1> QED
  BY <1>1, <1>2, LandingSpares DEF EverybodySpared

\* observeRoom.
LEMMA ObserveRoomSpares ==
    ASSUME Consistency, NEW c \in Conns, NEW r \in Rooms, ObserveRoom(c, r)
    PROVE  EverybodySpared
<1> DEFINE w == Now
           os == w.room[r].observers \cup {c}
           q == [w.room[r] EXCEPT !.observers = os]
           p == [w.player[c] EXCEPT !.place = r]
           f == [w.player EXCEPT ![c] = p]
           g == [w.room EXCEPT ![r] = q]
           v == LobbyRemovePlayer(
                  [w EXCEPT !.room[r].observers = @ \cup {c}, !.player[c].place = r], c)
<1>1. w \in World /\ Alive(w, c) /\ Exists(w, r) /\ Becomes(v)
  BY DEF Consistency, Consistent, ObserveRoom, SendsTo, IsOnline
<1> HIDE DEF w
<1>2. /\ os \in SUBSET Conns /\ w.room[r] \in Room /\ w.player[c] \in Player
      /\ r \in Rooms \cup {Lobby} /\ r # Lobby
  BY <1>1, WorldParts, ConstantsDistinct
<1>3. v.room = g /\ v.player = f /\ v.lobby = w.lobby \ {c}
  BY <1>1 DEF LobbyRemovePlayer, World
<1>4. q \in Room /\ q.players = w.room[r].players /\ q.observers = os
  <2> HIDE DEF os
  <2> QED
    BY <1>2 DEF Room
<1>5. /\ p \in Player /\ p.uid = w.player[c].uid /\ p.link = w.player[c].link /\ p.place = r
  BY <1>2, WithPlace
<1>6. /\ \A d \in Conns : f[d] = IF d = c THEN p ELSE w.player[d]
      /\ \A a \in Rooms : g[a] = IF a = r THEN q ELSE w.room[a]
      /\ q # None /\ p # None
  BY <1>1, <1>4, <1>5, WorldParts, NoneIsNoRecord
<1> HIDE DEF v, f, g, p, q
<1>7. ASSUME NEW d \in Conns PROVE Spares(w, v, d)
  <2>1. CASE d = c
    <3>1. IsOnline(w, d) => IsOnline(v, d) /\ v.player[d].uid = w.player[d].uid
      BY <1>3, <1>5, <1>6, <2>1 DEF IsOnline, Alive
    <3>2. ListedIn(v, d)
      BY <1>2, <1>3, <1>4, <1>5, <1>6, <2>1 DEF ListedIn, Exists
    <3> QED
      BY <3>1, <3>2 DEF Spares
  <2>2. CASE d # c
    <3>1. SeatsKept(w, v, d)
      BY <1>3, <1>4, <1>6, <2>2 DEF SeatsKept, Exists
    <3> QED
      BY <1>1, <1>3, <1>6, <2>2, <3>1, SparedIfSame
  <2> QED
    BY <2>1, <2>2
<1> QED
  BY <1>1, <1>7, LandingSpares DEF w, EverybodySpared

\* quitRoom: its sender is back in the lobby, or has run away and has a new object there
\* with its socket, or is in a state that quitRoom does not know.
LEMMA QuitRoomSpares ==
    ASSUME Consistency, NEW c \in Conns, NEW r \in Rooms, QuitRoom(c, r)
    PROVE  /\ \A d \in Conns : d # c => Spared(d)
           /\ \/ Spared(c)
              \/ /\ IsOnline(Now, c)' /\ player'[c].uid = player[c].uid
                 /\ player[c].state # "Online"
              \/ /\ ~IsOnline(Now, c)'
                 /\ \E n \in Conns : /\ ~IsOnline(Now, n) /\ IsOnline(Now, n)'
                                     /\ player'[n].uid = player[c].uid
<1> DEFINE p == Now.player[c]
           Y(x) == IF x.player[c].state = "Online" THEN LobbyAddPlayer(x, c) ELSE x
           o(x) == Y(x).online[player[c].uid]
<1>1. /\ Now \in World /\ Consistent(Now) /\ Alive(Now, c) /\ p.place = r /\ Exists(Now, r)
      /\ IsOnline(Now, c) /\ p \in Player /\ p.link # "none"
  BY WorldParts DEF Consistency, Consistent, QuitRoom, SendsTo, IsOnline, Now
<1>2. PICK x \in RoomRemovePlayer(Now, r, c, p) :
        Becomes(IF room[r].outdated /\ o(x) # None THEN Kick(Y(x), {o(x)}) ELSE Y(x))
  BY DEF QuitRoom, BecomesBounded, Now
<1> DEFINE y == Y(x)
           z == IF room[r].outdated /\ o(x) # None THEN Kick(y, {o(x)}) ELSE y
<1>3. Becomes(z)
  BY <1>2
<1>4. Consistent(x) /\ x \in World /\ Alive(x, c) /\ RobotsUnlinked(x)
  BY <1>1, RoomRemoveConsistent DEF Consistent
<1>5. \A d \in Conns : d # c => Spares(Now, x, d)
  BY <1>1, RoomRemoveSpares
<1>6. \A d \in Conns : Spares(x, y, d)
  BY <1>4, LobbyAddSpares DEF Spares
<1>7. y \in World
  <2>1. CASE x.player[c].state = "Online"
    BY <1>4, <2>1, LobbyAddParts
  <2>2. CASE x.player[c].state # "Online"
    BY <1>4, <2>2
  <2> QED
    BY <2>1, <2>2
<1>8. /\ \A d \in Conns : Spares(y, z, d)
      /\ \A d \in Conns : ~IsOnline(y, d) => ~IsOnline(z, d)
  <2> DEFINE k == Kick(y, {o(x)})
  <2>1. \A d \in Conns : ~IsOnline(y, d) => k.player[d] = y.player[d]
    BY <1>7, KickParts
  <2> HIDE DEF Y, o
  <2>2. \A d \in Conns : Spares(y, k, d)
    BY <1>7, KickSpares
  <2>3. z = k \/ z = y
    OBVIOUS
  <2> HIDE DEF k, z, y
  <2> QED
    BY <2>1, <2>2, <2>3 DEF Spares, IsOnline, Alive
<1> HIDE DEF z
<1>9. \A d \in Conns : Spares(x, z, d)
  BY <1>6, <1>8, SparesOn
<1>10. \A d \in Conns : d # c => Spared(d)
  BY <1>3, <1>5, <1>9, SparesOn, LandingSpares
<1>11. CASE ~IsStarted(Now, r) \/ c \notin Now.room[r].players \/ c \in Now.room[r].observers
  <2>1. x.player = Now.player
    BY <1>1, <1>11, LeaverKept
  <2>2. IsOnline(x, c) /\ x.player[c] = p
    BY <1>1, <2>1 DEF IsOnline, Alive
  <2>3. CASE p.state = "Online"
    <3>1. ListedIn(y, c)
      BY <1>4, <2>2, <2>3, LobbyAddSpares
    <3>2. Spares(x, y, c) /\ Spares(y, z, c)
      BY <1>6, <1>8
    <3> HIDE DEF y
    <3>3. IsOnline(z, c) /\ z.player[c].uid = p.uid /\ ListedIn(z, c)
      BY <2>2, <3>1, <3>2 DEF Spares
    <3>4. Spared(c)
      BY <1>3, <3>3, LandingSpares DEF Spares
    <3> QED
      BY <1>10, <3>4
  <2>4. CASE p.state # "Online"
    <3>1. Spares(x, z, c)
      BY <1>9
    <3>2. IsOnline(z, c) /\ z.player[c].uid = p.uid
      BY <2>2, <3>1 DEF Spares
    <3>3. /\ IsOnline(Now, c)' /\ player'[c].uid = player[c].uid
          /\ player[c].state # "Online"
      BY <1>3, <2>4, <3>2 DEF Becomes, Now, IsOnline, Alive
    <3> QED
      BY <1>10, <3>3
  <2> QED
    BY <2>3, <2>4
<1>12. CASE IsStarted(Now, r) /\ c \in Now.room[r].players /\ c \notin Now.room[r].observers
  <2>1. /\ x.player[c].link = "none" /\ x.player[c].state = "Run"
        /\ \E n \in Conns : ~Alive(Now, n) /\ IsOnline(x, n) /\ x.player[n].uid = p.uid
    BY <1>1, <1>12, RunawayReplaced
  <2>2. PICK n \in Conns : ~Alive(Now, n) /\ IsOnline(x, n) /\ x.player[n].uid = p.uid
    BY <2>1
  <2>3. y = x
    BY <2>1
  <2>4. ~IsOnline(z, c)
    BY <1>8, <2>1, <2>3 DEF IsOnline
  <2>5. Spares(x, z, n)
    BY <1>9
  <2>6. IsOnline(z, n) /\ z.player[n].uid = p.uid
    BY <2>2, <2>5 DEF Spares
  <2>7. ~IsOnline(Now, c)'
    BY <1>3, <2>4 DEF Becomes, Now, IsOnline, Alive
  <2>8. ~IsOnline(Now, n) /\ IsOnline(Now, n)' /\ player'[n].uid = player[c].uid
    BY <1>3, <2>2, <2>6 DEF Becomes, Now, IsOnline, Alive
  <2> QED
    BY <1>10, <2>7, <2>8
<1> QED
  BY <1>11, <1>12

\* A new robot.
LEMMA NewRobotSpares ==
    ASSUME NEW w, Consistent(w), NEW n \in FreshConns(w), NEW p \in Player,
           p.uid = Robot, p.link = "none", NEW r \in Rooms, Exists(w, r), NEW c \in Conns
    PROVE  /\ Spares(w, AddPlayer(w, n, p), c)
           /\ Spares(w, RoomAddPlayer(AddPlayer(w, n, p), r, n), c)
<1> DEFINE v == AddPlayer(w, n, p)
<1>1. /\ Consistent(v) /\ v.room = w.room /\ n \in Conns /\ Alive(v, n)
  BY AddPlayerFresh
<1>2. Spares(w, v, c)
  BY AddPlayerSpares DEF Consistent
<1> HIDE DEF v
<1>3. v \in World /\ Exists(v, r)
  BY <1>1 DEF Consistent, Exists
<1>4. Spares(v, RoomAddPlayer(v, r, n), c)
  BY <1>1, <1>3, RoomAddSpares
<1>5. Spares(w, RoomAddPlayer(v, r, n), c)
  BY <1>2, <1>4, SparesOn
<1> QED
  BY <1>2, <1>5 DEF v

\* addRobotRequest.
LEMMA AddRobotSpares ==
    ASSUME Consistency, NEW c \in Conns, NEW r \in Rooms, AddRobot(c, r)
    PROVE  EverybodySpared
<1> DEFINE p == [uid |-> Robot, state |-> "Robot", link |-> "none", place |-> Lobby]
           W(n) == AddPlayer(Now, n, p)
<1>1. PICK n \in FreshConns(Now) : Becomes(W(n)) \/ Becomes(RoomAddPlayer(W(n), r, n))
  BY DEF AddRobot
<1>2. Consistent(Now) /\ Exists(Now, r)
  BY DEF Consistency, AddRobot
<1>3. p \in Player /\ p.uid = Robot /\ p.link = "none"
  BY DEF Player, States, Links
<1> HIDE DEF p
<1>4. \A d \in Conns : Spares(Now, W(n), d) /\ Spares(Now, RoomAddPlayer(W(n), r, n), d)
  BY <1>2, <1>3, NewRobotSpares
<1> HIDE DEF W
<1> QED
  BY <1>1, <1>4, LandingSpares DEF EverybodySpared

\* addNpc.
LEMMA AddNpcSpares ==
    ASSUME Consistency, NEW r \in Rooms, AddNpc(r)
    PROVE  EverybodySpared
<1> DEFINE p == [uid |-> Robot, state |-> "Robot", link |-> "none", place |-> Lobby]
           W(n) == AddPlayer(Now, n, p)
<1>1. PICK n \in FreshConns(Now) : Becomes(RoomAddPlayer(W(n), r, n))
  BY DEF AddNpc
<1>2. Consistent(Now) /\ Exists(Now, r)
  BY DEF Consistency, AddNpc, Playing
<1>3. p \in Player /\ p.uid = Robot /\ p.link = "none"
  BY DEF Player, States, Links
<1> HIDE DEF p
<1>4. \A d \in Conns : Spares(Now, RoomAddPlayer(W(n), r, n), d)
  BY <1>2, <1>3, NewRobotSpares
<1> HIDE DEF W
<1> QED
  BY <1>1, <1>4, LandingSpares DEF EverybodySpared

\* removeNpc: what it deletes has no socket.
LEMMA RemoveNpcSpares ==
    ASSUME Consistency, NEW r \in Rooms, NEW n \in Conns, RemoveNpc(r, n)
    PROVE  EverybodySpared
<1> DEFINE w == Now
           ps == w.room[r].players \ {n}
           q == [w.room[r] EXCEPT !.players = ps]
           v == [w EXCEPT !.room[r] = q]
<1>1. /\ Consistent(w) /\ w \in World /\ Exists(w, r) /\ ~IsOnline(w, n)
      /\ Becomes(Erase([w EXCEPT !.room[r].players = @ \ {n}], {n}))
  BY DEF Consistency, Consistent, RobotsUnlinked, RemoveNpc, Playing, IsOnline, Now
<1> HIDE DEF w
<1>2. w.room[r] \in Room /\ ps \in SUBSET Conns
  BY <1>1, WorldParts
<1>3. [w EXCEPT !.room[r].players = @ \ {n}] = v
  BY <1>1 DEF World
<1>4. \A c \in w.room[r].players : c = n \/ c \in ps
  OBVIOUS
<1> HIDE DEF ps
<1>5. q \in Room /\ q.players = ps /\ q.observers = w.room[r].observers
  BY <1>2 DEF Room
<1> HIDE DEF q
<1>6. v \in World /\ v.player = w.player
  BY <1>1, <1>5, RoomParts
<1>7. \A c \in Conns : Spares(w, v, c)
  BY <1>1, <1>4, <1>5, RoomChangeSpares
<1> HIDE DEF v
<1>8. \A c \in Conns : IsOnline(v, c) => c \notin {n}
  BY <1>1, <1>6 DEF IsOnline, Alive
<1>9. \A c \in Conns : Spares(v, Erase(v, {n}), c)
  BY <1>6, <1>8, EraseSpares
<1>10. \A c \in Conns : Spares(w, Erase(v, {n}), c)
  BY <1>7, <1>9, SparesOn
<1> QED
  BY <1>1, <1>3, <1>10, LandingSpares DEF w, EverybodySpared

\* kickPlayer: whoever is kicked has a place in the lobby.
LEMMA KickPlayerSpares ==
    ASSUME Consistency, NEW c \in Conns, NEW r \in Rooms, NEW t \in Conns, KickPlayer(c, r, t)
    PROVE  EverybodySpared
<1> DEFINE w == Now
           u == w.player[t].uid
           Y(x) == LobbyAddPlayer(x, t)
<1>1. /\ Consistent(w) /\ w \in World /\ Alive(w, t) /\ w.player[t].place = r /\ Exists(w, r)
      /\ ~IsStarted(w, r)
      /\ \E x \in RoomRemovePlayer(w, r, t, w.player[t]) :
            Becomes([Y(x) EXCEPT !.room[r].rejected = IF u = Robot THEN @ ELSE @ \cup {u}])
  BY DEF Consistency, Consistent, KickPlayer, BecomesBounded, Now
<1> HIDE DEF w
<1>2. PICK x \in RoomRemovePlayer(w, r, t, w.player[t]) :
            Becomes([Y(x) EXCEPT !.room[r].rejected = IF u = Robot THEN @ ELSE @ \cup {u}])
  BY <1>1
<1>3. /\ Consistent(x) /\ x \in World /\ Exists(x, r) /\ Alive(x, t) /\ RobotsUnlinked(x)
      /\ t \notin x.lobby /\ Unlisted(x, t) /\ w.player[t] \in Player
  BY <1>1, RoomRemoveConsistent, WorldParts DEF Consistent
<1>4. x.player = w.player /\ \A d \in Conns : d # t => Spares(w, x, d)
  BY <1>1, <1>3, LeaverKept, RoomRemoveSpares
<1> DEFINE y == Y(x)
<1>5. /\ \A d \in Conns : Spares(x, y, d)
      /\ IsOnline(x, t) => ListedIn(y, t)
  BY <1>3, LobbyAddSpares
<1>6. y \in World /\ y.room = x.room
  <2>1. CASE x.player[t].state = "Robot"
    BY <1>3, <2>1, EraseParts DEF LobbyAddPlayer
  <2>2. CASE x.player[t].state # "Robot"
    BY <1>3, <2>2, LobbyAddParts
  <2> QED
    BY <2>1, <2>2
<1> DEFINE us == IF u = Robot THEN y.room[r].rejected ELSE y.room[r].rejected \cup {u}
           q == [y.room[r] EXCEPT !.rejected = us]
           v == [y EXCEPT !.room[r] = q]
<1>7. u \in Users \cup {Robot}
  BY <1>1, WorldParts DEF Player
<1> HIDE DEF Y, u
<1>8. \A d \in Conns : Spares(w, y, d)
  <2> HIDE DEF y
  <2>1. Spares(w, y, t)
    BY <1>4, <1>5 DEF Spares, IsOnline, Alive
  <2> QED
    BY <1>4, <1>5, <2>1, SparesOn
<1>9. Exists(y, r) /\ y.room[r] \in Room
  BY <1>3, <1>6, WorldParts DEF Exists
<1>10. us \in SUBSET Users
  BY <1>7, <1>9 DEF Room
<1>11. [y EXCEPT !.room[r].rejected = IF u = Robot THEN @ ELSE @ \cup {u}] = v
  BY <1>6 DEF World
<1> HIDE DEF us
<1>12. q \in Room /\ q.players = y.room[r].players /\ q.observers = y.room[r].observers
  BY <1>9, <1>10 DEF Room
<1> HIDE DEF q
<1>13. \A d \in Conns : Spares(y, v, d)
  BY <1>6, <1>9, <1>12, RoomChangeSpares
<1>14. Becomes(v)
  BY <1>2, <1>11
<1> HIDE DEF v, y
<1>15. \A d \in Conns : Spares(w, v, d)
  BY <1>8, <1>13, SparesOn
<1> QED
  BY <1>14, <1>15, LandingSpares DEF w, EverybodySpared

\* The rejection timer.
LEMMA RejectExpiresSpares ==
    ASSUME Consistency, NEW r \in Rooms, NEW u \in Users, RejectExpires(r, u)
    PROVE  EverybodySpared
<1> DEFINE w == Now
           us == w.room[r].rejected \ {u}
           q == [w.room[r] EXCEPT !.rejected = us]
           v == [w EXCEPT !.room[r] = q]
<1>1. w \in World /\ Exists(w, r) /\ Becomes([w EXCEPT !.room[r].rejected = @ \ {u}])
  BY DEF Consistency, Consistent, RejectExpires
<1> HIDE DEF w
<1>2. w.room[r] \in Room /\ us \in SUBSET Users
  BY <1>1, WorldParts DEF Room
<1>3. [w EXCEPT !.room[r].rejected = @ \ {u}] = v
  BY <1>1 DEF World
<1> HIDE DEF us
<1>4. q \in Room /\ q.players = w.room[r].players /\ q.observers = w.room[r].observers
  BY <1>2 DEF Room
<1> HIDE DEF q
<1>5. \A c \in Conns : Spares(w, v, c)
  BY <1>1, <1>4, RoomChangeSpares
<1> QED
  BY <1>1, <1>3, <1>5, LandingSpares DEF w, EverybodySpared

\* changeRoom.
LEMMA ChangeRoomSpares ==
    ASSUME Consistency, NEW c \in Conns, NEW r \in Rooms, NEW cap \in Capacities,
           ChangeRoom(c, r, cap)
    PROVE  EverybodySpared
<1> DEFINE w == Now
           q == [w.room[r] EXCEPT !.capacity = cap]
           v == [w EXCEPT !.room[r] = q]
<1>1. w \in World /\ Exists(w, r) /\ Becomes([w EXCEPT !.room[r].capacity = cap])
  BY DEF Consistency, Consistent, ChangeRoom
<1> HIDE DEF w
<1>2. w.room[r] \in Room /\ cap \in Nat
  BY <1>1, WorldParts, BoundsAreNumbers
<1>3. [w EXCEPT !.room[r].capacity = cap] = v
  BY <1>1 DEF World
<1>4. q \in Room /\ q.players = w.room[r].players /\ q.observers = w.room[r].observers
  BY <1>2 DEF Room
<1> HIDE DEF q
<1>5. \A d \in Conns : Spares(w, v, d)
  BY <1>1, <1>4, RoomChangeSpares
<1> QED
  BY <1>1, <1>3, <1>5, LandingSpares DEF w, EverybodySpared

\* Another reference count of a room moves nobody.
LEMMA RefSpares ==
    ASSUME NEW w \in World, NEW r \in Rooms, Exists(w, r), NEW n \in Int, NEW c \in Conns
    PROVE  Spares(w, [w EXCEPT !.room[r].ref = n], c)
<1> DEFINE q == [w.room[r] EXCEPT !.ref = n]
           v == [w EXCEPT !.room[r] = q]
<1>1. w.room[r] \in Room
  BY WorldParts
<1>2. [w EXCEPT !.room[r].ref = n] = v
  BY DEF World
<1>3. q \in Room /\ q.players = w.room[r].players /\ q.observers = w.room[r].observers
  BY <1>1 DEF Room
<1> HIDE DEF q
<1>4. Spares(w, v, c)
  BY <1>3, RoomChangeSpares
<1> QED
  BY <1>2, <1>4

\* A posted check, so far, moves nobody.
LEMMA PostSpares ==
    ASSUME NEW w \in World, NEW r \in Rooms, NEW z \in Reasons, NEW c \in Conns
    PROVE  Spares(w, CheckAbandoned(w, r, z), c)
<1> DEFINE v == CheckAbandoned(w, r, z)
<1>1. v.player = w.player /\ v.lobby = w.lobby /\ v.room = w.room
  BY PostAdds
<1> HIDE DEF v
<1>2. Spares(w, v, c)
  BY <1>1 DEF Spares, IsOnline, Alive, Exists, ListedIn
<1> QED
  BY <1>2 DEF v

\* startGame.
LEMMA StartGameSpares ==
    ASSUME Consistency, NEW c \in Conns, NEW r \in Rooms, StartGame(c, r)
    PROVE  EverybodySpared
<1> DEFINE n == Now.room[r].ref + 1
           v == [Now EXCEPT !.room[r].ref = n]
<1>1. Now \in World /\ Exists(Now, r)
  BY DEF Consistency, Consistent, StartGame
<1>2. n \in Int
  BY <1>1, WorldParts DEF Room
<1>3. Becomes(Kick(Now, room[r].players)) \/ Becomes(v)
  BY DEF StartGame
<1> HIDE DEF n
<1>4. \A d \in Conns : Spares(Now, v, d)
  BY <1>1, <1>2, RefSpares
<1>5. \A d \in Conns : Spares(Now, Kick(Now, room[r].players), d)
  BY <1>1, KickSpares
<1> HIDE DEF v
<1> QED
  BY <1>3, <1>4, <1>5, LandingSpares DEF EverybodySpared

\* decreaseRefCount: what its check does, it does later.
LEMMA DecreaseRefCountSpares ==
    ASSUME Consistency, NEW r \in Rooms, DecreaseRefCount(r)
    PROVE  EverybodySpared
<1> DEFINE n == Now.room[r].ref - 1
           w == [Now EXCEPT !.room[r].ref = n]
           v == CheckAbandoned(w, r, "NoRefCount")
<1>1. Now \in World /\ Exists(Now, r)
  BY DEF Consistency, Consistent, DecreaseRefCount, Playing
<1>2. n \in Int
  BY <1>1, WorldParts DEF Room
<1>3. Becomes(w) \/ Becomes(v)
  BY DEF DecreaseRefCount, BecomesBounded
<1> HIDE DEF n
<1>4. w \in World /\ \A d \in Conns : Spares(Now, w, d)
  <2>1. w \in World
    BY <1>1, <1>2, RefParts
  <2>2. \A d \in Conns : Spares(Now, w, d)
    BY <1>1, <1>2, RefSpares
  <2> QED
    BY <2>1, <2>2
<1> HIDE DEF w
<1>5. \A d \in Conns : Spares(w, v, d)
  BY <1>4, PostSpares DEF Reasons
<1>6. \A d \in Conns : Spares(Now, v, d)
  BY <1>4, <1>5, SparesOn
<1> HIDE DEF v
<1> QED
  BY <1>3, <1>4, <1>6, LandingSpares DEF EverybodySpared

\* trust.
LEMMA TrustSpares ==
    ASSUME Consistency, NEW c \in Conns, NEW r \in Rooms, Trust(c, r)
    PROVE  EverybodySpared
<1> DEFINE w == Now
           s == IF w.player[c].state = "Trust" THEN "Online" ELSE "Trust"
           p == [w.player[c] EXCEPT !.state = s]
           f == [w.player EXCEPT ![c] = p]
           v == [w EXCEPT !.player[c] = p]
<1>1. /\ w \in World /\ Alive(w, c)
      /\ Becomes([w EXCEPT !.player[c].state = IF @ = "Trust" THEN "Online" ELSE "Trust"])
  BY DEF Consistency, Consistent, Trust, SendsTo, IsOnline
<1> HIDE DEF w
<1>2. w.player[c] \in Player /\ s \in States
  BY <1>1, WorldParts DEF States
<1>3. [w EXCEPT !.player[c].state = IF @ = "Trust" THEN "Online" ELSE "Trust"] = v
  BY <1>1 DEF World
<1> HIDE DEF s
<1>4. /\ p \in Player /\ p.uid = w.player[c].uid /\ p.place = w.player[c].place
      /\ p.link = w.player[c].link
  BY <1>2, WithState
<1> HIDE DEF p
<1>5. v.room = w.room /\ v.lobby = w.lobby /\ v.player = f
  BY <1>1 DEF World
<1>6. \A d \in Conns : f[d] = IF d = c THEN p ELSE w.player[d]
  BY <1>1, WorldParts
<1> HIDE DEF v, f
<1>7. ASSUME NEW d \in Conns PROVE Spares(w, v, d)
  <2>1. SeatsKept(w, v, d)
    BY <1>5 DEF SeatsKept, Exists
  <2>2. IsOnline(w, d) => /\ IsOnline(v, d) /\ v.player[d].uid = w.player[d].uid
                          /\ v.player[d].place = w.player[d].place
    BY <1>4, <1>5, <1>6, NoneIsNoRecord DEF IsOnline, Alive
  <2> QED
    BY <1>1, <2>1, <2>2, SparedIfLeft
<1> QED
  BY <1>1, <1>3, <1>7, LandingSpares DEF w, EverybodySpared

\* gameOver: those who trusted keep their seats and sockets, and a ban only kicks.
LEMMA GameOverSpares ==
    ASSUME Consistency, NEW r \in Rooms, GameOver(r)
    PROVE  EverybodySpared
<1> DEFINE humans == {c \in room[r].players : player[c].uid # Robot}
           f == [c \in Conns |-> IF c \in humans /\ Now.player[c].state = "Trust"
                    THEN [Now.player[c] EXCEPT !.state = "Online"] ELSE Now.player[c]]
           w == [Now EXCEPT !.player = [c \in Conns |->
                    IF c \in humans /\ @[c].state = "Trust"
                    THEN [@[c] EXCEPT !.state = "Online"] ELSE @[c]]]
<1>1. PICK cs : Becomes(Kick(w, cs))
  BY DEF GameOver
<1>2. /\ Consistent(Now) /\ Now \in World
      /\ \A c \in humans : c \in Conns /\ Alive(Now, c)
  BY WorldParts DEF Consistency, Consistent, GameOver, Playing, Placed, Now
<1> HIDE DEF humans
<1>3. w = [Now EXCEPT !.player = f]
  BY <1>2 DEF World
<1>4. \A c \in Conns :
        \/ f[c] = Now.player[c]
        \/ /\ f[c] \in Player /\ f[c].uid = Now.player[c].uid /\ Now.player[c] # None
           /\ f[c].link = Now.player[c].link /\ f[c].place = Now.player[c].place
  <2> TAKE c \in Conns
  <2>1. CASE c \in humans /\ Now.player[c].state = "Trust"
    <3>1. Now.player[c] \in Player /\ Now.player[c] # None /\ "Online" \in States
      BY <1>2, <2>1, WorldParts DEF States, Alive
    <3>2. f[c] = [Now.player[c] EXCEPT !.state = "Online"]
      BY <2>1
    <3> HIDE DEF f
    <3> QED
      BY <3>1, <3>2, WithState
  <2>2. CASE ~(c \in humans /\ Now.player[c].state = "Trust")
    BY <2>2
  <2> QED
    BY <2>1, <2>2
<1>5. f \in [Conns -> Player \cup {None}]
  <2>1. \A c \in Conns : f[c] \in Player \cup {None}
    <3> HIDE DEF f
    <3> QED
      BY <1>2, <1>4, WorldParts
  <2> QED
    BY <2>1
<1> HIDE DEF f, w
<1>6. w \in World /\ w.player = f /\ w.room = Now.room /\ w.lobby = Now.lobby
  BY <1>2, <1>3, <1>5 DEF World
<1>7. ASSUME NEW c \in Conns PROVE Spares(Now, w, c)
  <2>1. SeatsKept(Now, w, c)
    BY <1>6 DEF SeatsKept, Exists
  <2>2. IsOnline(Now, c) => /\ IsOnline(w, c) /\ w.player[c].uid = Now.player[c].uid
                            /\ w.player[c].place = Now.player[c].place
    BY <1>4, <1>6, NoneIsNoRecord DEF IsOnline, Alive
  <2> QED
    BY <1>2, <2>1, <2>2, SparedIfLeft
<1>8. \A c \in Conns : Spares(w, Kick(w, cs), c)
  BY <1>6, KickSpares
<1>9. \A c \in Conns : Spares(Now, Kick(w, cs), c)
  BY <1>7, <1>8, SparesOn
<1> QED
  BY <1>1, <1>9, LandingSpares DEF EverybodySpared

\* A check runs.
LEMMA RunPostSpares ==
    ASSUME Consistency, RunPost
    PROVE  EverybodySpared
<1> DEFINE r == Head(posts)[1]
           z == Head(posts)[2]
           ps == Tail(posts)
           w == [Now EXCEPT !.posts = ps]
<1>1. Consistent(Now) /\ Now \in World /\ r \in Rooms /\ ps \in Seq(Post)
  <2>1. Now \in World /\ posts \in Seq(Post) /\ posts # <<>>
    BY DEF Consistency, Consistent, RunPost, World, Now
  <2>2. Head(posts) \in Post /\ ps \in Seq(Post)
    BY <2>1
  <2> QED
    BY <2>1, <2>2 DEF Post, Consistency
<1>2. IF Exists(w, r) THEN \E x \in CheckAbandonedNow(w, r, z) : Becomes(x) ELSE Becomes(w)
  BY DEF RunPost, Now
<1> HIDE DEF r, z, ps
<1>3. Consistent(w) /\ w.player = Now.player /\ w.room = Now.room /\ w.lobby = Now.lobby
  <2>1. Consistent(w)
    BY <1>1, PostsConsistent
  <2> QED
    BY <1>1, <2>1 DEF World
<1> HIDE DEF w
<1>4. ASSUME NEW c \in Conns PROVE Spares(Now, w, c)
  BY <1>3 DEF Spares, IsOnline, Alive, Exists, ListedIn
<1>5. CASE Exists(w, r)
  <2>1. PICK x \in CheckAbandonedNow(w, r, z) : Becomes(x)
    BY <1>2, <1>5
  <2>2. \A c \in Conns : Spares(w, x, c)
    BY <1>1, <1>3, <1>5, CheckSpares
  <2>3. \A c \in Conns : Spares(Now, x, c)
    BY <1>4, <2>2, SparesOn
  <2> QED
    BY <2>1, <2>3, LandingSpares DEF EverybodySpared
<1>6. CASE ~Exists(w, r)
  BY <1>2, <1>4, <1>6, LandingSpares DEF EverybodySpared
<1> QED
  BY <1>5, <1>6

\* _refreshMd5: rooms grow outdated, and a kick only begins to close a socket.
LEMMA RefreshMd5Spares ==
    ASSUME Consistency, NEW changed \in BOOLEAN, RefreshMd5(changed)
    PROVE  EverybodySpared
<1> DEFINE old == {r \in Rooms : Exists(Now, r) /\ (changed \/ room[r].outdated)}
           g == [r \in Rooms |->
                    IF r \in old THEN [Now.room[r] EXCEPT !.outdated = TRUE] ELSE Now.room[r]]
           w == [Now EXCEPT !.room = [r \in Rooms |->
                    IF r \in old THEN [@[r] EXCEPT !.outdated = TRUE] ELSE @[r]]]
<1>1. PICK cs : Becomes(Kick(w, cs))
  BY DEF RefreshMd5
<1>2. Now \in World /\ \A r \in old : r \in Rooms /\ Exists(Now, r)
  BY DEF Consistency, Consistent
<1> HIDE DEF old
<1>3. w = [Now EXCEPT !.room = g]
  BY <1>2 DEF World
<1>4. \A r \in Rooms :
        \/ g[r] = Now.room[r]
        \/ /\ g[r] \in Room /\ Now.room[r] # None
           /\ g[r].players = Now.room[r].players /\ g[r].observers = Now.room[r].observers
  <2> TAKE r \in Rooms
  <2>1. CASE r \in old
    <3>1. Now.room[r] \in Room /\ Now.room[r] # None
      BY <1>2, <2>1, WorldParts DEF Exists
    <3>2. g[r] = [Now.room[r] EXCEPT !.outdated = TRUE]
      BY <2>1
    <3> HIDE DEF g
    <3> QED
      BY <3>1, <3>2 DEF Room
  <2>2. CASE r \notin old
    BY <2>2
  <2> QED
    BY <2>1, <2>2
<1>5. g \in [Rooms -> Room \cup {None}]
  <2>1. \A r \in Rooms : g[r] \in Room \cup {None}
    <3> HIDE DEF g
    <3> QED
      BY <1>2, <1>4, WorldParts
  <2> QED
    BY <2>1
<1> HIDE DEF g, w
<1>6. w \in World /\ w.player = Now.player /\ w.room = g /\ w.lobby = Now.lobby
  BY <1>2, <1>3, <1>5 DEF World
<1>7. ASSUME NEW c \in Conns PROVE Spares(Now, w, c)
  <2>1. SeatsKept(Now, w, c)
    BY <1>4, <1>6, NoneIsNoRecord DEF SeatsKept, Exists
  <2> QED
    BY <1>2, <1>6, <2>1, SparedIfSame
<1>8. \A c \in Conns : Spares(w, Kick(w, cs), c)
  BY <1>6, KickSpares
<1>9. \A c \in Conns : Spares(Now, Kick(w, cs), c)
  BY <1>7, <1>8, SparesOn
<1> QED
  BY <1>1, <1>9, LandingSpares DEF EverybodySpared

\* killroom.
LEMMA KillRoomSpares ==
    ASSUME Consistency, NEW r \in Rooms, KillRoom(r)
    PROVE  EverybodySpared
<1>1. PICK cs : Becomes(CheckAbandoned(Kick(Now, cs), r, "NoHuman"))
  BY DEF KillRoom, BecomesBounded
<1> DEFINE w == Kick(Now, cs)
           v == CheckAbandoned(w, r, "NoHuman")
<1>2. w \in World /\ \A c \in Conns : Spares(Now, w, c)
  BY KickParts, KickSpares DEF Consistency, Consistent
<1> HIDE DEF w
<1>3. \A c \in Conns : Spares(w, v, c)
  BY <1>2, PostSpares DEF Reasons
<1> HIDE DEF v
<1>4. \A c \in Conns : Spares(Now, v, c)
  BY <1>2, <1>3, SparesOn
<1> QED
  BY <1>1, <1>4, LandingSpares DEF v, w, EverybodySpared

\* checklobby: only the dead go.
LEMMA CheckLobbySpares ==
    ASSUME Consistency, CheckLobby
    PROVE  EverybodySpared
<1> DEFINE w == Now
           dead == {c \in lobby : ~IsOnline(Now, c)}
           e == Erase(w, dead)
           v == [e EXCEPT !.lobby = @ \ dead]
<1>1. Becomes(v)
  BY DEF CheckLobby
<1>2. w \in World /\ \A c \in Conns : IsOnline(w, c) => c \notin dead
  BY DEF Consistency, Consistent
<1> HIDE DEF dead, w
<1>3. /\ e \in World
      /\ \A c \in Conns : Spares(w, e, c)
      /\ \A c \in dead : c \in Conns => ~IsOnline(e, c)
  BY <1>2, EraseParts, EraseSpares DEF IsOnline, Alive
<1> HIDE DEF e
<1>4. v.player = e.player /\ v.room = e.room /\ v.lobby = e.lobby \ dead
  BY <1>3 DEF World
<1> HIDE DEF v
<1>5. ASSUME NEW c \in Conns PROVE Spares(e, v, c)
  <2>1. CASE c \in dead
    BY <1>3, <2>1 DEF Spares
  <2>2. CASE c \notin dead
    BY <1>4, <2>2 DEF Spares, IsOnline, Alive, Exists, ListedIn
  <2> QED
    BY <2>1, <2>2
<1>6. \A c \in Conns : Spares(w, v, c)
  BY <1>3, <1>5, SparesOn
<1> QED
  BY <1>1, <1>6, LandingSpares DEF w, EverybodySpared

-----------------------------------------------------------------------------
(* The theorems *)

\* An empty server is consistent.
LEMMA InitConsistent == Init => Consistency
<1> SUFFICES ASSUME Init PROVE Consistency
  OBVIOUS
<1>1. /\ Now.player = [c \in Conns |-> None] /\ Now.online = [u \in Users |-> None]
      /\ Now.lobby = {} /\ Now.room = [r \in Rooms |-> None] /\ Now.posts = <<>>
  BY DEF Init, Now
<1>2. Now \in World
  <2>1. /\ player \in [Conns -> Player \cup {None}] /\ online \in [Users -> Conns \cup {None}]
        /\ lobby \in SUBSET Conns /\ room \in [Rooms -> Room \cup {None}] /\ posts \in Seq(Post)
    BY DEF Init
  <2> QED
    BY <2>1 DEF Now, World
<1> QED
  BY <1>1, <1>2 DEF Consistency, Consistent, Placed, EntriesSound, OwnersSit,
     RobotsUnlinked, Alive, Exists

\* Every step keeps the state consistent.
LEMMA NextConsistent == Consistency /\ [Next]_vars => Consistency'
<1> SUFFICES ASSUME Consistency, [Next]_vars PROVE Consistency'
  OBVIOUS
<1>1. CASE Play
  BY <1>1, LoginKeeps, SocketClosedKeeps, CreateRoomKeeps, EnterRoomKeeps, ObserveRoomKeeps,
     QuitRoomKeeps, TrustKeeps, StartGameKeeps, GameOverKeeps, DecreaseRefCountKeeps,
     RunPostKeeps DEF Play
<1>2. CASE Manage
  BY <1>2, AddRobotKeeps, KickPlayerKeeps, RejectExpiresKeeps, ChangeRoomKeeps, AddNpcKeeps,
     RemoveNpcKeeps DEF Manage
<1>3. CASE Administer
  BY <1>3, KickUserKeeps, RefreshMd5Keeps, KillRoomKeeps, CheckLobbyKeeps DEF Administer
<1>4. CASE UNCHANGED vars
  <2>1. Now' = Now
    BY <1>4 DEF vars, Now
  <2> QED
    BY <2>1 DEF Consistency
<1> QED
  BY <1>1, <1>2, <1>3, <1>4 DEF Next

\* Consistency is an invariant, for any number of accounts, connections and rooms.
THEOREM ConsistencyInvariant == Spec => []Consistency
  BY InitConsistent, NextConsistent, PTL DEF Spec

\* Every variable keeps its type.
THEOREM TypeCorrect == Spec => []TypeOK
<1>1. Consistency => TypeOK
  BY DEF Consistency, Consistent, TypeOK
<1> QED
  BY <1>1, ConsistencyInvariant, PTL

\* A list never names a dead player or one that is elsewhere: the case Room::addPlayer
\* calls a disaster never arises.
THEOREM PlacementHolds == Spec => []Placement
<1>1. Consistency => Placement
  BY DEF Consistency, Consistent, Placement
<1> QED
  BY <1>1, ConsistencyInvariant, PTL

\* The entry of an account never dangles, however players are replaced.
THEOREM OnlineMapSoundHolds == Spec => []OnlineMapSound
<1>1. Consistency => OnlineMapSound
  BY DEF Consistency, Consistent, OnlineMapSound
<1> QED
  BY <1>1, ConsistencyInvariant, PTL

\* The owner of a room always sits in it and is no robot.
THEOREM OwnerSeatedHolds == Spec => []OwnerSeated
<1>1. Consistency => OwnerSeated
  BY DEF Consistency, Consistent, OwnerSeated
<1> QED
  BY <1>1, ConsistencyInvariant, PTL

\* Every step looks after the rooms.
LEMMA NextTends == Consistency /\ [Next]_vars => Tends
<1> SUFFICES ASSUME Consistency, [Next]_vars PROVE Tends
  OBVIOUS
<1>1. CASE Play
  BY <1>1, LoginTends, SocketClosedTends, CreateRoomTends, EnterRoomTends, ObserveRoomTends,
     QuitRoomTends, TrustTends, StartGameTends, GameOverTends, DecreaseRefCountTends,
     RunPostTends DEF Play
<1>2. CASE Manage
  BY <1>2, AddRobotTends, KickPlayerTends, RejectExpiresTends, ChangeRoomTends, AddNpcTends,
     RemoveNpcTends DEF Manage
<1>3. CASE Administer
  BY <1>3, KickUserTends, RefreshMd5Tends, KillRoomTends, CheckLobbyTends DEF Administer
<1>4. CASE UNCHANGED vars
  <2>1. Now' = Now
    BY <1>4 DEF vars, Now
  <2> QED
    BY <2>1 DEF Tends, EmptyRoomsChecked, GhostRoomsChecked
<1> QED
  BY <1>1, <1>2, <1>3, <1>4 DEF Next

\* A server without rooms has none to look after.
LEMMA InitTends == Init => EmptyRoomsChecked /\ GhostRoomsChecked
BY DEF Init, Now, EmptyRoomsChecked, GhostRoomsChecked, EmptyChecked, GhostsChecked,
   IdleWithout, HasGhost, Exists

\* The checks of a room are those that wait in the main io_context for it.
LEMMA ChecksArePending ==
    ASSUME Consistency, NEW r \in Rooms
    PROVE  /\ Checks(Now, r) # {} => Pending(r, Reasons)
           /\ "NoRefCount" \in Checks(Now, r) => Pending(r, {"NoRefCount"})
BY DEF Checks, Pending, Now

\* A human seat without a socket exists only while a game runs, or until the check that
\* decreaseRefCount posts at its end has run, whoever leaves, comes back or is replaced.
THEOREM GhostSeatsAreTemporary == Spec => []GhostSeatIsTemporary
<1>1. Consistency /\ GhostRoomsChecked => GhostSeatIsTemporary
  BY ChecksArePending
     DEF GhostRoomsChecked, GhostSeatIsTemporary, GhostsChecked, HasGhost, Now
<1>2. Consistency /\ GhostRoomsChecked /\ [Next]_vars => GhostRoomsChecked'
  BY NextTends DEF Tends
<1>3. Spec => []GhostRoomsChecked
  BY <1>2, InitTends, ConsistencyInvariant, PTL DEF Spec
<1> QED
  BY <1>1, <1>3, ConsistencyInvariant, PTL

\* A room with seats that does not play and in which nobody has a socket has a check on
\* its way, in whatever order its members leave, disconnect, are kicked and end their game.
\* A room created without seats (lobby.cpp:167 takes a capacity of 0) is empty at once and
\* has none.
THEOREM AbandonedRoomsAreChecked == Spec => []AbandonedRoomIsChecked
<1>1. Consistency /\ EmptyRoomsChecked => AbandonedRoomIsChecked
  BY ChecksArePending
     DEF EmptyRoomsChecked, AbandonedRoomIsChecked, EmptyChecked, IdleWithout
<1>2. Consistency /\ EmptyRoomsChecked /\ [Next]_vars => EmptyRoomsChecked'
  BY NextTends DEF Tends
<1>3. Spec => []EmptyRoomsChecked
  BY <1>2, InitTends, ConsistencyInvariant, PTL DEF Spec
<1> QED
  BY <1>1, <1>3, ConsistencyInvariant, PTL

-----------------------------------------------------------------------------
(* What a step does to connections *)

\* Only c loses its socket, which closes.
LosesSocket(c) ==
    SocketClosed(c) /\ ~IsOnline(Now, c)' /\ \A d \in Conns : d # c => Spared(d)

\* Only c is touched, by its quitRoom: it was not Online, and keeps its socket but maybe
\* no list has it, or its socket is with a new object of the account.
LeavesRoom(c) ==
    /\ player[c].place # Lobby /\ QuitRoom(c, player[c].place)
    /\ \A d \in Conns : d # c => Spared(d)
    /\ \/ /\ IsOnline(Now, c)' /\ player'[c].uid = player[c].uid
          /\ player[c].state # "Online"
       \/ /\ ~IsOnline(Now, c)'
          /\ \E n \in Conns : /\ ~IsOnline(Now, n) /\ IsOnline(Now, n)'
                              /\ player'[n].uid = player[c].uid

ConnectionStep ==
    EverybodySpared \/ \E c \in Conns : LosesSocket(c) \/ LeavesRoom(c)

\* quitRoom, seen from its sender's object.
LEMMA QuitRoomLeaves ==
    ASSUME Consistency, NEW c \in Conns, NEW r \in Rooms, QuitRoom(c, r)
    PROVE  ConnectionStep
<1>1. player[c].place = r /\ r # Lobby
  BY ConstantsDistinct DEF QuitRoom, SendsTo
<1>2. QuitRoom(c, player[c].place)
  BY <1>1
<1>3. EverybodySpared \/ LeavesRoom(c)
  BY <1>1, <1>2, QuitRoomSpares DEF EverybodySpared, LeavesRoom
<1> QED
  BY <1>3 DEF ConnectionStep

\* Every step is one of the three.
LEMMA NextSpares == Consistency /\ [Next]_vars => ConnectionStep
<1> SUFFICES ASSUME Consistency, [Next]_vars PROVE ConnectionStep
  OBVIOUS
<1>1. CASE Play
  <2>1. ASSUME NEW c \in Conns, SocketClosed(c) PROVE ConnectionStep
    BY <2>1, SocketClosedSpares DEF ConnectionStep, LosesSocket
  <2>2. ASSUME NEW c \in Conns, NEW r \in Rooms, QuitRoom(c, r) PROVE ConnectionStep
    BY <2>2, QuitRoomLeaves
  <2>3. \/ \E u \in Users : Login(u)
        \/ \E c \in Conns, cap \in Capacities : CreateRoom(c, cap)
        \/ \E c \in Conns, r \in Rooms :
             EnterRoom(c, r) \/ ObserveRoom(c, r) \/ Trust(c, r) \/ StartGame(c, r)
        \/ \E r \in Rooms : GameOver(r) \/ DecreaseRefCount(r)
        \/ RunPost
        => EverybodySpared
    BY LoginSpares, CreateRoomSpares, EnterRoomSpares, ObserveRoomSpares, TrustSpares,
       StartGameSpares, GameOverSpares, DecreaseRefCountSpares, RunPostSpares
  <2> QED
    BY <1>1, <2>1, <2>2, <2>3 DEF Play, ConnectionStep
<1>2. CASE Manage
  <2>1. EverybodySpared
    BY <1>2, AddRobotSpares, KickPlayerSpares, RejectExpiresSpares, ChangeRoomSpares,
       AddNpcSpares, RemoveNpcSpares DEF Manage
  <2> QED
    BY <2>1 DEF ConnectionStep
<1>3. CASE Administer
  <2>1. EverybodySpared
    BY <1>3, KickUserSpares, RefreshMd5Spares, KillRoomSpares, CheckLobbySpares DEF Administer
  <2> QED
    BY <2>1 DEF ConnectionStep
<1>4. CASE UNCHANGED vars
  <2>1. player' = player /\ lobby' = lobby /\ room' = room /\ Now' = Now
    BY <1>4 DEF vars, Now
  <2>2. EverybodySpared
    BY <2>1 DEF EverybodySpared, Spared, Listed
  <2> QED
    BY <2>2 DEF ConnectionStep
<1> QED
  BY <1>1, <1>2, <1>3, <1>4 DEF Next

\* A set that loses one element and gains another is no smaller.
LEMMA SwapCounts ==
    ASSUME NEW S, IsFiniteSet(S), NEW T, IsFiniteSet(T), NEW d \in S, NEW n \in T, n \notin S,
           S \ {d} \subseteq T
    PROVE  Cardinality(T) >= Cardinality(S)
<1> DEFINE V == S \ {d}
           W == V \cup {n}
<1>1. IsFiniteSet(V) /\ Cardinality(V) = Cardinality(S) - 1
  BY FS_RemoveElement
<1>2. n \notin V /\ W \in SUBSET T
  OBVIOUS
<1> HIDE DEF V
<1>3. Cardinality(W) = Cardinality(V) + 1
  BY <1>1, <1>2, FS_AddElement
<1>4. Cardinality(W) <= Cardinality(T)
  BY <1>2, FS_Subset
<1> HIDE DEF W
<1>5. Cardinality(S) \in Nat /\ Cardinality(T) \in Nat
  BY FS_CardinalityType
<1> QED
  BY <1>1, <1>3, <1>4, <1>5

\* A set that keeps its elements is no smaller.
LEMMA GrowthCounts ==
    ASSUME NEW S, NEW T, IsFiniteSet(T), S \subseteq T
    PROVE  Cardinality(T) >= Cardinality(S)
<1>1. Cardinality(S) <= Cardinality(T) /\ IsFiniteSet(S)
  BY FS_Subset
<1>2. Cardinality(S) \in Nat /\ Cardinality(T) \in Nat
  BY <1>1, FS_CardinalityType
<1> QED
  BY <1>1, <1>2

\* A connected player never falls out of the lists, whoever leaves, kicks, deletes or
\* destroys a room, but for the quitRoom of one who is not Online.
THEOREM PlayersStayListed == Spec => StaysListed
<1> DEFINE Kept(c) ==
        \/ Listed(c)'
        \/ player[c].state # "Online" /\ player[c].place # Lobby /\ QuitRoom(c, player[c].place)
<1>1. ASSUME Consistency, [Next]_vars,
             NEW c \in Conns, IsOnline(Now, c) /\ Listed(c) /\ IsOnline(Now, c)'
      PROVE  Kept(c)
  <2>1. ConnectionStep
    BY <1>1, NextSpares
  <2>2. Spared(c) \/ LosesSocket(c) \/ LeavesRoom(c)
    BY <2>1 DEF ConnectionStep, EverybodySpared, LosesSocket, LeavesRoom
  <2>3. CASE Spared(c)
    BY <1>1, <2>3 DEF Spared
  <2>4. CASE LosesSocket(c)
    BY <1>1, <2>4 DEF LosesSocket
  <2>5. CASE LeavesRoom(c)
    BY <1>1, <2>5 DEF LeavesRoom
  <2> QED
    BY <2>2, <2>3, <2>4, <2>5
<1>2. Consistency /\ [Next]_vars =>
        [\A c \in Conns : (IsOnline(Now, c) /\ Listed(c) /\ IsOnline(Now, c)') => Kept(c)]_vars
  BY <1>1
<1> QED
  BY <1>2, ConsistencyInvariant, PTL DEF Spec, StaysListed

\* An account never has fewer connections after a step than before, unless a socket of
\* its own closes: none is lost on the way to another object, room or lobby.
THEOREM ConnectionsAreKept ==
    ASSUME IsFiniteSet(Conns)
    PROVE  Spec => ConnectionsKept
<1> DEFINE Kept(u) ==
        \/ Cardinality(Connected(u)') >= Cardinality(Connected(u))
        \/ \E c \in Connected(u) : SocketClosed(c)
<1>1. ASSUME Consistency, [Next]_vars, NEW u \in Users PROVE Kept(u)
  <2> DEFINE S == {c \in Conns : IsOnline(Now, c) /\ player[c].uid = u}
             T == {c \in Conns : IsOnline(Now, c)' /\ player'[c].uid = u}
  <2>1. Connected(u) = S /\ Connected(u)' = T
    BY DEF Connected
  <2>2. IsFiniteSet(S) /\ IsFiniteSet(T)
    <3>1. S \in SUBSET Conns /\ T \in SUBSET Conns
      OBVIOUS
    <3> HIDE DEF S, T
    <3> QED
      BY <3>1, FS_Subset
  <2>3. \A c \in Conns : Spared(c) /\ c \in S => c \in T
    BY DEF Spared
  <2>4. ConnectionStep
    BY <1>1, NextSpares
  <2>5. S \subseteq T => Kept(u)
    <3> HIDE DEF S, T
    <3> QED
      BY <2>1, <2>2, GrowthCounts
  <2>6. CASE EverybodySpared
    BY <2>3, <2>5, <2>6 DEF EverybodySpared
  <2>7. ASSUME NEW d \in Conns, LosesSocket(d) PROVE Kept(u)
    <3>1. CASE d \in S
      BY <2>1, <2>7, <3>1 DEF LosesSocket
    <3>2. CASE d \notin S
      BY <2>3, <2>5, <2>7, <3>2 DEF LosesSocket
    <3> QED
      BY <3>1, <3>2
  <2>8. ASSUME NEW d \in Conns, LeavesRoom(d) PROVE Kept(u)
    <3>1. \A c \in S : c # d => c \in T
      BY <2>3, <2>8 DEF LeavesRoom
    <3>2. CASE d \in S => d \in T
      BY <2>5, <3>1, <3>2
    <3>3. CASE d \in S /\ d \notin T
      <4>1. \E n \in T : n \notin S
        BY <2>8, <3>3 DEF LeavesRoom
      <4>2. PICK n \in T : n \notin S
        BY <4>1
      <4> HIDE DEF S, T
      <4>3. Cardinality(T) >= Cardinality(S)
        BY <2>2, <3>1, <3>3, <4>2, SwapCounts
      <4> QED
        BY <2>1, <4>3
    <3> QED
      BY <3>2, <3>3
  <2> QED
    BY <2>4, <2>6, <2>7, <2>8 DEF ConnectionStep
<1>2. Consistency /\ [Next]_vars => [\A u \in Users : Kept(u)]_vars
  BY <1>1
<1> QED
  BY <1>2, ConsistencyInvariant, PTL DEF Spec, ConnectionsKept

=============================================================================
