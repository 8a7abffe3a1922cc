\* With every connId of the bound taken by dead players nothing can happen.
CHECK_DEADLOCK FALSE
SPECIFICATION FairPlaySpec
CONSTANTS
    Users = {u1}
    Conns = {c1, c2, c3}
    Rooms = {r1}
    Capacities = {0, 1, 2}
    MaxPosts = 2
    None = None
    Lobby = Lobby
    Robot = Robot
PROPERTY ConnectionsKept
PROPERTY RoomReclaimed
PROPERTY StaysListed
