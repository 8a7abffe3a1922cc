SPECIFICATION Spec
CONSTANTS
    Users = {u1, u2}
    Conns = {c1, c2, c3}
    Rooms = {r1}
    Capacities = {0, 2}
    MaxPosts = 1
    None = None
    Lobby = Lobby
    Robot = Robot
INVARIANTS
    TypeOK
    Placement
    OnlineMapSound
    OwnerSeated
    AbandonedRoomIsChecked
    GhostSeatIsTemporary
SYMMETRY Symmetry
