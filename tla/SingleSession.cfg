SPECIFICATION PlaySpec
CONSTANTS
    Users = {u1}
    Conns = {c1, c2, c3, c4}
    Rooms = {r1}
    Capacities = {1, 2}
    MaxPosts = 2
    None = None
    Lobby = Lobby
    Robot = Robot
INVARIANT SingleSession
SYMMETRY Symmetry
