SPECIFICATION Spec
CONSTANTS
    Names = {n1, n2}
    Addrs = {a1}
    Uuids = {u1}
    MaxTime = 1
    MaxTemp = 2
    PerDevice = 1
    MaxCommands = 2
SYMMETRY Symmetry
INVARIANTS
    TypeOK
    BanHolds
    
    MuteHolds
    TempBansHeld
    GameInfoOfPlayers
