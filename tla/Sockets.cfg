SPECIFICATION Spec
CONSTANTS
    Sockets = {s1, s2}
    Players = {p1, p2}
    MaxSends = 4
    None = None
INVARIANTS
    TypeOK
    InOrder
    Heard
    NoLeak
    KickUnderWay
PROPERTIES
    FlushedBeforeClose
    LinkKept
SYMMETRY Symmetry
