SPECIFICATION FairSpec
CONSTANTS
    Players = {p1, p2}
    MaxRequests = 3
    MaxWakeUps = 1
    None = None
INVARIANTS
    NoLostWakeUp
    TakenOnce
PROPERTY RoundEnds
