SPECIFICATION Spec
CONSTANTS
    Threads = {t1, t2, t3}
    Rooms = {r1, r2, r3, r4}
    Tasks = {k1, k2}
    Md5s = {m1, m2}
    Outdated = Outdated
    RoomCountPerThread = 3
    None = None
INVARIANTS
    RefCountExact
    ThreadsStay
    IdleThreadsGo
SYMMETRY Symmetry
