SPECIFICATION Spec
CONSTANTS
    Users = {u1, u2}
    Tasks = {k1, k2, k3}
    None = None
INVARIANTS
    TasksOfTheLobby
    NoStrayCoroutine
SYMMETRY Symmetry
