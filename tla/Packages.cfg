SPECIFICATION Spec
CONSTANTS
    Packs = {core, p1}
    Core = core
    MaxCommit = 2
    MaxRefresh = 2
INVARIANTS
    TypeOK
    Fresh
    Followable
    DisabledStay
