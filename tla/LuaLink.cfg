SPECIFICATION Spec
CONSTANTS
    MaxJobs = 1
    MaxId = 2
    MaxSent = 2
    MaxAstray = 1
INVARIANTS
    NothingStray
    WaitsHaveCause
PROPERTIES
    CallReturns
    QuitEnds
\* The server ends, and its thread may wait for ever (WaitsHaveCause, QuitEnds).
CHECK_DEADLOCK FALSE
