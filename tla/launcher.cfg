SPECIFICATION Spec
CHECK_DEADLOCK FALSE
CONSTANTS
    Pids = {p1, p2}
    NoChild = NoChild
    Second = 4
    PollInterval = 0
    RespawnDelay = 3
    StopAttempts = 2
INVARIANTS
    TypeOK
    ChildIsTracked
PROPERTIES
    RespawnIsSpaced
    ServerComesBack
    NoOrphans
    StopEnds
