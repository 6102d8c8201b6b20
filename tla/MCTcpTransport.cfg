SPECIFICATION FairSpec
CONSTANTS
    Nodes = {1, 2, 3}
    Callers <- MCCallers
    Owner <- MCOwner
    Targets <- MCTargets
    MaxConnections = 1
    InboxSize = 1
    MaxSends = 2
    MaxDials = 2
    Closers = {1, 2}
    MaxCloses = 1
INVARIANTS
    LimitOvershoot
    IncomingLimit
    CleanClose
PROPERTIES
    ImplementsNetwork
    ComesToRest
CHECK_DEADLOCK FALSE
