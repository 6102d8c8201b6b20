CONSTANTS
    Putters = {p1, p2}
    Getters = {g1, g2}
    Priorities = {0, 10}
    MaxSize = 1
    MaxItems = 4
    Senders = {s1, s2, s3}
    Amounts = {1, 2}
    Initial = 1
    MaxCredits = 4
    MaxCalls = 8
SPECIFICATION MCSpec
INVARIANTS Bounded NothingLost NoLostWakeup NeverOverdrawn NoSleeperWithCredits
CHECK_DEADLOCK FALSE
