CONSTANTS
    Peers = {1, 2}
    Secure = FALSE
    SigRank <- MCSigRank
    Tasks = {1}
    Workers = {1, 2}
    Submitters = {1, 2}
    WalNodes = {1, 2}
    Gossiping = {1}
    Restarting = {1, 2}
    Accurate = FALSE
    Prompt = FALSE
    Score <- MCScore
    Offset <- MCOffset
    Outcomes = {"DONE"}
    LeaseDurations = {1}
    QueueSize = 3
    MaxTasks = 2
    MaxGossipTasks = 2
    MaxSubmits = 2
    MaxEpoch = 3
    MaxTime = 1
    MaxCrashes = 1
    MaxCrashTime = 1
SPECIFICATION IntactSpec
INVARIANTS TypeOK CausalBound TokenUnique AnnouncedIsLogged PendingIsServed
CHECK_DEADLOCK FALSE
