CONSTANTS
    Peers = {1, 2}
    Secure = TRUE
    SigRank <- MCSigRank
    Tasks = {1, 2}
    Workers = {1}
    Submitters = {1, 2}
    WalNodes = {}
    Gossiping = {1}
    Restarting = {}
    Accurate = FALSE
    Prompt = FALSE
    Score <- MCScore
    Offset <- MCOffset
    Outcomes = {"DONE"}
    LeaseDurations = {1}
    QueueSize = 4
    MaxTasks = 2
    MaxGossipTasks = 1
    MaxSubmits = 2
    MaxEpoch = 3
    MaxTime = 1
    MaxCrashes = 0
    MaxCrashTime = 1
SPECIFICATION IntactSpec
INVARIANTS TokenUnique PendingIsServed
CHECK_DEADLOCK FALSE
