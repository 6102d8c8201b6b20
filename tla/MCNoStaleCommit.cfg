CONSTANTS
    Peers = {1, 2}
    Secure = TRUE
    SigRank <- MCSigRank
    Tasks = {1}
    Workers = {1, 2}
    Submitters = {1, 2}
    WalNodes = {1, 2}
    Gossiping = {1, 2}
    Restarting = {1, 2}
    Accurate = FALSE
    Prompt = FALSE
    Score <- MCScore
    Offset <- MCOffset
    Outcomes = {"DONE", "FAILED"}
    LeaseDurations = {1}
    QueueSize = 3
    MaxTasks = 2
    MaxGossipTasks = 2
    MaxSubmits = 1
    MaxEpoch = 2
    MaxTime = 1
    MaxCrashes = 0
    MaxCrashTime = 1
SPECIFICATION Spec
PROPERTIES NoStaleCommit
CHECK_DEADLOCK FALSE
