CONSTANTS
    Peers = {1, 2}
    Secure = TRUE
    SigRank <- MCSigRank
    Tasks = {1}
    Workers = {1, 2}
    Submitters = {1, 2}
    WalNodes = {}
    Gossiping = {1, 2}
    Restarting = {}
    Accurate = TRUE
    Prompt = TRUE
    Score <- MCScore
    Offset <- MCOffset
    Outcomes = {"DONE", "FAILED"}
    LeaseDurations = {1}
    QueueSize = 3
    MaxTasks = 2
    MaxGossipTasks = 2
    MaxSubmits = 1
    MaxEpoch = 4
    MaxTime = 1
    MaxCrashes = 1
    MaxCrashTime = 0
SPECIFICATION FairIntactSpec
PROPERTIES TaskCompletes
CHECK_DEADLOCK FALSE
