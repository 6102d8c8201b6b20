CONSTANTS
    Peers <- MCPeers
    Secure = FALSE
    SigRank <- MCSigRank
    Replica = {a, b}
    Universe <- MCUniverse
SPECIFICATION ReplicasSpec
INVARIANTS Convergence UpperBound
