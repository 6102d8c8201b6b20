CONSTANTS
    Senders = {1, 2}
    Ignored = {2}
    Addresses = {1, 2}
    Nonces = {n1, n2}
    MaxCopies = 2
    BeaconInterval = 1
    Ttl = 1
    ScanInterval = 1
    ReplayWindow = 1
    CacheSize = 1
    InboxSize = 1
    MaxPeers = 1
    MaxStarts = 1
SPECIFICATION FairSpec
INVARIANTS RememberedUnlessFull
PROPERTIES DirectoryCatchesUp DeadIsForgotten
