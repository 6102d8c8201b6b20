SPECIFICATION FairSpec
CONSTANTS
    Nodes = {1, 2}
    Coroutines <- MCCoroutines
    Owner <- MCOwner
    Strides <- MCStrides
    Latencies <- MCLatencies
    Lossy = TRUE
    InboxSize = 1
    MaxSends = 2
    MaxLives = 2
INVARIANTS
    NoGhost
    DeliveredInOrder
    NobodyOversleeps
PROPERTIES
    ImplementsNetwork
    SendReturns
