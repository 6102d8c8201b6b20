CONSTANTS
    HeaderCells = 2
    PayloadCells = {1, 2}
    MaxUpdates = 3
    MaxCrashes = 2
SPECIFICATION WalSpec
INVARIANTS DurableUnlessBuried
PROPERTIES RecoverableGrows
