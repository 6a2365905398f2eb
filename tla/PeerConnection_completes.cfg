SPECIFICATION FairConnSpec
CONSTANTS
    Thread = {t1}
    PeerId = {a, b}
    totalPieces = 3
    blockCount <- TwoOneOne
    maxPendingTime = 1
    StaleRarest <- NoPiece
    MaxPending = 3
    NoBlock = NoBlock
    Asserts = {TRUE}
    serves <- Seeds
    Rogue <- NoPeer
    Faults <- Refuse
    DistinctPeers = TRUE
PROPERTIES
    Completes
    ThreadsEnd
CHECK_DEADLOCK FALSE
