SPECIFICATION FairConnSpec
CONSTANTS
    Thread = {t1}
    PeerId = {a}
    totalPieces = 2
    blockCount <- OneTwo
    maxPendingTime = 1
    StaleRarest <- NoPiece
    MaxPending = 2
    NoBlock = NoBlock
    Asserts = {TRUE}
    serves <- Seeds
    Rogue <- NoPeer
    Faults <- NoFaults
    DistinctPeers = TRUE
PROPERTY
    Completes
CHECK_DEADLOCK FALSE
