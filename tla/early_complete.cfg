SPECIFICATION ConnSpec
CONSTANTS
    Thread = {t1, t2}
    PeerId = {a, b}
    totalPieces = 2
    blockCount <- TwoOne
    maxPendingTime = 1
    StaleRarest <- NoPiece
    MaxPending = 2
    NoBlock = NoBlock
    Asserts = {FALSE}
    serves <- Seeds
    Rogue <- NoPeer
    Faults <- NoFaults
    DistinctPeers = TRUE
INVARIANT
    CompleteMeansAll
CHECK_DEADLOCK FALSE
