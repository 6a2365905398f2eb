SPECIFICATION ConnSpec
CONSTANTS
    Thread = {t1}
    PeerId = {a, b}
    totalPieces = 2
    blockCount <- TwoOne
    maxPendingTime = 1
    StaleRarest <- AnyPiece
    MaxPending = 3
    NoBlock = NoBlock
    Asserts = {TRUE}
    serves <- Seeds
    Rogue = {b}
    Faults <- AllFaults
    DistinctPeers = TRUE
INVARIANTS
    ConnTypeOK
    OneRequestAtATime
    AnswerIsNeeded
CHECK_DEADLOCK FALSE
