SPECIFICATION Spec
CONSTANTS
    Thread = {t1}
    PeerId = {a, b}
    totalPieces = 2
    blockCount <- TwoOne
    maxPendingTime = 1
    StaleRarest <- AnyPiece
    MaxPending = 3
    NoBlock = NoBlock
    Asserts = {FALSE}
INVARIANTS
    TypeOK
    DiskMatchesHave
    CompleteMeansAll
    PendingExact
    
    PendingTracked
PROPERTIES
    NeverRequestedAgain
    ImplementsVerifiedDownload
CHECK_DEADLOCK FALSE
