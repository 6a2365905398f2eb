SPECIFICATION ConnSpec
CONSTANTS
    Thread = {t1, t2}
    PeerId = {a, b}
    totalPieces = 1
    blockCount <- JustTwo
    maxPendingTime = 1
    StaleRarest <- NoPiece
    MaxPending = 1
    NoBlock = NoBlock
    Asserts = {TRUE, FALSE}
    serves <- Seeds
    Rogue = {b}
    Faults <- AllFaults
    DistinctPeers = TRUE
INVARIANTS
    ConnectedIsKnown
    RemoveFindsPeer
    Accounting
    HaveWasDelivered
    CommitsBounded
PROPERTY
    UsesPieceManager
SYMMETRY ThreadSymmetry
CHECK_DEADLOCK FALSE
