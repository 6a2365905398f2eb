SPECIFICATION FairClientSpec
CONSTANTS
    Thread = {t1, t2}
    Dummy = Dummy
    Peer = Peer
    Item <- Items
    Garbage = Garbage
    NoSlot = NoSlot
    NodeSize = 3
    MaxLen = 4
    Answers <- OneOrTwo
    TrackerThrows = TRUE
    totalPieces = 2
    pieceLength = 4
    fileSize = 7
    Durations <- MinuteAndDays
    Word = 16
INVARIANTS
    ClientTypeOK
    NoLostWakeup
    
    
PROPERTIES
    UsesSharedQueue
    
CHECK_DEADLOCK FALSE
