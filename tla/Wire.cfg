SPECIFICATION WireSpec
CONSTANTS
    ByteBits = 4
    IntBytes = 2
    NumPieces = 5
    Messages <- SomeMessages
    MaxSent = 4
INVARIANTS
    DeliveredInOrder
    
PROPERTY
    ImplementsAnnouncements
CHECK_DEADLOCK FALSE
