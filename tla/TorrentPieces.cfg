SPECIFICATION PiecesSpec
CONSTANTS
    block_size = 2
    MaxTotal = 14
    MaxForeignPiece = 7
    Limits <- ThreeLimits
    Lengths <- ThreeLengths
    Created <- UpToThreeFiles
    Foreign <- AnyPieceLength
INVARIANTS
    HashCount
    HashedIffInOneFile
    CoveredIffShortTail
    
CHECK_DEADLOCK FALSE
