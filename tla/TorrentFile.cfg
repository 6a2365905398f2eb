SPECIFICATION TorrentFileSpec
CONSTANTS
    IntWord = 16
    LongWord = 256
    Indeterminate = Indeterminate
    Torrents <- SomeTorrents
    Foreign <- SomeForeign
INVARIANTS
    ReadBack
    PartialIsPart
    SavedFaithfully
CHECK_DEADLOCK FALSE
