SPECIFICATION FairSpec
CONSTANTS
    root = root
    home = home
    sub = sub
    one = one
    Dir = {root, home, sub}
    Torrent = {one}
    parent <- Tree
    cwd = home
    Up = Up
    order <- ByName
    Unreadable = {}
    contents <- AnyContent
    Example = {one}
    Nothing = Nothing
    Rows = 1
    AfterAbort <- Anything
    MaxNews = 1
    MaxChanges = 2
INVARIANTS
    SelectionInList
    DrawnIsLive
PROPERTIES
    NeverVanishes
    AddedIsShown
    EndsAfterExit
CHECK_DEADLOCK FALSE
