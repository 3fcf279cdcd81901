SPECIFICATION Spec
CONSTANTS
    zelda = zelda
    hack = hack
    metroid = metroid
    untitled = untitled
    quest = quest
    Dirs = {1, 2, 3, 4}
    Parent <- TreeParent
    Depth <- TreeDepth
    ScanDepth = 1
    MaxDirs = 2
    Games <- TwoGames
    N64 = {zelda, hack}
    Builds = {1, 2}
    Header <- Headers
    NoName = untitled
    Typed <- TwoNames
    MayName <- ZeldaNamed
    Size <- Powers
    MayHold <- FewEntries
    FirstCards <- TwoCards
    LowMemory = TRUE
    WriteFaults = TRUE
    MaxEdits = 2
INVARIANTS
    LibraryIsTheCard
    NoCoverOverlooked
    SettledStaysSettled
