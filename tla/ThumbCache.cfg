SPECIFICATION Spec
CONSTANTS
    a = a
    b = b
    c = c
    wide = wide
    narrow = narrow
    half = half
    auto = auto
    forced = forced
    NoJob = NoJob
    Empty = Empty
    Games <- Three
    Cover <- MixedCovers
    Shapes = {wide, narrow, half}
    Regions <- TwoSettings
    ShapeIn <- Cut
    Storable = {wide, narrow}
    AtlasRoom = 2
    StoreFaults = {"write", "reopen"}
    Warm = {wide}
    BootOrders <- Sorted
    PoolSize = 2
    Window = 1
    Margin = 1
    MayShuffle = TRUE
INVARIANTS
    SlotShowsOwnArt
    PoolConsistent
    NoArtOnlyIfUnusable
