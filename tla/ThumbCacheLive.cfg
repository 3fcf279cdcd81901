SPECIFICATION Spec
CONSTANTS
    a = a
    b = b
    c = c
    wide = wide
    narrow = narrow
    half = half
    auto = auto
    forced = forced
    NoJob = NoJob
    Empty = Empty
    Games <- Three
    Cover <- NoisyCovers
    Shapes = {wide, narrow, half}
    Regions <- OneSetting
    ShapeIn <- Cut
    Storable = {wide, narrow}
    AtlasRoom = 4
    StoreFaults = {"reopen"}
    Warm = {wide}
    BootOrders <- Sorted
    PoolSize = 1
    Window = 1
    Margin = 0
    MayShuffle = TRUE
INVARIANT
    CompleteMeansBuilt
PROPERTIES
    VisibleTilesSettle
    CacheFallsSilent
