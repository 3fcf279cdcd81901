SPECIFICATION Spec
CONSTANTS
    Garbage = Garbage
    Sources = {a, b, c}
    Shapes = {wide, narrow, half}
    Storable = {wide, narrow}
    MaxSlots = 3
    \* Left out: "open", "header" and "torn", each of which leaves a damaged file.
    Faults = {"create", "write", "reopen", "index"}
    Legacy = FALSE
INVARIANTS
    FetchIsOwnTile
    IndexNeverLies
    OneRowPerCover
PROPERTIES
    ImplementsAtlas
    NamedSlotsAreFinal
