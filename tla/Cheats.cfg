SPECIFICATION Spec
CONSTANTS
    first = first
    second = second
    a1 = a1
    a2 = a2
    b1 = b1
    e1 = e1
    p1 = p1
    mine = mine
    blank = blank
    Games <- TwoGames
    Header <- MCHeader
    Copies <- MCCopies
    MaxGames = 20000
    AnyVersion = 255
    AnyRegion = "?"
    Fold <- MCFold
    Trim <- MCTrim
    Empty = ""
    NewName = "LIVES"
    LongNames = {"Moon"}
    Typed = {"", " "}
    Codes = {mine}
    Blank = blank
    Lines <- MCLines
    MaxLines = 2
    PakCodes = {p1}
    UserMax = 1
    EmitLines = 2
    Paks = {FALSE, TRUE}
    Setups <- MCSetups
    MaxBoots = 2
INVARIANTS
    EmittedIsAsked
    ListIsThisCartridges
    NothingTypedIsLost
CHECK_DEADLOCK FALSE
