SPECIFICATION Spec
CONSTANTS
    Systems <- MCSystems
    GridW = 10
    TileGap = 1
    MaxView = 3
    Tracks <- MCTracks
    Loudest = 1
    RiseEnd = 1
    HoldMin = 1
    HoldMax = 2
    Curtain = 1
    Titles <- MCTitles
    Given <- MCGiven
    PathTitle <- MCPathTitle
    System <- MCSystem
    Cols = 1
    Letters = {0, 2}
    NameLimit = 1
    TextLimit = 1
    Slots <- MCSlots
    Looks <- MCLooks
    NoIcon = 0
    Starter <- MCStarter
    Themes <- MCThemes
    Settle = 2
    Boots <- MCBoots
INVARIANTS PickBeforePlay WhatWasSetHolds
PROPERTIES NamesStay WayOut
