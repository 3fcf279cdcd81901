SPECIFICATION Spec
CONSTANTS
    mario = mario
    zelda = zelda
    n64 = n64
    nes = nes
    Games <- TwoGames
    Key <- TwoKeys
    Folder <- TwoFolders
    Slots = {0, 1}
    MaxStamp = 3
    Clock = {1}
    MaxNewest = 0
    Liked = {1}
    Ticked = {1}
    Locked = {1}
    OldRows = {}
    OldRoster = {0, 1}
    Libraries <- Complete
    Writable = {TRUE}
    Torn = {"play", "cheat", "locks", "saves"}
    Deletable = {"other"}
INVARIANTS
    OwnHistoryOnly
    FreeSlotIsEmpty
PROPERTIES
    OnlyTheParentMovesLocks
