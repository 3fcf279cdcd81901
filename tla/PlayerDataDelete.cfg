SPECIFICATION Spec
CONSTANTS
    mario = mario
    zelda = zelda
    n64 = n64
    nes = nes
    Games <- TwoGames
    Key <- TwoKeys
    Folder <- TwoFolders
    Slots = {0, 1}
    MaxStamp = 3
    Clock = {1}
    MaxNewest = 1
    Liked = {1, 2}
    Ticked = {}
    Locked = {}
    OldRows = {}
    OldRoster = {0, 1}
    Libraries <- Complete
    Writable = {TRUE}
    Torn = {}
    Deletable = {"active"}
INVARIANTS
    OwnHistoryOnly
