SPECIFICATION Spec
CONSTANTS
    mario = mario
    zelda = zelda
    n64 = n64
    nes = nes
    Games <- TwoGames
    Key <- TwoKeys
    Folder <- TwoFolders
    Slots = {0, 1}
    MaxStamp = 3
    Clock = {1}
    MaxNewest = 1
    Liked = {1}
    Ticked = {1}
    Locked = {2}
    OldRows = {}
    OldRoster = {0, 1}
    Libraries <- AnyLibrary
    Writable = {TRUE, FALSE}
    Torn = {"ini", "locks", "play", "cheat", "saves"}
    Deletable = {}
VIEW WithoutSaves
INVARIANTS
    CleanMeansSaved
PROPERTIES
    PlayedIsNewest
