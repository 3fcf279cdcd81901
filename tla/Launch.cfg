SPECIFICATION Spec
CONSTANTS
    mario = mario
    chrono = chrono
    snake = snake
    ann = ann
    bob = bob
    Nobody = Nobody
    Games <- ThreeGames
    Players = {ann, bob}
    Emulated = {chrono, snake}
    Cores = {chrono}
    Saving = {mario, snake}
    Ticked = {mario, chrono}
    Engines = {"cartridge", "classic"}
    Carts = {"sc64", "none"}
    MaxSaves = 2
    MaxPlays = 2
INVARIANTS
    OwnSave
    ProgressKept
    CountedOnce
    BootableImage
