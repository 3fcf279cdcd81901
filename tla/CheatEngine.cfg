SPECIFICATION Spec
CONSTANTS
    Byte = 4
    Shift <- MCShift
    RamTop = 1024
    PakAt = 60
    GapMin = 8
    GapMax = 28
    GuardWords = 2
    MaxSegments = 3
    MaxRuns = 16
    MaxWords = 32
    MaxAtoms = 48
    Games <- MCGames
    Ticked <- MCTicked
    HeaderEntry = 128
    Vector = 32
    ClassicAt = 960
    Memories <- MCMemories
    Borrowed = {7}
    MaxExceptions = 1
INVARIANTS
    EngineDoesWhatTheCheatsSay
    NeverNests
    GameIsKept
PROPERTY EveryExceptionEnds
CHECK_DEADLOCK FALSE
