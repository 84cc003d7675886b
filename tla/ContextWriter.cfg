SPECIFICATION FairSpec
CONSTANTS
    BEAT_WORDS = 2
    HEAD_DIM = 4
    TILE_ROWS = 2
    Blocks = 2
    Burst = 3
    MaxRuns = 3
INVARIANTS CleanContextIsComplete NoErrorWithoutFault
PROPERTIES RunEnds WriterIsAStage
