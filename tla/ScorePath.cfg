SPECIFICATION PathSpec
CONSTANTS
    TILE = 2
    DEPTH_TILES = 2
    SEQ_LEN = 6
    HEAD_DIM = 2
    Q_HEADS = 2
    GQA_GROUPS = 2
    QK_LANES = 2
    CAUSAL_TILE_SKIP = TRUE
    DimMod = 2
    CounterMod = 3
    Inputs = {}
INVARIANTS TilesInSequence VectorIsAwaited
PROPERTIES ImplementsStream GroupDrains
