SPECIFICATION FusionFairSpec
CONSTANTS
    TILE = 2
    V_LANES = 2
    SEQ_LEN = 4
    HEAD_DIM = 4
    Q_HEADS = 1
    GQA_GROUPS = 2
    NUM_W = 2
    Causal = TRUE
INVARIANT ContextIsAttention
PROPERTY TilesConsumed
