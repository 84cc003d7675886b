SPECIFICATION FairSpec
CONSTANTS
    TILE = 2
    SEQ_LEN = 4
    HEAD_DIM = 4
    Q_HEADS = 2
    GQA_GROUPS = 2
    RUN_GQA_GROUPS = 2
    MaxRuns = 2
INVARIANTS VectorIsRotated ControllersInStep GroupsInOrder
PROPERTY RunEnds
