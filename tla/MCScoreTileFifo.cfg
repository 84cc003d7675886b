SPECIFICATION Spec
CONSTANTS
    TILE = 2
    DEPTH_TILES = 3
    SEQ_LEN = 4
    Q_HEADS = 1
    GQA_GROUPS = 1
    CounterMod = 5
    Inputs <- MCInputs
CONSTRAINT InOrderSoFar
INVARIANTS EntryReserved StoredTilesWellPlaced
PROPERTY ImplementsQueue
