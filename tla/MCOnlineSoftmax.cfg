SPECIFICATION Spec
CONSTANTS
    TILE = 2
    SEQ_LEN = 6
    Blocks = {0, 1}
    Scores <- MCScores
    SCORE_MAX = 5
    ONE = 16
    EXP_LIMIT = 3
    Exp <- MCExp
    LOSS = 0
    GAIN = 0
    L_MOD = 128
    POS_MOD = 8
    Tiles <- MCTiles
INVARIANTS SoftmaxOfTheRow DenominatorInRange
CONSTRAINT StopAtError
