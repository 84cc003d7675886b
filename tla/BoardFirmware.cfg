SPECIFICATION FwSpec
CONSTANTS
    CycleMod = 1
    Runs = 3
    POLL_LIMIT = 2
INVARIANTS PassIsHonest CleanRunPasses StartTakenOnce
PROPERTY BenchmarkEnds
CHECK_DEADLOCK FALSE
