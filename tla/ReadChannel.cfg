SPECIFICATION FairSpec
CONSTANTS
    VBeats = 10
    LineBeats = 4
    NLines = 2
    Burst = 4
    MaxRuns = 2
INVARIANTS CleanLoadIsComplete ResponseIsTheRequested NoErrorWithoutFault HandoverIsClean
PROPERTIES ReadsEnd LoaderIsAStage
