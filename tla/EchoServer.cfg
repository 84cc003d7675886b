SPECIFICATION EchoFairSpec
CONSTANTS
    Total = 4
    MaxEchoed = 4
    SndBuf = 2
    RcvWnd = 2
INVARIANTS EchoIsExact
PROPERTY AllEchoed
CHECK_DEADLOCK FALSE
