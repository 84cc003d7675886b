SPECIFICATION EchoSpec
CONSTANTS
    Total = 4
    MaxEchoed = 4
    SndBuf = 2
    RcvWnd = 2
INVARIANTS EchoedAsSent
CHECK_DEADLOCK FALSE
