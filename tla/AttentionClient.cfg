SPECIFICATION FairSpec
CONSTANTS
    CONTEXT_BYTES = 3
    MAX_VALID_TOKENS = 2
    Ids = {0, 1}
    Tokens = {1, 2}
    HeaderLength = 2
    MaxRequests = 3
    MaxConnections = 2
INVARIANTS ContextIsOwn ReuseAtBoundary FailureHasCause
PROPERTY RequestEnds
CHECK_DEADLOCK FALSE
