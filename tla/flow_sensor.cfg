SPECIFICATION FairSpec
CONSTANTS
    Channels <- TwoChannels
    FULL = 2
    PRESS = 2
    INIT_INGATE = 2
    UNIT = 4
    VAR_THRESHOLD = 1
    LINEAR_MIN = 2
    LINEAR_DIV = 2
    RAND_MAX = 5
    MaxInputs = 2
    MaxQueue = 1
INVARIANT TypeOK
INVARIANT FlowBounded
INVARIANT InflowInBand
PROPERTY LedToTarget
PROPERTY Settles
PROPERTY Follows
CHECK_DEADLOCK FALSE
