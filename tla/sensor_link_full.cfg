SPECIFICATION FairSpec
CONSTANTS
    RECONNECT_INTERVAL = 3
    MAX_BACKOFF_EXP = 2
    DEFAULT_TIME_PERIOD = 1
    PublishPeriod = 5
    CLOCK_MAX = 4095
    NoTimer = none
    Faults <- FullQueue
    MaxFaults = 1
PROPERTY AlwaysReconnects
