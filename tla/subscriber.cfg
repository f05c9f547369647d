SPECIFICATION FairSpec
CONSTANTS
    Topics <- BothTopics
    Sensors <- FlowSensors
    Topic <- FlowTopic
    Records <- FlowMote
    Throttled <- FlowRate
    MinPeriod = 2
    MaxTime = 3
    MaxLosses = 3
    Null = null
INVARIANT TypeOK
INVARIANT SomeoneRetries
INVARIANT RestsSubscribed
INVARIANT JudgedByRows
PROPERTY FlowsSpaced
PROPERTY ReceivesAgain
CHECK_DEADLOCK FALSE
