SPECIFICATION Spec
CONSTANTS
    Topics <- BothTopics
    Sensors <- LevelSensor
    Topic <- LevelTopic
    Records <- LevelMote
    Throttled <- FlowRate
    MinPeriod = 2
    MaxTime = 3
    MaxLosses = 2
    Null = null
PROPERTY EverySensorSpaced
CHECK_DEADLOCK FALSE
