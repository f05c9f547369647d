SPECIFICATION Spec
CONSTANTS
    FULL = 2
    MAX_FLOW <- SmallFlows
    INIT_INGATE = 1
    MARGIN = 4
    WATER_LEVEL_VAR = 3
    RAND_MAX = 5
    SURFACE = 2
    MAX_WATER_LEVEL = 9
    INIT_WATER_LEVEL = 4
    INIT_RESERVOIR = 10
    WORD = 64
INVARIANT TypeOK
INVARIANT ReservoirBounded
PROPERTY DrainsWhileWet
CHECK_DEADLOCK FALSE
