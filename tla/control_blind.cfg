SPECIFICATION FairSpec
CONSTANTS
    n = n
    NaN = n
    r = r
    NoRow = r
    Readings <- BlindLevels
    Rates <- OneRate
    Typed <- NoTyping
    InitialMin = 48
    InitialMax = 52
    InitialSafe = 60
PROPERTY AlarmAlwaysControlled
