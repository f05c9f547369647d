SPECIFICATION FairSpec
CONSTANTS
    n = n
    NaN = n
    r = r
    NoRow = r
    Readings <- ThreeLevels
    Rates <- TwoRates
    Typed <- TypedWithNaN
    InitialMin = 48
    InitialMax = 52
    InitialSafe = 60
INVARIANT TypeOK
INVARIANT ThresholdsOrdered
INVARIANT ZoneWasTrue
INVARIANT WarnedBeforeOpening
INVARIANT PlanMonotone
PROPERTY AlarmRaised
