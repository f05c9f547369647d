SPECIFICATION FairSpec
CONSTANTS
    g1 = g1
    e1 = e1
    a1 = a1
    m1 = m1
    m2 = m2
    Absent = absent
    NoRes = nores
    Gates <- PrimaryGate
    Alarms <- OneAlarm
    Emergency <- NoGate
    Motes <- TwoMotes
    Host <- HostApart
    FULL_OPEN = 1
    Steps <- OneStep
    Typed <- Closed
    Faults <- AllButCrash
    MaxFaults = 2
PROPERTY ManualTakesOver
PROPERTY FloodOpensGates
PROPERTY AlarmsFollow
