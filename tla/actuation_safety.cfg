SPECIFICATION Spec
CONSTANTS
    g1 = g1
    e1 = e1
    a1 = a1
    m1 = m1
    m2 = m2
    Absent = absent
    NoRes = nores
    Gates <- BothGates
    Alarms <- NoGate
    Emergency <- EmergencyGate
    Motes <- TwoMotes
    Host <- HostGates
    FULL_OPEN = 2
    Steps <- OneStep
    Typed <- LegalAndNot
    Faults <- AllFaults
    MaxFaults = 1
INVARIANT TypeOK
INVARIANT RegistryExplained
PROPERTY OperatorsGateStands
PROPERTY UnitMovesAsDecided
PROPERTY Serves
