SPECIFICATION FairSpec
CONSTANTS
    FULL_OPEN = 2
    BLINKS = 5
    Requests <- SomeRequests
    MaxReboots = 1
INVARIANT TypeOK
INVARIANT BlinksThrice
INVARIANT AlarmTells
PROPERTY Serves
PROPERTY AlarmBlinks
PROPERTY CommandableInTheEnd
