SPECIFICATION Spec
CONSTANTS
    NumLeds = 3
    FullDuty = 6
INVARIANTS
    TypeOK
    OneFadeAtATime
    InterruptNotLost
    OthersDark
PROPERTIES
    ChaseSpec
    EveryLedLit
