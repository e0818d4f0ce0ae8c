SPECIFICATION Spec
CONSTANTS
    Attempts = 2
    MaxCalls = 2
    MaxFaults = 1
    MaxBus = 3
INVARIANTS
    TypeOK
    CacheCoherent
    OutcomeIsTrue
    AttemptsSilent
    DeletedIsSilent
PROPERTIES
    LinkSpec
    CallReturns
CHECK_DEADLOCK FALSE
