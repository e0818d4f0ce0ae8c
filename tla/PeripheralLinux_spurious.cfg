SPECIFICATION Spec
CONSTANTS
    Attempts = 2
    MaxCalls = 2
    MaxFaults = 1
    MaxBus = 3
INVARIANT NoSpuriousDisconnection
CHECK_DEADLOCK FALSE
