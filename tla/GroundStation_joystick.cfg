SPECIFICATION Spec
CONSTANTS
    esp = esp
    clone = clone
    other = other
    NULL = NULL
    Devices = {}
    EspNamed = {}
    Gatt <- MCGatt
    Advertised <- MCAdvertised
    PERIPHERAL_LIST_SIZE = 1
    ControlSeq <- MCControls
    RawValues <- TwoRawValues
    JsBufferSize = 3
    MaxInputs = 4
    Creatable = {"hotas"}
INVARIANTS
    DisplayAgreesUnderLock
    DrainedThrottleMatches
PROPERTIES
    LeverReachesDisplay
