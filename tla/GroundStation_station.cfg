SPECIFICATION Spec
CONSTANTS
    esp = esp
    clone = clone
    other = other
    NULL = NULL
    Devices = {esp, clone}
    EspNamed = {esp, clone}
    Gatt <- MCGatt
    Advertised <- MCAdvertised
    PERIPHERAL_LIST_SIZE = 1
    ControlSeq <- QuitAndLever
    RawValues <- OneRawValue
    JsBufferSize = 4
    MaxInputs = 1
    Creatable = {"hotas", "ble"}
INVARIANTS
    TypeOK
    HandlesAccountedFor
    ExitReleasesAll
    CleanAfterCallbacks
    LoopWithoutLink
