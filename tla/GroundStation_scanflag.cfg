SPECIFICATION Spec
CONSTANTS
    esp = esp
    clone = clone
    other = other
    NULL = NULL
    Devices = {esp}
    EspNamed = {esp}
    Gatt <- MCGatt
    Advertised <- MCAdvertised
    PERIPHERAL_LIST_SIZE = 1
    ControlSeq <- QuitAndLever
    RawValues <- OneRawValue
    JsBufferSize = 4
    MaxInputs = 0
    Creatable = {"hotas", "ble"}
INVARIANTS
    FlagStopsUpdates
