SPECIFICATION Spec
CONSTANTS
    esp = esp
    clone = clone
    other = other
    NULL = NULL
    Devices = {clone}
    EspNamed = {clone}
    Gatt <- MCGatt
    Advertised <- MCAdvertised
    PERIPHERAL_LIST_SIZE = 1
    ControlSeq <- QuitAndLever
    RawValues <- TwoRawValues
    JsBufferSize = 4
    MaxInputs = 2
    Creatable = {"hotas", "ble"}
INVARIANTS
    ReportedIsRemembered
