SPECIFICATION Spec
CONSTANTS
    addr = addr
    port = port
    pin = pin
    Peripherals = {1, 2}
    NumPerphs = 2
    Addrs = {addr}
    Ports = {port}
    Pins = {pin}
    portOf <- MCPortOf
    NoPort = NoPort
    NoPin = NoPin
    NULL = NULL
    Requests <- AllRequests
    MaxRequests = 2
    PipeCap = 3
    MaxNotes = 2
    Faulty = {1, 2}
    Unlaunchable = {1, 2}
INVARIANTS
    TypeOK
    Framed
    NoStrayRequest
    LiveMeansReady
    NoOrphans
PROPERTIES
    NeverStuck
