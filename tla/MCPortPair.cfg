SPECIFICATION Spec
CONSTANTS
    PortA = PortA
    PortJ = PortJ
    Pin1 = Pin1
    Pin64 = Pin64
    Pin65 = Pin65
    Peripherals = {p1, p2}
    Addrs = {225, 259, 260, 261}
    Ports = {PortJ}
    Pins = {Pin64, Pin65}
    portOf <- PortOfHere
    NoPort = NoPort
    NoPin = NoPin
    NULL = NULL
    Bit = {0, 1}
    base <- BaseHere
    pinBit <- PinBitHere
    LowPins = {}
    sram_start = 256
    sreg_addr = 95
    stdout_addr = 225
    stderr_addr = 224
INVARIANTS
    TypeOK
    DrivenInputVisible
PROPERTIES
    PinChangeReported
    DriveIsOwned
CONSTRAINT NoBypass
SYMMETRY Symmetric
