SPECIFICATION Spec
CONSTANTS
    PortA = PortA
    PortJ = PortJ
    Pin1 = Pin1
    Pin64 = Pin64
    Pin65 = Pin65
    Peripherals = {p1}
    Addrs = {32, 33, 34, 512}
    Ports = {PortA}
    Pins = {Pin1}
    portOf <- PortOfHere
    NoPort = NoPort
    NoPin = NoPin
    NULL = NULL
    Bit = {0, 1}
    base <- BaseHere
    pinBit <- PinBitHere
    LowPins = {Low}
    sram_start = 256
    sreg_addr = 95
    stdout_addr = 225
    stderr_addr = 224
INVARIANTS
    OutputViewFresh
    MemViewFresh
CONSTRAINT Separate
CHECK_DEADLOCK FALSE
