SPECIFICATION ListenersSpec
CONSTANTS
    PortA = PortA
    PortB = PortB
    PinA1 = PinA1
    PinA2 = PinA2
    PinB1 = PinB1
    Peripherals = {p1, p2}
    Addrs = {a1}
    Ports = {PortA, PortB}
    Pins = {PinA1, PinA2, PinB1}
    portOf <- MCPortOf
    NoPort = NoPort
    NoPin = NoPin
    NULL = NULL
INVARIANTS
    ListenersTypeOK
    PortPinExclusive
    PinFlagExact
    PolledExact
PROPERTY ImplementsOwnership
