SPECIFICATION ScriptsSpec
CONSTANTS
    pin4 = pin4
    pin27 = pin27
    portA = portA
    portB = portB
    portD = portD
    portE = portE
    ear_addr = ear_addr
    Program <- AllScripts
    Peripherals = {1, 2, 3}
    NumPerphs = 3
    Addrs = {ear_addr}
    Ports = {portA, portB, portD, portE}
    Pins = {pin4, pin27}
    portOf <- MCPortOf
    NoPort = NoPort
    NoPin = NoPin
    NULL = NULL
    Requests <- MCRequests
    MaxRequests = 0
    PipeCap = 3
    MaxNotes = 2
    Faulty = {1, 2, 3}
    Unlaunchable = {2}
INVARIANTS
    ScriptsTypeOK
    NeverGivesUp
    NotesAreHeard
    StrayIsHarmless
PROPERTIES
    NeverStuck
