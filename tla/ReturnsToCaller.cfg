SPECIFICATION Spec
CONSTANTS
    ByteSize = 3
    ProgSize = 5
    ReturnLimit = 4
    LongLimit = 18
    Floor = 0
    Top = 4
    PcBytes = {2, 3}
    Offsets <- AnyOffsets
    Garbage = {0, 2}
PROPERTIES
    ReturnsToCaller
