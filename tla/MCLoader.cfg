SPECIFICATION Spec
CONSTANTS
    MemSize = 16
    BufSize = 24
    Span = 16
    NotHex = NotHex
    BinFiles <- AllOpcodes
    HexFiles <- ShortHexFiles
    SizeGarbage = {0, 3, 17}
    HighGarbage = {0, 1}
    BufferGarbage <- Garbage
    Behind <- Followers
    NextWords = {0, 65535}
INVARIANTS
    TypeOK
    EncodesBack
    HandlerReady
    HexAccounted
