SPECIFICATION Spec
CONSTANTS
    Half = 128
    Nibble = 16
    Width = 8
    Inputs = {0, 1, 15, 90, 127, 128, 255}
    Chosen = {"compare-constant"}
INVARIANTS
    ImmediateCompared
