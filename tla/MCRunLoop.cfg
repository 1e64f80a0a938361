SPECIFICATION Spec
CONSTANTS
    Size = 2
    Wrap = 4
    cycles <- MCCycles
INVARIANTS
    TypeOK
    FetchInRange
    HearsInterrupts
PROPERTIES
    BreakSeen
