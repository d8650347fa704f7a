SPECIFICATION Spec
CONSTANTS
    Lined = TRUE
    IntWidth = 4
    Counts <- MCCounts
    Offsets <- MCOffsets
    Shadows <- MCShadows
INVARIANTS
    TypeOK
    NoGap
    OneFileOpen
PROPERTIES
    ReadsAsOneFile
    ReadReturns
