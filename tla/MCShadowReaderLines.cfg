SPECIFICATION Spec
CONSTANTS
    Lined = FALSE
    IntWidth = 4
    Counts <- MCCounts
    Offsets <- MCOffsets
    Shadows <- MCShadows
INVARIANT LineMapped
