SPECIFICATION Spec
CONSTANTS
    a = a
    b = b
    c = c
    MaxApk = 3
    Names <- MCNames
    Inputs <- MCInputs
INVARIANTS
    TypeOK
    Tiling
    InBounds
    Aligned
    ContentMapped
    EndToEnd
    DirectoryOffsets
    DirectoryExact
PROPERTY Terminates
