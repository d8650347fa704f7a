SPECIFICATION Spec
CONSTANTS
    Names <- MCNames
    None = None
    Hash <- MCHash
    WordSize = 65536
    BloomBits = 4
    Images <- MCImages
    Fails = TRUE
INVARIANTS
    TypeOK
    LookupExact
    PackedExact
    SlotsReplaced
    OldBeforeNew
    ProtRestored
