SPECIFICATION Spec
CONSTANTS
    Names <- MCNames
    None = None
    Hash <- MCHash
    WordSize = 65536
    BloomBits = 4
    Images <- FirstImages
    Fails = FALSE
INVARIANT EveryRelocation
