SPECIFICATION Spec
CONSTANTS
    p1 = p1
    p2 = p2
    Patches <- MCPatches
    None = None
    Settings <- MCSettings
INVARIANTS
    TypeOK
    DbNeverTorn
    TableMatchesApk
    SoMatchesPatch
    CopyMade
PROPERTIES
    BootEnds
    PatchTakesEffect
