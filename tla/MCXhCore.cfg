SPECIFICATION Spec
CONSTANTS
    t1 = t1
    t2 = t2
    r1 = r1
    r2 = r2
    p = p
    q = q
    f = f
    g = g
    All = All
    None = None
    Callers = {t1, t2}
    Clearer = t2
    Refreshers = {r1, r2}
    Paths <- MCPaths
    Symbols <- MCSymbols
    Hooks <- MCHooks
    Ignores <- MCIgnores
    MaxBase = 2
    Settings <- MCSettings
CHECK_DEADLOCK FALSE
INVARIANTS
    TypeOK
    RecordedHooked
    NoThreadAfterClear
PROPERTIES
    NothingFreedInScan
    IgnoredNotHooked
    ClearEnds
    RequestTakesEffect
