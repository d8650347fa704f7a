SPECIFICATION Spec
CONSTANTS
    t1 = t1
    t2 = t2
    f1 = f1
    f2 = f2
    x1 = x1
    x2 = x2
    Threads <- MCThreads
    Fds <- MCFds
    Addrs <- MCAddrs
    None = None
    Length = 1
    Early = FALSE
SYMMETRY Symmetric
INVARIANTS
    TypeOK
    LookupsFindHandle
    NothingLeft
PROPERTY HooksAreFiles
