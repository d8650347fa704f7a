SPECIFICATION Spec
CONSTANTS
    Files <- MCFiles
    Directories <- MCDirectories
    None = None
    kMaxCommentLen = 2
INVARIANTS
    ParseExact
