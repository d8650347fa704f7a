SPECIFICATION Spec
CONSTANTS
    a = a
    b = b
    c = c
    MaxApk = 1
    Names <- MCNames
    Inputs <- MCInputs
INVARIANT RemovedUnlisted
