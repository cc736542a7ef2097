SPECIFICATION Spec
CONSTANTS
    Dirs = {dir1, dir2}
    NoDir = NoDir
    Inputs <- AllInputs
    MaxFaults = 1
    MaxCrashes = 2
INVARIANTS
    TypeOK
    ReadyInLoop
    FailsForCause
