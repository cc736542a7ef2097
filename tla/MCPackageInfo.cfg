SPECIFICATION Spec
CONSTANTS
    PkgInfoEntriesPerCommit = 2
    MaxEntries = 5
INVARIANTS
    TypeOK
    NeverAborts
    EveryEntryOnce
    BatchesFull
    ColumnsCoherent
CHECK_DEADLOCK FALSE
