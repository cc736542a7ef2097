SPECIFICATION Spec
CONSTANTS
    Daemons <- AllDaemons
    SelfDone = {"ops-sysd"}
    NameExtends <- Namesakes
INVARIANTS
    TypeOK
    ScanIsCanFind
    OnlyNamesakesHide
    WaitsForSomeone
