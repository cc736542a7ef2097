SPECIFICATION Spec
CONSTANTS
    NULL = NULL
    x = x
    y = y
    p1 = p1
    p2 = p2
    p3 = p3
    absent = absent
    Byte = 2
    Texts = {x, y}
    TextFields = {"product_name"}
    PortNames = {p1, p2, p3, absent}
    Queues = {0, 1}
    Priorities = {0, 1}
    Weights = {1, 2}
    CosRows = 2
    DscpRows = 3
    MaxSplitPorts = 2
    Descriptions <- MCDescriptions
INVARIANTS
    TypeOK
    AcceptedMeansIntact
    PoolAccounted
    PartsWhole
    ReferencesExist
    SplitMutual
    VersionAsReleased
    QueuesAsDescribed
    SchedulesAsDescribed
    FactoryDefaultIsCopy
