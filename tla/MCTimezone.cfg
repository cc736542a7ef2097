SPECIFICATION Spec
CONSTANTS
    NULL = NULL
    NoZone = NoZone
    UTC = UTC
    Paris = Paris
    s1 = s1
    s2 = s2
    Sessions = {s1, s2}
    Users = {operator, admin}
    Superusers = {admin}
    Zones = {UTC, Paris}
    lower <- MCLower
    Dirs <- MCDirs
    MaxTimezones = 2
INVARIANTS
    TypeOK
    ZoneExists
    RunningConfigRestores
    ShownIsFresh
SYMMETRY SessionSymmetry
