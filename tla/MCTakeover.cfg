SPECIFICATION Spec
CONSTANTS
    NoProc = NoProc
    sysd = sysd
    fand = fand
    tempd = tempd
    restd = restd
    SelfDone <- MCSelfDone
    DfltTimezone = utc
    NoZone = NoZone
    NoLink = NoLink
    NoInfo = NoInfo
    Procs = {p1, p2}
    Daemons = {sysd, fand, restd}
    HwDaemons = {sysd, fand}
    NameExtends <- MCDistinctNames
    Zones = {utc}
    Releases = {r1}
    NBatches = 2
    MaxFaults <- TwoDrops
SYMMETRY ProcSymmetry
INVARIANTS
    TypeOK
    OneSystemRow
    PackagesOnce
    CurHwImpliesAllDone
    SettledIsServed
