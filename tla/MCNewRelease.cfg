SPECIFICATION Spec
CONSTANTS
    NoProc = NoProc
    sysd = sysd
    fand = fand
    tempd = tempd
    restd = restd
    SelfDone <- MCSelfDone
    DfltTimezone = utc
    NoZone = NoZone
    NoLink = NoLink
    NoInfo = NoInfo
    Procs = {p1}
    Daemons = {sysd, fand}
    HwDaemons = {sysd, fand}
    NameExtends <- MCDistinctNames
    Zones = {utc}
    Releases = {r1, r2}
    NBatches = 1
    MaxFaults <- OneRelease
PROPERTIES
    SwInfoUpdated
