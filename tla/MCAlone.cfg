SPECIFICATION Spec
CONSTANTS
    NoProc = NoProc
    sysd = sysd
    fand = fand
    tempd = tempd
    restd = restd
    SelfDone <- MCSelfDone
    DfltTimezone = utc
    NoZone = NoZone
    NoLink = NoLink
    NoInfo = NoInfo
    Procs = {p1}
    Daemons = {sysd, fand, tempd, restd}
    HwDaemons = {sysd, fand, tempd}
    NameExtends <- MCDistinctNames
    Zones = {utc, cet}
    Releases = {r1}
    NBatches = 2
    MaxFaults <- AllFaults
INVARIANTS
    SettledIsLinked
    FlagTruthful
PROPERTIES
    HwInitImplemented
