SPECIFICATION Spec
CONSTANTS
    N = 6
    Name <- MCName
    Source <- MCSource
    Path <- MCPath
    NoPath = "none"
    NameKey <- MCNameKey
    SqlKey <- MCSqlKey
    Sidecar <- MCSidecar
    Parents <- MCParents
    HasMeta = {2}
    Streamed = {1, 2}
    MayHold <- MCMayHoldDrill
    Commands = {"verify"}
    RunCodes = {0}
    MaxPasses = 1
    MaxOthers = 0
INVARIANT
    DrillReadsEveryRecord
CHECK_DEADLOCK FALSE
