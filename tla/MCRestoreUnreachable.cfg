SPECIFICATION Spec
CONSTANTS
    N = 2
    Name <- MCName
    Source <- MCSource
    Path <- MCPath
    NoPath = "none"
    NameKey <- MCNameKey
    SqlKey <- MCSqlKey
    Sidecar <- MCSidecar
    Parents <- MCParents
    HasMeta = {2}
    Streamed = {1, 2}
    MayHold <- MCMayHoldRemote
    Commands = {"restore", "verify"}
    RunCodes = {0}
    MaxPasses = 1
    MaxOthers = 0
INVARIANT
    IntegrityFindingWins
CHECK_DEADLOCK FALSE
