SPECIFICATION FairSpec
CONSTANTS
    N = 5
    Name <- MCName
    Source <- MCSource
    Path <- MCPath
    NoPath = "none"
    NameKey <- MCNameKey
    SqlKey <- MCSqlKey
    Sidecar <- MCSidecar
    Parents <- MCParents
    HasMeta = {2}
    Streamed = {1, 2}
    MayHold <- MCMayHold
    Commands = {"restore", "dryrun", "verify"}
    RunCodes = {0, 2}
    MaxPasses = 2
    MaxOthers = 1
INVARIANTS
    TypeOK
    RestoredIsOnDisk
    ExitZeroMeansRestored
    AllOrNothing
    MetadataAccounted
    FindingNotSoftened
    ReceiptMatchesExit
PROPERTIES
    NoClobber
    PassEnds
CHECK_DEADLOCK FALSE
