SPECIFICATION Spec
CONSTANTS
    ChunkSize = 2
    TagSize = 2
    MaxChunkIndex = 1
    MaxSegmentChunks = 2
    ObjectLimit = 7
    MaxSlots = 2
    Routes <- MCRoutes
    Lengths <- MCLengths
INVARIANTS
    WriterAgrees
    OnlyWhatWasSealed
    BufferedAgrees
    BlameIsRight
PROPERTIES
    RestoresAtomically
    StreamReturns
CHECK_DEADLOCK FALSE
