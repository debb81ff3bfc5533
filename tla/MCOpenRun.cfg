SPECIFICATION Spec
CONSTANTS
    Downpipes = {d1, d2}
    Pins = {0, 2}
    MaxRuns = 3
    Layouts <- MCLayouts
    Manifests <- MCManifests
INVARIANTS
    CompleteMeansLatest
    HonestLogAccepted
    AgeWordNeverCoversTheLog
    HintNamesTheRightFlag
    HandedOverWasVerified
    AccumulatorAgrees
    BreakGlassCanOpen
    RetryCodeHidesNothing
    AttestAgrees
CHECK_DEADLOCK FALSE
SYMMETRY Symmetry
VIEW View
