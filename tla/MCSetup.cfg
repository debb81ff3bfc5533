SPECIFICATION Spec
CONSTANTS
    Accounts <- MCAccounts
    Covering = {"c"}
    PageSize = 1
    PageBound = 2
    Configs <- MCConfigs
    MaxPasses = 2
INVARIANTS
    ClearedMeansObserved
    GatedFirst
    AppliedMeansProvisioned
CHECK_DEADLOCK FALSE
