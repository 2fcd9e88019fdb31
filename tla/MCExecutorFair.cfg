\* Calls under an enforced limit end while backends are reloaded and clients
\* disconnect.
CONSTANTS
    c1 = c1  c2 = c2  c3 = c3
    Calls = {c1, c2}
    UserOf <- OneUser
    Tools <- MixedCalls
    Configs <- MCConfigs
    Units <- MCUnits
    Composites <- MCComposites
    Grants <- MCGrants
    Limit = 1
    LimitEnforced = TRUE
    Rejecting = {"pre"}
    KitMayCover = TRUE
    AuditStore = "sqlite"
    MayCancel = TRUE
    MaxReloads = 1
    MaxAPICalls = 1
SPECIFICATION FairSpec
INVARIANT LimitHolds
PROPERTY EveryCallAnswered
