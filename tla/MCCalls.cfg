CONSTANTS
    \* Two calls, composites and MCP servers included; no reload.
    c1 = c1  c2 = c2  c3 = c3
    Calls = {c1, c2}
    UserOf <- OneUser
    Tools <- AllCalls
    Configs <- OneConfig
    Units <- MCUnits
    Composites <- MCComposites
    Grants <- MCGrants
    Limit = 5
    LimitEnforced = FALSE
    Rejecting = {"pre", "post"}
    KitMayCover = TRUE
    AuditStore = "log"
    MayCancel = TRUE
    MaxReloads = 0
    MaxAPICalls = 2
    \* Two upstream calls, a retry, three pages of which two are read.
    RestReqs = {q1, q2}
    q1 = q1
    q2 = q2
    ToolsOf <- MCTools
    MaxRetries = 1
    MaxPages = 2
    ListPages = 3
    MaxLogins = 3
    MaxRevoked = 1
    MaxAgings = 1
    \* Two uploads at the quotas, one reader, one file that stays.
    Puts = {b1, b2}
    b1 = b1
    b2 = b2
    o1 = o1
    NoOwner = NoOwner
    BlobOwner <- MCOwner
    Readers = {v1}
    MaxTotalBytes = 2
    MaxBytesPerUser = 1
    UploadMaxBytes = 1
    ReadMaxBytes = 1
    MaxRemoveFails = 1
    \* Every configuration of two tools and two kits.
    RightsTools = {c1, c2}
    RightsKits = {1, 2}
    \* Two units of one name, overlapping backends, one reload.
    UnitDirs <- MCUnitDirs
    UnitName <- MCUnitName
    BackendIds = {"a", "a_b", "u"}
    BareNames = {"x", "b_x"}
    CanonicalOf <- MCCanonical
    Reserved = {"b_x"}
    CatalogConfigs <- MCCatalogs
    NoTools = NoTools
    MaxUnitCalls = 1
    MaxSwaps = 1
SYMMETRY CallsSymmetry
SPECIFICATION CallsSpec
INVARIANT EveryEffectChecked
 
INVARIANT AuditTruthful
INVARIANT AuditComplete
 
INVARIANT RenewedBeforeGivingUp
INVARIANT ReadsWholeAndDiskBounded
 
 
INVARIANT UnitsWired
PROPERTY StoreKeepsLedger
CHECK_DEADLOCK FALSE
