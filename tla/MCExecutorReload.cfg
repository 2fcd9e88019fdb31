\* One call of a composite, one reload.
CONSTANTS
    c1 = c1  c2 = c2  c3 = c3
    Calls = {c1}
    UserOf <- OneUser
    Tools <- CompositeCalls
    Configs <- OneConfig
    Units <- MCUnits
    Composites <- MCComposites
    Grants <- MCGrants
    Limit = 5
    LimitEnforced = FALSE
    Rejecting = {}
    KitMayCover = FALSE
    AuditStore = "log"
    MayCancel = FALSE
    MaxReloads = 1
    MaxAPICalls = 1
SPECIFICATION Spec
INVARIANT EveryEffectChecked
