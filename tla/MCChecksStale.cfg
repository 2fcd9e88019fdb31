\* A check that read the old rules fills the cache after the apply.
CONSTANTS
    u = u  k = k  b = b  t1 = t1  t2 = t2  Invalid = Invalid  Miss = Miss
    Callers = {u}
    KitNames = {k}
    Tools = {t1, t2}
    Places = {b}
    PlacesOf <- BothInB
    Policies <- Revoking
    WriteChunk = 2
    WritesMayFail = FALSE
    DeletesMayFail = FALSE
    EditsAtStart = FALSE
    MaxEdits = 1
    MaxCrashes = 0
    Checks = {x1}
    HeldGrants <- NoneHeld
    ChecksDuringApply = TRUE
SPECIFICATION ChecksSpec
INVARIANT FreshAfterApply
CHECK_DEADLOCK FALSE
