\* Changes of the file while the process serves, a crash, and requests that fail.
CONSTANTS
    u = u  k = k  b = b  t1 = t1  t2 = t2  Invalid = Invalid
    Callers = {u}
    KitNames = {k}
    Tools = {t1, t2}
    Places = {b}
    PlacesOf <- BothInB
    Policies <- Files
    WriteChunk = 2
    WritesMayFail = TRUE
    DeletesMayFail = TRUE
    EditsAtStart = FALSE
    MaxEdits = 2
    MaxCrashes = 1
SPECIFICATION AuthzFairSpec
INVARIANT NothingExtra
INVARIANT AppliedExactly
INVARIANT ToolGrantsCover
PROPERTY ChangesTakeEffect
CHECK_DEADLOCK FALSE
