\* Checks between applies that change all kinds of rules, fail or end with the
\* process; the cache fills up.
CONSTANTS
    u = u  k = k  b = b  t1 = t1  t2 = t2  Invalid = Invalid  Miss = Miss
    Callers = {u}
    KitNames = {k}
    Tools = {t1, t2}
    Places = {b}
    PlacesOf <- BothInB
    Policies <- Changing
    WriteChunk = 2
    WritesMayFail = TRUE
    DeletesMayFail = FALSE
    EditsAtStart = FALSE
    MaxEdits = 1
    MaxCrashes = 1
    Checks = {x1}
    HeldGrants <- PartOrWhole
    ChecksDuringApply = FALSE
SPECIFICATION ChecksSpec
INVARIANT BatchMayShare
INVARIANT FreshAfterApply
 
CHECK_DEADLOCK FALSE
