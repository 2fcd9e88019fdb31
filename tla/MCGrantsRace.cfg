\* Two approvals in flight on a store whose commands may fail, while a kit and
\* the scope of an approver change.
CONSTANTS
    e1 = e1  e2 = e2  k1 = k1  k2 = k2  anna = anna  ben = ben  None = None
    Subjects = {agent}
    KitNames = {k1, k2}
    Entries = {e1, e2}
    Approvers = {anna, ben}
    Ids = {r1, r2}
    Calls = {c1, c2}
    Policies <- ChangingKits
    AskedTTLs = {0}
    Choices <- NoChoice
    DefaultTTL = 1
    MaxTTL = 2
    RequestTTL = 1
    MaxPending = 1
    MaxTime = 1
    MaxSigned = 1
    Persistent = TRUE
    StoreMayFail = TRUE
SYMMETRY IdSymmetry
SPECIFICATION Spec
INVARIANT GrantsInv
 
INVARIANT AdmissionKept
CHECK_DEADLOCK FALSE
