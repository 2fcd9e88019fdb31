CONSTANTS
    \* One approval at a time, with a key or signed, while the kit gains, loses
    \* entries and disappears.
    e1 = e1  e2 = e2  k1 = k1  k2 = k2  anna = anna  ben = ben  None = None
    Subjects = {agent}
    KitNames = {k1}
    Entries = {e1, e2}
    Approvers = {anna}
    Ids = {r1, r2}
    Calls = {c1}
    Policies <- GrowingKit
    AskedTTLs = {0}
    Choices <- AnyChoice
    DefaultTTL = 1
    MaxTTL = 2
    RequestTTL = 1
    MaxPending = 1
    MaxTime = 1
    MaxSigned = 2
    Persistent = FALSE
    StoreMayFail = FALSE
    \* Three attempts on two accounts, a full table, one failing command.
    Attempts = {x1, x2, x3}
    Accounts = {u1, u2}
    AuthUser = u1
    IPs = {i1}
    MaxFailuresPerUserIP = 1
    MaxFailuresPerUser = 2
    MaxFailuresPerIP = 2
    MaxEntries = 3
    Slots = 1
    MaxWaiting = 1
    MaxRedisFails = 1
    MaxWindowEnds = 2
    \* Three bearers over two entries with a hash and one with a digest.
    BearerReqs = {x1, x2, x3}
    Values = {"k", "long", "m", "d", "t", "x"}
    HashEntries <- MCHashEntries
    DigestEntries = {"e3"}
    Matches <- MCMatches
    TokenOf <- MCTokenOf
    SingleKey = "k"
SYMMETRY AccessSymmetry
SPECIFICATION AccessSpec
INVARIANT SignedGrantMatchesStatement
 
INVARIANT LoginLimitHolds
INVARIANT LoginCountsExact
INVARIANT KeysBoundOnce
CHECK_DEADLOCK FALSE
