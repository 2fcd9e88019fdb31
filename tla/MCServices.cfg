CONSTANTS
    \* Starts fail at any step, the database is deleted and releases change.
    Sources = {"default", "legacy"}
    MayFailEarly = TRUE
    MaxStarts = 4
    \* Durations of three bits, three sets of secrets, four failing runs.
    Interval = 3
    ReloadIns <- MCReloadIns
    RetryDelay = 1
    MaxDuration = 7
    MaxPrinted = 3
    MaxFailures = 4
    \* Two edits, one slot for checks.
    RestNames = {"a", "b"}
    Contents <- MCContents
    PollNames = {"a"}
    DegradeAfter = 2
    ConcurrentChecks = 1
    MaxEdits = 2
    MaxPolls = 1
    MaxToolChecks = 1
    \* Two calls of one backend, two reconnects, a shutdown.
    McpCalls = {"m1", "m2"}
    MaxSessions = 3
    MayShutDown = TRUE
    \* A script of two calls beside a direct call; a ledger of one caller.
    ScriptReqs = {"s"}
    DirectReqs = {"d"}
    Principal <- MCPrincipal
    MaxCodeCalls = 2
    MaxTold = 1
SPECIFICATION ServicesSpec
INVARIANT DecisionKept
INVARIANT OneStoreAndModel
INVARIANT HealthTruthful
 
 
PROPERTY CredentialsCatchUp
 
PROPERTY McpCallsAnswered
PROPERTY RequestsEnd
CHECK_DEADLOCK FALSE
