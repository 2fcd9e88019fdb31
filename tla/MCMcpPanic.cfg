SPECIFICATION McpSpec
CONSTANTS
    McpCalls = {"m1", "m2"}
    MaxSessions = 3
    MayShutDown = FALSE
INVARIANT PanicsContained
CHECK_DEADLOCK FALSE
