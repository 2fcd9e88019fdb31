----------------------------- MODULE McpSessions -----------------------------
(***************************************************************************)
(* The sessions of the MCP adapter (internal/backend/mcpadapter.go): the   *)
(* calls of one backend share one session.  Execute reads it without the   *)
(* lock; a call whose connection was lost closes it, connects again under  *)
(* the lock and sends itself once more, while other calls use the session, *)
(* the server goes away and the process shuts down.                        *)
(*                                                                         *)
(* Data: a session is the number of its connection, 0 is nil.  To call the *)
(* nil session panics.  PanicRecovery (internal/mcp/middleware.go) answers *)
(* that with a 500 when the handler itself made the call; a streamed call  *)
(* runs in a goroutine of its own (handleToolsCallStreaming), where        *)
(* nothing recovers and the process ends.                                  *)
(***************************************************************************)
EXTENDS Naturals, FiniteSets

CONSTANTS
    McpCalls,     \* the tool calls of one backend
    MaxSessions,  \* bound on the connections made
    MayShutDown   \* the process may be told to end

Sessions == 1..MaxSessions
NoCall == "nobody"

ASSUME McpAssumption == MaxSessions \in Nat \ {0} /\ MayShutDown \in BOOLEAN /\ NoCall \notin McpCalls

VARIABLES
    session,   \* backendConn.session
    conns,     \* each session: unused, open, lost or closed
    tools,     \* backendConn.tools: the session they were discovered on
    mcpLock,   \* the call that holds the adapter's lock for writing
    call,      \* each call: [step, on, sends, effects, lost]; lost is the session that ended under it
    crashed    \* a panic ended the process
mcpVars == <<session, conns, tools, mcpLock, call, crashed>>

IdleMcpCall == [step |-> "idle", on |-> 0, sends |-> 0, effects |-> 0, lost |-> 0]

\* NewMCPAdapter and Connect: a backend that does not connect keeps no session.
McpInit ==
    /\ \E up, listed \in BOOLEAN :
         /\ session = IF up THEN 1 ELSE 0
         /\ conns = [s \in Sessions |-> IF up /\ s = 1 THEN "open" ELSE "unused"]
         /\ tools = IF up /\ listed THEN 1 ELSE 0
    /\ mcpLock = NoCall
    /\ call = [c \in McpCalls |-> IdleMcpCall]
    /\ crashed = FALSE

Unused == {s \in Sessions : conns[s] = "unused"}
ToStep(c, from, step) == call[c].step = from /\ call' = [call EXCEPT ![c].step = step]

\* Execute: the backend of the tool, under the lock for reading.
matchCall(c) ==
    /\ mcpLock = NoCall /\ ToStep(c, "idle", "check")
    /\ UNCHANGED <<session, conns, tools, mcpLock, crashed>>

\* conn.session == nil, and include_tools, without the lock.
checkSession(c) ==
    /\ ToStep(c, "check", IF session = 0 THEN "refused" ELSE "send")
    /\ UNCHANGED <<session, conns, tools, mcpLock, crashed>>

hidden(c) ==
    /\ ToStep(c, "check", "refused")
    /\ UNCHANGED <<session, conns, tools, mcpLock, crashed>>

\* conn.session is read again for CallTool.
callTool(c) ==
    /\ call[c].step = "send" /\ session # 0
    /\ call' = [call EXCEPT ![c].step = "sent", ![c].on = session, ![c].sends = @ + 1]
    /\ UNCHANGED <<session, conns, tools, mcpLock, crashed>>

\* It is nil by now.  PanicRecovery, when the call is not streamed.
panicRecovered(c) ==
    /\ session = 0 /\ ToStep(c, "send", "panicked")
    /\ UNCHANGED <<session, conns, tools, mcpLock, crashed>>

\* In the goroutine of a streamed call: the process and its connections end.
panicInStream(c) ==
    /\ session = 0 /\ call[c].step = "send"
    /\ crashed' = TRUE /\ mcpLock' = NoCall
    /\ call' = [d \in McpCalls |-> [call[d] EXCEPT !.step = "panicked"]]
    /\ conns' = [s \in Sessions |-> IF conns[s] = "unused" THEN "unused" ELSE "closed"]
    /\ UNCHANGED <<session, tools>>

\* isConnectionClosed: the session ended under the call.
isConnectionClosed(s) == conns[s] \in {"lost", "closed"}

\* The server answers.
answered(c) ==
    /\ call[c].step = "sent" /\ conns[call[c].on] = "open"
    /\ call' = [call EXCEPT ![c].step = "answered", ![c].effects = @ + 1]
    /\ UNCHANGED <<session, conns, tools, mcpLock, crashed>>

\* CallTool fails, after the tool has had its effect or before it.
callFails(c, effect) ==
    /\ call[c].step = "sent"
    /\ LET closed == isConnectionClosed(call[c].on) IN
       call' = [call EXCEPT ![c].step = IF closed /\ call[c].sends = 1 THEN "reconnect" ELSE "failed",
                            ![c].effects = @ + effect,
                            ![c].lost = IF conns[call[c].on] = "open" THEN @ ELSE call[c].on]
    /\ UNCHANGED <<session, conns, tools, mcpLock, crashed>>

\* As teardown, with the old session left open.
teardownKept(c) ==
    /\ ToStep(c, "reconnect", "connect") /\ mcpLock = NoCall
    /\ mcpLock' = c /\ session' = 0
    /\ UNCHANGED <<conns, tools, crashed>>

\* reconnectBackend: the lock, then the session that is there now, which may be
\* the fresh one of another call.
teardown(c) ==
    /\ ToStep(c, "reconnect", "connect") /\ mcpLock = NoCall
    /\ mcpLock' = c /\ session' = 0
    /\ conns' = [s \in Sessions |-> IF s = session THEN "closed" ELSE conns[s]]
    /\ UNCHANGED <<tools, crashed>>

\* connectBackend: discoverTools may fail, which keeps the session and the old list.
connectBackend(c, listed) ==
    /\ Unused # {}
    /\ ToStep(c, "connect", "again") /\ mcpLock' = NoCall
    /\ \E s \in Unused :
         /\ \A t \in Unused : s <= t
         /\ session' = s /\ conns' = [conns EXCEPT ![s] = "open"]
         /\ tools' = IF listed THEN s ELSE tools
    /\ UNCHANGED crashed

\* As connectFails, with the lock kept.
connectFailsLocked(c) ==
    /\ ToStep(c, "connect", "failed")
    /\ UNCHANGED <<session, conns, tools, mcpLock, crashed>>

\* No transport, a missing credential, or no answer within the timeout.
connectFails(c) ==
    /\ ToStep(c, "connect", "failed") /\ mcpLock' = NoCall
    /\ UNCHANGED <<session, conns, tools, crashed>>

\* The connection is looked up again under the lock, its session read after it.
sendAgain(c) ==
    /\ mcpLock = NoCall /\ ToStep(c, "again", "send")
    /\ UNCHANGED <<session, conns, tools, mcpLock, crashed>>

ServerGoes(s) ==
    /\ conns[s] = "open" /\ conns' = [conns EXCEPT ![s] = "lost"]
    /\ UNCHANGED <<session, tools, mcpLock, call, crashed>>

\* Close, at the end of the process.
CloseAdapter ==
    /\ MayShutDown /\ mcpLock = NoCall /\ session # 0
    /\ conns' = [conns EXCEPT ![session] = "closed"] /\ session' = 0
    /\ UNCHANGED <<tools, mcpLock, call, crashed>>

McpCallStep(c) ==
    \/ checkSession(c) \/ callTool(c) \/ panicRecovered(c) \/ panicInStream(c) \/ answered(c) \/ callFails(c, 0)
    \/ teardown(c) \/ connectFails(c) \/ sendAgain(c)
    \/ \E listed \in BOOLEAN : connectBackend(c, listed)

McpNext ==
    \/ \E c \in McpCalls : matchCall(c) \/ hidden(c) \/ callFails(c, 1) \/ McpCallStep(c)
    \/ \E s \in Sessions : ServerGoes(s)
    \/ CloseAdapter

McpSpec == McpInit /\ [][McpNext]_mcpVars

\* CallTool and Connect have timeouts, and a waiting writer gets the lock.
McpFair == \A c \in McpCalls : SF_mcpVars(McpCallStep(c))

-----------------------------------------------------------------------------
Over == {"idle", "refused", "panicked", "answered", "failed"}

\* reconnectBackend, Execute: however reconnects of several calls interleave,
\* the backend never has two sessions open, nobody holds the lock without
\* connecting, and a call goes out twice (and has its effect twice) only after
\* the connection it was sent on had ended.
McpSessionsBounded ==
    /\ \A s \in Sessions : conns[s] \in {"open", "lost"} => s = session
    /\ mcpLock # NoCall => call[mcpLock].step = "connect" /\ session = 0
    /\ \A c \in McpCalls : call[c].sends > 1 => call[c].lost # 0 /\ call[c].sends = 2

\* PanicRecovery "catches panics in handlers, logs them, and returns a 500
\* Internal Server Error instead of crashing".
PanicsContained == ~crashed

\* Every call ends: no call waits for ever behind the reconnect of another.
McpCallsAnswered == \A c \in McpCalls : (call[c].step # "idle") ~> (call[c].step \in Over)
=============================================================================
