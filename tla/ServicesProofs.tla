--------------------------- MODULE ServicesProofs ---------------------------
(***************************************************************************)
(* Theorems about the services around the calls: the bootstrap of the      *)
(* authorization engine, the sessions of the MCP adapter, the reload with  *)
(* its health monitor, and the answers of the MCP server.  They share no   *)
(* state.                                                                  *)
(***************************************************************************)
EXTENDS AuthzBootstrap, Reload, McpSessions, McpServer, TLAPS

(***************************************************************************)
(* The bootstrap.  OneStoreAndModel needs which model a start has in hand; *)
(* DecisionKept needs how database, marker and start agree at each step,   *)
(* and what an upgraded installation can have recorded.                    *)
(***************************************************************************)
Presets == {"none", "open"}

BootTypeOK ==
    /\ history \in {"fresh", "bypass"} /\ others \in BOOLEAN /\ prior \in BOOLEAN
    /\ db \in [exists : BOOLEAN, stores : Nat, recorded : BOOLEAN, model : Nat, preset : Presets \cup {"unset"}]
    /\ marker \in Presets \cup {"absent"}
    /\ binary \in Nat /\ model \in Nat /\ starts \in Nat
    /\ pc \in {"down", "early", "open", "store", "model", "state", "marker", "policy", "serving"}
    /\ source \in Sources
    /\ preset \in Presets /\ served \in Presets \cup {"undecided"}

\* A start past ensureModel has the model compiled in, and there is one store.
StoreInv == db.stores <= 1 /\ (pc \in {"state", "marker", "policy", "serving"} => model = binary)

\* Database and marker never differ; a start that has decided has recorded it
\* in the one and then in the other; what was served is in the marker.
DecisionInv ==
    /\ marker # "absent" => db.preset \in {"unset", marker}
    /\ pc \in {"marker", "policy", "serving"} => db.preset = preset
    /\ pc \in {"policy", "serving"} => marker = preset
    /\ served # "undecided" => marker = served
    /\ pc = "serving" => served = preset

\* Nothing an upgraded installation has recorded closes it.
OpenInv ==
    history = "bypass" =>
        /\ others /\ (pc # "down" => prior)
        /\ db.preset # "none" /\ marker # "none"
        /\ pc \in {"marker", "policy", "serving"} => preset = "open"

BootInv == BootTypeOK /\ StoreInv /\ DecisionInv

LEMMA BootInitial == Init => BootInv /\ OpenInv
<1> SUFFICES ASSUME Init  PROVE BootInv /\ OpenInv
  OBVIOUS
<1>1. BootTypeOK
  BY DEF Init, NoDB, BootTypeOK, Presets
<1>2. StoreInv /\ DecisionInv
  BY DEF Init, NoDB, StoreInv, DecisionInv
<1>3. ASSUME history = "bypass"  PROVE others
  BY <1>3 DEF Init
<1>4. OpenInv
  BY <1>3 DEF Init, NoDB, OpenInv
<1> QED  BY <1>1, <1>2, <1>4 DEF BootInv

\* The decision of a start, from what is recorded.
LEMMA PresetDecided ==
    ASSUME BootInv
    PROVE  /\ upgradePreset \in Presets
           /\ db.preset # "unset" => upgradePreset = db.preset
           /\ marker # "absent" => upgradePreset = marker
           /\ OpenInv /\ "env" \notin Sources /\ history = "bypass" /\ pc # "down" => upgradePreset = "open"
<1>1. CASE db.preset # "unset"
  <2>1. upgradePreset = db.preset
    BY <1>1 DEF upgradePreset
  <2> QED  BY <1>1, <2>1 DEF BootInv, BootTypeOK, DecisionInv, OpenInv, Presets
<1>2. CASE db.preset = "unset" /\ marker # "absent"
  <2>1. upgradePreset = marker
    BY <1>2 DEF upgradePreset
  <2> QED  BY <1>2, <2>1 DEF BootInv, BootTypeOK, OpenInv, Presets
<1>3. CASE db.preset = "unset" /\ marker = "absent"
  <2>1. upgradePreset = IF upgrade THEN "open" ELSE "none"
    BY <1>3 DEF upgradePreset
  <2>2. OpenInv /\ "env" \notin Sources /\ history = "bypass" /\ pc # "down" => upgrade
    BY BootstrapAssumption DEF BootInv, BootTypeOK, OpenInv, upgrade
  <2> QED  BY <1>3, <2>1, <2>2 DEF Presets
<1> QED  BY <1>1, <1>2, <1>3

LEMMA BootStep == ASSUME BootInv, [Next]_vars PROVE BootInv'
<1> USE BootstrapAssumption DEF BootInv, BootTypeOK, StoreInv, DecisionInv, Presets
<1>1. CASE \E src \in Sources : Start(src)
  BY <1>1 DEF Start, HasPriorState
<1>2. CASE EarlyWrites
  BY <1>2, ZenonT(40) DEF EarlyWrites
<1>3. CASE OpenDB
  BY <1>3 DEF OpenDB
<1>4. CASE ensureStore
  BY <1>4 DEF ensureStore
<1>5. CASE ensureModel
  BY <1>5 DEF ensureModel
<1>6. CASE writeState
  <2> DEFINE u == upgradePreset
  <2>1. /\ u \in Presets /\ (db.preset # "unset" => u = db.preset) /\ (marker # "absent" => u = marker)
    BY PresetDecided
  <2>2. /\ preset' = u /\ pc = "state" /\ pc' = "marker"
        /\ db' = [db EXCEPT !.recorded = TRUE, !.model = model, !.preset = u]
        /\ UNCHANGED <<history, others, marker, binary, starts, source, prior, model, served>>
    BY <1>6 DEF writeState
  <2> HIDE DEF u
  <2> QED  BY <2>1, <2>2
<1>7. CASE writeMarker
  BY <1>7 DEF writeMarker
<1>8. CASE Serve
  BY <1>8 DEF Serve
<1>9. CASE Stop
  BY <1>9 DEF Stop
<1>10. CASE DeleteDB
  BY <1>10 DEF DeleteDB, NoDB
<1>11. CASE \E v \in {1, 2} : Install(v)
  BY <1>11 DEF Install
<1>12. CASE UNCHANGED vars
  BY <1>12 DEF vars
<1> QED
  BY <1>1, <1>2, <1>3, <1>4, <1>5, <1>6, <1>7, <1>8, <1>9, <1>10, <1>11, <1>12 DEF Next

LEMMA OpenStep == ASSUME "env" \notin Sources, BootInv, OpenInv, [Next]_vars PROVE OpenInv'
<1> USE DEF BootInv, BootTypeOK, OpenInv, Presets
<1>1. CASE \E src \in Sources : Start(src)
  <2>1. /\ UNCHANGED <<history, others, db, marker>> /\ pc' = "early"
        /\ prior' = (others \/ marker # "absent")
    BY <1>1 DEF Start, HasPriorState
  <2>2. history' = "bypass" => others' /\ prior' /\ db'.preset # "none" /\ marker' # "none"
    BY <2>1
  <2> QED  BY <2>1, <2>2
<1>2. CASE EarlyWrites \/ OpenDB \/ ensureStore \/ ensureModel \/ writeMarker \/ Serve \/ Stop
  BY <1>2 DEF EarlyWrites, OpenDB, ensureStore, ensureModel, writeMarker, Serve, Stop, DecisionInv
<1>3. CASE writeState
  <2> DEFINE u == upgradePreset
  <2>1. u \in Presets /\ (history = "bypass" /\ pc # "down" => u = "open")
    BY PresetDecided
  <2>2. /\ preset' = u /\ pc = "state" /\ pc' = "marker"
        /\ db' = [db EXCEPT !.recorded = TRUE, !.model = model, !.preset = u]
        /\ UNCHANGED <<history, others, marker, binary, starts, source, prior, model, served>>
    BY <1>3 DEF writeState
  <2> HIDE DEF u
  <2> QED  BY <2>1, <2>2
<1>4. CASE DeleteDB \/ (\E v \in {1, 2} : Install(v)) \/ UNCHANGED vars
  BY <1>4 DEF DeleteDB, NoDB, Install, vars
<1> QED  BY <1>1, <1>2, <1>3, <1>4 DEF Next

(***************************************************************************)
(* Wherever starts die between creating the store, recording it and        *)
(* writing the marker, whatever is deleted and whichever release runs:     *)
(* there is never a second store, and a server evaluates its own model     *)
(* (ensureStore, ensureModel).                                             *)
(***************************************************************************)
THEOREM OneStoreAlways == Spec => []OneStoreAndModel
<1>1. BootInv => OneStoreAndModel
  BY DEF BootInv, StoreInv, OneStoreAndModel
<1> QED  BY <1>1, BootInitial, BootStep, PTL DEF Spec

(***************************************************************************)
(* Every server of an installation runs with the decision the first one    *)
(* ran with, through crashes, deleted databases and other modes; and as    *)
(* long as nobody sets the mode, an installation that was upgraded keeps   *)
(* its tools open (upgradePreset, writeState, the marker file).            *)
(***************************************************************************)
THEOREM DecisionAlwaysKept ==
    ASSUME "env" \notin Sources
    PROVE  Spec => []DecisionKept
<1>1. BootInv /\ OpenInv /\ [Next]_vars => BootInv' /\ OpenInv'
  BY BootStep, OpenStep
<1>2. BootInv /\ OpenInv => DecisionKept
  BY DEF BootInv, DecisionInv, OpenInv, DecisionKept
<1> QED  BY <1>1, <1>2, BootInitial, PTL DEF Spec
-----------------------------------------------------------------------------
(***************************************************************************)
(* The sessions of the MCP adapter for any number of calls, connections    *)
(* and losses.  McpSessionsBounded is not inductive: that no call keeps an *)
(* open session from before a reconnect needs where the lock is held and   *)
(* which call is how far, which McpInv adds.                               *)
(***************************************************************************)
McpTypeOK ==
    /\ session \in Sessions \cup {0}
    /\ conns \in [Sessions -> {"unused", "open", "lost", "closed"}]
    /\ tools \in Sessions \cup {0}
    /\ mcpLock \in McpCalls \cup {NoCall}
    /\ call \in [McpCalls -> [step : Over \cup {"check", "send", "sent", "reconnect", "connect", "again"},
                              on : Sessions \cup {0}, sends : Nat, effects : Nat, lost : Sessions \cup {0}]]
    /\ crashed \in BOOLEAN

\* What a call has been through when it is at a step.
CallHistory(c) ==
    /\ call[c].step \in {"idle", "check"} => call[c].sends = 0
    /\ call[c].step = "sent" => call[c].on \in Sessions /\ conns[call[c].on] # "unused" /\ call[c].sends \in {1, 2}
    /\ call[c].step \in {"reconnect", "connect", "again"} => call[c].sends = 1 /\ call[c].lost # 0
    /\ call[c].step = "send" => call[c].sends = 0 \/ (call[c].sends = 1 /\ call[c].lost # 0)
    /\ call[c].sends > 1 => call[c].lost # 0 /\ call[c].sends = 2

\* The lock is held exactly by the call that connects, and nothing is open then.
LockHeld ==
    /\ \A c \in McpCalls : call[c].step = "connect" <=> mcpLock = c
    /\ mcpLock # NoCall => session = 0

OneOpen == \A s \in Sessions : conns[s] \in {"open", "lost"} => s = session
SessionMade == session # 0 => conns[session] # "unused"

McpInv == McpTypeOK /\ (\A c \in McpCalls : CallHistory(c)) /\ LockHeld /\ OneOpen /\ SessionMade

-----------------------------------------------------------------------------
LEMMA McpInitial == McpInit => McpInv
<1> SUFFICES ASSUME McpInit PROVE McpInv
  OBVIOUS
<1> USE McpAssumption
<1>1. PICK up, known \in BOOLEAN :
        /\ session = IF up THEN 1 ELSE 0
        /\ conns = [s \in Sessions |-> IF up /\ s = 1 THEN "open" ELSE "unused"]
        /\ tools = IF up /\ known THEN 1 ELSE 0
  BY Zenon DEF McpInit
<1>2. 0 \notin Sessions /\ 1 \in Sessions
  BY DEF Sessions
<1>3. McpTypeOK
  <2>1. session \in Sessions \cup {0} /\ tools \in Sessions \cup {0}
    BY <1>1, <1>2
  <2>2. conns \in [Sessions -> {"unused", "open", "lost", "closed"}]
    BY <1>1
  <2>3. mcpLock \in McpCalls \cup {NoCall} /\ crashed \in BOOLEAN
    BY DEF McpInit
  <2>4. \A c \in McpCalls : IdleMcpCall \in [step : Over \cup {"check", "send", "sent", "reconnect", "connect", "again"},
                              on : Sessions \cup {0}, sends : Nat, effects : Nat, lost : Sessions \cup {0}]
    BY DEF IdleMcpCall, Over
  <2>5. QED
    BY <2>1, <2>2, <2>3, <2>4 DEF McpTypeOK, McpInit
<1>4. \A c \in McpCalls : CallHistory(c)
  BY DEF McpInit, CallHistory, IdleMcpCall
<1>5. LockHeld
  BY DEF McpInit, LockHeld, IdleMcpCall
<1>6. OneOpen /\ SessionMade
  BY <1>1, <1>2 DEF OneOpen, SessionMade
<1>7. QED
  BY <1>3, <1>4, <1>5, <1>6 DEF McpInv

\* Steps of a call that only move it on: nothing is sent, opened or closed.
LEMMA MovesOn ==
  ASSUME McpInv, NEW c \in McpCalls, NEW to \in {"check", "refused", "panicked", "send"},
         call[c].step \in {"idle", "check", "send", "again"},
         call[c].step = "idle" <=> to = "check",
         call' = [call EXCEPT ![c].step = to],
         UNCHANGED <<session, conns, tools, mcpLock, crashed>>
  PROVE  McpInv'
<1>1. McpTypeOK'
  BY DEF McpInv, McpTypeOK, Over
<1>2. \A d \in McpCalls : CallHistory(d)'
  <2>1. ASSUME NEW d \in McpCalls PROVE CallHistory(d)'
    BY <2>1 DEF McpInv, McpTypeOK, CallHistory
  <2>2. QED
    BY <2>1
<1>3. LockHeld' /\ OneOpen' /\ SessionMade'
  BY DEF McpInv, McpTypeOK, LockHeld, OneOpen, SessionMade
<1>4. QED
  BY <1>1, <1>2, <1>3 DEF McpInv

LEMMA McpStep == McpInv /\ [McpNext]_mcpVars => McpInv'
<1> SUFFICES ASSUME McpInv, [McpNext]_mcpVars PROVE McpInv'
  OBVIOUS
<1> USE McpAssumption
<1>0. 0 \notin Sessions
  BY DEF Sessions
<1>1. ASSUME NEW c \in McpCalls, matchCall(c) \/ checkSession(c) \/ hidden(c) \/ panicRecovered(c) \/ sendAgain(c)
      PROVE McpInv'
  BY <1>1, MovesOn DEF matchCall, checkSession, hidden, panicRecovered, sendAgain, ToStep
<1>2. ASSUME NEW c \in McpCalls, callTool(c) PROVE McpInv'
  <2>1. McpTypeOK'
    BY <1>2 DEF callTool, McpInv, McpTypeOK, Over
  <2>2. ASSUME NEW d \in McpCalls PROVE CallHistory(d)'
    BY <1>2, <2>2 DEF callTool, McpInv, McpTypeOK, CallHistory, SessionMade
  <2>3. LockHeld' /\ OneOpen' /\ SessionMade'
    BY <1>2 DEF callTool, McpInv, McpTypeOK, LockHeld, OneOpen, SessionMade
  <2>4. QED
    BY <2>1, <2>2, <2>3 DEF McpInv
<1>3. ASSUME NEW c \in McpCalls, panicInStream(c) PROVE McpInv'
  <2>1. McpTypeOK'
    BY <1>3 DEF panicInStream, McpInv, McpTypeOK, Over
  <2>2. ASSUME NEW d \in McpCalls PROVE CallHistory(d)'
    BY <1>3, <2>2 DEF panicInStream, McpInv, McpTypeOK, CallHistory
  <2>3. LockHeld' /\ OneOpen' /\ SessionMade'
    BY <1>3 DEF panicInStream, McpInv, McpTypeOK, LockHeld, OneOpen, SessionMade
  <2>4. QED
    BY <2>1, <2>2, <2>3 DEF McpInv
<1>4. ASSUME NEW c \in McpCalls, answered(c) PROVE McpInv'
  <2>1. McpTypeOK'
    BY <1>4 DEF answered, McpInv, McpTypeOK, Over
  <2>2. ASSUME NEW d \in McpCalls PROVE CallHistory(d)'
    BY <1>4, <2>2 DEF answered, McpInv, McpTypeOK, CallHistory
  <2>3. LockHeld' /\ OneOpen' /\ SessionMade'
    BY <1>4 DEF answered, McpInv, McpTypeOK, LockHeld, OneOpen, SessionMade
  <2>4. QED
    BY <2>1, <2>2, <2>3 DEF McpInv
<1>5. ASSUME NEW c \in McpCalls, NEW effect \in {0, 1}, callFails(c, effect) PROVE McpInv'
  <2>1. McpTypeOK'
    <3>1. call[c].effects + effect \in Nat
      BY DEF McpInv, McpTypeOK
    <3>2. (IF conns[call[c].on] = "open" THEN call[c].lost ELSE call[c].on) \in Sessions \cup {0}
      BY DEF McpInv, McpTypeOK
    <3>3. (IF isConnectionClosed(call[c].on) /\ call[c].sends = 1 THEN "reconnect" ELSE "failed")
             \in Over \cup {"check", "send", "sent", "reconnect", "connect", "again"}
      BY DEF Over
    <3>4. PICK step \in Over \cup {"check", "send", "sent", "reconnect", "connect", "again"}, e \in Nat, l \in Sessions \cup {0} :
            call' = [call EXCEPT ![c].step = step, ![c].effects = e, ![c].lost = l]
      BY <1>5, <3>1, <3>2, <3>3, Zenon DEF callFails
    <3>5. UNCHANGED <<session, conns, tools, mcpLock, crashed>>
      BY <1>5 DEF callFails
    <3> DEFINE R == [step : Over \cup {"check", "send", "sent", "reconnect", "connect", "again"},
                     on : Sessions \cup {0}, sends : Nat, effects : Nat, lost : Sessions \cup {0}]
               r == [call[c] EXCEPT !.step = step, !.effects = e, !.lost = l]
    <3>6. call[c] \in R /\ call \in [McpCalls -> R]
      BY DEF McpInv, McpTypeOK
    <3>7. r \in R
      BY <3>6 DEF Over
    <3>8. call' = [call EXCEPT ![c] = r]
      BY <3>4, Zenon
    <3>9. call' \in [McpCalls -> R]
      <4> HIDE DEF R, r
      <4>1. QED
        BY <3>6, <3>7, <3>8
    <3>10. QED
      BY <3>5, <3>9 DEF McpInv, McpTypeOK
  <2>2. ASSUME NEW d \in McpCalls PROVE CallHistory(d)'
    <3>1. CASE d # c
      BY <1>5, <2>2, <3>1 DEF callFails, McpInv, McpTypeOK, CallHistory
    <3>2. CASE d = c
      <4>1. call[c].step = "sent" /\ call[c].on \in Sessions /\ call[c].sends \in {1, 2} /\ (call[c].sends = 2 => call[c].lost # 0)
        BY <1>5 DEF callFails, McpInv, CallHistory
      <4>2. call'[c].sends = call[c].sends /\ call'[c].step \in {"reconnect", "failed"}
        BY <1>5 DEF callFails, McpInv, McpTypeOK
      <4>3. call'[c].lost = IF conns[call[c].on] = "open" THEN call[c].lost ELSE call[c].on
        BY <1>5 DEF callFails, McpInv, McpTypeOK
      <4>4. call'[c].step = "reconnect" => isConnectionClosed(call[c].on) /\ call[c].sends = 1
        BY <1>5 DEF callFails, McpInv, McpTypeOK
      <4>5. isConnectionClosed(call[c].on) => conns[call[c].on] # "open"
        BY DEF isConnectionClosed
      <4>6. QED
        BY <1>0, <3>2, <4>1, <4>2, <4>3, <4>4, <4>5 DEF CallHistory
    <3>3. QED
      BY <3>1, <3>2
  <2>3. LockHeld' /\ OneOpen' /\ SessionMade'
    BY <1>5 DEF callFails, isConnectionClosed, McpInv, McpTypeOK, LockHeld, OneOpen, SessionMade
  <2>4. QED
    BY <2>1, <2>2, <2>3 DEF McpInv
<1>6. ASSUME NEW c \in McpCalls, teardown(c) PROVE McpInv'
  <2>1. McpTypeOK'
    BY <1>6 DEF teardown, ToStep, McpInv, McpTypeOK, Over
  <2>2. ASSUME NEW d \in McpCalls PROVE CallHistory(d)'
    BY <1>6, <2>2 DEF teardown, ToStep, McpInv, McpTypeOK, CallHistory
  <2>3. LockHeld' /\ OneOpen' /\ SessionMade'
    BY <1>6 DEF teardown, ToStep, McpInv, McpTypeOK, LockHeld, OneOpen, SessionMade
  <2>4. QED
    BY <2>1, <2>2, <2>3 DEF McpInv
<1>7. ASSUME NEW c \in McpCalls, NEW known \in BOOLEAN, connectBackend(c, known) PROVE McpInv'
  <2>1. PICK s \in Unused :
           session' = s /\ conns' = [conns EXCEPT ![s] = "open"] /\ tools' = IF known THEN s ELSE tools
    BY <1>7 DEF connectBackend
  <2>2. s \in Sessions /\ conns[s] = "unused" /\ session = 0
    BY <1>7, <2>1 DEF connectBackend, ToStep, Unused, McpInv, LockHeld
  <2>3. McpTypeOK'
    BY <1>7, <2>1, <2>2 DEF connectBackend, ToStep, McpInv, McpTypeOK, Over
  <2>4. ASSUME NEW d \in McpCalls PROVE CallHistory(d)'
    BY <1>7, <2>1, <2>2, <2>4 DEF connectBackend, ToStep, McpInv, McpTypeOK, CallHistory
  <2>5. LockHeld' /\ OneOpen' /\ SessionMade'
    BY <1>0, <1>7, <2>1, <2>2 DEF connectBackend, ToStep, McpInv, McpTypeOK, LockHeld, OneOpen, SessionMade
  <2>6. QED
    BY <2>3, <2>4, <2>5 DEF McpInv
<1>8. ASSUME NEW c \in McpCalls, connectFails(c) PROVE McpInv'
  <2>1. McpTypeOK'
    BY <1>8 DEF connectFails, ToStep, McpInv, McpTypeOK, Over
  <2>2. ASSUME NEW d \in McpCalls PROVE CallHistory(d)'
    BY <1>8, <2>2 DEF connectFails, ToStep, McpInv, McpTypeOK, CallHistory
  <2>3. LockHeld' /\ OneOpen' /\ SessionMade'
    BY <1>8 DEF connectFails, ToStep, McpInv, McpTypeOK, LockHeld, OneOpen, SessionMade
  <2>4. QED
    BY <2>1, <2>2, <2>3 DEF McpInv
<1>9. ASSUME NEW s \in Sessions, ServerGoes(s) PROVE McpInv'
  <2>1. McpTypeOK'
    BY <1>9 DEF ServerGoes, McpInv, McpTypeOK
  <2>2. ASSUME NEW d \in McpCalls PROVE CallHistory(d)'
    BY <1>9, <2>2 DEF ServerGoes, McpInv, McpTypeOK, CallHistory
  <2>3. LockHeld' /\ OneOpen' /\ SessionMade'
    BY <1>9 DEF ServerGoes, McpInv, McpTypeOK, LockHeld, OneOpen, SessionMade
  <2>4. QED
    BY <2>1, <2>2, <2>3 DEF McpInv
<1>10. ASSUME CloseAdapter PROVE McpInv'
  <2>1. McpTypeOK'
    BY <1>10 DEF CloseAdapter, McpInv, McpTypeOK
  <2>2. ASSUME NEW d \in McpCalls PROVE CallHistory(d)'
    BY <1>10, <2>2 DEF CloseAdapter, McpInv, McpTypeOK, CallHistory
  <2>3. LockHeld' /\ OneOpen' /\ SessionMade'
    BY <1>10 DEF CloseAdapter, McpInv, McpTypeOK, LockHeld, OneOpen, SessionMade
  <2>4. QED
    BY <2>1, <2>2, <2>3 DEF McpInv
<1>11. ASSUME UNCHANGED mcpVars PROVE McpInv'
  BY <1>11 DEF mcpVars, McpInv, McpTypeOK, CallHistory, LockHeld, OneOpen, SessionMade
<1>12. QED
  BY <1>1, <1>2, <1>3, <1>4, <1>5, <1>6, <1>7, <1>8, <1>9, <1>10, <1>11 DEF McpNext, McpCallStep

\* McpSessionsBounded for any number of calls, connections, losses and
\* shutdowns: reconnectBackend never leaves two sessions open, and Execute sends
\* a call again only once and only after its connection had ended.
THEOREM SessionsBounded == McpSpec => []McpSessionsBounded
<1>1. McpInv => McpSessionsBounded
  BY McpAssumption DEF McpInv, McpTypeOK, McpSessionsBounded, CallHistory, LockHeld, OneOpen
<1>2. QED
  BY McpInitial, McpStep, <1>1, PTL DEF McpSpec
-----------------------------------------------------------------------------
(***************************************************************************)
(* What the health monitor records, for any number of edits, reloads and   *)
(* checks.  HealthTruthful is not inductive: that a cancelled check is     *)
(* never recorded needs which generation a check belongs to (CutOnlyOld),  *)
(* and that watched backends are served needs what a reload has in hand    *)
(* between its steps (BuiltServed).                                        *)
(***************************************************************************)
HealthRecord == [last : Results \cup {"none"}, failures : Nat, cuts : Nat]
CheckRecord == [step : CheckSteps, result : Results]

ReloadTypeOK ==
    /\ generation \in Nat
    /\ reloading \in {"idle", "mcp", "rest", "swap", "replace"}
    /\ health \in [RestNames -> HealthRecord]
    /\ checks \in [Generations \X RestNames -> CheckRecord]

\* A result that is a cancellation belongs to a generation before this one, and
\* no check records it.
CutOnlyOld ==
    \A c \in Generations \X RestNames :
        /\ checks[c].step # "none" => c[1] <= generation
        /\ checks[c].step = "release" /\ checks[c].result = "cut" => c[1] < generation
        /\ checks[c].step = "observe" => checks[c].result # "cut"

NoCuts == \A n \in RestNames : health[n].cuts = 0 /\ (health[n] # NoHealth => n \in watched)

BuiltServed ==
    /\ reloading # "replace" => watched \subseteq inService.names
    /\ reloading = "swap" => built.targets \subseteq built.names
    /\ reloading = "replace" => built.targets \subseteq inService.names

ReloadInv == ReloadTypeOK /\ CutOnlyOld /\ NoCuts /\ BuiltServed

-----------------------------------------------------------------------------
LEMMA TargetsLoaded == \A e : TargetsOf(e) \subseteq LoadedOf(e)
  BY DEF TargetsOf, LoadedOf

LEMMA NoHealthType == NoHealth \in HealthRecord /\ NoHealth.cuts = 0 /\ NoHealth.failures = 0
  BY DEF NoHealth, HealthRecord

LEMMA ReloadInitial == ReloadInit => ReloadInv
<1> SUFFICES ASSUME ReloadInit PROVE ReloadInv
  OBVIOUS
<1>1. ReloadTypeOK
  <2>1. [step |-> "none", result |-> "ok"] \in CheckRecord
    BY DEF CheckRecord, CheckSteps, Results
  <2>2. QED
    BY <2>1, NoHealthType DEF ReloadInit, ReloadTypeOK
<1>2. CutOnlyOld
  BY DEF ReloadInit, CutOnlyOld
<1>3. NoCuts
  BY NoHealthType DEF ReloadInit, NoCuts
<1>4. BuiltServed
  BY TargetsLoaded DEF ReloadInit, BuiltServed
<1>5. QED
  BY <1>1, <1>2, <1>3, <1>4 DEF ReloadInv

\* The file and the reload up to its swap: the monitor does not change.
LEMMA FileSteps ==
  ASSUME ReloadInv,
         (\E c \in Contents : Edit(c)) \/ watchTick \/ buildMCP \/ loadRESTBackendsInto \/ Swap
  PROVE  ReloadInv'
<1>1. UNCHANGED <<watched, generation, checks, health>>
  BY DEF Edit, watchTick, buildMCP, loadRESTBackendsInto, Swap, monitorVars
<1>2. CutOnlyOld' /\ NoCuts'
  BY <1>1 DEF ReloadInv, CutOnlyOld, NoCuts
<1>3. ReloadTypeOK'
  BY <1>1 DEF ReloadInv, ReloadTypeOK, Edit, watchTick, buildMCP, reloadEnds, loadRESTBackendsInto, Swap
<1>4. BuiltServed'
  <2>1. CASE \E c \in Contents : Edit(c)
    BY <1>1, <2>1 DEF ReloadInv, BuiltServed, Edit
  <2>2. CASE watchTick \/ buildMCP
    BY <1>1, <2>2 DEF ReloadInv, BuiltServed, watchTick, buildMCP, reloadEnds
  <2>3. CASE loadRESTBackendsInto
    <3>1. built'.targets \subseteq built'.names /\ inService' = inService /\ reloading' = "swap" /\ reloading = "rest"
      BY <2>3, TargetsLoaded DEF loadRESTBackendsInto
    <3>2. QED
      BY <1>1, <3>1 DEF ReloadInv, BuiltServed
  <2>4. CASE Swap
    BY <1>1, <2>4 DEF ReloadInv, BuiltServed, Swap
  <2>5. QED
    BY <2>1, <2>2, <2>3, <2>4
<1>5. QED
  BY <1>2, <1>3, <1>4 DEF ReloadInv

LEMMA ReplaceStep == ReloadInv /\ Replace => ReloadInv'
<1> SUFFICES ASSUME ReloadInv, Replace PROVE ReloadInv'
  OBVIOUS
<1>1. ReloadTypeOK'
  <2>1. reloading' = "idle" /\ generation' \in Nat
    BY DEF Replace, reloadEnds, ReloadInv, ReloadTypeOK
  <2>2. health' \in [RestNames -> HealthRecord]
    BY NoHealthType DEF Replace, ReloadInv, ReloadTypeOK
  <2>3. checks' \in [Generations \X RestNames -> CheckRecord]
    <3>1. ASSUME NEW c \in Generations \X RestNames PROVE [checks[c] EXCEPT !.step = "acquire"] \in CheckRecord
      BY <3>1 DEF ReloadInv, ReloadTypeOK, CheckRecord, CheckSteps
    <3>2. QED
      BY <3>1 DEF Replace, ReloadInv, ReloadTypeOK
  <2>4. QED
    BY <2>1, <2>2, <2>3 DEF ReloadTypeOK
<1>2. CutOnlyOld'
  <2>1. ASSUME NEW c \in Generations \X RestNames
        PROVE /\ checks'[c].step # "none" => c[1] <= generation'
              /\ checks'[c].step = "release" /\ checks'[c].result = "cut" => c[1] < generation'
              /\ checks'[c].step = "observe" => checks'[c].result # "cut"
    <3>1. generation' = generation + 1 /\ generation \in Nat /\ c[1] \in Nat
      BY <2>1 DEF Replace, ReloadInv, ReloadTypeOK, Generations
    <3>2. CASE checks'[c] = checks[c]
      BY <2>1, <3>1, <3>2 DEF ReloadInv, CutOnlyOld
    <3>3. CASE checks'[c] # checks[c]
      <4>1. c[1] = generation + 1 /\ checks'[c].step = "acquire"
        BY <2>1, <3>3 DEF Replace, ReloadInv, ReloadTypeOK, CheckRecord
      <4>2. QED
        BY <3>1, <4>1
    <3>4. QED
      BY <3>2, <3>3
  <2>2. QED
    BY <2>1 DEF CutOnlyOld
<1>3. NoCuts'
  BY NoHealthType DEF Replace, ReloadInv, ReloadTypeOK, NoCuts
<1>4. BuiltServed'
  BY DEF Replace, reloadEnds, ReloadInv, BuiltServed
<1>5. QED
  BY <1>1, <1>2, <1>3, <1>4 DEF ReloadInv

-----------------------------------------------------------------------------
\* Observe: a result that is no cancellation keeps what is recorded.
LEMMA ObserveKeeps ==
  ASSUME ReloadInv, NEW n \in RestNames, NEW r \in Results, Observe(n, r, 0), UNCHANGED watched
  PROVE  health' \in [RestNames -> HealthRecord] /\ NoCuts'
<1> DEFINE new == [last |-> r,
                   failures |-> IF r = "ok" THEN 0 ELSE health[n].failures + 1,
                   cuts |-> IF r = "ok" THEN 0 ELSE health[n].cuts + 0]
<1>1. health \in [RestNames -> HealthRecord] /\ health[n] \in HealthRecord /\ health[n].cuts = 0
  BY DEF ReloadInv, ReloadTypeOK, NoCuts
<1>2. new \in HealthRecord /\ new.cuts = 0
  BY <1>1 DEF HealthRecord
<1>3. health' = [health EXCEPT ![n] = IF n \notin watched THEN health[n] ELSE new]
  BY DEF Observe
<1>4. health' \in [RestNames -> HealthRecord]
  <2> HIDE DEF new
  <2>1. QED
    BY <1>1, <1>2, <1>3
<1>5. ASSUME NEW m \in RestNames PROVE health'[m].cuts = 0 /\ (health'[m] # NoHealth => m \in watched')
  <2> HIDE DEF new
  <2>1. health'[m] = health[m] \/ (m = n /\ n \in watched /\ health'[m] = new)
    BY <1>1, <1>3
  <2>2. QED
    BY <1>2, <1>5, <2>1 DEF ReloadInv, NoCuts
<1>6. QED
  BY <1>4, <1>5 DEF NoCuts

\* A check moves on from a step it has reached.
LEMMA GotoKeeps ==
  ASSUME ReloadInv, NEW c \in Generations \X RestNames, NEW from, NEW to \in CheckSteps \ {"release"},
         Goto(c, from, to), from # "none", to = "observe" => checks[c].result # "cut",
         health' \in [RestNames -> HealthRecord], NoCuts'
  PROVE  ReloadInv'
<1>1. UNCHANGED <<watched, generation, reloading, built, inService>> /\ checks[c].step = from
  BY DEF Goto
<1> DEFINE new == [step |-> to, result |-> IF to = "observe" THEN checks[c].result ELSE "ok"]
<1>2. checks' = [checks EXCEPT ![c] = new]
  BY DEF Goto
<1>3. checks \in [Generations \X RestNames -> CheckRecord] /\ checks[c] \in CheckRecord
  BY DEF ReloadInv, ReloadTypeOK
<1>4. new \in CheckRecord /\ new.step = to /\ (to = "observe" => new.result # "cut")
  BY <1>3 DEF CheckRecord, Results
<1> HIDE DEF new
<1>5. ReloadTypeOK'
  <2>1. checks' \in [Generations \X RestNames -> CheckRecord]
    BY <1>2, <1>3, <1>4
  <2>2. QED
    BY <1>1, <2>1 DEF ReloadInv, ReloadTypeOK
<1>6. CutOnlyOld'
  <2>1. ASSUME NEW d \in Generations \X RestNames
        PROVE /\ checks'[d].step # "none" => d[1] <= generation'
              /\ checks'[d].step = "release" /\ checks'[d].result = "cut" => d[1] < generation'
              /\ checks'[d].step = "observe" => checks'[d].result # "cut"
    <3>1. CASE d # c
      <4>1. checks'[d] = checks[d]
        BY <1>2, <1>3, <3>1
      <4>2. QED
        BY <1>1, <2>1, <4>1 DEF ReloadInv, CutOnlyOld
    <3>2. CASE d = c
      <4>1. checks'[d] = new /\ d[1] <= generation
        BY <1>1, <1>2, <1>3, <3>2 DEF ReloadInv, CutOnlyOld
      <4>2. QED
        BY <1>1, <1>4, <4>1
    <3>3. QED
      BY <3>1, <3>2
  <2>2. QED
    BY <2>1 DEF CutOnlyOld
<1>7. BuiltServed'
  BY <1>1 DEF ReloadInv, BuiltServed
<1>8. QED
  BY <1>5, <1>6, <1>7 DEF ReloadInv

LEMMA CheckKeeps ==
  ASSUME ReloadInv, NEW c \in Generations \X RestNames, CheckStep(c) \/ pollAgain(c)
  PROVE  ReloadInv'
<1>1. After(c) \in CheckSteps \ {"release", "observe"}
  BY DEF After, CheckSteps
<1>2. UNCHANGED health => health' \in [RestNames -> HealthRecord]
  BY DEF ReloadInv, ReloadTypeOK
<1>3. UNCHANGED <<health, watched>> => NoCuts'
  BY DEF ReloadInv, NoCuts
<1>4. ASSUME NEW from, NEW to, Goto(c, from, to) PROVE UNCHANGED watched
  BY <1>4 DEF Goto
<1>5. CASE acquireSlot(c)
  <2>1. Goto(c, "acquire", "checking") /\ UNCHANGED health
    BY <1>5 DEF acquireSlot
  <2>2. "checking" \in CheckSteps \ {"release"}
    BY DEF CheckSteps
  <2>3. QED
    BY <1>2, <1>3, <1>4, <2>1, <2>2, GotoKeeps
<1>6. CASE giveUp(c)
  <2>1. Goto(c, "acquire", After(c)) /\ UNCHANGED health
    BY <1>6 DEF giveUp
  <2>2. QED
    BY <1>1, <1>2, <1>3, <1>4, <2>1, GotoKeeps
<1>7. CASE checked(c)
  <2> DEFINE to == IF Ended(c) THEN After(c) ELSE "observe"
  <2>1. Goto(c, "release", to) /\ UNCHANGED health
    BY <1>7 DEF checked
  <2>2. to = "observe" => checks[c].result # "cut"
    <3>1. SUFFICES ASSUME to = "observe", checks[c].result = "cut" PROVE FALSE
      OBVIOUS
    <3>2. c[1] = generation /\ generation \in Nat
      BY <1>1, <3>1 DEF Ended, ReloadInv, ReloadTypeOK
    <3>3. c[1] < generation
      BY <2>1, <3>1 DEF Goto, ReloadInv, CutOnlyOld
    <3>4. QED
      BY <3>2, <3>3
  <2>3. to \in CheckSteps \ {"release"}
    BY <1>1 DEF CheckSteps
  <2> HIDE DEF to
  <2>4. QED
    BY <1>2, <1>3, <1>4, <2>1, <2>2, <2>3, GotoKeeps
<1>8. CASE observeCheck(c)
  <2>1. Goto(c, "observe", After(c))
    BY <1>8 DEF observeCheck
  <2>2. checks[c].result # "cut" /\ checks[c].result \in Results
    BY <2>1 DEF Goto, ReloadInv, CutOnlyOld, ReloadTypeOK, CheckRecord
  <2>3. Observe(c[2], checks[c].result, 0) /\ c[2] \in RestNames
    BY <1>8, <2>2 DEF observeCheck
  <2>4. health' \in [RestNames -> HealthRecord] /\ NoCuts'
    BY <1>4, <2>1, <2>2, <2>3, ObserveKeeps
  <2>5. QED
    BY <1>1, <2>1, <2>4, GotoKeeps
<1>9. CASE runEnds(c)
  <2>1. Goto(c, "ticker", "ended") /\ UNCHANGED health
    BY <1>9 DEF runEnds
  <2>2. "ended" \in CheckSteps \ {"release"}
    BY DEF CheckSteps
  <2>3. QED
    BY <1>2, <1>3, <1>4, <2>1, <2>2, GotoKeeps
<1>10. CASE pollAgain(c)
  <2>1. Goto(c, "ticker", "acquire") /\ UNCHANGED health
    BY <1>10 DEF pollAgain
  <2>2. "acquire" \in CheckSteps \ {"release"}
    BY DEF CheckSteps
  <2>3. QED
    BY <1>2, <1>3, <1>4, <2>1, <2>2, GotoKeeps
<1>11. ASSUME NEW r \in Results, CheckHealth(c, r) PROVE ReloadInv'
  <2> DEFINE new == [step |-> "release", result |-> r]
  <2>1. /\ UNCHANGED <<watched, generation, reloading, built, inService, health>>
        /\ checks' = [checks EXCEPT ![c] = new] /\ checks[c].step = "checking"
        /\ r = "cut" => c[1] # generation
    BY <1>11 DEF CheckHealth, Ended
  <2>2. new \in CheckRecord /\ new.step = "release" /\ new.result = r
    BY DEF CheckRecord, CheckSteps
  <2>3. checks \in [Generations \X RestNames -> CheckRecord] /\ generation \in Nat
        /\ \A d \in Generations \X RestNames : d[1] \in Nat
    BY DEF ReloadInv, ReloadTypeOK, Generations
  <2>4. c[1] <= generation
    BY <2>1 DEF ReloadInv, CutOnlyOld
  <2> HIDE DEF new
  <2>5. ReloadTypeOK'
    <3>1. checks' \in [Generations \X RestNames -> CheckRecord]
      BY <2>1, <2>2, <2>3
    <3>2. QED
      BY <2>1, <3>1 DEF ReloadInv, ReloadTypeOK
  <2>6. CutOnlyOld'
    <3>1. ASSUME NEW d \in Generations \X RestNames
          PROVE /\ checks'[d].step # "none" => d[1] <= generation'
                /\ checks'[d].step = "release" /\ checks'[d].result = "cut" => d[1] < generation'
                /\ checks'[d].step = "observe" => checks'[d].result # "cut"
      <4>1. CASE d # c
        <5>1. checks'[d] = checks[d]
          BY <2>1, <2>3, <4>1
        <5>2. QED
          BY <2>1, <3>1, <5>1 DEF ReloadInv, CutOnlyOld
      <4>2. CASE d = c
        <5>1. checks'[d] = new
          BY <2>1, <2>3, <4>2
        <5>2. QED
          BY <2>1, <2>2, <2>3, <2>4, <4>2, <5>1
      <4>3. QED
        BY <4>1, <4>2
    <3>2. QED
      BY <3>1 DEF CutOnlyOld
  <2>7. NoCuts' /\ BuiltServed'
    BY <2>1 DEF ReloadInv, NoCuts, BuiltServed
  <2>8. QED
    BY <2>5, <2>6, <2>7 DEF ReloadInv
<1>12. QED
  BY <1>5, <1>6, <1>7, <1>8, <1>9, <1>10, <1>11 DEF CheckStep

LEMMA HealthToolStep ==
  ASSUME ReloadInv, NEW n \in RestNames, NEW r \in Results, executeHealthTool(n, r)
  PROVE  ReloadInv'
<1>1. UNCHANGED <<watched, generation, reloading, built, inService, checks>> /\ Observe(n, r, 0)
  BY DEF executeHealthTool
<1>2. health' \in [RestNames -> HealthRecord] /\ NoCuts'
  BY <1>1, ObserveKeeps
<1>3. ReloadTypeOK' /\ CutOnlyOld' /\ BuiltServed'
  BY <1>1, <1>2 DEF ReloadInv, ReloadTypeOK, CutOnlyOld, BuiltServed
<1>4. QED
  BY <1>2, <1>3 DEF ReloadInv

LEMMA ReloadStepKeeps == ReloadInv /\ [ReloadNext]_reloadVars => ReloadInv'
<1> SUFFICES ASSUME ReloadInv, [ReloadNext]_reloadVars PROVE ReloadInv'
  OBVIOUS
<1>1. DOMAIN checks = Generations \X RestNames
  BY DEF ReloadInv, ReloadTypeOK
<1>2. CASE UNCHANGED reloadVars
  BY <1>2 DEF reloadVars, ReloadInv, ReloadTypeOK, CutOnlyOld, NoCuts, BuiltServed
<1>3. CASE ReloadStep \/ \E c \in Contents : Edit(c)
  BY <1>3, FileSteps, ReplaceStep DEF ReloadStep
<1>4. CASE \E c \in DOMAIN checks : CheckStep(c) \/ pollAgain(c)
  BY <1>1, <1>4, CheckKeeps
<1>5. CASE \E n \in RestNames, r \in Results : executeHealthTool(n, r)
  BY <1>5, HealthToolStep
<1>6. QED
  BY <1>2, <1>3, <1>4, <1>5 DEF ReloadNext

\* HealthTruthful for any file, number of reloads, polls and concurrent checks:
\* Monitor.Observe never records the cancellation of a check by Replace, and
\* /health speaks only of backends that are watched and, between reloads,
\* served.
THEOREM HealthAlwaysTruthful == ReloadSpec => []HealthTruthful
<1>1. ReloadInv => HealthTruthful
  <2> SUFFICES ASSUME ReloadInv PROVE HealthTruthful
    OBVIOUS
  <2>1. ASSUME NEW n \in Degraded PROVE n \in watched
    <3>1. n \in RestNames /\ health[n].failures >= DegradeAfter /\ DegradeAfter > 0
      BY <2>1, ReloadAssumption DEF Degraded
    <3>2. health[n] # NoHealth
      BY <3>1, NoHealthType, ReloadAssumption
    <3>3. QED
      BY <3>1, <3>2 DEF ReloadInv, NoCuts
  <2>2. QED
    BY <2>1 DEF HealthTruthful, ReloadInv, NoCuts, BuiltServed
<1>2. QED
  BY ReloadInitial, ReloadStepKeeps, <1>1, PTL DEF ReloadSpec
-----------------------------------------------------------------------------
(***************************************************************************)
(* The answers of the MCP server, for any number of requests, any script   *)
(* and any budget.  AnswerComplete needs what a request has collected      *)
(* before it is answered: ToolReqOK, of each request alone, since requests *)
(* share only the ledger of the hints.                                     *)
(***************************************************************************)
EntryType == [status : {"ok", "toolerr", "dispatch", "coercion"}, notice : BOOLEAN, full : BOOLEAN]
ReachedType == [status : {"ok", "toolerr", "dispatch"}, notice : BOOLEAN, at : Nat]
AnswerType == {NoAnswer, RpcError} \cup [kind : {"result"}, entries : Seq(EntryType), failed : BOOLEAN]
ToolReqType ==
    [fg : {"idle", "wait", "done"},
     bg : {"none", "scan", "dispatch", "direct", "script", "calling", "ended"},
     streamed : BOOLEAN, ctx : {"live", "late", "gone"}, count : Nat,
     results : Seq(EntryType), reached : Seq(ReachedType), out : AnswerType, sent : AnswerType]

\* A client may be told this of the calls that were reached.
Truthful(answer, reached) ==
    answer.kind = "result" =>
        /\ ListsCalls(answer.entries, reached)
        /\ \A i \in DOMAIN answer.entries : answer.entries[i].full \/ answer.entries[i].status = "ok"

\* A request by how far its call has come.
Gathered(r, q) ==
    /\ q.fg = "idle" => q.bg = "none"
    /\ q.bg \in {"none", "scan", "dispatch", "direct"} => q.results = <<>> /\ q.reached = <<>>
    /\ q.bg \in {"dispatch", "direct"} => r \notin ScriptReqs
    /\ q.bg \in {"script", "calling"} =>
         ListsCalls(q.results, q.reached) /\ \A i \in DOMAIN q.results : q.results[i].full
    /\ r \in ScriptReqs => Len(q.reached) <= MaxCodeCalls
    /\ q.bg = "script" => Len(q.reached) <= q.count
    /\ q.bg = "calling" => Len(q.reached) < q.count /\ q.count <= MaxCodeCalls
ToolReqOK(r, q) ==
    /\ Gathered(r, q)
    /\ q.out.kind # "none" \/ q.sent.kind # "none" => q.bg = "ended"
    /\ Truthful(q.out, q.reached) /\ Truthful(q.sent, q.reached)

SrvInv == treq \in [ToolReqs -> ToolReqType] /\ \A r \in ToolReqs : ToolReqOK(r, treq[r])
-----------------------------------------------------------------------------
LEMMA NoCalls == ListsCalls(<<>>, <<>>)
  BY DEF ListsCalls

\* A result is collected with its call, or without one.
LEMMA OneMoreEntry ==
  ASSUME NEW entries \in Seq(EntryType), NEW reached \in Seq(ReachedType), ListsCalls(entries, reached),
         NEW entry \in EntryType
  PROVE  /\ entry.status = "coercion" => ListsCalls(Append(entries, entry), reached)
         /\ \A one \in ReachedType :
              /\ one.status = entry.status /\ one.notice = entry.notice /\ one.at = Len(entries) + 1
              => ListsCalls(Append(entries, entry), Append(reached, one))
<1> DEFINE more == Append(entries, entry)
           n == Len(entries)
           k == Len(reached)
<1>1. n \in Nat /\ k \in Nat /\ DOMAIN entries = 1..n /\ DOMAIN reached = 1..k
  OBVIOUS
<1>2. DOMAIN more = 1..(n + 1) /\ more[n + 1] = entry /\ \A i \in 1..n : more[i] = entries[i]
  OBVIOUS
<1>3. /\ \A i \in 1..k : /\ reached[i].at \in 1..n
                         /\ entries[reached[i].at].status = reached[i].status
                         /\ entries[reached[i].at].notice = reached[i].notice
      /\ \A i, j \in 1..k : i < j => reached[i].at < reached[j].at
      /\ \A m \in 1..n : entries[m].status # "coercion" => \E i \in 1..k : reached[i].at = m
  BY <1>1 DEF ListsCalls
<1> HIDE DEF more, n, k
<1>4. ASSUME entry.status = "coercion" PROVE ListsCalls(more, reached)
  BY <1>1, <1>2, <1>3, <1>4, SMTT(30) DEF ListsCalls
<1>5. ASSUME NEW one \in ReachedType,
             one.status = entry.status, one.notice = entry.notice, one.at = n + 1
      PROVE  ListsCalls(more, Append(reached, one))
  <2> DEFINE calls == Append(reached, one)
  <2>1. DOMAIN calls = 1..(k + 1) /\ calls[k + 1] = one /\ \A i \in 1..k : calls[i] = reached[i]
    BY DEF k
  <2> HIDE DEF calls
  <2>2. ASSUME NEW i \in 1..(k + 1)
        PROVE  /\ calls[i].at \in 1..(n + 1)
               /\ more[calls[i].at].status = calls[i].status
               /\ more[calls[i].at].notice = calls[i].notice
    <3>1. CASE i = k + 1
      BY <1>1, <1>2, <1>5, <2>1, <3>1
    <3>2. CASE i # k + 1
      BY <1>1, <1>2, <1>3, <2>1, <3>2
    <3>3. QED
      BY <3>1, <3>2
  <2>3. ASSUME NEW i \in 1..(k + 1), NEW j \in 1..(k + 1), i < j PROVE calls[i].at < calls[j].at
    <3>1. i \in 1..k /\ calls[i].at \in 1..n
      BY <1>1, <1>3, <2>1, <2>3
    <3>2. CASE j = k + 1
      BY <1>1, <1>5, <2>1, <3>1, <3>2
    <3>3. CASE j # k + 1
      BY <1>1, <1>3, <2>1, <2>3, <3>1, <3>3
    <3>4. QED
      BY <3>2, <3>3
  <2>4. ASSUME NEW m \in 1..(n + 1), more[m].status # "coercion" PROVE \E i \in 1..(k + 1) : calls[i].at = m
    <3>1. CASE m = n + 1
      BY <1>1, <1>5, <2>1, <3>1
    <3>2. CASE m # n + 1
      <4>1. PICK i \in 1..k : reached[i].at = m
        BY <1>1, <1>2, <1>3, <2>4, <3>2
      <4>2. QED
        BY <1>1, <2>1, <4>1
    <3>3. QED
      BY <3>1, <3>2
  <2>5. QED
    BY <1>2, <2>1, <2>2, <2>3, <2>4 DEF ListsCalls, calls
<1>6. QED
  BY <1>4, <1>5 DEF more, n

\* compactCallResults changes no status, notice or place, and keeps failures.
LEMMA Compacted ==
  ASSUME NEW entries \in Seq(EntryType), NEW reached, ListsCalls(entries, reached)
  PROVE  /\ compactCallResults(entries) \in Seq(EntryType)
         /\ ListsCalls(compactCallResults(entries), reached)
         /\ \A i \in DOMAIN compactCallResults(entries) :
              compactCallResults(entries)[i].full \/ compactCallResults(entries)[i].status = "ok"
<1> DEFINE small == compactCallResults(entries)
<1>1. DOMAIN entries = 1..Len(entries) /\ Len(entries) \in Nat /\ DOMAIN small = DOMAIN entries
  BY DEF compactCallResults
<1>2. ASSUME NEW i \in DOMAIN entries
      PROVE  /\ small[i] \in EntryType
             /\ small[i].status = entries[i].status /\ small[i].notice = entries[i].notice
             /\ small[i].full = (entries[i].status # "ok")
  <2>1. entries[i] \in EntryType
    OBVIOUS
  <2>2. small[i] = [entries[i] EXCEPT !.full = entries[i].status # "ok"]
    BY DEF compactCallResults
  <2> HIDE DEF small
  <2>3. QED
    BY <2>1, <2>2 DEF EntryType
<1> HIDE DEF small
<1>3. small \in Seq(EntryType)
  <2>1. small = [i \in DOMAIN entries |-> small[i]]
    BY DEF small, compactCallResults
  <2>2. QED
    BY <1>1, <1>2, <2>1
<1>4. ListsCalls(small, reached)
  BY <1>1, <1>2 DEF ListsCalls
<1>5. \A i \in DOMAIN small : small[i].full \/ small[i].status = "ok"
  BY <1>1, <1>2
<1>6. QED
  BY <1>3, <1>4, <1>5 DEF small

LEMMA RequestGoesOn ==
  ASSUME SrvInv, NEW r \in ToolReqs, NEW q \in ToolReqType, ToolReqOK(r, q),
         treq' = [treq EXCEPT ![r] = q]
  PROVE  SrvInv'
<1>1. treq' \in [ToolReqs -> ToolReqType]
  BY DEF SrvInv
<1>2. \A p \in ToolReqs : treq'[p] = IF p = r THEN q ELSE treq[p]
  BY DEF SrvInv
<1>3. \A p \in ToolReqs : ToolReqOK(p, treq'[p])
  BY <1>2 DEF SrvInv
<1>4. QED
  BY <1>1, <1>3 DEF SrvInv

\* The handler goes on, or the context ends.
LEMMA HandlerGoesOn ==
  ASSUME SrvInv, NEW r \in ToolReqs, NEW fg \in {"wait", "done"}, NEW ctx \in {"live", "late", "gone"},
         treq' = [treq EXCEPT ![r].fg = fg, ![r].ctx = ctx]
  PROVE  SrvInv'
<1> DEFINE q == [treq[r] EXCEPT !.fg = fg, !.ctx = ctx]
<1>1. treq[r] \in ToolReqType /\ ToolReqOK(r, treq[r])
  BY DEF SrvInv
<1>2. /\ q \in ToolReqType /\ q.fg = fg /\ q.bg = treq[r].bg /\ q.count = treq[r].count
      /\ q.results = treq[r].results /\ q.reached = treq[r].reached
      /\ q.out = treq[r].out /\ q.sent = treq[r].sent
  BY <1>1 DEF ToolReqType
<1>3. treq' = [treq EXCEPT ![r] = q]
  BY DEF SrvInv
<1> HIDE DEF q
<1>4. ToolReqOK(r, q)
  BY <1>1, <1>2 DEF ToolReqOK, Gathered
<1>5. QED
  BY <1>2, <1>3, <1>4, RequestGoesOn

\* The call ends with an answer that lists what it has gathered.
LEMMA CallEnds ==
  ASSUME SrvInv, NEW r \in ToolReqs, NEW answer \in AnswerType, putResult(r, answer),
         treq[r].bg # "none", Truthful(answer, treq[r].reached)
  PROVE  SrvInv'
<1> DEFINE q == [treq[r] EXCEPT !.bg = "ended", !.out = answer]
<1>1. treq[r] \in ToolReqType /\ ToolReqOK(r, treq[r])
  BY DEF SrvInv
<1>2. /\ q \in ToolReqType /\ q.fg = treq[r].fg /\ q.bg = "ended" /\ q.count = treq[r].count
      /\ q.results = treq[r].results /\ q.reached = treq[r].reached
      /\ q.out = answer /\ q.sent = treq[r].sent
  BY <1>1 DEF ToolReqType
<1>3. treq' = [treq EXCEPT ![r] = q]
  BY DEF SrvInv, putResult
<1> HIDE DEF q
<1>4. ToolReqOK(r, q)
  BY <1>1, <1>2 DEF ToolReqOK, Gathered
<1>5. QED
  BY <1>2, <1>3, <1>4, RequestGoesOn

\* The call goes on to a step, with nothing gathered yet or nothing new.
LEMMA CallGoesOn ==
  ASSUME SrvInv, NEW r \in ToolReqs, NEW from, NEW to, Bg(r, from, to),
         \/ from = "dispatch" /\ to = "direct"
         \/ from = "scan" /\ to = "script"
  PROVE  SrvInv'
<1> DEFINE q == [treq[r] EXCEPT !.bg = to]
<1>1. treq[r] \in ToolReqType /\ ToolReqOK(r, treq[r]) /\ treq[r].bg = from
  BY DEF SrvInv, Bg
<1>2. /\ q \in ToolReqType /\ q.fg = treq[r].fg /\ q.bg = to /\ q.count = treq[r].count
      /\ q.results = treq[r].results /\ q.reached = treq[r].reached
      /\ q.out = treq[r].out /\ q.sent = treq[r].sent
  BY <1>1 DEF ToolReqType
<1>3. treq' = [treq EXCEPT ![r] = q]
  BY DEF SrvInv, Bg
<1> HIDE DEF q
<1>4. q.count \in Nat /\ q.results = <<>> /\ q.reached = <<>> /\ Len(<<>>) = 0
  BY <1>1, <1>2 DEF ToolReqOK, Gathered, ToolReqType
<1>5. Gathered(r, q)
  BY <1>1, <1>2, <1>4, NoCalls DEF ToolReqOK, Gathered
<1>6. ToolReqOK(r, q)
  BY <1>1, <1>2, <1>5 DEF ToolReqOK
<1>7. QED
  BY <1>2, <1>3, <1>6, RequestGoesOn

\* A request that is answered at once or starts a call.
LEMMA SrvStarts ==
  ASSUME SrvInv, NEW r \in ToolReqs,
         \/ \E answer \in {RpcError, Message(<<>>, FALSE)} : answerAtOnce(r, answer)
         \/ \E streamed \in BOOLEAN : startToolCall(r, streamed)
  PROVE  SrvInv'
<1>1. treq[r] \in ToolReqType /\ ToolReqOK(r, treq[r]) /\ treq[r].fg = "idle"
  BY DEF SrvInv, answerAtOnce, startToolCall
<1>2. treq[r].results = <<>> /\ treq[r].reached = <<>> /\ Len(<<>>) = 0 /\ MaxCodeCalls \in Nat
  BY <1>1, McpServerAssumption DEF ToolReqOK, Gathered
<1>3. ASSUME NEW answer \in {RpcError, Message(<<>>, FALSE)}, answerAtOnce(r, answer) PROVE SrvInv'
  <2> DEFINE q == [treq[r] EXCEPT !.fg = "done", !.bg = "ended", !.sent = answer]
  <2>1. answer \in AnswerType /\ Truthful(answer, <<>>)
    <3>1. CASE answer = RpcError
      BY <3>1 DEF AnswerType, Truthful, RpcError
    <3>2. CASE answer = Message(<<>>, FALSE)
      <4>1. <<>> \in Seq(EntryType)
        OBVIOUS
      <4>2. QED
        BY <3>2, <4>1, NoCalls DEF AnswerType, Truthful, Message
    <3>3. QED
      BY <3>1, <3>2
  <2>2. /\ q \in ToolReqType /\ q.fg = "done" /\ q.bg = "ended" /\ q.count = treq[r].count
        /\ q.results = treq[r].results /\ q.reached = treq[r].reached
        /\ q.out = treq[r].out /\ q.sent = answer
    BY <1>1, <2>1 DEF ToolReqType
  <2>3. treq' = [treq EXCEPT ![r] = q]
    BY <1>3 DEF SrvInv, answerAtOnce
  <2> HIDE DEF q
  <2>4. ToolReqOK(r, q)
    BY <1>1, <1>2, <2>1, <2>2 DEF ToolReqOK, Gathered
  <2>5. QED
    BY <2>2, <2>3, <2>4, RequestGoesOn
<1>4. ASSUME NEW streamed \in BOOLEAN, startToolCall(r, streamed) PROVE SrvInv'
  <2> DEFINE bg == IF r \in ScriptReqs THEN "scan" ELSE "dispatch"
             q == [treq[r] EXCEPT !.fg = "wait", !.streamed = streamed, !.bg = bg]
  <2>1. bg \in {"scan", "dispatch"} /\ (bg = "dispatch" => r \notin ScriptReqs)
    OBVIOUS
  <2>2. treq' = [treq EXCEPT ![r] = q]
    BY <1>4 DEF SrvInv, startToolCall
  <2> HIDE DEF bg
  <2>3. /\ q \in ToolReqType /\ q.fg = "wait" /\ q.bg = bg /\ q.count = treq[r].count
        /\ q.results = treq[r].results /\ q.reached = treq[r].reached
        /\ q.out = treq[r].out /\ q.sent = treq[r].sent
    BY <1>1, <2>1 DEF ToolReqType
  <2> HIDE DEF q
  <2>4. ToolReqOK(r, q)
    BY <1>1, <1>2, <2>1, <2>3 DEF ToolReqOK, Gathered
  <2>5. QED
    BY <2>2, <2>3, <2>4, RequestGoesOn
<1>5. QED
  BY <1>3, <1>4

LEMMA SrvHandler ==
  ASSUME SrvInv, NEW r \in ToolReqs, clientGone(r) \/ streamEnds(r) \/ keepalive(r) \/ writeAnswer(r)
  PROVE  SrvInv'
<1>1. treq[r] \in ToolReqType /\ ToolReqOK(r, treq[r]) /\ treq[r].fg = "wait" /\ treq[r].ctx \in {"live", "late", "gone"}
  BY DEF SrvInv, clientGone, streamEnds, keepalive, writeAnswer, ToolReqType
<1>2. ASSUME NEW fg \in {"wait", "done"}, NEW ctx \in {"live", "late", "gone"},
             treq' = [treq EXCEPT ![r] = [treq[r] EXCEPT !.fg = fg, !.ctx = ctx]]
      PROVE  SrvInv'
  <2>1. treq' = [treq EXCEPT ![r].fg = fg, ![r].ctx = ctx]
    BY <1>2 DEF SrvInv
  <2>2. QED
    BY <2>1, HandlerGoesOn
<1>3. CASE clientGone(r)
  <2>1. treq' = [treq EXCEPT ![r] = [treq[r] EXCEPT !.fg = "wait", !.ctx = "gone"]]
    BY <1>1, <1>3 DEF clientGone, SrvInv, ToolReqType
  <2>2. QED
    BY <1>2, <2>1
<1>4. CASE streamEnds(r)
  <2>1. treq' = [treq EXCEPT ![r] = [treq[r] EXCEPT !.fg = "done", !.ctx = treq[r].ctx]]
    BY <1>1, <1>4 DEF streamEnds, SrvInv, ToolReqType
  <2>2. QED
    BY <1>1, <1>2, <2>1
<1>5. CASE keepalive(r)
  <2>1. CASE UNCHANGED treq
    BY <2>1 DEF SrvInv
  <2>2. CASE treq' = [treq EXCEPT ![r].fg = "done", ![r].ctx = "gone"]
    BY <2>2, HandlerGoesOn
  <2>3. QED
    BY <1>5, <2>1, <2>2 DEF keepalive
<1>6. CASE writeAnswer(r)
  <2> DEFINE sent == IF treq[r].ctx = "gone" THEN NoAnswer ELSE treq[r].out
             q == [treq[r] EXCEPT !.fg = "done", !.out = NoAnswer, !.sent = sent]
  <2>1. NoAnswer \in AnswerType /\ NoAnswer.kind = "none" /\ Truthful(NoAnswer, treq[r].reached)
    BY DEF AnswerType, NoAnswer, Truthful
  <2>2. sent \in AnswerType /\ Truthful(sent, treq[r].reached)
    BY <1>1, <2>1 DEF ToolReqType, ToolReqOK
  <2>3. treq' = [treq EXCEPT ![r] = q]
    BY <1>6 DEF writeAnswer, SrvInv
  <2> HIDE DEF sent
  <2>4. /\ q \in ToolReqType /\ q.fg = "done" /\ q.bg = treq[r].bg /\ q.count = treq[r].count
        /\ q.results = treq[r].results /\ q.reached = treq[r].reached
        /\ q.out = NoAnswer /\ q.sent = sent
    BY <1>1, <2>1, <2>2 DEF ToolReqType
  <2> HIDE DEF q
  <2>5. treq[r].bg = "ended"
    BY <1>6 DEF writeAnswer
  <2>6. ToolReqOK(r, q)
    BY <1>1, <2>1, <2>2, <2>4, <2>5 DEF ToolReqOK, Gathered
  <2>7. QED
    BY <2>3, <2>4, <2>6, RequestGoesOn
<1>7. QED
  BY <1>3, <1>4, <1>5, <1>6

\* HandleToolCall.
LEMMA SrvDirect ==
  ASSUME SrvInv, NEW r \in ToolReqs,
         \/ \E failed \in BOOLEAN : builtinTool(r, failed)
         \/ executeDirect(r) \/ directFails(r)
         \/ \E status \in {"ok", "toolerr"}, hinted \in BOOLEAN : directReturns(r, status, hinted)
  PROVE  SrvInv'
<1>1. treq[r] \in ToolReqType /\ ToolReqOK(r, treq[r]) /\ treq[r].bg \in {"dispatch", "direct"}
  BY DEF SrvInv, builtinTool, executeDirect, directFails, directReturns, Bg
<1>2. treq[r].reached = <<>> /\ r \notin ScriptReqs /\ treq[r].fg # "idle"
  BY <1>1 DEF ToolReqOK, Gathered
<1>3. ASSUME NEW failed \in BOOLEAN, builtinTool(r, failed) PROVE SrvInv'
  <2>1. Message(<<>>, failed) \in AnswerType /\ Truthful(Message(<<>>, failed), <<>>)
    <3>1. <<>> \in Seq(EntryType)
      OBVIOUS
    <3>2. QED
      BY <3>1, NoCalls DEF AnswerType, Truthful, Message
  <2>2. QED
    BY <1>1, <1>2, <1>3, <2>1, CallEnds DEF builtinTool
<1>4. CASE executeDirect(r)
  BY <1>4, CallGoesOn DEF executeDirect
<1>5. CASE directFails(r)
  <2>1. RpcError \in AnswerType /\ Truthful(RpcError, <<>>)
    BY DEF AnswerType, Truthful, RpcError
  <2>2. QED
    BY <1>1, <1>2, <1>5, <2>1, CallEnds DEF directFails
<1>6. ASSUME NEW status \in {"ok", "toolerr"}, NEW hinted \in BOOLEAN, directReturns(r, status, hinted) PROVE SrvInv'
  <2> DEFINE notice == Notice(r, hinted)
             failed == status # "ok"
             entry == Entry(status, notice)
             calls == <<[status |-> status, notice |-> entry.notice, at |-> 1]>>
             answer == Message(<<entry>>, failed)
             q == [treq[r] EXCEPT !.bg = "ended", !.out = answer, !.reached = calls]
  <2>1. treq' = [treq EXCEPT ![r] = q]
    BY <1>6 DEF directReturns, SrvInv
  <2>2. notice \in BOOLEAN /\ failed \in BOOLEAN
    BY DEF Notice
  <2> HIDE DEF notice, failed
  <2>3. entry \in EntryType /\ entry.status = status /\ entry.notice = notice /\ entry.full = TRUE
    BY <2>2 DEF Entry, EntryType
  <2>4. calls[1] \in ReachedType /\ calls \in Seq(ReachedType)
    BY <2>2, <2>3 DEF ReachedType
  <2>5. ListsCalls(<<entry>>, calls)
    BY <2>3 DEF ListsCalls
  <2>6. answer \in AnswerType /\ Truthful(answer, calls)
    <3>1. <<entry>> \in Seq(EntryType)
      BY <2>3
    <3>2. answer.kind = "result" /\ answer.entries = <<entry>> /\ answer \in AnswerType
      BY <2>2, <3>1 DEF Message, AnswerType
    <3>3. QED
      BY <2>3, <2>5, <3>2 DEF Truthful
  <2> HIDE DEF answer, calls
  <2>7. /\ q \in ToolReqType /\ q.fg = treq[r].fg /\ q.bg = "ended" /\ q.count = treq[r].count
        /\ q.results = treq[r].results /\ q.reached = calls
        /\ q.out = answer /\ q.sent = treq[r].sent
    BY <1>1, <2>4, <2>6 DEF ToolReqType
  <2> HIDE DEF q
  <2>8. q.sent.kind = "none" /\ Truthful(q.sent, calls)
    BY <1>1, <2>7 DEF ToolReqOK, Truthful
  <2>9. ToolReqOK(r, q)
    BY <1>1, <1>2, <2>6, <2>7, <2>8 DEF ToolReqOK, Gathered
  <2>10. QED
    BY <2>1, <2>7, <2>9, RequestGoesOn
<1>7. QED
  BY <1>3, <1>4, <1>5, <1>6

\* Fields of a request that stay when a script goes on.
SameRequest(r, q) == q.fg = treq[r].fg /\ q.out = treq[r].out /\ q.sent = treq[r].sent

\* A script goes on, with what it gathered before and maybe one entry more.
LEMMA ScriptGoesOn ==
  ASSUME SrvInv, NEW r \in ToolReqs, NEW q \in ToolReqType, SameRequest(r, q), treq' = [treq EXCEPT ![r] = q],
         treq[r].bg \in {"script", "calling"}, q.bg \in {"script", "calling"}, Gathered(r, q)
  PROVE  SrvInv'
<1>1. treq[r] \in ToolReqType /\ ToolReqOK(r, treq[r])
  BY DEF SrvInv
<1>2. q.out.kind = "none" /\ q.sent.kind = "none"
  BY <1>1 DEF ToolReqOK, SameRequest
<1>3. ToolReqOK(r, q)
  BY <1>2 DEF ToolReqOK, Truthful
<1>4. QED
  BY <1>3, RequestGoesOn

\* The scan, the deadline and the count of the calls.
LEMMA SrvScript ==
  ASSUME SrvInv, NEW r \in ScriptReqs, scanRefused(r) \/ scanPassed(r) \/ deadline(r) \/ countCall(r)
  PROVE  SrvInv'
<1>1. r \in ToolReqs /\ treq[r] \in ToolReqType /\ ToolReqOK(r, treq[r]) /\ Gathered(r, treq[r]) /\ MaxCodeCalls \in Nat
  BY McpServerAssumption DEF SrvInv, ToolReqs, ToolReqOK
<1>2. CASE scanRefused(r)
  <2>1. treq[r].bg = "scan" /\ treq[r].reached = <<>>
    BY <1>1, <1>2 DEF scanRefused, Gathered
  <2>2. Message(<<>>, TRUE) \in AnswerType /\ Truthful(Message(<<>>, TRUE), <<>>)
    <3>1. <<>> \in Seq(EntryType)
      OBVIOUS
    <3>2. QED
      BY <3>1, NoCalls DEF AnswerType, Truthful, Message
  <2>3. QED
    BY <1>1, <1>2, <2>1, <2>2, CallEnds DEF scanRefused
<1>3. CASE scanPassed(r)
  BY <1>1, <1>3, CallGoesOn DEF scanPassed
<1>4. CASE deadline(r)
  <2> DEFINE q == [treq[r] EXCEPT !.ctx = "late"]
  <2>1. /\ q \in ToolReqType /\ q.fg = treq[r].fg /\ q.bg = treq[r].bg /\ q.count = treq[r].count
        /\ q.results = treq[r].results /\ q.reached = treq[r].reached
        /\ q.out = treq[r].out /\ q.sent = treq[r].sent
    BY <1>1 DEF ToolReqType
  <2>2. treq' = [treq EXCEPT ![r] = q] /\ treq[r].bg \in {"script", "calling"}
    BY <1>4 DEF deadline, SrvInv
  <2> HIDE DEF q
  <2>3. Gathered(r, q) /\ SameRequest(r, q)
    BY <1>1, <2>1 DEF Gathered, SameRequest
  <2>4. QED
    BY <1>1, <2>1, <2>2, <2>3, ScriptGoesOn
<1>5. CASE countCall(r)
  <2> DEFINE n == treq[r].count
             count == IF n > MaxCodeCalls THEN n ELSE n + 1
             bg == IF Refused(r) THEN "script" ELSE "calling"
             q == [treq[r] EXCEPT !.count = count, !.bg = bg]
  <2>1. treq' = [treq EXCEPT ![r] = q] /\ treq[r].bg = "script"
    BY <1>5 DEF countCall, SrvInv
  <2>2. n \in Nat /\ count \in Nat /\ n <= count /\ bg \in {"script", "calling"}
    BY <1>1 DEF ToolReqType
  <2>3. bg = "calling" => n < MaxCodeCalls /\ count = n + 1
    BY <1>1, <2>2 DEF Refused
  <2> HIDE DEF count, bg
  <2>4. /\ q \in ToolReqType /\ q.fg = treq[r].fg /\ q.bg = bg /\ q.count = count
        /\ q.results = treq[r].results /\ q.reached = treq[r].reached
        /\ q.out = treq[r].out /\ q.sent = treq[r].sent
    BY <1>1, <2>2 DEF ToolReqType
  <2> HIDE DEF q, n
  <2>5. Len(treq[r].reached) \in Nat /\ Len(treq[r].reached) <= n
    <3>1. treq[r].reached \in Seq(ReachedType)
      BY <1>1 DEF ToolReqType
    <3>2. QED
      BY <1>1, <2>1, <3>1 DEF Gathered, n
  <2>6. q.bg = "script" => Len(q.reached) <= q.count
    BY <2>2, <2>4, <2>5
  <2>7. q.bg = "calling" => Len(q.reached) < q.count /\ q.count <= MaxCodeCalls
    BY <1>1, <2>2, <2>3, <2>4, <2>5
  <2>8. q.fg # "idle" /\ q.bg \in {"script", "calling"}
    BY <1>1, <2>1, <2>2, <2>4 DEF Gathered
  <2>9. Gathered(r, q) /\ SameRequest(r, q)
    BY <1>1, <2>1, <2>4, <2>6, <2>7, <2>8 DEF Gathered, SameRequest
  <2>10. QED
    BY <1>1, <2>1, <2>4, <2>8, <2>9, ScriptGoesOn
<1>6. QED
  BY <1>2, <1>3, <1>4, <1>5

\* A call of a script fails to coerce or returns.
LEMMA SrvCall ==
  ASSUME SrvInv, NEW r \in ScriptReqs,
         coercionFails(r) \/ \E status \in {"ok", "toolerr", "dispatch"}, hinted \in BOOLEAN : callReturns(r, status, hinted)
  PROVE  SrvInv'
<1>1. /\ r \in ToolReqs /\ treq[r] \in ToolReqType /\ Gathered(r, treq[r]) /\ MaxCodeCalls \in Nat
      /\ treq[r].bg = "calling"
  BY McpServerAssumption DEF SrvInv, ToolReqs, ToolReqOK, coercionFails, callReturns
<1> DEFINE entries == treq[r].results
           reached == treq[r].reached
<1>2. /\ entries \in Seq(EntryType) /\ reached \in Seq(ReachedType) /\ treq[r].count \in Nat
      /\ ListsCalls(entries, reached) /\ \A i \in DOMAIN entries : entries[i].full
      /\ Len(reached) < treq[r].count /\ treq[r].count <= MaxCodeCalls /\ treq[r].fg # "idle"
  BY <1>1 DEF ToolReqType, Gathered
<1>3. ASSUME NEW entry \in EntryType, entry.full = TRUE, NEW calls \in Seq(ReachedType), Len(calls) <= Len(reached) + 1,
             ListsCalls(Append(entries, entry), calls),
             treq' = [treq EXCEPT ![r] = [treq[r] EXCEPT !.bg = "script", !.results = Append(entries, entry), !.reached = calls]]
      PROVE  SrvInv'
  <2> DEFINE more == Append(entries, entry)
             q == [treq[r] EXCEPT !.bg = "script", !.results = more, !.reached = calls]
  <2>1. more \in Seq(EntryType) /\ \A i \in DOMAIN more : more[i].full
    BY <1>2, <1>3
  <2>2. Len(calls) \in Nat /\ Len(reached) \in Nat /\ Len(calls) <= treq[r].count /\ Len(calls) <= MaxCodeCalls
    BY <1>1, <1>2, <1>3
  <2>3. ListsCalls(more, calls) /\ treq' = [treq EXCEPT ![r] = q]
    BY <1>3
  <2> HIDE DEF more
  <2>4. /\ q \in ToolReqType /\ q.fg = treq[r].fg /\ q.bg = "script" /\ q.count = treq[r].count
        /\ q.results = more /\ q.reached = calls
        /\ q.out = treq[r].out /\ q.sent = treq[r].sent
    BY <1>1, <2>1 DEF ToolReqType
  <2> HIDE DEF q
  <2>5. Gathered(r, q) /\ SameRequest(r, q)
    BY <1>2, <2>1, <2>2, <2>3, <2>4 DEF Gathered, SameRequest
  <2>6. QED
    BY <1>1, <2>3, <2>4, <2>5, ScriptGoesOn
<1>4. CASE coercionFails(r)
  <2> DEFINE entry == Entry("coercion", FALSE)
  <2>1. entry \in EntryType /\ entry.full = TRUE /\ entry.status = "coercion"
    BY DEF Entry, EntryType
  <2>2. treq' = [treq EXCEPT ![r].bg = "script", ![r].results = Append(entries, entry)]
    BY <1>1, <1>4 DEF coercionFails, SrvInv
  <2> HIDE DEF entry
  <2>3. treq' = [treq EXCEPT ![r] = [treq[r] EXCEPT !.bg = "script", !.results = Append(entries, entry), !.reached = reached]]
    BY <1>1, <2>2 DEF SrvInv, ToolReqType
  <2>4. ListsCalls(Append(entries, entry), reached)
    BY <1>2, <2>1, OneMoreEntry
  <2>5. Len(reached) <= Len(reached) + 1
    BY <1>2
  <2>6. QED
    BY <1>2, <1>3, <2>1, <2>3, <2>4, <2>5
<1>5. ASSUME NEW status \in {"ok", "toolerr", "dispatch"}, NEW hinted \in BOOLEAN, callReturns(r, status, hinted)
      PROVE  SrvInv'
  <2> DEFINE notice == Notice(r, hinted)
             entry == Entry(status, notice)
             one == [status |-> status, notice |-> entry.notice, at |-> Len(entries) + 1]
  <2>1. treq' = [treq EXCEPT ![r].bg = "script", ![r].results = Append(entries, entry), ![r].reached = Append(reached, one)]
    BY <1>1, <1>5 DEF callReturns, SrvInv
  <2>2. notice \in BOOLEAN
    BY DEF Notice
  <2> HIDE DEF notice
  <2>3. entry \in EntryType /\ entry.full = TRUE /\ entry.status = status /\ entry.notice = notice
    BY <2>2 DEF Entry, EntryType
  <2> HIDE DEF entry
  <2>4. one \in ReachedType /\ one.status = entry.status /\ one.notice = entry.notice /\ one.at = Len(entries) + 1
    BY <1>2, <2>2, <2>3 DEF ReachedType
  <2> HIDE DEF one
  <2>5. treq' = [treq EXCEPT ![r] = [treq[r] EXCEPT !.bg = "script", !.results = Append(entries, entry), !.reached = Append(reached, one)]]
    BY <1>1, <2>1 DEF SrvInv
  <2>6. ListsCalls(Append(entries, entry), Append(reached, one))
    BY <1>2, <2>3, <2>4, OneMoreEntry
  <2>7. Append(reached, one) \in Seq(ReachedType) /\ Len(Append(reached, one)) <= Len(reached) + 1
    BY <1>2, <2>4
  <2>8. QED
    BY <1>3, <2>3, <2>5, <2>6, <2>7
<1>6. QED
  BY <1>4, <1>5

\* The script ends, and its answer lists what it gathered.
LEMMA SrvAnswer ==
  ASSUME SrvInv, NEW r \in ScriptReqs,
         scriptFails(r) \/ \E value, includeResults \in BOOLEAN : scriptReturns(r, value, includeResults)
  PROVE  SrvInv'
<1> DEFINE results == treq[r].results
<1>1. /\ r \in ToolReqs /\ treq[r].bg = "script" /\ results \in Seq(EntryType)
      /\ ListsCalls(results, treq[r].reached) /\ \A i \in DOMAIN results : results[i].full
  BY DEF SrvInv, ToolReqs, ToolReqOK, Gathered, ToolReqType, scriptFails, scriptReturns
<1>2. ASSUME NEW failed \in BOOLEAN, NEW entries \in {results, compactCallResults(results)},
             putResult(r, Message(entries, failed))
      PROVE  SrvInv'
  <2>1. entries \in Seq(EntryType) /\ ListsCalls(entries, treq[r].reached)
    BY <1>1, Compacted
  <2>2. \A i \in DOMAIN entries : entries[i].full \/ entries[i].status = "ok"
    BY <1>1, Compacted
  <2>3. /\ Message(entries, failed) \in AnswerType
        /\ Message(entries, failed).kind = "result" /\ Message(entries, failed).entries = entries
    BY <2>1 DEF Message, AnswerType
  <2>4. Truthful(Message(entries, failed), treq[r].reached)
    BY <2>1, <2>2, <2>3 DEF Truthful
  <2>5. QED
    BY <1>1, <1>2, <2>3, <2>4, CallEnds
<1>3. CASE scriptFails(r)
  BY <1>2, <1>3 DEF scriptFails
<1>4. ASSUME NEW value \in BOOLEAN, NEW includeResults \in BOOLEAN, scriptReturns(r, value, includeResults) PROVE SrvInv'
  <2> DEFINE entries == IF value /\ ~includeResults THEN compactCallResults(results) ELSE results
             failed == ~value /\ results = <<>>
  <2>1. putResult(r, Message(entries, failed))
    BY <1>4 DEF scriptReturns
  <2>2. failed \in BOOLEAN /\ entries \in {results, compactCallResults(results)}
    OBVIOUS
  <2> HIDE DEF entries, failed
  <2>3. QED
    BY <1>2, <2>1, <2>2
<1>5. QED
  BY <1>3, <1>4

LEMMA SrvInitial == SrvInit => SrvInv
<1> SUFFICES ASSUME SrvInit PROVE SrvInv
  OBVIOUS
<1>1. <<>> \in Seq(EntryType) /\ <<>> \in Seq(ReachedType) /\ Len(<<>>) = 0 /\ MaxCodeCalls \in Nat
  BY McpServerAssumption
<1>2. NoAnswer \in AnswerType /\ NoAnswer.kind = "none"
  BY DEF AnswerType, NoAnswer
<1>3. IdleReq \in ToolReqType
  BY <1>1, <1>2 DEF IdleReq, ToolReqType
<1>4. /\ IdleReq.fg = "idle" /\ IdleReq.bg = "none" /\ IdleReq.results = <<>> /\ IdleReq.reached = <<>>
      /\ IdleReq.out = NoAnswer /\ IdleReq.sent = NoAnswer
  BY DEF IdleReq
<1>5. \A r \in ToolReqs : ToolReqOK(r, IdleReq)
  BY <1>1, <1>2, <1>4 DEF ToolReqOK, Gathered, Truthful
<1>6. QED
  BY <1>3, <1>5 DEF SrvInit, SrvInv

LEMMA SrvStep == SrvInv /\ [SrvNext]_srvVars => SrvInv'
<1> SUFFICES ASSUME SrvInv, [SrvNext]_srvVars PROVE SrvInv'
  OBVIOUS
<1>1. CASE UNCHANGED srvVars
  BY <1>1 DEF srvVars, SrvInv
<1>2. QED
  BY <1>1, SrvStarts, SrvHandler, SrvDirect, SrvScript, SrvCall, SrvAnswer DEF SrvNext

\* AnswerComplete for any requests, scripts and budget: however a script ends and
\* whatever is compacted (scriptReturns, compactCallResults), the answer a client
\* gets lists every call that reached the executor, in order, with its status and
\* hint and its failures in full; and a script gets no more calls than its budget.
THEOREM AnswersAlwaysComplete == SrvSpec => []AnswerComplete
<1>1. SrvInv => AnswerComplete
  BY DEF SrvInv, ToolReqOK, Gathered, Truthful, AnswerComplete
<1>2. QED
  BY SrvInitial, SrvStep, <1>1, PTL DEF SrvSpec
=============================================================================
