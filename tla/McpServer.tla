------------------------------ MODULE McpServer ------------------------------
(***************************************************************************)
(* tools/call requests of the MCP server (internal/mcp): handleMCP answers *)
(* one buffered or as a stream that is kept alive while the call runs in a *)
(* goroutine of its own, HandleToolCall dispatches it, execute_code runs a *)
(* script whose toolmesh.* calls go to the executor one by one, and the    *)
(* first use of a backend by a principal carries the backend's hint.       *)
(*                                                                         *)
(* Data: a script is any sequence of calls, caught and uncaught errors and *)
(* endless loops; a result is its status.  The clock is the order of the   *)
(* deadline and the disconnect among the other steps.                      *)
(***************************************************************************)
EXTENDS Naturals, Sequences, FiniteSets

CONSTANTS
    ScriptReqs,     \* requests that call execute_code
    DirectReqs,     \* requests that call another tool
    Principal,      \* who makes each request
    MaxCodeCalls,   \* maxCodeCalls
    MaxTold         \* maxTrackedHintPrincipals

ASSUME McpServerAssumption ==
    /\ ScriptReqs \cap DirectReqs = {}
    /\ MaxCodeCalls \in Nat /\ MaxTold \in Nat \ {0}

ToolReqs == ScriptReqs \cup DirectReqs

VARIABLES
    treq,   \* each request, see below
    told    \* hintNotifier.seen, of the one backend that has a hint
srvVars == <<treq, told>>

(* fg: the handler; bg: the call; ctx: "late" after the script's deadline. *)
(* count: callCount; results: the entries collected so far, each with its  *)
(* status, notice, and whether it is in full; out: what the call returned, *)
(* in resCh until it is sent; sent: what the client got.                   *)
(* reached (history): the status and notice of each call the executor ran, *)
(* and at, the place of its result among the entries.                      *)
NoAnswer == [kind |-> "none"]
IdleReq == [fg |-> "idle", bg |-> "none", streamed |-> FALSE, ctx |-> "live", count |-> 0,
            results |-> <<>>, reached |-> <<>>, out |-> NoAnswer, sent |-> NoAnswer]

SrvInit == treq = [r \in ToolReqs |-> IdleReq] /\ told = {}

Message(entries, failed) == [kind |-> "result", entries |-> entries, failed |-> failed]
RpcError == [kind |-> "error"]
Entry(status, notice) == [status |-> status, notice |-> notice, full |-> TRUE]

Bg(r, from, to) == treq[r].bg = from /\ treq' = [treq EXCEPT ![r].bg = to]

-----------------------------------------------------------------------------
(* The handler.                                                            *)

\* handleMCP: other methods, requests that are refused, notifications.
answerAtOnce(r, answer) ==
    /\ treq[r].fg = "idle"
    /\ treq' = [treq EXCEPT ![r].fg = "done", ![r].bg = "ended", ![r].sent = answer]
    /\ UNCHANGED told

\* handleToolsCall and handleToolsCallStreaming, for a client that accepts SSE.
startToolCall(r, streamed) ==
    /\ treq[r].fg = "idle"
    /\ treq' = [treq EXCEPT ![r].fg = "wait", ![r].streamed = streamed,
                            ![r].bg = IF r \in ScriptReqs THEN "scan" ELSE "dispatch"]
    /\ UNCHANGED told

\* The client leaves: the context of the request ends.
clientGone(r) ==
    /\ treq[r].fg = "wait" /\ treq[r].ctx # "gone"
    /\ treq' = [treq EXCEPT ![r].ctx = "gone"]
    /\ UNCHANGED told

\* A stream ends with its context or when a keepalive cannot be written; the
\* server cancels the context of a handler that has returned.
streamEnds(r) ==
    /\ treq[r].fg = "wait" /\ treq[r].streamed /\ treq[r].ctx = "gone"
    /\ treq' = [treq EXCEPT ![r].fg = "done"]
    /\ UNCHANGED told

keepalive(r) ==
    /\ treq[r].fg = "wait" /\ treq[r].streamed
    /\ \/ UNCHANGED treq
       \/ treq' = [treq EXCEPT ![r].fg = "done", ![r].ctx = "gone"]
    /\ UNCHANGED told

\* The result is taken from resCh (or returned) and written.
writeAnswer(r) ==
    /\ treq[r].fg = "wait" /\ treq[r].bg = "ended"
    /\ treq' = [treq EXCEPT ![r].fg = "done", ![r].out = NoAnswer,
                            ![r].sent = IF treq[r].ctx = "gone" THEN NoAnswer ELSE treq[r].out]
    /\ UNCHANGED told

\* As putResult, on a channel without a buffer.
putResultUnbuffered(r, answer) ==
    /\ treq[r].fg = "wait"
    /\ treq' = [treq EXCEPT ![r].bg = "ended", ![r].out = answer]
    /\ UNCHANGED told

\* resCh holds one result, so the goroutine never waits for the handler.
putResult(r, answer) ==
    /\ treq' = [treq EXCEPT ![r].bg = "ended", ![r].out = answer]
    /\ UNCHANGED told

-----------------------------------------------------------------------------
(* HandleToolCall.                                                         *)

\* A built-in tool, a failed coercion or a refused argument.
builtinTool(r, failed) == treq[r].bg = "dispatch" /\ putResult(r, Message(<<>>, failed))

executeDirect(r) == Bg(r, "dispatch", "direct") /\ UNCHANGED told

directFails(r) == treq[r].bg = "direct" /\ putResult(r, RpcError)

\* noticeFor and markFirstUse: the ledger is dropped when it is full.
Notice(r, hinted) == hinted /\ Principal[r] \notin told
markFirstUse(r, hinted) ==
    told' = IF ~Notice(r, hinted) THEN told
            ELSE (IF Cardinality(told) >= MaxTold THEN {} ELSE told) \cup {Principal[r]}

\* attachBackendHint: the notice precedes the result.
directReturns(r, status, hinted) ==
    /\ treq[r].bg = "direct"
    /\ markFirstUse(r, hinted)
    /\ LET entry == Entry(status, Notice(r, hinted)) IN
       treq' = [treq EXCEPT ![r].bg = "ended", ![r].out = Message(<<entry>>, status # "ok"),
                            ![r].reached = <<[status |-> status, notice |-> entry.notice, at |-> 1]>>]

-----------------------------------------------------------------------------
(* CodeRunner.ExecuteWithOptions, called by handleExecuteCode.             *)

\* A missing argument, or ScanCode finds a forbidden pattern.
scanRefused(r) == treq[r].bg = "scan" /\ putResult(r, Message(<<>>, TRUE))
scanPassed(r) == Bg(r, "scan", "script") /\ UNCHANGED told

\* The deadline of the script; the goroutine beside it interrupts the runtime.
deadline(r) ==
    /\ treq[r].bg \in {"script", "calling"} /\ treq[r].ctx = "live"
    /\ treq' = [treq EXCEPT ![r].ctx = "late"]
    /\ UNCHANGED told

\* Every call counts.  Past the budget or the deadline it throws, which the
\* script may catch (scriptFails when it does not).
Refused(r) == treq[r].count >= MaxCodeCalls \/ treq[r].ctx # "live"
countCall(r) ==
    /\ treq[r].bg = "script"
    /\ treq' = [treq EXCEPT ![r].count = IF @ > MaxCodeCalls THEN @ ELSE @ + 1,
                            ![r].bg = IF Refused(r) THEN "script" ELSE "calling"]
    /\ UNCHANGED told

\* Coercion fails: the script gets undefined.
coercionFails(r) ==
    /\ treq[r].bg = "calling"
    /\ treq' = [treq EXCEPT ![r].bg = "script",
                            ![r].results = Append(@, Entry("coercion", FALSE))]
    /\ UNCHANGED told

\* The executor or a meta-tool answers; an error of ExecuteTool ("dispatch")
\* has no notice and is handed to the script as a value.
callReturns(r, status, hinted) ==
    /\ treq[r].bg = "calling"
    /\ status = "dispatch" => ~hinted
    /\ markFirstUse(r, hinted)
    /\ LET entry == Entry(status, Notice(r, hinted)) IN
       treq' = [treq EXCEPT ![r].bg = "script", ![r].results = Append(@, entry),
                            ![r].reached = Append(@, [status |-> status, notice |-> entry.notice,
                                                      at |-> Len(treq[r].results) + 1])]

\* As compactCallResults, for the failed calls too.
compactCallResultsAll(results) ==
    [i \in DOMAIN results |-> [results[i] EXCEPT !.full = FALSE]]

\* Successful entries shrink to their size; failed ones and notices stay.
compactCallResults(results) ==
    [i \in DOMAIN results |-> [results[i] EXCEPT !.full = results[i].status # "ok"]]

\* errorResult and handleExecuteCode: what was collected, and the error.
scriptFails(r) == treq[r].bg = "script" /\ putResult(r, Message(treq[r].results, TRUE))

interrupted(r) == treq[r].ctx # "live" /\ scriptFails(r)

\* The promise resolved; a script without calls and value is an error.
scriptReturns(r, value, includeResults) ==
    /\ treq[r].bg = "script"
    /\ LET results == treq[r].results IN
       putResult(r, Message(IF value /\ ~includeResults THEN compactCallResults(results) ELSE results,
                            ~value /\ results = <<>>))

-----------------------------------------------------------------------------
SrvNext ==
    \/ \E r \in ToolReqs :
         \/ \E answer \in {RpcError, Message(<<>>, FALSE)} : answerAtOnce(r, answer)
         \/ \E streamed \in BOOLEAN : startToolCall(r, streamed)
         \/ clientGone(r) \/ streamEnds(r) \/ keepalive(r) \/ writeAnswer(r)
         \/ \E failed \in BOOLEAN : builtinTool(r, failed)
         \/ executeDirect(r) \/ directFails(r)
         \/ \E status \in {"ok", "toolerr"}, hinted \in BOOLEAN : directReturns(r, status, hinted)
    \/ \E r \in ScriptReqs :
         \/ scanRefused(r) \/ scanPassed(r) \/ deadline(r) \/ countCall(r) \/ coercionFails(r)
         \/ \E status \in {"ok", "toolerr", "dispatch"}, hinted \in BOOLEAN :
              callReturns(r, status, hinted)
         \/ scriptFails(r)
         \/ \E value, includeResults \in BOOLEAN : scriptReturns(r, value, includeResults)

SrvSpec == SrvInit /\ [][SrvNext]_srvVars

\* The executor bounds every call by a timeout, so each of these ends somehow.
CallStep(r) == executeDirect(r) \/ directFails(r) \/ scanPassed(r) \/ coercionFails(r)

\* Calls end, deadlines pass, goja stops at an interrupt, and a select takes
\* what is ready.
SrvFair == \A r \in ToolReqs :
    /\ WF_srvVars(streamEnds(r) \/ writeAnswer(r))
    /\ WF_srvVars(CallStep(r))
    /\ WF_srvVars(deadline(r)) /\ WF_srvVars(interrupted(r))

-----------------------------------------------------------------------------
\* The entries are those of the calls that reached the executor, in their order,
\* each with its status and notice, among those of calls that failed to coerce.
ListsCalls(entries, reached) ==
    /\ \A i \in DOMAIN reached :
         /\ reached[i].at \in DOMAIN entries
         /\ entries[reached[i].at].status = reached[i].status
         /\ entries[reached[i].at].notice = reached[i].notice
    /\ \A i, j \in DOMAIN reached : i < j => reached[i].at < reached[j].at
    /\ \A n \in DOMAIN entries : entries[n].status # "coercion" => \E i \in DOMAIN reached : reached[i].at = n

\* What a client reads of a call is what happened: the answer lists every call
\* that reached the executor, in order, with failures and first-use hints in
\* full whatever was compacted and however the script ended (return, throw,
\* budget or deadline); no call runs on after it, and no script that catches
\* its errors gets more calls than the budget.
AnswerComplete ==
    \A r \in ToolReqs :
      LET sent == treq[r].sent IN
      /\ r \in ScriptReqs => Len(treq[r].reached) <= MaxCodeCalls
      /\ sent.kind # "none" => treq[r].bg = "ended"
      /\ sent.kind = "result" =>
           /\ ListsCalls(sent.entries, treq[r].reached)
           /\ \A i \in DOMAIN sent.entries : sent.entries[i].full \/ sent.entries[i].status = "ok"

\* handleToolsCallStreaming, ExecuteWithOptions: every request is answered
\* unless its client left, and the call behind it ends too, also when the
\* handler has returned and nobody takes the result.
RequestsEnd ==
    \A r \in ToolReqs : (treq[r].fg # "idle") ~>
        (/\ treq[r].fg = "done" /\ treq[r].bg = "ended"
         /\ treq[r].sent.kind = "none" => treq[r].ctx = "gone")
==============================================================================
