------------------------------ MODULE Executor ------------------------------
(***************************************************************************)
(* A tool call from its arrival to its audit entry: Executor.ExecuteTool,  *)
(* the routing of CompositeBackend, the gate with its rate limiter, the    *)
(* api.* calls of a composite tool (RESTAdapter.executeComposite, guarded  *)
(* by Executor.CheckChild), and the hot reload of backends.yaml, which     *)
(* swaps the backends under the calls that are being made.                 *)
(*                                                                         *)
(* A name is the sequence of the parts that underscores separate: the tool *)
(* <<"a", "b", "x">> is a_b_x, tool x of backend a_b or tool b_x of a.     *)
(* What the authorizer allows is fixed here (Authz models how the rules    *)
(* change), and all calls fall into one hour of the rate limiter.          *)
(***************************************************************************)
EXTENDS Integers, Sequences, FiniteSets

CONSTANTS
    Calls, UserOf,    \* the calls made, and the user who makes each
    Tools,            \* the tool names callers use
    Configs,          \* contents of backends.yaml: [rest, mcp], see below
    Units,            \* the names of the units in the units directory
    Composites,       \* tools that a DADL defines as composites
    Grants,           \* pairs <<backend, access>> the callers may use
    Limit,            \* a policy says rateLimitExceeded(Limit)
    LimitEnforced,    \* ... and declares enforce-with-kit
    Rejecting,        \* the phases in which other policies may reject
    KitMayCover,      \* a held kit may cover the tool
    AuditStore,       \* "log" or "sqlite"
    MayCancel,        \* the client may disconnect during a call
    MaxReloads,       \* bound on the reloads
    MaxAPICalls       \* api.* calls of one composite

(***************************************************************************)
(* rest maps the name of each REST backend to its tools, by canonical      *)
(* name, with their access class; mcp holds the names of the MCP servers.  *)
(***************************************************************************)
Unclassified == ""

ASSUME ExecutorAssumption ==
    /\ IsFiniteSet(Calls)
    /\ Limit \in Nat /\ MaxReloads \in Nat /\ MaxAPICalls \in Nat
    /\ LimitEnforced \in BOOLEAN /\ KitMayCover \in BOOLEAN /\ MayCancel \in BOOLEAN
    /\ Rejecting \subseteq {"pre", "post"} /\ AuditStore \in {"log", "sqlite"}

VARIABLES
    boot,     \* "built", "units" (the watcher runs), "serving"
    comp,     \* CompositeBackend.state: rest, mcp, the units added, and
              \* whether its REST adapters have a child guard
    reloads,
    window,   \* RateLimiter.windows: records of the user in the last hour
    call,     \* the progress of each call
    effects,  \* what reached a backend
    entries   \* the audit entries of each call, their status

vars == <<boot, comp, reloads, window, call, effects, entries>>

Idle == [pc |-> "idle", tool |-> <<>>, cur |-> <<>>, phase |-> "pre", child |-> FALSE,
         access |-> Unclassified, backend |-> <<>>, covered |-> FALSE, cleared |-> FALSE,
         adapter |-> <<>>, guarded |-> FALSE, api |-> {}, left |-> 0,
         status |-> "success", cancelled |-> FALSE]

Built(cfg) == [rest |-> cfg.rest, mcp |-> cfg.mcp, units |-> {}, guarded |-> FALSE]

Init ==
    /\ boot = "built"
    /\ \E cfg \in Configs : comp = Built(cfg)
    /\ reloads = 0
    /\ window = [u \in {UserOf[c] : c \in Calls} |-> 0]
    /\ call = [c \in Calls |-> Idle]
    /\ effects = {}
    /\ entries = [c \in Calls |-> <<>>]

-----------------------------------------------------------------------------
(* Routing *)

hasPrefix(tool, name) ==
    /\ Len(name) < Len(tool)
    /\ \A i \in 1..Len(name) : tool[i] = name[i]

Named(s) == DOMAIN s.rest \cup s.units
BackendNames(s) == Named(s) \cup s.mcp
Candidates(tool, s) == {n \in BackendNames(s) : hasPrefix(tool, n)}

\* The owner of the longest prefix; the empty name when there is none.
longestPrefix(tool, s) ==
    IF Candidates(tool, s) = {} THEN <<>>
    ELSE CHOOSE n \in Candidates(tool, s) : \A m \in Candidates(tool, s) : Len(m) <= Len(n)

\* As ResolveBackendName, with the shortest prefix in place of the longest.
ResolveBackendNameShort(tool) ==
    IF Candidates(tool, comp) = {} THEN <<>>
    ELSE CHOOSE n \in Candidates(tool, comp) : \A m \in Candidates(tool, comp) : Len(n) <= Len(m)

ResolveBackendName(tool) == longestPrefix(tool, comp)

\* Only a REST backend tells an access class.
LookupTool(tool) ==
    LET b == longestPrefix(tool, comp)
    IN IF b \in DOMAIN comp.rest /\ tool \in DOMAIN comp.rest[b]
       THEN comp.rest[b][tool] ELSE Unclassified

\* MCPAdapter.matchBackend ranges over a Go map and takes the first match.
matchBackend(tool) == {n \in comp.mcp : hasPrefix(tool, n)}

-----------------------------------------------------------------------------
(* Startup and reload *)

\* loadUnits: a unit whose name is taken is skipped.
LoadUnits ==
    /\ boot = "built"
    /\ boot' = "units"
    /\ comp' = [comp EXCEPT !.units = Units \ BackendNames(comp)]
    /\ UNCHANGED <<reloads, window, call, effects, entries>>

\* As SetChildGuard, with the wiring forgotten.
SetChildGuardForgotten ==
    /\ boot = "units"
    /\ boot' = "serving"
    /\ UNCHANGED <<comp, reloads, window, call, effects, entries>>

SetChildGuard ==
    /\ boot = "units"
    /\ boot' = "serving"
    /\ comp' = [comp EXCEPT !.guarded = TRUE]
    /\ UNCHANGED <<reloads, window, call, effects, entries>>

\* The watcher found backends.yaml changed: new adapters, then Swap.
Reload(cfg) ==
    /\ boot # "built" /\ reloads < MaxReloads
    /\ comp' = Built(cfg)
    /\ reloads' = reloads + 1
    /\ UNCHANGED <<boot, window, call, effects, entries>>

-----------------------------------------------------------------------------
(* The pipeline.  ExecuteTool and CheckChild share the steps that look the *)
(* tool up, authorize it and pass it through the pre-execution gate: child *)
(* tells them apart where they differ.                                     *)

Set(c, r) == call' = [call EXCEPT ![c] = r]

\* As Refuse, with no audit entry for a refused call.
RefuseUnaudited(c, r, status) ==
    Set(c, IF r.child THEN [r EXCEPT !.pc = "script"]
           ELSE [r EXCEPT !.pc = "done", !.status = status])

\* As Refuse, where a refused child leaves the composite waiting.
RefuseHangs(c, r, status) ==
    Set(c, IF r.child THEN [r EXCEPT !.pc = "authz"]
           ELSE [r EXCEPT !.pc = "audit", !.status = status])

\* The call fails at a check: ExecuteTool goes on to its audit entry, a
\* composite's script sees the api.* call throw.
Refuse(c, r, status) ==
    Set(c, IF r.child THEN [r EXCEPT !.pc = "script"]
           ELSE [r EXCEPT !.pc = "audit", !.status = status])

ExecuteTool(c, tool) ==
    /\ boot = "serving" /\ call[c].pc = "idle"
    /\ Set(c, [Idle EXCEPT !.pc = "authz", !.tool = tool, !.cur = tool, !.access = LookupTool(tool)])
    /\ UNCHANGED <<boot, comp, reloads, window, effects, entries>>

Permits(backend, access) == <<backend, access>> \in Grants

Authorize(c) ==
    /\ call[c].pc = "authz"
    /\ LET r == [call[c] EXCEPT !.backend = ResolveBackendName(call[c].cur)] IN
       \/ Refuse(c, r, "error")
       \/ ~Permits(r.backend, r.access) /\ Refuse(c, r, "denied")
       \/ /\ Permits(r.backend, r.access)
          /\ \E covered \in {FALSE, KitMayCover} :
                Set(c, [r EXCEPT !.pc = "record", !.covered = covered])
    /\ UNCHANGED <<boot, comp, reloads, window, effects, entries>>

\* Gate.Evaluate, both phases: the request is recorded, then policies run.
Record(c) ==
    /\ call[c].pc = "record"
    /\ window' = [window EXCEPT ![UserOf[c]] = @ + 1]
    /\ Set(c, [call[c] EXCEPT !.pc = "policies"])
    /\ UNCHANGED <<boot, comp, reloads, effects, entries>>

\* A kit that covers the call replaces the pre-execution policies that do
\* not declare enforce-with-kit.
Skipped(r, enforced) == r.covered /\ r.phase = "pre" /\ ~enforced

\* As rateLimitExceeded, off by one.
rateLimitExceededLate(c) == window[UserOf[c]] > Limit + 1

rateLimitExceeded(c) == window[UserOf[c]] > Limit

Policies(c) ==
    /\ call[c].pc = "policies"
    /\ LET r == call[c]
           limited == rateLimitExceeded(c) /\ ~Skipped(r, LimitEnforced)
       IN \/ limited /\ Refuse(c, r, "denied")
          \/ r.phase \in Rejecting /\ ~Skipped(r, FALSE) /\ Refuse(c, r, "denied")
          \/ /\ ~limited
             /\ Set(c, IF r.phase = "pre" THEN [r EXCEPT !.pc = "run", !.cleared = TRUE]
                       ELSE [r EXCEPT !.pc = "audit"])
    /\ UNCHANGED <<boot, comp, reloads, window, effects, entries>>

-----------------------------------------------------------------------------
(* Running the tool *)

\* As Result, with an error of the backend recorded as a refusal of the gate.
ResultAsRefused(r, outcome) ==
    IF outcome = "failed" THEN [r EXCEPT !.pc = "audit", !.status = "denied"]
    ELSE [r EXCEPT !.pc = "record", !.phase = "post", !.child = FALSE, !.cur = r.tool,
                   !.status = outcome]

\* The response goes to the post-execution gate; an error ends the call.
Result(r, outcome) ==
    IF outcome = "failed" THEN [r EXCEPT !.pc = "audit", !.status = "error"]
    ELSE [r EXCEPT !.pc = "record", !.phase = "post", !.child = FALSE, !.cur = r.tool,
                   !.status = outcome]

Outcomes == {"success", "error", "failed"}

\* by: the backend that ran the tool; for: the backend the authorizer was
\* asked about; checked: whether authorization and gate cleared this run.
Effect(c, r, by) ==
    [call |-> c, tool |-> r.cur, by |-> by, for |-> r.backend, access |-> r.access,
     checked |-> r.cleared]

\* A request that fails may or may not have reached the backend.
Reach(c, r, by, outcome) ==
    \/ effects' = effects \cup {Effect(c, r, by)}
    \/ outcome # "success" /\ UNCHANGED effects

\* CompositeBackend.Execute, on the state it loads now.
Execute(c) ==
    /\ call[c].pc = "run" /\ ~call[c].child
    /\ LET r == [call[c] EXCEPT !.cleared = FALSE]
           b == longestPrefix(r.tool, comp)
           here == b \in DOMAIN comp.rest /\ r.tool \in DOMAIN comp.rest[b]
       IN \/ /\ here /\ r.tool \in Composites
             /\ Set(c, [r EXCEPT !.pc = "script", !.child = TRUE, !.adapter = b,
                                 !.guarded = comp.guarded,
                                 !.api = DOMAIN comp.rest[b] \ Composites,
                                 !.left = MaxAPICalls])
             /\ UNCHANGED effects
          \/ \E outcome \in Outcomes :
             /\ Set(c, Result(r, outcome))
             /\ \/ /\ here \/ b \in comp.units \ DOMAIN comp.rest
                   /\ r.tool \notin Composites
                   /\ Reach(c, call[c], b, outcome)
                \/ /\ b \notin Named(comp)
                   /\ \E n \in matchBackend(r.tool) : Reach(c, call[c], n, outcome)
                \/ /\ outcome = "failed" /\ UNCHANGED effects
                   /\ \/ b \in DOMAIN comp.rest /\ ~here
                      \/ b = <<>> /\ matchBackend(r.tool) = {}
    /\ UNCHANGED <<boot, comp, reloads, window, entries>>

\* The script of a composite calls api.<tool>.  The adapter that runs it is
\* the one Execute chose, whatever was reloaded since.
APICall(c, tool) ==
    /\ call[c].pc = "script" /\ call[c].left > 0
    /\ tool \in call[c].api
    /\ LET r == [call[c] EXCEPT !.left = @ - 1, !.cur = tool] IN
       IF r.guarded
       THEN Set(c, [r EXCEPT !.pc = "authz", !.access = LookupTool(tool)])
       ELSE Set(c, [r EXCEPT !.pc = "run"])
    /\ UNCHANGED <<boot, comp, reloads, window, effects, entries>>

RunChild(c) ==
    /\ call[c].pc = "run" /\ call[c].child
    /\ Set(c, [call[c] EXCEPT !.pc = "script", !.cleared = FALSE])
    /\ \E outcome \in {"success", "error"} : Reach(c, call[c], call[c].adapter, outcome)
    /\ UNCHANGED <<boot, comp, reloads, window, entries>>

\* The script returns or throws, or the timeout interrupts it.
EndScript(c) ==
    /\ call[c].pc = "script"
    /\ \E outcome \in {"success", "error"} : Set(c, Result(call[c], outcome))
    /\ UNCHANGED <<boot, comp, reloads, window, effects, entries>>

-----------------------------------------------------------------------------
\* The request's context ends when the client goes away.
Cancel(c) ==
    /\ MayCancel /\ call[c].pc \notin {"idle", "done"} /\ ~call[c].cancelled
    /\ Set(c, [call[c] EXCEPT !.cancelled = TRUE])
    /\ UNCHANGED <<boot, comp, reloads, window, effects, entries>>

\* recordAudit with the request's context: SQLite refuses an ended one, and
\* the error is only logged.
Lost(c) == AuditStore = "sqlite" /\ call[c].cancelled

recordAudit(c) ==
    /\ call[c].pc = "audit"
    /\ Set(c, [call[c] EXCEPT !.pc = "done"])
    /\ entries' = IF Lost(c) THEN entries
                  ELSE [entries EXCEPT ![c] = Append(@, call[c].status)]
    /\ UNCHANGED <<boot, comp, reloads, window, effects>>

Step(c) ==
    \/ Authorize(c) \/ Record(c) \/ Policies(c) \/ Execute(c)
    \/ (\E tool \in call[c].api : APICall(c, tool))
    \/ RunChild(c) \/ EndScript(c) \/ recordAudit(c)

Finished == boot = "serving" /\ (\A c \in Calls : call[c].pc = "done") /\ UNCHANGED vars

Next ==
    \/ LoadUnits \/ SetChildGuard
    \/ \E cfg \in Configs : Reload(cfg)
    \/ \E c \in Calls :
          \/ \E tool \in Tools : ExecuteTool(c, tool)
          \/ Step(c) \/ Cancel(c)
    \/ Finished

Spec == Init /\ [][Next]_vars

\* Every step of a call is bounded by a timeout and runs on a goroutine of
\* its own.
FairSpec == Spec /\ \A c \in Calls : WF_vars(Step(c))

-----------------------------------------------------------------------------
(* Properties *)

Names == {<<>>} \cup Units \cup UNION {DOMAIN cfg.rest \cup cfg.mcp : cfg \in Configs}

AllTools == {<<>>} \cup Tools \cup
    UNION {UNION {DOMAIN cfg.rest[b] : b \in DOMAIN cfg.rest} : cfg \in Configs}

Classes == {Unclassified} \cup
    UNION {UNION {{cfg.rest[b][t] : t \in DOMAIN cfg.rest[b]} : b \in DOMAIN cfg.rest} : cfg \in Configs}

Statuses == {"success", "error", "denied"}

CallRecord ==
    [pc : {"idle", "authz", "record", "policies", "run", "script", "audit", "done"},
     tool : AllTools, cur : AllTools, phase : {"pre", "post"}, child : BOOLEAN,
     access : Classes, backend : Names, covered : BOOLEAN, cleared : BOOLEAN,
     adapter : Names, guarded : BOOLEAN, api : SUBSET AllTools, left : Nat,
     status : Statuses, cancelled : BOOLEAN]

CompOK ==
    \E cfg \in Configs, units \in SUBSET Units, guarded \in BOOLEAN :
        comp = [rest |-> cfg.rest, mcp |-> cfg.mcp, units |-> units, guarded |-> guarded]

ASSUME NamesAssumption == Names \cup AllTools \subseteq Seq(STRING)

\* The type invariant: among others, a state never mixes two configurations
\* and an effect has the tool and backend of some configuration.
ExecutorTypeOK ==
    /\ boot \in {"built", "units", "serving"}
    /\ CompOK
    /\ reloads \in 0..MaxReloads
    /\ window \in [{UserOf[c] : c \in Calls} -> Nat]
    /\ call \in [Calls -> CallRecord]
    /\ effects \subseteq [call : Calls, tool : AllTools, by : Names, for : Names,
                           access : Classes, checked : BOOLEAN]
    /\ entries \in [Calls -> Seq(Statuses)]

(***************************************************************************)
(* "Every tool call is checked before it runs: a direct call, each api.*   *)
(* call inside a composite" (docs/configuration.md): whatever reached a    *)
(* backend was allowed by the authorizer and by the pre-execution gate for *)
(* that run of that tool.                                                  *)
(***************************************************************************)
EveryEffectChecked ==
    \A e \in effects : e.checked /\ Permits(e.for, e.access)

(***************************************************************************)
(* The backend that ran a checked call is the one the authorizer was asked *)
(* about: ResolveBackendName "always matches where the call would actually *)
(* go" (composite.go).                                                     *)
(***************************************************************************)
RoutedAsAuthorized ==
    \A e \in effects : e.checked => e.by = e.for

(***************************************************************************)
(* rateLimitExceeded(Limit) in a policy no kit replaces: no more than      *)
(* Limit calls of a user reach a backend in an hour, however their steps   *)
(* interleave (a request is recorded before it is checked).                *)
(***************************************************************************)
LimitHolds ==
    LimitEnforced =>
        \A u \in {UserOf[c] : c \in Calls} :
            Cardinality({c \in Calls : UserOf[c] = u /\ \E e \in effects : e.call = c}) <= Limit

(***************************************************************************)
(* What an audit entry says is what happened: a call refused before its    *)
(* run reached no backend, neither itself nor through api.* calls, and a   *)
(* success stands for a tool that ran, or for a composite.                 *)
(***************************************************************************)
AuditTruthful ==
    \A c \in Calls :
        LET ran == \E e \in effects : e.call = c IN
        /\ entries[c] = <<"denied">> /\ call[c].phase = "pre" => ~ran
        /\ entries[c] = <<"success">> => ran \/ call[c].tool \in Composites

(***************************************************************************)
(* "every exit writes an audit entry" (README): exactly one entry when     *)
(* ExecuteTool has returned.                                               *)
(***************************************************************************)
AuditComplete ==
    \A c \in Calls : Len(entries[c]) = IF call[c].pc = "done" THEN 1 ELSE 0

(***************************************************************************)
(* A call that has started is answered, whatever other calls and reloads   *)
(* do: no composite script, gate or refused child holds it forever.        *)
(***************************************************************************)
EveryCallAnswered ==
    \A c \in Calls : call[c].pc # "idle" ~> call[c].pc = "done"

=============================================================================
