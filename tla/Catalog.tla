------------------------------ MODULE Catalog -------------------------------
(***************************************************************************)
(* The names tools have and the units behind some of them: loadUnits       *)
(* (cmd/toolmesh/main.go) loads the units one after the other and adds     *)
(* them to the composite backend, a hot reload replaces what it serves,    *)
(* and clients call tools by the names the root list gave them             *)
(* (internal/backend: PromotedTools, ResolveAlias).  A call of a unit runs *)
(* its script in a sandbox with api.* calls (internal/unit).               *)
(*                                                                         *)
(* Data: a tool is a backend and a bare name; what its canonical name is,  *)
(* is a constant, since "a" with "b_x" and "a_b" with "x" share one.  Sub- *)
(* backends of a unit are one adapter.                                     *)
(***************************************************************************)
EXTENDS Naturals, Sequences, FiniteSets

CONSTANTS
    UnitDirs,      \* the directories with a unit.yaml, in order
    UnitName,      \* directory -> name in unit.yaml
    BackendIds,    \* names of backends, units included
    BareNames,     \* names of tools
    CanonicalOf,   \* <<backend, bare name>> -> canonical name
    Reserved,      \* reservedClientToolNames
    CatalogConfigs, \* what backends.yaml may configure: backend -> its expose_tools, or none
    NoTools,       \* a backend that is not configured
    MaxUnitCalls,  \* maxAPICalls
    MaxSwaps       \* bound on the swaps

Dirs == {UnitDirs[i] : i \in DOMAIN UnitDirs}
ASSUME CatalogAssumption ==
    /\ UnitDirs \in Seq(Dirs) \ {<<>>}
    /\ \A i, j \in DOMAIN UnitDirs : UnitDirs[i] = UnitDirs[j] => i = j
    /\ UnitName \in [Dirs -> BackendIds]
    /\ \A c \in CatalogConfigs, b \in BackendIds : c[b] = NoTools \/ c[b] \subseteq BareNames
    /\ MaxUnitCalls \in Nat /\ MaxSwaps \in Nat

VARIABLES
    configured,  \* backends.yaml as loaded
    unitsIn,     \* the directories the composite backend serves
    loadAt,      \* the unit being loaded, by position
    loadStep,    \* read, wire, describe, register or serving
    accepted,    \* loaded: the directories that were registered
    adapters,    \* the MCPAdapter of each unit: none, open or closed
    exposed,     \* expose.tools of each unit that match a described tool
    swaps,
    rootList,    \* a client's copy of the root list: [name, tool]
    listFresh,   \* no reload since the client read it
    unitCall     \* a call of a unit: [step, dir, count, ran, late]
catalogVars == <<configured, unitsIn, loadAt, loadStep, accepted, adapters, exposed, swaps,
                 rootList, listFresh, unitCall>>
loadVars == <<loadAt, loadStep, accepted, adapters, exposed>>
clientVars == <<rootList, listFresh, unitCall>>

IdleUnitCall == [step |-> "idle", dir |-> UnitDirs[1], count |-> 0, ran |-> 0, late |-> FALSE]

CatalogInit ==
    /\ configured \in CatalogConfigs
    /\ unitsIn = {} /\ accepted = {}
    /\ loadAt = 1 /\ loadStep = "read"
    /\ adapters = [d \in Dirs |-> "none"] /\ exposed = [d \in Dirs |-> {}]
    /\ swaps = 0 /\ rootList = {} /\ listFresh = FALSE
    /\ unitCall = IdleUnitCall

-----------------------------------------------------------------------------
(* loadUnits and LoadUnit.                                                 *)
Loading == UnitDirs[loadAt]

\* The loop goes on with the next directory.
nextUnit ==
    /\ loadAt' = loadAt + 1
    /\ loadStep' = IF loadAt = Len(UnitDirs) THEN "serving" ELSE "read"

\* unit.yaml or the implementation is missing or unusable.
readFails ==
    /\ loadStep = "read"
    /\ nextUnit
    /\ UNCHANGED <<configured, unitsIn, accepted, adapters, exposed, swaps, clientVars>>

\* The adapter connects what it can; a sub-backend that fails is skipped.
connectSubBackends ==
    /\ loadStep = "read"
    /\ loadStep' = "wire"
    /\ adapters' = [adapters EXCEPT ![Loading] = "open"]
    /\ UNCHANGED <<configured, unitsIn, loadAt, accepted, exposed, swaps, clientVars>>

\* A REST sub-backend that cannot be built or an unknown transport ends the
\* unit; its sessions are closed.
wireSubBackends(ok) ==
    /\ loadStep = "wire"
    /\ IF ok THEN loadStep' = "describe" /\ UNCHANGED <<loadAt, adapters>>
       ELSE nextUnit /\ adapters' = [adapters EXCEPT ![Loading] = "closed"]
    /\ UNCHANGED <<configured, unitsIn, accepted, exposed, swaps, clientVars>>

\* As describeFails, with the adapter left to itself.
describeFailsOpen ==
    /\ loadStep = "describe"
    /\ nextUnit
    /\ UNCHANGED <<configured, unitsIn, accepted, adapters, exposed, swaps, clientVars>>

\* describe() throws, is cut short, or returns what is no list of tools.
describeFails ==
    /\ loadStep = "describe"
    /\ nextUnit /\ adapters' = [adapters EXCEPT ![Loading] = "closed"]
    /\ UNCHANGED <<configured, unitsIn, accepted, exposed, swaps, clientVars>>

\* Init: the tools are those describe() names; expose.tools keeps those.
describe(tools) ==
    /\ loadStep = "describe"
    /\ loadStep' = "register"
    /\ exposed' = [exposed EXCEPT ![Loading] = tools]
    /\ UNCHANGED <<configured, unitsIn, loadAt, accepted, adapters, swaps, clientVars>>

\* A name that another unit or another backend has is skipped.
Clash(d) == configured[UnitName[d]] # NoTools \/ \E e \in accepted : UnitName[e] = UnitName[d]
register ==
    /\ loadStep = "register"
    /\ nextUnit
    /\ IF Clash(Loading)
       THEN /\ adapters' = [adapters EXCEPT ![Loading] = "closed"]
            /\ UNCHANGED <<unitsIn, accepted>>
       ELSE /\ unitsIn' = unitsIn \cup {Loading} /\ accepted' = accepted \cup {Loading}
            /\ UNCHANGED adapters
    /\ UNCHANGED <<configured, exposed, swaps, clientVars>>

\* Swap: the new backends and echo; the units are not among them, and their
\* adapters stay open until the process ends.
SwapAll(c) ==
    /\ loadStep = "serving" /\ swaps < MaxSwaps
    /\ swaps' = swaps + 1
    /\ configured' = c /\ unitsIn' = {} /\ listFresh' = FALSE
    /\ UNCHANGED <<loadVars, rootList, unitCall>>

CloseUnits ==
    /\ loadStep = "serving"
    /\ loadStep' = "stopped"
    /\ adapters' = [d \in Dirs |-> IF d \in accepted THEN "closed" ELSE adapters[d]]
    /\ UNCHANGED <<configured, unitsIn, loadAt, accepted, exposed, swaps, clientVars>>

-----------------------------------------------------------------------------
(* PromotedTools and ResolveAlias, over what is served now.                *)

\* What the backends ask for: configured ones a bare name, units the
\* canonical one.
Promotions ==
    {[name |-> tool[2], tool |-> tool] :
        tool \in {p \in BackendIds \X BareNames : configured[p[1]] # NoTools /\ p[2] \in configured[p[1]]}}
    \cup UNION {{[name |-> CanonicalOf[<<UnitName[d], t>>], tool |-> <<UnitName[d], t>>] : t \in exposed[d]} : d \in unitsIn}

\* As demoted, for reserved names only.
demotedReserved(p) == p.name \in Reserved

\* Two backends ask for the name, or clients have a tool of that name.
demoted(p) == p.name \in Reserved \/ \E q \in Promotions : q # p /\ q.name = p.name

Demote(p) == IF demoted(p) THEN [p EXCEPT !.name = CanonicalOf[p.tool]] ELSE p

\* Of two promotions that end up with one name either may be dropped: the
\* backends are visited in the order of a map.
PromotedLists ==
    LET all == {Demote(p) : p \in Promotions}
        names == {p.name : p \in all} IN
    {{choice[n] : n \in names} : choice \in {f \in [names -> all] : \A n \in names : f[n].name = n}}

\* The canonical names a call of this name may be routed by.
ResolveAlias(name) ==
    {LET hit == {p \in list : p.name = name /\ CanonicalOf[p.tool] # name} IN
     IF hit = {} THEN name ELSE CanonicalOf[(CHOOSE p \in hit : TRUE).tool] : list \in PromotedLists}

\* promotedToolDefinitions, for a client that may execute every promoted tool.
BuildToolList ==
    /\ loadStep = "serving"
    /\ rootList' \in PromotedLists
    /\ listFresh' = TRUE
    /\ UNCHANGED <<configured, unitsIn, loadVars, swaps, unitCall>>

-----------------------------------------------------------------------------
(* Backend.Execute of a unit: callExportedFunction and makeAPICall.        *)
CallTo(step, to) == unitCall.step = step /\ unitCall' = [unitCall EXCEPT !.step = to]
restVarsOfCall == <<configured, unitsIn, loadVars, swaps, rootList, listFresh>>

startUnitCall(d) ==
    /\ loadStep = "serving" /\ d \in unitsIn
    /\ unitCall.step = "idle"
    /\ unitCall' = [IdleUnitCall EXCEPT !.step = "load", !.dir = d]
    /\ UNCHANGED restVarsOfCall

\* No such tool, the tools of a sub-backend cannot be listed, or the source
\* does not run or export the function.
loadFails == CallTo("load", "failed") /\ UNCHANGED restVarsOfCall
runFunction == CallTo("load", "script") /\ UNCHANGED restVarsOfCall

tooMany(n) == n > MaxUnitCalls

\* A call past the budget or after the end of the context throws; the script
\* may catch that and go on.
apiCall ==
    /\ unitCall.step = "script"
    /\ LET n == unitCall.count + 1
           turnedAway == tooMany(n) \/ unitCall.late IN
       /\ n <= MaxUnitCalls + 2
       /\ unitCall' = [unitCall EXCEPT !.count = n, !.step = IF turnedAway THEN "script" ELSE "sub",
                                       !.ran = IF turnedAway THEN @ ELSE @ + 1]
    /\ UNCHANGED restVarsOfCall

\* The sub-backend answers, or its error is thrown.
subReturns == CallTo("sub", "script") /\ UNCHANGED restVarsOfCall

\* The context ends; the runtime is interrupted when the script runs.
contextEnds ==
    /\ unitCall.step \in {"load", "script", "sub"} /\ ~unitCall.late
    /\ unitCall' = [unitCall EXCEPT !.late = TRUE]
    /\ UNCHANGED restVarsOfCall
interruptUnit == unitCall.late /\ CallTo("script", "failed") /\ UNCHANGED restVarsOfCall

scriptDone(ok) == CallTo("script", IF ok THEN "answered" ELSE "failed") /\ UNCHANGED restVarsOfCall

CatalogNext ==
    \/ readFails \/ connectSubBackends \/ describeFails \/ register \/ CloseUnits \/ BuildToolList
    \/ \E ok \in BOOLEAN : wireSubBackends(ok) \/ scriptDone(ok)
    \/ \E tools \in SUBSET BareNames : describe(tools)
    \/ \E c \in CatalogConfigs : SwapAll(c)
    \/ \E d \in Dirs : startUnitCall(d)
    \/ loadFails \/ runFunction \/ apiCall \/ subReturns \/ contextEnds \/ interruptUnit

CatalogSpec == CatalogInit /\ [][CatalogNext]_catalogVars

-----------------------------------------------------------------------------
\* A name that is the alias of one tool and the canonical name of another.
Overlapping(name) ==
    \E p, q \in BackendIds \X BareNames : p # q /\ CanonicalOf[p] = name /\ (q[2] = name \/ CanonicalOf[q] = name)

\* PromotedTools, ResolveAlias: while no reload happens, every name of the root
\* list is the name of one tool, and a call of it is routed by the canonical
\* name of that tool, although list and call look at the backends separately.
\* (A name that is also the canonical name of another tool is not: see the
\* README.)
RootNamesResolve ==
    listFresh => \A p \in rootList : ~Overlapping(p.name) =>
        /\ ResolveAlias(p.name) = {CanonicalOf[p.tool]}
        /\ \A q \in rootList : q.name = p.name => q = p

\* loadUnits, LoadUnit, makeAPICall: however loading fails, a unit has open
\* sessions only if it was accepted or is being loaded, every unit that is
\* served has them until the process stops, no unit has the name of a backend
\* beside it or of another unit, and no script gets more api.* calls than its
\* budget.
UnitsWired ==
    /\ \A d \in Dirs : adapters[d] = "open" =>
         d \in accepted \/ (loadStep \notin {"read", "serving", "stopped"} /\ d = Loading)
    /\ \A d \in unitsIn : /\ loadStep # "stopped" => adapters[d] = "open"
                          /\ configured[UnitName[d]] = NoTools
    /\ \A d, e \in accepted : UnitName[d] = UnitName[e] => d = e
    /\ unitCall.ran <= MaxUnitCalls
=============================================================================
