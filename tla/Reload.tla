------------------------------- MODULE Reload -------------------------------
(***************************************************************************)
(* The hot reload of backends.yaml and the health monitor that follows it  *)
(* (cmd/toolmesh/main.go: watchBackendsConfig, buildBackends,              *)
(* loadRESTBackendsInto; internal/health: Monitor; internal/backend:       *)
(* RESTAdapter.CheckHealth).  The file is edited while a poll of its       *)
(* modification time and the two readers of it run; every reload replaces  *)
(* the checks of the generation before, which may be in any of their       *)
(* steps.                                                                  *)
(*                                                                         *)
(* Data: an entry of the file is absent, broken (no DADL, one that does    *)
(* not parse, no adapter), plain (no health check, or monitoring off) or   *)
(* checked.  A modification time is the number of the edit.                *)
(***************************************************************************)
EXTENDS Naturals, FiniteSets

CONSTANTS
    RestNames,        \* the names of REST backends
    Contents,         \* what the file may hold
    PollNames,        \* the names whose health_check.interval is not 0
    DegradeAfter,     \* health_check.degrade_after
    ConcurrentChecks, \* maxConcurrentChecks
    MaxEdits,         \* bound on the edits of the file
    MaxPolls,         \* bound on the polls of the monitor
    MaxToolChecks     \* bound on the calls of the health tool

EntryKinds == {"absent", "broken", "plain", "checked"}
FileKinds == {"good", "bad", "missing"}

ASSUME ReloadAssumption ==
    /\ Contents \subseteq [kind : FileKinds, entries : [RestNames -> EntryKinds]]
    /\ PollNames \subseteq RestNames
    /\ DegradeAfter \in Nat \ {0} /\ ConcurrentChecks \in Nat \ {0}
    /\ MaxEdits \in Nat /\ MaxPolls \in Nat /\ MaxToolChecks \in Nat

VARIABLES
    file,       \* backends.yaml: [ver, kind, entries]
    lastMod,    \* of the watcher, 0 before its first tick
    reloading,  \* idle, or the step of the reload: mcp, rest, swap, replace
    statMod,    \* the modification time that started the reload
    built,      \* what loadRESTBackendsInto returned: [ver, names, targets]
    inService,  \* what the composite backend serves: [ver, names]
    watched,    \* Monitor.policies
    generation, \* how often Replace ran
    checks,     \* the goroutines of Monitor.run: [generation, name] -> step
    health,     \* Monitor.states
    observed,   \* the names of the adapters Observe is installed on
    polls, toolChecks

reloadVars == <<file, lastMod, reloading, statMod, built, inService, watched, generation,
                checks, health, observed, polls, toolChecks>>

Generations == 1..(MaxEdits + 1)
Results == {"ok", "failed", "cut"}
CheckSteps == {"none", "acquire", "checking", "release", "observe", "ticker", "ended"}
NothingBuilt == [ver |-> 0, names |-> {}, targets |-> {}]
NoHealth == [last |-> "none", failures |-> 0, cuts |-> 0]

LoadedOf(entries) == {n \in RestNames : entries[n] \in {"plain", "checked"}}
TargetsOf(entries) == {n \in RestNames : entries[n] = "checked"}

\* The semaphore, held while CheckHealth runs.
Holders == {c \in DOMAIN checks : checks[c].step \in {"checking", "release"}}
Ended(c) == c[1] # generation

ReloadInit ==
    /\ \E c \in Contents :
         /\ c.kind = "good"
         /\ file = [ver |-> 1, kind |-> c.kind, entries |-> c.entries]
         /\ built = [ver |-> 1, names |-> LoadedOf(c.entries), targets |-> TargetsOf(c.entries)]
         /\ inService = [ver |-> 1, names |-> LoadedOf(c.entries)]
    /\ lastMod = 0 /\ reloading = "replace" /\ statMod = 0
    /\ watched = {} /\ generation = 0 /\ observed = {}
    /\ checks = [c \in Generations \X RestNames |-> [step |-> "none", result |-> "ok"]]
    /\ health = [n \in RestNames |-> NoHealth]
    /\ polls = 0 /\ toolChecks = 0

monitorVars == <<watched, generation, checks, health, observed, polls, toolChecks>>

Edit(c) ==
    /\ file.ver <= MaxEdits
    /\ file' = [ver |-> file.ver + 1, kind |-> c.kind, entries |-> c.entries]
    /\ UNCHANGED <<lastMod, reloading, statMod, built, inService, monitorVars>>

\* One tick: the first modification time seen starts no reload.
watchTick ==
    /\ reloading = "idle" /\ generation > 0
    /\ file.kind # "missing" /\ file.ver # lastMod
    /\ IF lastMod # 0
       THEN reloading' = "mcp" /\ statMod' = file.ver /\ UNCHANGED lastMod
       ELSE lastMod' = file.ver /\ UNCHANGED <<reloading, statMod>>
    /\ UNCHANGED <<file, built, inService, monitorVars>>

\* As reloadEnds, with the modification time read again after the reload.
reloadEndsLate == reloading' = "idle" /\ lastMod' = file.ver /\ statMod' = 0

\* The time read before the reload is the one that is remembered.
reloadEnds == reloading' = "idle" /\ lastMod' = statMod /\ statMod' = 0

\* NewMCPAdapter and Connect: the first reader of the file.  A file that does
\* not parse keeps the current backends; one that is gone configures none.
buildMCP ==
    /\ reloading = "mcp"
    /\ IF file.kind = "bad" THEN reloadEnds
       ELSE reloading' = "rest" /\ UNCHANGED <<lastMod, statMod>>
    /\ UNCHANGED <<file, built, inService, monitorVars>>

\* loadRESTBackendsInto: the second reader.  A file that has become unreadable
\* in between yields no REST backends, and no error.
loadRESTBackendsInto ==
    /\ reloading = "rest" /\ reloading' = "swap"
    /\ built' = [ver |-> file.ver,
                 names |-> IF file.kind = "good" THEN LoadedOf(file.entries) ELSE {},
                 targets |-> IF file.kind = "good" THEN TargetsOf(file.entries) ELSE {}]
    /\ UNCHANGED <<file, lastMod, statMod, inService, monitorVars>>

Swap ==
    /\ reloading = "swap" /\ reloading' = "replace"
    /\ inService' = [ver |-> built.ver, names |-> built.names]
    /\ UNCHANGED <<file, lastMod, statMod, built, monitorVars>>

\* Replace: the checks of the last generation are cancelled, the states of
\* names that are gone dropped, and every target is checked.
Replace ==
    /\ reloading = "replace"
    /\ IF generation = 0
       THEN reloading' = "idle" /\ UNCHANGED <<lastMod, statMod>>
       ELSE reloadEnds
    /\ built' = NothingBuilt
    /\ generation' = generation + 1
    /\ watched' = built.targets
    /\ health' = [n \in RestNames |-> IF n \in built.targets THEN health[n] ELSE NoHealth]
    /\ observed' = observed \cup built.targets
    /\ checks' = [c \in DOMAIN checks |->
                    IF c[1] = generation + 1 /\ c[2] \in built.targets
                    THEN [checks[c] EXCEPT !.step = "acquire"] ELSE checks[c]]
    /\ UNCHANGED <<file, inService, polls, toolChecks>>

-----------------------------------------------------------------------------
\* Monitor.run and check, for the check c = <<generation, name>>.
Goto(c, from, step) ==
    /\ checks[c].step = from
    /\ checks' = [checks EXCEPT ![c] = [step |-> step,
                                       result |-> IF step = "observe" THEN @.result ELSE "ok"]]
    /\ UNCHANGED <<file, lastMod, reloading, statMod, built, inService, watched, generation, observed, toolChecks>>

After(c) == IF c[2] \in PollNames THEN "ticker" ELSE "ended"

acquireSlot(c) ==
    /\ Cardinality(Holders) < ConcurrentChecks
    /\ Goto(c, "acquire", "checking")
    /\ UNCHANGED <<health, polls>>

\* The context ends while the check waits for the semaphore.
giveUp(c) ==
    /\ Ended(c) /\ Goto(c, "acquire", After(c))
    /\ UNCHANGED <<health, polls>>

\* CheckHealth answers or times out; a cancelled context cuts it short.
CheckHealth(c, r) ==
    /\ checks[c].step = "checking"
    /\ r = "cut" => Ended(c)
    /\ checks' = [checks EXCEPT ![c] = [step |-> "release", result |-> r]]
    /\ UNCHANGED <<file, lastMod, reloading, statMod, built, inService, watched, generation, observed, toolChecks,
                   health, polls>>

\* As checked, with the result of a cancelled check recorded too.
checkedAlways(c) ==
    /\ Goto(c, "release", "observe")
    /\ UNCHANGED <<health, polls>>

\* The slot is released, then the context tested.
checked(c) ==
    /\ Goto(c, "release", IF Ended(c) THEN After(c) ELSE "observe")
    /\ UNCHANGED <<health, polls>>

\* Observe: the result of a check of a name that is watched.  Whose failure it
\* was is kept for the properties in cuts.
Observe(n, r, cut) ==
    health' = [health EXCEPT ![n] =
        IF n \notin watched THEN @
        ELSE [last |-> r,
              failures |-> IF r = "ok" THEN 0 ELSE @.failures + 1,
              cuts |-> IF r = "ok" THEN 0 ELSE @.cuts + cut]]

\* Replace may run between the test of the context and this step.
observeCheck(c) ==
    /\ Observe(c[2], checks[c].result, IF checks[c].result = "cut" THEN 1 ELSE 0)
    /\ Goto(c, "observe", After(c))
    /\ UNCHANGED polls

pollAgain(c) ==
    /\ ~Ended(c) /\ polls < MaxPolls /\ polls' = polls + 1
    /\ Goto(c, "ticker", "acquire")
    /\ UNCHANGED health

runEnds(c) ==
    /\ Ended(c) /\ Goto(c, "ticker", "ended")
    /\ UNCHANGED <<health, polls>>

\* A client calls the synthetic health tool of an adapter of any generation;
\* the result is recorded even if the client gave the call up.
executeHealthTool(n, r) ==
    /\ n \in observed /\ toolChecks < MaxToolChecks
    /\ toolChecks' = toolChecks + 1
    /\ Observe(n, r, 0)
    /\ UNCHANGED <<file, lastMod, reloading, statMod, built, inService, watched, generation, checks, observed, polls>>

\* Report: the names that are listed as degraded.
Degraded == {n \in RestNames : health[n].failures >= DegradeAfter}

CheckStep(c) ==
    \/ acquireSlot(c) \/ giveUp(c) \/ checked(c) \/ observeCheck(c) \/ runEnds(c)
    \/ \E r \in Results : CheckHealth(c, r)

ReloadStep == watchTick \/ buildMCP \/ loadRESTBackendsInto \/ Swap \/ Replace

ReloadNext ==
    \/ ReloadStep
    \/ \E c \in Contents : Edit(c)
    \/ \E c \in DOMAIN checks : CheckStep(c) \/ pollAgain(c)
    \/ \E n \in RestNames, r \in Results : executeHealthTool(n, r)

ReloadSpec == ReloadInit /\ [][ReloadNext]_reloadVars

\* After the start the watcher ticks for ever and a reload comes to its end.
ReloadFair == WF_reloadVars(generation > 0 /\ ReloadStep)

-----------------------------------------------------------------------------
\* check, Observe, Replace: /health speaks only of backends that are watched,
\* and no failure that counts towards "degraded" is the cancellation of a
\* check by a reload; between reloads the watched names are served ones.
HealthTruthful ==
    /\ \A n \in RestNames : health[n] # NoHealth => n \in watched /\ health[n].cuts = 0
    /\ Degraded \subseteq watched
    /\ reloading = "idle" => watched \subseteq inService.names

\* watchBackendsConfig: an edit that a tick can tell from the one before it is
\* served in the end, though edits go on while the file is read twice; the
\* exceptions are a file that no longer parses or is gone.
EditsFollowed ==
    (lastMod # 0 /\ file.kind = "good" /\ file.ver # lastMod) ~> (inService.ver = file.ver \/ file.kind # "good")
=============================================================================
