-------------------------------- MODULE Authz --------------------------------
(***************************************************************************)
(* How the embedded authorization engine follows its config file           *)
(* (internal/authz/embedded.go, cmd/toolmesh/authz.go): at start and after *)
(* every change of the file the rules it defines are made the stored       *)
(* tuples, in four phases of chunked writes and deletes, each of which may *)
(* fail; the process may die between any two of them.  Stored tuples       *)
(* survive, the kits, the set of tools with rules of their own and the     *)
(* file stamp seen last do not.                                            *)
(*                                                                         *)
(* Data: a subject of a rule is a caller (the identity tuples of a check   *)
(* resolve companies, plans and roles to callers) or the holders of a kit; *)
(* an object is a tool or a place tools are in (instance, backend, access  *)
(* class, backend with access class).  An entry of a kit is its object.    *)
(***************************************************************************)
EXTENDS Naturals, FiniteSets

CONSTANTS
    Callers, KitNames, Tools,
    Places,          \* objects that are not tools
    PlacesOf,        \* PlacesOf[t]: the places tool t is in
    Policies,        \* what a valid config file (or no file: a preset) defines
    Invalid,         \* a file that does not load or validate
    WriteChunk,      \* most tuples in a write request
    WritesMayFail,   \* a read or write request may fail
    DeletesMayFail,  \* the deletion of a single tuple may fail
    EditsAtStart,    \* the file may change while the process starts
    MaxEdits,        \* bound on the changes of the file
    MaxCrashes       \* bound on the deaths of the process

Objects  == Tools \cup Places
Subjects == Callers \cup KitNames
Tuple    == [rel : {"executor", "blocked"}, user : Subjects, object : Objects]
Policy   == [grants : SUBSET (Callers \X Objects),
             denies : SUBSET (Callers \X Objects),
             kits   : [KitNames -> SUBSET Objects]]  \* {}: not defined

ASSUME AuthzAssumption ==
    /\ PlacesOf \in [Tools -> SUBSET Places]
    /\ Tools \cap Places = {} /\ Callers \cap KitNames = {}
    /\ Policies \subseteq Policy /\ Policies # {} /\ Invalid \notin Policy
    /\ WriteChunk \in Nat \ {0} /\ MaxEdits \in Nat /\ MaxCrashes \in Nat
    /\ WritesMayFail \in BOOLEAN /\ DeletesMayFail \in BOOLEAN /\ EditsAtStart \in BOOLEAN

VARIABLES
    file,        \* what the config file defines
    stamp,       \* its modification, a number
    stored,      \* the tuples in the store
    toolGrants,  \* Embedded.toolGrants
    kits,        \* Embedded.kits
    last,        \* the stamp startAuthzConfigWatch compares with
    pc,          \* where the one thread that applies policies is
    startup,     \* whether it applies the policy of the start
    target,      \* the policy it applies
    current,     \* the tuples in the store when it started
    left,        \* the tuples deleteTuples left behind
    result,      \* what the last ApplyPolicy returned
    crashes

authzVars == <<file, stamp, stored, toolGrants, kits, last, pc, startup,
               target, current, left, result, crashes>>

NoKits == [k \in KitNames |-> {}]

\* The steps of apply, in order: new denies, removed grants, new grants,
\* removed denies.
Phases == {"newDenies", "oldGrants", "newGrants", "oldDenies"}

AuthzTypeOK ==
    /\ file \in Policies \cup {Invalid}
    /\ stamp \in Nat /\ last \in Nat /\ crashes \in Nat
    /\ stored \subseteq Tuple /\ current \subseteq Tuple /\ left \subseteq Tuple
    /\ toolGrants \subseteq Tools
    /\ kits \in [KitNames -> SUBSET Objects]
    /\ pc \in {"open", "load", "current", "tools", "kits", "done", "watch", "idle"} \cup Phases
    /\ startup \in BOOLEAN
    /\ target \in Policies
    /\ result \in {"none", "ok", "error"}

-----------------------------------------------------------------------------
(* Rules as tuples, and what they decide.                                  *)

tuplesOf(rel, pairs) == {[rel |-> rel, user |-> p[1], object |-> p[2]] : p \in pairs}

\* A kit is a grant to its holders of each of its entries.
kitTuples(p) ==
    {t \in Tuple : /\ t.rel = "executor"
                   /\ t.user \in KitNames
                   /\ t.object \in p.kits[t.user]}

desired(p) ==
    tuplesOf("executor", p.grants) \cup tuplesOf("blocked", p.denies) \cup kitTuples(p)

isDeny(t) == t.rel = "blocked"

Denies(tuples) == {t \in tuples : isDeny(t)}
Grants(tuples) == {t \in tuples : ~isDeny(t)}

\* setToolGrants: the tools that have tuples of their own.
toolsIn(tuples) == {t.object : t \in {u \in tuples : u.object \in Tools}}

\* can_execute of the authorization model: who is the caller and the kits
\* held whole, extra the objects granted through kits held in part.
CanExecute(tuples, who, extra, tool) ==
    LET objects == PlacesOf[tool] \cup {tool}
    IN  /\ \/ \E t \in Grants(tuples) : t.user \in who /\ t.object \in objects
           \/ extra \cap objects # {}
        /\ ~ \E t \in Denies(tuples) : t.user \in who /\ t.object \in objects

-----------------------------------------------------------------------------
AuthzInit ==
    /\ file \in Policies \cup {Invalid}
    /\ stamp = 0
    /\ stored = {}
    /\ toolGrants = {}
    /\ kits = NoKits
    /\ last = 0
    /\ pc = "open"
    /\ startup = TRUE
    /\ target \in Policies
    /\ current = {}
    /\ left = {}
    /\ result = "none"
    /\ crashes = 0

\* Somebody changes, creates or removes the config file.
Edit(p) ==
    /\ stamp < MaxEdits
    /\ EditsAtStart \/ ~startup
    /\ file' = p
    /\ stamp' = stamp + 1
    /\ UNCHANGED <<stored, toolGrants, kits, last, pc, startup, target, current, left, result, crashes>>

\* OpenEmbedded: the rules an earlier run left are in effect, without kits.
Open ==
    /\ pc = "open"
    /\ pc' = "load"
    /\ startup' = TRUE
    /\ toolGrants' = toolsIn(stored)
    /\ kits' = NoKits
    /\ UNCHANGED <<file, stamp, stored, last, target, current, left, result, crashes>>

\* The ticker of startAuthzConfigWatch finds the file changed.
Poll ==
    /\ pc = "idle"
    /\ stamp # last
    /\ last' = stamp
    /\ pc' = "load"
    /\ UNCHANGED <<file, stamp, stored, toolGrants, kits, startup, target, current, left, result, crashes>>

\* An error at the start ends the process, which is started again; later it
\* is only logged.
Return(outcome) ==
    /\ result' = outcome
    /\ pc' = IF ~startup THEN "idle" ELSE IF outcome = "ok" THEN "watch" ELSE "open"

\* LoadFile, ResolvePolicy, checkApproverKeys and the validation in apply.
Load ==
    /\ pc = "load"
    /\ current' = stored
    /\ IF file = Invalid
         THEN Return("error") /\ UNCHANGED target
         ELSE target' = file /\ pc' = "current" /\ UNCHANGED result
    /\ UNCHANGED <<file, stamp, stored, toolGrants, kits, last, startup, left, crashes>>

\* As ReadCurrent, with toolGrants set to what the new rules name.
ReadCurrentNewTools ==
    /\ pc = "current"
    /\ left' = {}
    /\ toolGrants' = toolsIn(desired(target))
    /\ pc' = "newDenies"
    /\ UNCHANGED <<file, stamp, stored, kits, last, startup, target, current, result, crashes>>

\* readTuples: what there is to write and to delete is now known.  While the
\* store changes any tool that either side names may have rules of its own.
ReadCurrent ==
    /\ pc = "current"
    /\ left' = {}
    /\ toolGrants' = toolsIn(stored \cup desired(target))
    /\ pc' = "newDenies"
    /\ UNCHANGED <<file, stamp, stored, kits, last, startup, target, current, result, crashes>>

writes  == desired(target) \ current
deletes == current \ desired(target)

\* What a phase has still to do.
Todo(ph) ==
    CASE ph = "newDenies" -> Denies(writes) \ stored
      [] ph = "oldGrants" -> (Grants(deletes) \cap stored) \ left
      [] ph = "newGrants" -> Grants(writes) \ stored
      [] ph = "oldDenies" -> (Denies(deletes) \cap stored) \ left

\* One request of writeTuples or deleteTuples: a chunk is written or deleted
\* in one transaction.
Chunk(ts) ==
    /\ pc \in Phases
    /\ ts \subseteq Todo(pc) /\ ts # {} /\ Cardinality(ts) <= WriteChunk
    /\ stored' = IF pc \in {"newDenies", "newGrants"} THEN stored \cup ts ELSE stored \ ts
    /\ UNCHANGED <<file, stamp, toolGrants, kits, last, pc, startup, target, current, left, result, crashes>>

\* A chunk could not be deleted and neither could this tuple of it: logged
\* and left behind.
LeaveBehind(t) ==
    /\ DeletesMayFail
    /\ pc \in {"oldGrants", "oldDenies"}
    /\ t \in Todo(pc)
    /\ left' = left \cup {t}
    /\ UNCHANGED <<file, stamp, stored, toolGrants, kits, last, pc, startup, target, current, result, crashes>>

\* As AfterPhase, with the removed denies before the new grants.
AfterPhaseSwapped(ph) ==
    CASE ph = "newDenies" -> "oldDenies"
      [] ph = "oldDenies" -> "oldGrants"
      [] ph = "oldGrants" -> "newGrants"
      [] ph = "newGrants" -> "tools"

AfterPhase(ph) ==
    CASE ph = "newDenies" -> "oldGrants"
      [] ph = "oldGrants" -> "newGrants"
      [] ph = "newGrants" -> "oldDenies"
      [] ph = "oldDenies" -> "tools"

Advance ==
    /\ pc \in Phases
    /\ Todo(pc) = {}
    /\ pc' = AfterPhase(pc)
    /\ UNCHANGED <<file, stamp, stored, toolGrants, kits, last, startup, target, current, left, result, crashes>>

\* A request fails: apply returns where it is.
Fail ==
    /\ WritesMayFail
    /\ pc \in {"current"} \cup Phases
    /\ Return("error")
    /\ UNCHANGED <<file, stamp, stored, toolGrants, kits, last, startup, target, current, left, crashes>>

\* toolGrants exact again, unless the store cannot be read.
SetTools ==
    /\ pc = "tools"
    /\ \/ toolGrants' = toolsIn(stored)
       \/ WritesMayFail /\ UNCHANGED toolGrants
    /\ pc' = "kits"
    /\ UNCHANGED <<file, stamp, stored, kits, last, startup, target, current, left, result, crashes>>

\* As StoreKits, with the kits left as they were.
StoreKitsForgotten ==
    /\ pc = "kits"
    /\ pc' = "done"
    /\ UNCHANGED <<file, stamp, stored, toolGrants, kits, last, startup, target, current, left, result, crashes>>

StoreKits ==
    /\ pc = "kits"
    /\ kits' = target.kits
    /\ pc' = "done"
    /\ UNCHANGED <<file, stamp, stored, toolGrants, last, startup, target, current, left, result, crashes>>

\* The deferred invalidation of the cache, and ApplyPolicy returns.
Done ==
    /\ pc = "done"
    /\ Return("ok")
    /\ UNCHANGED <<file, stamp, stored, toolGrants, kits, last, startup, target, current, left, crashes>>

\* startAuthzConfigWatch: the state of the file to compare with.
Watch ==
    /\ pc = "watch"
    /\ last' = stamp
    /\ pc' = "idle"
    /\ startup' = FALSE
    /\ UNCHANGED <<file, stamp, stored, toolGrants, kits, target, current, left, result, crashes>>

\* The process dies; what is not in the store or a file is gone.
Crash ==
    /\ crashes < MaxCrashes
    /\ pc # "open"
    /\ crashes' = crashes + 1
    /\ pc' = "open"
    /\ startup' = TRUE
    /\ toolGrants' = {}
    /\ kits' = NoKits
    /\ last' = 0
    /\ left' = {}
    /\ result' = "none"
    /\ UNCHANGED <<file, stamp, stored, target, current>>

\* Steps of apply that leave the check cache alone, and those after which
\* every check starts with an empty one.
ApplyStep ==
    \/ Open \/ Poll \/ Load \/ ReadCurrent
    \/ pc \in Phases /\ \E ts \in SUBSET Todo(pc) : Chunk(ts)
    \/ \E t \in Tuple : LeaveBehind(t)
    \/ Advance \/ SetTools \/ StoreKits \/ Watch

ApplyReturns == Done \/ Fail

AuthzNext ==
    \/ \E p \in Policies \cup {Invalid} : Edit(p)
    \/ ApplyStep
    \/ ApplyReturns
    \/ Crash

AuthzSpec == AuthzInit /\ [][AuthzNext]_authzVars

\* The thread that applies policies keeps running: main, and the goroutine
\* of startAuthzConfigWatch with its ticker.
AuthzFairSpec == AuthzSpec /\ WF_authzVars(ApplyStep \/ ApplyReturns)

-----------------------------------------------------------------------------
(* Properties.                                                             *)

\* While the store changes, and when the change stops halfway, no caller may
\* execute a tool, whatever kits it holds whole, that neither the rules found
\* in the store nor the new rules let it execute (Apply: "no state in between
\* allows more than both the old and the new rules"), but for the tuples that
\* deleteTuples logged as left behind.
NothingExtra ==
    pc \in Phases \cup {"tools", "kits", "done"} =>
        \A who \in SUBSET Subjects, tool \in Tools :
            CanExecute(stored \ left, who, {}, tool) =>
                \/ CanExecute(current, who, {}, tool)
                \/ CanExecute(desired(target), who, {}, tool)

\* toolGrants is always a superset of the tools that have stored rules, also
\* while the store changes and after a failure, so that CheckBatch never
\* answers for such a tool with the answer of another (Embedded.toolGrants).
ToolGrantsCover == pc # "open" => toolsIn(stored) \subseteq toolGrants

\* ApplyPolicy that returned success made the stored rules and the kits those
\* of the policy, whatever an earlier failure or crash had left, with nothing
\* more than the tuples it logged as left behind (Apply makes the stored rules
\* equal to grants and denies).
AppliedExactly ==
    result = "ok" /\ pc \in {"watch", "idle"} =>
        stored = desired(target) \cup left /\ kits = target.kits

\* Some time after its last change a valid config file is in effect for good
\* ("Changes take effect within seconds"), but for tuples logged as left
\* behind; or the last apply failed, which was logged: it is not tried again
\* before the next change or start (startAuthzConfigWatch).
ChangesTakeEffect ==
    <>[](file # Invalid =>
            \/ result = "error"
            \/ stored = desired(file) \cup left /\ kits = file.kits)
=============================================================================
