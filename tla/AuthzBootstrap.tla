--------------------------- MODULE AuthzBootstrap ---------------------------
(***************************************************************************)
(* The start of ToolMesh up to the embedded authorization engine           *)
(* (cmd/toolmesh/main.go, setupAuthz, Embedded.bootstrap): whether the     *)
(* data directory belongs to an installation that ran without              *)
(* authorization is decided once, at the first start, and recorded in the  *)
(* database and in a marker file that outlives it.  A start may fail or    *)
(* the process may die between any two steps.                              *)
(***************************************************************************)
EXTENDS Naturals

CONSTANTS
    Sources,       \* how TOOLMESH_AUTHZ_MODE may be chosen at a start
    MayFailEarly,  \* a start may fail before the marker is written
    MaxStarts      \* bound on the starts

ASSUME BootstrapAssumption ==
    /\ Sources \subseteq {"default", "legacy", "env"}
    /\ MayFailEarly \in BOOLEAN /\ MaxStarts \in Nat

NoDB == [exists |-> FALSE, stores |-> 0, recorded |-> FALSE, model |-> 0, preset |-> "unset"]

VARIABLES
    history,  \* "fresh", or "bypass": an earlier release ran here unchecked
    others,   \* whether the data directory holds anything but authz.db*
    db,       \* authz.db: its stores and what the state table records
    marker,   \* the preset in .authz-bootstrap, or "absent"
    binary,   \* the version of the model compiled in
    pc, starts,
    source, prior,   \* of this start
    model, preset,   \* Embedded.modelID (its version), Embedded.upgradePreset
    served           \* the preset the server ran with first

vars == <<history, others, db, marker, binary, pc, starts, source, prior, model, preset, served>>

Init ==
    /\ history \in {"fresh", "bypass"}
    /\ others = (history = "bypass")
    /\ db = NoDB
    /\ marker = "absent"
    /\ binary = 1
    /\ pc = "down" /\ starts = 0
    /\ source \in Sources
    /\ prior = FALSE /\ model = 0 /\ preset = "none" /\ served = "undecided"

\* Any entry whose name does not start with authz.db, the marker included.
HasPriorState == others \/ marker # "absent"

Start(src) ==
    /\ pc = "down"
    /\ starts < MaxStarts
    /\ starts' = starts + 1
    /\ source' = src
    /\ prior' = HasPriorState
    /\ preset' = "none"
    /\ pc' = "early"
    /\ UNCHANGED <<history, others, db, marker, binary, model, served>>

\* The blob store and telemetry write to the data directory, unless both are
\* switched off, and the backends are built.
EarlyWrites ==
    /\ pc = "early"
    /\ others' \in {others, TRUE}
    /\ pc' = "open"
    /\ UNCHANGED <<history, db, marker, binary, starts, source, prior, model, preset, served>>

\* OpenEmbedded up to bootstrap: the schema migrations create the database.
OpenDB ==
    /\ pc = "open"
    /\ db' = [db EXCEPT !.exists = TRUE]
    /\ pc' = "store"
    /\ UNCHANGED <<history, others, marker, binary, starts, source, prior, model, preset, served>>

\* As ensureStore, where only a recorded store counts.
ensureStoreCreates ==
    /\ pc = "store"
    /\ db' = [db EXCEPT !.stores = IF db.recorded THEN @ ELSE @ + 1]
    /\ pc' = "model"
    /\ UNCHANGED <<history, others, marker, binary, starts, source, prior, model, preset, served>>

\* The store recorded, else one an earlier start created, else a new one.
ensureStore ==
    /\ pc = "store"
    /\ db' = [db EXCEPT !.stores = IF db.recorded \/ @ > 0 THEN @ ELSE 1]
    /\ pc' = "model"
    /\ UNCHANGED <<history, others, marker, binary, starts, source, prior, model, preset, served>>

\* The model recorded if it is the one compiled in, else that one, written.
ensureModel ==
    /\ pc = "model"
    /\ model' = IF db.model = binary THEN db.model ELSE binary
    /\ pc' = "state"
    /\ UNCHANGED <<history, others, db, marker, binary, starts, source, prior, preset, served>>

\* As upgrade, only for an installation that names the old mode.
upgradeLegacyOnly == source = "legacy"

\* Upgrade in EmbeddedOptions.
upgrade == source = "legacy" \/ (source = "default" /\ prior)

\* The preset the state table records, else the marker's, else the decision.
upgradePreset ==
    CASE db.preset # "unset"                       -> db.preset
      [] db.preset = "unset" /\ marker # "absent" -> marker
      [] OTHER                                     -> IF upgrade THEN "open" ELSE "none"

\* writeState, in one transaction.
writeState ==
    /\ pc = "state"
    /\ preset' = upgradePreset
    /\ db' = [db EXCEPT !.recorded = TRUE, !.model = model, !.preset = upgradePreset]
    /\ pc' = "marker"
    /\ UNCHANGED <<history, others, marker, binary, starts, source, prior, model, served>>

\* Written to a temporary file and renamed, when it is missing or differs.
writeMarker ==
    /\ pc = "marker"
    /\ marker' = preset
    /\ pc' = "policy"
    /\ UNCHANGED <<history, others, db, binary, starts, source, prior, model, preset, served>>

\* applyAuthzPolicy and the rest of main: the server answers, and writes.
Serve ==
    /\ pc = "policy"
    /\ pc' = "serving"
    /\ others' = TRUE
    /\ served' = IF served = "undecided" THEN preset ELSE served
    /\ UNCHANGED <<history, db, marker, binary, starts, source, prior, model, preset>>

\* A step fails and main exits, or the process dies.
Stop ==
    /\ pc # "down"
    /\ MayFailEarly \/ marker # "absent"
    /\ pc' = "down"
    /\ UNCHANGED <<history, others, db, marker, binary, starts, source, prior, model, preset, served>>

\* Between two runs the operator deletes the database or installs another
\* release.
DeleteDB ==
    /\ pc = "down" /\ db.exists
    /\ db' = NoDB
    /\ UNCHANGED <<history, others, marker, binary, pc, starts, source, prior, model, preset, served>>

Install(v) ==
    /\ pc = "down" /\ binary # v
    /\ binary' = v
    /\ UNCHANGED <<history, others, db, marker, pc, starts, source, prior, model, preset, served>>

Next ==
    \/ \E src \in Sources : Start(src)
    \/ EarlyWrites \/ OpenDB \/ ensureStore \/ ensureModel \/ writeState \/ writeMarker
    \/ Serve \/ Stop \/ DeleteDB
    \/ \E v \in {1, 2} : Install(v)

Spec == Init /\ [][Next]_vars

-----------------------------------------------------------------------------
(* Properties.                                                             *)

\* An installation that never ran without authorization is not taken for one
\* that did, whose tools stay open to every caller: not after its database
\* was deleted, and not after failed starts (HasPriorState "tells an upgraded
\* installation from a fresh one").
FreshStaysClosed == history = "fresh" /\ pc = "serving" => preset = "none"

\* The decision the server first ran with is kept for good, through crashes,
\* a deleted database and another choice of the mode (MarkerFileName); and an
\* installation upgraded without choosing a mode keeps its tools open, as before
\* the upgrade, whatever failed on the way (EmbeddedOptions.Upgrade).
DecisionKept == pc = "serving" => preset = served /\ (history = "bypass" => preset = "open")

\* A start that died between creating the store and recording it is adopted by
\* the next one, so there is never a second store; and checks are evaluated
\* against the model compiled in, whatever release ran before.
OneStoreAndModel == db.stores <= 1 /\ (pc = "serving" => model = binary)
=============================================================================
