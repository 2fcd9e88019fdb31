----------------------------- MODULE AuthzProofs -----------------------------
(***************************************************************************)
(* For every set of callers, kits, tools and policies, chunk size, and any  *)
(* number of changes of the config file, failed requests and crashes:       *)
(* Authz keeps its types and toolGrants covers every tool with stored       *)
(* rules; and but for tuples whose deletion failed, no state in between     *)
(* allows more than both the old and the new rules, and an apply that       *)
(* succeeds stores exactly the policy.                                      *)
(***************************************************************************)
EXTENDS AuthzChecks, TLAPS

Tail == {"tools", "kits", "done"}

\* What the store holds between the tuples found and the tuples wanted: no
\* step takes away a tuple of both or adds one of neither.
BetweenInv ==
    /\ pc = "current" => current = stored
    /\ pc \in Phases \cup Tail =>
          /\ stored \subseteq current \cup desired(target)
          /\ toolsIn(stored) \subseteq toolGrants
          /\ pc \in Phases => toolsIn(current \cup desired(target)) \subseteq toolGrants

\* The invariant behind ToolGrantsCover.
CoverInv == AuthzTypeOK /\ ToolGrantsCover /\ BetweenInv

\* How far the store has got in each phase.  What is left behind is what the
\* two phases that delete should have deleted.
PhaseInv ==
    /\ pc \in Phases \cup Tail => left \subseteq stored /\ left \cap desired(target) = {}
    /\ pc \in {"newDenies", "oldGrants"} =>
          Grants(stored) \subseteq current /\ Denies(current) \subseteq stored
    /\ pc \in {"newDenies", "oldGrants", "newGrants"} =>
          Denies(left) = {} /\ current \cap desired(target) \subseteq stored
    /\ pc \in {"oldGrants", "newGrants", "oldDenies"} =>
          Denies(desired(target)) \subseteq stored
    /\ pc \in {"newGrants", "oldDenies"} => Grants(stored \ left) \subseteq desired(target)
    /\ pc = "oldDenies" => desired(target) \subseteq stored
    /\ pc \in Tail => stored = desired(target) \cup left
    /\ pc = "done" => kits = target.kits

ApplyInv == CoverInv /\ PhaseInv /\ AppliedExactly

-----------------------------------------------------------------------------
(* Operators.                                                              *)

LEMMA DesiredType == ASSUME NEW p \in Policy PROVE desired(p) \subseteq Tuple
  BY DEF desired, tuplesOf, kitTuples, Tuple, Policy, Subjects, Objects

LEMMA TargetType == ASSUME AuthzTypeOK PROVE desired(target) \subseteq Tuple
  BY DesiredType, AuthzAssumption DEF AuthzTypeOK

LEMMA ToolsMonotone ==
    ASSUME NEW S, NEW T, S \subseteq T PROVE toolsIn(S) \subseteq toolsIn(T)
  BY DEF toolsIn

LEMMA ToolsType == ASSUME NEW S PROVE toolsIn(S) \subseteq Tools
  BY DEF toolsIn

LEMMA NoKitsType == NoKits \in [KitNames -> SUBSET Objects]
  BY DEF NoKits

\* Every tuple is a grant or a deny.
LEMMA Partition == ASSUME NEW S PROVE S = Grants(S) \cup Denies(S)
  BY DEF Grants, Denies

\* Fewer grants and more denies allow less.
LEMMA FewerRights ==
    ASSUME NEW S, NEW T, Grants(S) \subseteq T, Denies(T) \subseteq S,
           NEW who, NEW tool, CanExecute(S, who, {}, tool)
    PROVE  CanExecute(T, who, {}, tool)
  BY DEF CanExecute, Grants, Denies, isDeny

-----------------------------------------------------------------------------
(* Types and toolGrants.                                                   *)

LEMMA CoverInit == AuthzInit => CoverInv
  BY NoKitsType, AuthzAssumption
  DEF AuthzInit, CoverInv, AuthzTypeOK, ToolGrantsCover, BetweenInv, Phases, Tail, toolsIn

\* A step that leaves the store and what apply works with alone, and is not
\* in the middle of it afterwards.
LEMMA CoverQuiet ==
    ASSUME CoverInv, AuthzTypeOK', UNCHANGED <<stored, toolGrants>>,
           pc # "open", pc' \notin Phases \cup Tail \cup {"current"}
    PROVE  CoverInv'
  BY DEF CoverInv, ToolGrantsCover, BetweenInv

LEMMA CoverEdit ==
    ASSUME CoverInv, NEW p \in Policies \cup {Invalid}, Edit(p) PROVE CoverInv'
  <1>1. AuthzTypeOK'
    BY DEF CoverInv, AuthzTypeOK, Edit
  <1>2. (ToolGrantsCover /\ BetweenInv)'
    BY DEF CoverInv, ToolGrantsCover, BetweenInv, Edit
  <1> QED  BY <1>1, <1>2 DEF CoverInv

LEMMA CoverOpen == ASSUME CoverInv, Open PROVE CoverInv'
  BY ToolsType, NoKitsType DEF CoverInv, AuthzTypeOK, ToolGrantsCover, BetweenInv, Open, Phases, Tail

LEMMA CoverPoll == ASSUME CoverInv, Poll PROVE CoverInv'
  BY DEF CoverInv, AuthzTypeOK, ToolGrantsCover, BetweenInv, Poll, Phases, Tail

LEMMA CoverLoad == ASSUME CoverInv, Load PROVE CoverInv'
  BY AuthzAssumption DEF CoverInv, AuthzTypeOK, ToolGrantsCover, BetweenInv, Load, Return, Phases, Tail

LEMMA CoverReadCurrent == ASSUME CoverInv, ReadCurrent PROVE CoverInv'
  <1>1. AuthzTypeOK'
    BY ToolsType DEF CoverInv, AuthzTypeOK, ReadCurrent, Phases
  <1>2. /\ UNCHANGED <<stored, current, target>> /\ current = stored
        /\ toolGrants' = toolsIn(stored \cup desired(target)) /\ pc' = "newDenies"
        /\ desired(target)' = desired(target)
    BY DEF ReadCurrent, CoverInv, BetweenInv, desired, kitTuples
  <1>3. toolsIn(stored) \subseteq toolsIn(stored \cup desired(target))
    BY ToolsMonotone
  <1> QED  BY <1>1, <1>2, <1>3 DEF CoverInv, ToolGrantsCover, BetweenInv, Phases, Tail

LEMMA CoverChunk == ASSUME CoverInv, NEW ts, Chunk(ts) PROVE CoverInv'
  <1>1. /\ pc \in Phases
        /\ UNCHANGED <<file, stamp, toolGrants, kits, last, pc, startup, target, current, left, result, crashes>>
        /\ desired(target)' = desired(target)
    BY DEF Chunk, desired, kitTuples
  <1>2. stored' \subseteq current \cup desired(target)
    BY <1>1 DEF Chunk, CoverInv, BetweenInv, Todo, writes, deletes, Denies, Grants, Phases
  <1>3. toolsIn(stored)' \subseteq toolGrants
    <2>1. toolsIn(stored') \subseteq toolsIn(current \cup desired(target))
      BY <1>2, ToolsMonotone
    <2> QED  BY <1>1, <2>1 DEF CoverInv, BetweenInv, toolsIn
  <1>4. AuthzTypeOK'
    BY <1>1, <1>2, TargetType DEF CoverInv, AuthzTypeOK
  <1> QED  BY <1>1, <1>2, <1>3, <1>4 DEF CoverInv, ToolGrantsCover, BetweenInv, Phases, Tail, toolsIn

LEMMA CoverLeaveBehind == ASSUME CoverInv, NEW t \in Tuple, LeaveBehind(t) PROVE CoverInv'
  BY DEF CoverInv, AuthzTypeOK, ToolGrantsCover, BetweenInv, LeaveBehind

LEMMA CoverAdvance == ASSUME CoverInv, Advance PROVE CoverInv'
  BY DEF CoverInv, AuthzTypeOK, ToolGrantsCover, BetweenInv, Advance, AfterPhase, Phases, Tail

LEMMA CoverFail == ASSUME CoverInv, Fail PROVE CoverInv'
  <1>1. AuthzTypeOK' /\ pc' \in {"idle", "open"}
    BY DEF CoverInv, AuthzTypeOK, Fail, Return
  <1>2. pc # "open" /\ UNCHANGED <<stored, toolGrants>>
    BY DEF Fail, Phases
  <1> QED  BY <1>1, <1>2, CoverQuiet DEF Phases, Tail

LEMMA CoverSetTools == ASSUME CoverInv, SetTools PROVE CoverInv'
  <1>1. /\ pc = "tools" /\ pc' = "kits"
        /\ UNCHANGED <<file, stamp, stored, kits, last, startup, target, current, left, result, crashes>>
        /\ toolGrants' = toolsIn(stored) \/ toolGrants' = toolGrants
    BY DEF SetTools
  <1>2. AuthzTypeOK'
    BY <1>1, ToolsType DEF CoverInv, AuthzTypeOK
  <1> QED  BY <1>1, <1>2 DEF CoverInv, ToolGrantsCover, BetweenInv, Phases, Tail

LEMMA CoverStoreKits == ASSUME CoverInv, StoreKits PROVE CoverInv'
  <1>1. target.kits \in [KitNames -> SUBSET Objects]
    BY AuthzAssumption DEF CoverInv, AuthzTypeOK, Policy
  <1> QED  BY <1>1 DEF CoverInv, AuthzTypeOK, ToolGrantsCover, BetweenInv, StoreKits, Phases, Tail

LEMMA CoverDone == ASSUME CoverInv, Done PROVE CoverInv'
  BY DEF CoverInv, AuthzTypeOK, ToolGrantsCover, BetweenInv, Done, Return, Phases, Tail

LEMMA CoverWatch == ASSUME CoverInv, Watch PROVE CoverInv'
  BY DEF CoverInv, AuthzTypeOK, ToolGrantsCover, BetweenInv, Watch, Phases, Tail

LEMMA CoverCrash == ASSUME CoverInv, Crash PROVE CoverInv'
  BY NoKitsType DEF CoverInv, AuthzTypeOK, ToolGrantsCover, BetweenInv, Crash, Phases, Tail

LEMMA CoverNext == CoverInv /\ [AuthzNext]_authzVars => CoverInv'
  <1> SUFFICES ASSUME CoverInv, [AuthzNext]_authzVars PROVE CoverInv'
    OBVIOUS
  <1>1. CASE UNCHANGED authzVars
    BY <1>1 DEF authzVars, CoverInv, AuthzTypeOK, ToolGrantsCover, BetweenInv
  <1>2. CASE \E p \in Policies \cup {Invalid} : Edit(p)
    BY <1>2, CoverEdit
  <1>3. CASE ApplyStep
    BY <1>3, CoverOpen, CoverPoll, CoverLoad, CoverReadCurrent, CoverChunk, CoverLeaveBehind,
       CoverAdvance, CoverSetTools, CoverStoreKits, CoverWatch DEF ApplyStep
  <1>4. CASE ApplyReturns
    BY <1>4, CoverDone, CoverFail DEF ApplyReturns
  <1>5. CASE Crash
    BY <1>5, CoverCrash
  <1> QED  BY <1>1, <1>2, <1>3, <1>4, <1>5 DEF AuthzNext

\* The types of the engine's state hold in every behaviour, and toolGrants
\* always covers the tools that have stored rules: after failed requests,
\* tuples left behind and crashes too (setToolGrants before and after the
\* phases of apply).
THEOREM ToolGrantsAlwaysCover == AuthzSpec => [](AuthzTypeOK /\ ToolGrantsCover)
  <1>1. CoverInv => AuthzTypeOK /\ ToolGrantsCover
    BY DEF CoverInv
  <1> QED  BY <1>1, CoverInit, CoverNext, PTL DEF AuthzSpec

-----------------------------------------------------------------------------
(* The phases.                                                             *)

LEMMA PhaseInit == AuthzInit => PhaseInv /\ AppliedExactly
  BY DEF AuthzInit, PhaseInv, AppliedExactly, Phases, Tail

\* A step that leaves the store and the policy applied alone.
LEMMA PhaseQuiet ==
    ASSUME PhaseInv, AppliedExactly, UNCHANGED <<stored, kits, target, left>>,
           pc' \notin Phases \cup Tail,
           result' = "ok" /\ pc' \in {"watch", "idle"} =>
              (result = "ok" /\ pc \in {"watch", "idle"}) \/ pc = "done"
    PROVE  (PhaseInv /\ AppliedExactly)'
  BY DEF PhaseInv, AppliedExactly, Phases, Tail

LEMMA PhaseReadCurrent == ASSUME ApplyInv, ReadCurrent PROVE (PhaseInv /\ AppliedExactly)'
  BY DEF ApplyInv, CoverInv, BetweenInv, PhaseInv, AppliedExactly, ReadCurrent,
         Phases, Tail, Grants, Denies

LEMMA PhaseChunk == ASSUME ApplyInv, NEW ts, Chunk(ts) PROVE (PhaseInv /\ AppliedExactly)'
  <1>1. /\ pc \in Phases /\ ts \subseteq Todo(pc)
        /\ UNCHANGED <<kits, pc, target, current, left, result>>
        /\ desired(target)' = desired(target)
        /\ stored' = IF pc \in {"newDenies", "newGrants"} THEN stored \cup ts ELSE stored \ ts
    BY DEF Chunk, desired, kitTuples
  <1>2. CASE pc = "newDenies"
    <2>1. stored' = stored \cup ts /\ ts \subseteq Denies(desired(target))
      BY <1>1, <1>2 DEF Todo, writes, Denies
    <2> QED  BY <1>1, <1>2, <2>1 DEF ApplyInv, PhaseInv, AppliedExactly, Tail, Grants, Denies
  <1>3. CASE pc = "oldGrants"
    <2>1. stored' = stored \ ts /\ ts \subseteq Grants(current) \ desired(target) /\ ts \cap left = {}
      BY <1>1, <1>3 DEF Todo, deletes, Grants
    <2> QED  BY <1>1, <1>3, <2>1 DEF ApplyInv, PhaseInv, AppliedExactly, Tail, Grants, Denies
  <1>4. CASE pc = "newGrants"
    <2>1. stored' = stored \cup ts /\ ts \subseteq Grants(desired(target))
      BY <1>1, <1>4 DEF Todo, writes, Grants
    <2> QED  BY <1>1, <1>4, <2>1 DEF ApplyInv, PhaseInv, AppliedExactly, Tail, Grants, Denies
  <1>5. CASE pc = "oldDenies"
    <2>1. stored' = stored \ ts /\ ts \cap desired(target) = {} /\ ts \cap left = {} /\ ts = Denies(ts)
      BY <1>1, <1>5 DEF Todo, deletes, Denies
    <2> QED  BY <1>1, <1>5, <2>1 DEF ApplyInv, PhaseInv, AppliedExactly, Tail, Grants, Denies
  <1> QED  BY <1>1, <1>2, <1>3, <1>4, <1>5 DEF Phases

\* A phase is over when nothing is left to do: this is where one phase's
\* promise becomes the next one's.
LEMMA PhaseAdvance == ASSUME ApplyInv, Advance PROVE (PhaseInv /\ AppliedExactly)'
  <1>1. /\ pc \in Phases /\ Todo(pc) = {} /\ pc' = AfterPhase(pc)
        /\ UNCHANGED <<stored, kits, target, current, left, result>>
        /\ desired(target)' = desired(target)
    BY DEF Advance, desired, kitTuples
  <1>2. CASE pc = "newDenies"
    <2>1. pc' = "oldGrants" /\ Denies(desired(target) \ current) \subseteq stored
      BY <1>1, <1>2 DEF Todo, writes, AfterPhase
    <2> QED  BY <1>1, <1>2, <2>1 DEF ApplyInv, PhaseInv, AppliedExactly, Tail, Denies
  <1>3. CASE pc = "oldGrants"
    <2>1. pc' = "newGrants" /\ Grants(current \ desired(target)) \cap stored \subseteq left
      BY <1>1, <1>3 DEF Todo, deletes, AfterPhase, ApplyInv, PhaseInv
    <2> QED  BY <1>1, <1>3, <2>1 DEF ApplyInv, PhaseInv, AppliedExactly, Tail, Grants
  <1>4. CASE pc = "newGrants"
    <2>1. pc' = "oldDenies" /\ Grants(desired(target) \ current) \subseteq stored
      BY <1>1, <1>4 DEF Todo, writes, AfterPhase
    <2> QED  BY <1>1, <1>4, <2>1 DEF ApplyInv, PhaseInv, AppliedExactly, Tail, Grants, Denies
  <1>5. CASE pc = "oldDenies"
    <2>1. pc' = "tools" /\ Denies(current \ desired(target)) \cap stored \subseteq left
      BY <1>1, <1>5 DEF Todo, deletes, AfterPhase, ApplyInv, PhaseInv
    <2>2. stored \subseteq current \cup desired(target)
      BY <1>1 DEF ApplyInv, CoverInv, BetweenInv
    <2>3. stored = desired(target) \cup left
      BY <1>1, <1>5, <2>1, <2>2 DEF ApplyInv, PhaseInv, Grants, Denies
    <2> QED  BY <1>1, <1>5, <2>1, <2>3 DEF ApplyInv, PhaseInv, AppliedExactly, Tail
  <1> QED  BY <1>1, <1>2, <1>3, <1>4, <1>5 DEF Phases

LEMMA PhaseLeaveBehind ==
    ASSUME ApplyInv, NEW t \in Tuple, LeaveBehind(t) PROVE (PhaseInv /\ AppliedExactly)'
  <1>1. /\ pc \in {"oldGrants", "oldDenies"} /\ t \in Todo(pc) /\ left' = left \cup {t}
        /\ UNCHANGED <<stored, kits, pc, target, current, result>>
        /\ desired(target)' = desired(target)
    BY DEF LeaveBehind, desired, kitTuples
  <1>2. t \in stored \ desired(target) /\ (pc = "oldGrants" => ~isDeny(t))
    BY <1>1 DEF Todo, deletes, Grants, Denies
  <1> QED  BY <1>1, <1>2 DEF ApplyInv, PhaseInv, AppliedExactly, Phases, Tail, Grants, Denies

LEMMA PhaseTail ==
    ASSUME ApplyInv, SetTools \/ StoreKits PROVE (PhaseInv /\ AppliedExactly)'
  BY DEF ApplyInv, PhaseInv, AppliedExactly, SetTools, StoreKits, Tail

LEMMA PhaseNext ==
    ASSUME ApplyInv, [AuthzNext]_authzVars
    PROVE  (PhaseInv /\ AppliedExactly)'
  <1>1. CASE UNCHANGED authzVars
    BY <1>1 DEF authzVars, ApplyInv, PhaseInv, AppliedExactly
  <1>2. CASE \E p \in Policies \cup {Invalid} : Edit(p)
    BY <1>2 DEF Edit, ApplyInv, PhaseInv, AppliedExactly
  <1>3. CASE Open
    BY <1>3 DEF Open, ApplyInv, PhaseInv, AppliedExactly, Phases, Tail
  <1>4. CASE Poll
    BY <1>4, PhaseQuiet DEF Poll, ApplyInv, PhaseInv, Phases, Tail
  <1>5. CASE Load
    BY <1>5 DEF Load, Return, ApplyInv, PhaseInv, AppliedExactly, Phases, Tail
  <1>6. CASE Fail
    BY <1>6, PhaseQuiet DEF Fail, Return, ApplyInv, PhaseInv, Phases, Tail
  <1>7. CASE Done
    BY <1>7, PhaseQuiet DEF Done, Return, ApplyInv, PhaseInv, Phases, Tail
  <1>8. CASE Watch
    BY <1>8, PhaseQuiet DEF Watch, ApplyInv, PhaseInv, Phases, Tail
  <1>9. CASE Crash
    BY <1>9 DEF Crash, ApplyInv, PhaseInv, AppliedExactly, Tail
  <1>10. CASE \E t \in Tuple : LeaveBehind(t)
    BY <1>10, PhaseLeaveBehind
  <1> QED  BY <1>1, <1>2, <1>3, <1>4, <1>5, <1>6, <1>7, <1>8, <1>9, <1>10, PhaseReadCurrent,
              PhaseChunk, PhaseAdvance, PhaseTail DEF AuthzNext, ApplyStep, ApplyReturns

LEMMA ApplyInvImplies == ApplyInv => NothingExtra /\ AppliedExactly
  <1> SUFFICES ASSUME ApplyInv PROVE NothingExtra
    BY DEF ApplyInv
  <1>1. CASE pc \in {"newDenies", "oldGrants"}
    <2>1. Grants(stored \ left) \subseteq current /\ Denies(current) \subseteq stored \ left
      BY <1>1 DEF ApplyInv, PhaseInv, Grants, Denies
    <2> QED  BY <2>1, FewerRights DEF NothingExtra
  <1>2. CASE pc \in {"newGrants", "oldDenies"} \cup Tail
    <2>1. Grants(stored \ left) \subseteq desired(target)
      BY <1>2 DEF ApplyInv, PhaseInv, Grants, Tail
    <2>2. Denies(desired(target)) \subseteq stored \ left
      BY <1>2 DEF ApplyInv, PhaseInv, Denies, Phases, Tail
    <2> QED  BY <2>1, <2>2, FewerRights DEF NothingExtra
  <1> QED  BY <1>1, <1>2 DEF NothingExtra, Phases, Tail

LEMMA ApplyInvAlways == AuthzSpec => []ApplyInv
  <1>1. AuthzInit => ApplyInv
    BY CoverInit, PhaseInit DEF ApplyInv
  <1>2. ApplyInv /\ [AuthzNext]_authzVars => ApplyInv'
    BY CoverNext, PhaseNext DEF ApplyInv
  <1> QED  BY <1>1, <1>2, PTL DEF AuthzSpec

\* No state of an apply, nor one where a failed request or a crash stopped
\* it, allows what neither the rules found nor the new rules allow (the order
\* of the phases in Embedded.apply).
THEOREM ApplyOrder == AuthzSpec => []NothingExtra
  BY ApplyInvAlways, ApplyInvImplies, PTL

\* An apply that returned success made the stored rules and the kits exactly
\* the policy's, whatever failed and crashed before it; tuples that
\* deleteTuples could not delete, and logged, are the only exception.
THEOREM SuccessIsExact == AuthzSpec => []AppliedExactly
  BY ApplyInvAlways, ApplyInvImplies, PTL
-----------------------------------------------------------------------------
(***************************************************************************)
(* The checks.  A step of AuthzChecks is a step of Authz or leaves its     *)
(* variables alone, so what holds of Authz holds here.                     *)
(***************************************************************************)
LEMMA ChecksStepOfAuthz == ASSUME [ChecksNext]_allVars PROVE [AuthzNext]_authzVars
  BY DEF ChecksNext, EditAlong, ApplyAlong, ReturnAlong, CrashAll, StartCheck, LoadParts, Answer, EndCheck,
         ReadKey, SetCache, AuthzNext, allVars

\* The tools that the kits name are among toolGrants, but between the last two
\* assignments of apply and after an apply that failed; between applies the
\* store has rules for them.
KitsCovered ==
    result # "error" => \A n \in KitNames :
        /\ pc # "kits" => kits[n] \cap Tools \subseteq toolGrants
        /\ pc \in {"load", "current", "watch", "idle"} => kits[n] \cap Tools \subseteq toolsIn(stored)

\* The kits of a policy are stored rules of it.
LEMMA KitTools ==
    ASSUME NEW p \in Policy, NEW n \in KitNames
    PROVE  p.kits[n] \cap Tools \subseteq toolsIn(desired(p))
  <1> SUFFICES ASSUME NEW o \in p.kits[n], o \in Tools  PROVE o \in toolsIn(desired(p))
    OBVIOUS
  <1> DEFINE t == [rel |-> "executor", user |-> n, object |-> o]
  <1>1. t \in Tuple /\ t.rel = "executor" /\ t.user = n /\ t.object = o
    BY DEF Tuple, Subjects, Objects
  <1> HIDE DEF t
  <1>2. t \in kitTuples(p)
    BY <1>1 DEF kitTuples
  <1> QED  BY <1>1, <1>2 DEF desired, toolsIn

\* A state of an apply that has stored everything, and after it.
LEMMA KitsStored ==
    ASSUME AuthzTypeOK, desired(target) \subseteq stored, toolsIn(stored) \subseteq toolGrants
    PROVE  \A n \in KitNames : /\ target.kits[n] \cap Tools \subseteq toolGrants
                               /\ target.kits[n] \cap Tools \subseteq toolsIn(stored)
  BY KitTools, ToolsMonotone, AuthzAssumption DEF AuthzTypeOK

LEMMA KitsCoveredNext ==
    ASSUME ApplyInv, KitsCovered, [AuthzNext]_authzVars
    PROVE  KitsCovered'
  <1> USE DEF KitsCovered
  <1>1. CASE UNCHANGED authzVars
    BY <1>1 DEF authzVars
  <1>2. ASSUME NEW p \in Policies \cup {Invalid}, Edit(p)  PROVE KitsCovered'
    BY <1>2 DEF Edit
  <1>3. CASE Open \/ Crash
    BY <1>3 DEF Open, Crash, NoKits
  <1>4. CASE Poll \/ Watch \/ (\E t \in Tuple : LeaveBehind(t)) \/ (pc \in Phases /\ \E ts \in SUBSET Todo(pc) : Chunk(ts))
    BY <1>4 DEF Poll, Watch, LeaveBehind, Chunk, Phases
  <1>5. CASE Load \/ Fail
    BY <1>5 DEF Load, Fail, Return
  <1>6. CASE ReadCurrent
    BY <1>6, ToolsMonotone DEF ReadCurrent
  <1>7. CASE Advance \/ SetTools
    BY <1>7 DEF Advance, SetTools, AfterPhase, Phases
  <1>8. CASE StoreKits
    <2>1. stored = desired(target) \cup left /\ toolsIn(stored) \subseteq toolGrants /\ AuthzTypeOK
      BY <1>8 DEF StoreKits, ApplyInv, PhaseInv, CoverInv, ToolGrantsCover, Tail
    <2> QED  BY <1>8, <2>1, KitsStored DEF StoreKits
  <1>9. CASE Done
    <2>1. stored = desired(target) \cup left /\ toolsIn(stored) \subseteq toolGrants /\ AuthzTypeOK /\ kits = target.kits
      BY <1>9 DEF Done, ApplyInv, PhaseInv, CoverInv, ToolGrantsCover, Tail
    <2> QED  BY <1>9, <2>1, KitsStored DEF Done
  <1> QED  BY <1>1, <1>2, <1>3, <1>4, <1>5, <1>6, <1>7, <1>8, <1>9 DEF AuthzNext, ApplyStep, ApplyReturns

\* Tools without stored rules that no kit in part stands for are decided by
\* their places.
LEMMA SameAnswer ==
    ASSUME toolsIn(stored) \subseteq toolGrants, NEW who, NEW extra, NEW t \in Tools \ toolGrants,
           NEW w \in Tools \ toolGrants, PlacesOf[t] = PlacesOf[w], extra \cap Tools \subseteq toolGrants
    PROVE  CanExecute(stored, who, extra, t) => CanExecute(stored, who, extra, w)
  <1>1. \A u \in stored : u.object \notin {t, w}
    BY DEF toolsIn
  <1>2. t \notin extra /\ w \notin extra
    OBVIOUS
  <1> QED  BY <1>1, <1>2 DEF CanExecute, Grants, Denies

\* CheckBatch, equivalenceKey: for any policies, kits held whole or in part,
\* failures and crashes, tools without rules of their own that are in the same
\* places have the same answer; for kits held in part, as long as the last
\* apply succeeded and outside its last two assignments.
THEOREM BatchAlwaysShares == ChecksSpec => []BatchMayShare
  <1>1. ChecksInit => ApplyInv /\ KitsCovered
    BY CoverInit, PhaseInit DEF ChecksInit, AuthzInit, ApplyInv, KitsCovered, NoKits
  <1>2. ApplyInv /\ KitsCovered /\ [ChecksNext]_allVars => ApplyInv' /\ KitsCovered'
    BY ChecksStepOfAuthz, CoverNext, PhaseNext, KitsCoveredNext DEF ApplyInv
  <1>3. ApplyInv /\ KitsCovered => BatchMayShare
    <2> SUFFICES ASSUME ApplyInv, KitsCovered, Serving, NEW who \in SUBSET Subjects, NEW held \in SUBSET HeldGrants,
                        NEW t \in Tools \ toolGrants, NEW w \in Tools \ toolGrants, PlacesOf[t] = PlacesOf[w]
                 PROVE  LET extra == IF pc = "kits" \/ result = "error" THEN {}
                                     ELSE partObjects({g \in Defined(held) : ~IsWhole(g)})
                        IN  CanExecute(stored, who, extra, t) <=> CanExecute(stored, who, extra, w)
      BY DEF BatchMayShare
    <2> DEFINE extra == IF pc = "kits" \/ result = "error" THEN {}
                        ELSE partObjects({g \in Defined(held) : ~IsWhole(g)})
    <2>1. toolsIn(stored) \subseteq toolGrants
      BY DEF ApplyInv, CoverInv, ToolGrantsCover, Serving
    <2>2. extra \cap Tools \subseteq toolGrants
      BY ChecksAssumption DEF partObjects, Defined, Held, KitsCovered
    <2> HIDE DEF extra
    <2>3. CanExecute(stored, who, extra, t) <=> CanExecute(stored, who, extra, w)
      BY <2>1, <2>2, SameAnswer
    <2> QED  BY <2>3 DEF extra
  <1> QED  BY <1>1, <1>2, <1>3, PTL DEF ChecksSpec
-----------------------------------------------------------------------------
(***************************************************************************)
(* Checks that do not overlap with an apply.  What such a check has read,  *)
(* from the cache or the store, is what is stored; and so is every entry   *)
(* of the cache until an apply changes the store.                          *)
(***************************************************************************)
CheckRec ==
    [pc : {"idle", "parts", "read", "answered"},
     caller : Callers \cup {NoCheck.caller}, tool : Tools \cup {NoCheck.tool},
     held : SUBSET HeldGrants, whole : SUBSET KitNames, parts : SUBSET HeldGrants, extra : SUBSET Objects,
     view : UNION {[D -> SUBSET Subjects] : D \in SUBSET Key}, unset : SUBSET Key, quiet : BOOLEAN]

\* Of a check in flight: what it has read is stored, and what it takes of the
\* kits is what the kits list.
ReadFresh(c) ==
    /\ \A j \in DOMAIN c.view : c.view[j] = Read(stored, j)
    /\ c.unset \subseteq DOMAIN c.view
    /\ DOMAIN c.view \subseteq KeysOf(c.tool)
    /\ c.pc = "answered" => DOMAIN c.view = KeysOf(c.tool)
    /\ \A n \in c.whole : \E g \in c.held : g.kit = n /\ IsWhole(g)
    /\ c.parts \subseteq c.held
    /\ \A o \in c.extra : \E g \in c.held : o \in g.part

CacheFresh ==
    pc \notin Phases \cup Tail => \A j \in Key : cache[j] # Miss => cache[j] = Read(stored, j)

FreshInv ==
    /\ chk \in [Checks -> CheckRec] /\ cache \in [Key -> (SUBSET Subjects) \cup {Miss}]
    /\ \A x \in Checks :
          /\ chk[x].pc = "idle" => chk[x] = NoCheck
          /\ chk[x].pc # "idle" => pc = "idle" /\ chk[x].tool \in Tools /\ ReadFresh(chk[x])
    /\ CacheFresh

LEMMA NoCheckType == NoCheck \in CheckRec /\ NoCheck.pc = "idle" /\ ~NoCheck.quiet
  <1>1. NoCheck.view \in [{} -> SUBSET Subjects]
    BY DEF NoCheck
  <1>2. NoCheck.view \in UNION {[D -> SUBSET Subjects] : D \in SUBSET Key}
    BY <1>1
  <1> QED  BY <1>2 DEF NoCheck, CheckRec

LEMMA ReadType == ASSUME AuthzTypeOK, NEW j \in Key PROVE Read(stored, j) \in SUBSET Subjects
  BY DEF Read, AuthzTypeOK, Tuple

\* One check moves on to r, and the rules stay.
LEMMA CheckMoves ==
    ASSUME FreshInv, NEW x \in Checks, NEW r \in CheckRec, chk' = [chk EXCEPT ![x] = r],
           UNCHANGED authzVars, cache' \in [Key -> (SUBSET Subjects) \cup {Miss}],
           \A j \in Key : cache'[j] # Miss => cache'[j] = cache[j] \/ cache'[j] = Read(stored, j),
           r.pc = "idle" => r = NoCheck,
           r.pc # "idle" => pc = "idle" /\ r.tool \in Tools /\ ReadFresh(r)
    PROVE  FreshInv'
  <1>1. UNCHANGED <<stored, kits, pc>>
    BY DEF authzVars
  <1>2. \A c : ReadFresh(c)' <=> ReadFresh(c)
    BY <1>1 DEF ReadFresh, Read, IsWhole
  <1>3. \A j : Read(stored, j)' = Read(stored, j)
    BY <1>1 DEF Read
  <1>4. chk' \in [Checks -> CheckRec] /\ chk'[x] = r /\ \A y \in Checks \ {x} : chk'[y] = chk[y]
    BY DEF FreshInv
  <1>5. CacheFresh'
    BY <1>1, <1>3 DEF FreshInv, CacheFresh
  <1>6. ASSUME NEW y \in Checks
        PROVE  /\ chk'[y].pc = "idle" => chk'[y] = NoCheck
               /\ chk'[y].pc # "idle" => pc' = "idle" /\ chk'[y].tool \in Tools /\ ReadFresh(chk'[y])
    BY <1>1, <1>4 DEF FreshInv
  <1>7. \A y \in Checks : ReadFresh(chk'[y]) => ReadFresh(chk[y])'
    BY <1>2
  <1> QED  BY <1>4, <1>5, <1>6, <1>7 DEF FreshInv

LEMMA StartFresh ==
    ASSUME ~ChecksDuringApply, ApplyInv, FreshInv, NEW x \in Checks, NEW c \in Callers, NEW t \in Tools,
           NEW held \in SUBSET HeldGrants, StartCheck(x, c, t, held)
    PROVE  FreshInv'
  <1> DEFINE whole == {g.kit : g \in {h \in Defined(held) : IsWhole(h)}}
             parts == {g \in Defined(held) : ~IsWhole(g)}
             r == [NoCheck EXCEPT !.pc = "parts", !.caller = c, !.tool = t, !.held = held, !.whole = whole,
                      !.parts = parts, !.quiet = (pc = "idle")]
  <1>1. pc = "idle" /\ chk' = [chk EXCEPT ![x] = r] /\ UNCHANGED authzVars /\ cache' = cache
    BY DEF StartCheck
  <1>2. whole \in SUBSET KitNames /\ parts \in SUBSET held /\ \A n \in whole : \E g \in held : g.kit = n /\ IsWhole(g)
    BY ChecksAssumption DEF Defined, Held
  <1>3. (pc = "idle") \in BOOLEAN
    OBVIOUS
  <1> HIDE DEF whole, parts
  <1>4. r \in CheckRec
    BY <1>2, <1>3, NoCheckType DEF CheckRec
  <1>5. /\ r.pc = "parts" /\ r.tool = t /\ r.held = held /\ r.whole = whole /\ r.parts = parts
        /\ r.view = NoCheck.view /\ r.unset = {} /\ r.extra = {} /\ DOMAIN r.view = {}
    BY DEF NoCheck
  <1> HIDE DEF r
  <1>6. ReadFresh(r)
    BY <1>2, <1>5 DEF ReadFresh
  <1>7. cache \in [Key -> (SUBSET Subjects) \cup {Miss}]
    BY DEF FreshInv
  <1> QED  BY <1>1, <1>4, <1>5, <1>6, <1>7, CheckMoves

LEMMA LoadPartsFresh ==
    ASSUME ApplyInv, FreshInv, NEW x \in Checks, LoadParts(x)
    PROVE  FreshInv'
  <1> DEFINE extra == partObjects(chk[x].parts)
             r == [chk[x] EXCEPT !.pc = "read", !.extra = extra]
  <1>1. chk[x].pc = "parts" /\ UNCHANGED authzVars /\ cache' = cache
    BY DEF LoadParts
  <1>2. chk[x] \in CheckRec /\ pc = "idle" /\ chk[x].tool \in Tools /\ ReadFresh(chk[x])
    BY <1>1 DEF FreshInv
  <1>3. extra \in SUBSET Objects /\ \A o \in extra : \E g \in chk[x].parts : o \in g.part
    <2>1. kits \in [KitNames -> SUBSET Objects]
      BY DEF ApplyInv, CoverInv, AuthzTypeOK
    <2>2. chk[x].parts \subseteq Held
      BY <1>2, ChecksAssumption DEF CheckRec
    <2> QED  BY <2>1, <2>2 DEF partObjects, Held
  <1> HIDE DEF extra
  <1>4. chk' = [chk EXCEPT ![x] = r]
    BY DEF LoadParts, FreshInv, extra
  <1>5. /\ r \in CheckRec /\ r.pc = "read" /\ r.tool = chk[x].tool /\ r.held = chk[x].held /\ r.whole = chk[x].whole
        /\ r.parts = chk[x].parts /\ r.view = chk[x].view /\ r.unset = chk[x].unset /\ r.extra = extra
    BY <1>2, <1>3 DEF CheckRec
  <1> HIDE DEF r
  <1>6. ReadFresh(r)
    BY <1>2, <1>3, <1>5 DEF ReadFresh
  <1>7. cache \in [Key -> (SUBSET Subjects) \cup {Miss}]
    BY DEF FreshInv
  <1> QED  BY <1>1, <1>2, <1>4, <1>5, <1>6, <1>7, CheckMoves

LEMMA ReadKeyFresh ==
    ASSUME ApplyInv, FreshInv, NEW x \in Checks, NEW key \in Key, ReadKey(x, key)
    PROVE  FreshInv'
  <1> DEFINE hit == cache[key] # Miss
             got == IF hit THEN cache[key] ELSE Read(stored, key)
             view == [j \in DOMAIN chk[x].view \cup {key} |-> IF j = key THEN got ELSE chk[x].view[j]]
             unset == IF hit THEN chk[x].unset ELSE chk[x].unset \cup {key}
             r == [chk[x] EXCEPT !.view = view, !.unset = unset]
  <1>1. chk[x].pc = "read" /\ UNCHANGED authzVars /\ cache' = cache /\ key \in KeysOf(chk[x].tool)
    BY DEF ReadKey
  <1>2. chk[x] \in CheckRec /\ pc = "idle" /\ chk[x].tool \in Tools /\ ReadFresh(chk[x])
    BY <1>1 DEF FreshInv
  <1>3. got = Read(stored, key) /\ got \in SUBSET Subjects
    <2>1. Read(stored, key) \in SUBSET Subjects
      BY ReadType DEF ApplyInv, CoverInv
    <2>2. hit => cache[key] = Read(stored, key)
      BY <1>2 DEF FreshInv, CacheFresh, Phases, Tail
    <2> QED  BY <2>1, <2>2
  <1>4. PICK D \in SUBSET Key : chk[x].view \in [D -> SUBSET Subjects]
    BY <1>2 DEF CheckRec
  <1>5. DOMAIN chk[x].view = D
    BY <1>4
  <1>6. chk' = [chk EXCEPT ![x] = r]
    BY DEF ReadKey, FreshInv
  <1> HIDE DEF got, hit
  <1>7. view \in [D \cup {key} -> SUBSET Subjects] /\ D \cup {key} \in SUBSET Key /\ DOMAIN view = D \cup {key}
    BY <1>3, <1>4, <1>5
  <1>8. \A j \in DOMAIN view : view[j] = Read(stored, j)
    BY <1>2, <1>3, <1>5, <1>7 DEF ReadFresh
  <1>9. view \in UNION {[E -> SUBSET Subjects] : E \in SUBSET Key}
    BY <1>7
  <1>10. unset \in SUBSET Key /\ unset \subseteq DOMAIN view
    BY <1>2, <1>5, <1>7 DEF CheckRec, ReadFresh
  <1>11. DOMAIN view \subseteq KeysOf(chk[x].tool)
    BY <1>1, <1>2, <1>5, <1>7 DEF ReadFresh
  <1> HIDE DEF view, unset
  <1>12. /\ r \in CheckRec /\ r.pc = "read" /\ r.tool = chk[x].tool /\ r.held = chk[x].held /\ r.whole = chk[x].whole
         /\ r.parts = chk[x].parts /\ r.view = view /\ r.unset = unset /\ r.extra = chk[x].extra
    BY <1>1, <1>2, <1>9, <1>10 DEF CheckRec
  <1> HIDE DEF r
  <1>13. ReadFresh(r)
    BY <1>2, <1>8, <1>10, <1>11, <1>12 DEF ReadFresh
  <1>14. cache \in [Key -> (SUBSET Subjects) \cup {Miss}]
    BY DEF FreshInv
  <1> QED  BY <1>1, <1>2, <1>6, <1>12, <1>13, <1>14, CheckMoves

LEMMA SetCacheFresh ==
    ASSUME ApplyInv, FreshInv, NEW x \in Checks, NEW key \in Key, SetCache(x, key)
    PROVE  FreshInv'
  <1> DEFINE r == [chk[x] EXCEPT !.unset = @ \ {key}]
  <1>1. key \in chk[x].unset /\ UNCHANGED authzVars /\ cache' = [cache EXCEPT ![key] = chk[x].view[key]]
    BY DEF SetCache
  <1>2. chk[x].pc # "idle"
    BY <1>1 DEF FreshInv, NoCheck
  <1>3. chk[x] \in CheckRec /\ pc = "idle" /\ chk[x].tool \in Tools /\ ReadFresh(chk[x])
    BY <1>2 DEF FreshInv
  <1>4. chk[x].view[key] = Read(stored, key) /\ Read(stored, key) \in SUBSET Subjects
    BY <1>1, <1>3, ReadType DEF ReadFresh, ApplyInv, CoverInv
  <1>5. cache \in [Key -> (SUBSET Subjects) \cup {Miss}]
    BY DEF FreshInv
  <1>6. /\ cache' \in [Key -> (SUBSET Subjects) \cup {Miss}]
        /\ \A j \in Key : cache'[j] # Miss => cache'[j] = cache[j] \/ cache'[j] = Read(stored, j)
    BY <1>1, <1>4, <1>5
  <1>7. chk' = [chk EXCEPT ![x] = r]
    BY DEF SetCache, FreshInv
  <1>8. /\ r \in CheckRec /\ r.pc = chk[x].pc /\ r.tool = chk[x].tool /\ r.held = chk[x].held /\ r.whole = chk[x].whole
        /\ r.parts = chk[x].parts /\ r.view = chk[x].view /\ r.unset = chk[x].unset \ {key} /\ r.extra = chk[x].extra
    BY <1>3 DEF CheckRec
  <1> HIDE DEF r
  <1>9. ReadFresh(r)
    BY <1>3, <1>8 DEF ReadFresh
  <1> QED  BY <1>1, <1>2, <1>3, <1>6, <1>7, <1>8, <1>9, CheckMoves

LEMMA AnswerFresh ==
    ASSUME FreshInv, NEW x \in Checks, Answer(x) \/ EndCheck(x)
    PROVE  FreshInv'
  <1>1. cache \in [Key -> (SUBSET Subjects) \cup {Miss}]
    BY DEF FreshInv
  <1>2. CASE Answer(x)
    <2> DEFINE r == [chk[x] EXCEPT !.pc = "answered"]
    <2>1. chk[x].pc = "read" /\ UNCHANGED authzVars /\ cache' = cache /\ DOMAIN chk[x].view = KeysOf(chk[x].tool)
      BY <1>2 DEF Answer
    <2>2. chk[x] \in CheckRec /\ pc = "idle" /\ chk[x].tool \in Tools /\ ReadFresh(chk[x])
      BY <2>1 DEF FreshInv
    <2>3. chk' = [chk EXCEPT ![x] = r]
      BY <1>2 DEF Answer, FreshInv
    <2>4. /\ r \in CheckRec /\ r.pc = "answered" /\ r.tool = chk[x].tool /\ r.held = chk[x].held
          /\ r.whole = chk[x].whole /\ r.parts = chk[x].parts /\ r.view = chk[x].view /\ r.unset = chk[x].unset
          /\ r.extra = chk[x].extra
      BY <2>2 DEF CheckRec
    <2> HIDE DEF r
    <2>5. ReadFresh(r)
      BY <2>1, <2>2, <2>4 DEF ReadFresh
    <2> QED  BY <1>1, <2>1, <2>2, <2>3, <2>4, <2>5, CheckMoves
  <1>3. CASE EndCheck(x)
    <2>1. chk' = [chk EXCEPT ![x] = NoCheck] /\ UNCHANGED authzVars /\ cache' = cache
      BY <1>3 DEF EndCheck
    <2> QED  BY <1>1, <2>1, NoCheckType, CheckMoves
  <1> QED  BY <1>2, <1>3

\* The steps of an apply: no check is in flight, so none is disturbed.
LEMMA IdleChecks ==
    ASSUME FreshInv, NoneInFlight
    PROVE  Disturbed = chk /\ chk = [x \in Checks |-> NoCheck]
  <1>1. chk = [x \in Checks |-> NoCheck]
    BY DEF FreshInv, NoneInFlight
  <1>2. [NoCheck EXCEPT !.quiet = FALSE] = NoCheck
    <2>1. NoCheck.quiet = FALSE
      BY DEF NoCheck
    <2>2. \A q : q = NoCheck.quiet => [NoCheck EXCEPT !.quiet = q] = NoCheck
      BY NoCheckType DEF CheckRec
    <2> QED  BY <2>1, <2>2
  <1> QED  BY <1>1, <1>2 DEF Disturbed

\* With no check in flight only the cache matters.
LEMMA QuietFresh ==
    ASSUME chk' = [x \in Checks |-> NoCheck], cache' \in [Key -> (SUBSET Subjects) \cup {Miss}], CacheFresh'
    PROVE  FreshInv'
  BY NoCheckType DEF FreshInv

LEMMA EmptyFresh == ASSUME cache' = EmptyCache PROVE cache' \in [Key -> (SUBSET Subjects) \cup {Miss}] /\ CacheFresh'
  BY DEF EmptyCache, CacheFresh

LEMMA ApplyFresh ==
    ASSUME ~ChecksDuringApply, ApplyInv, FreshInv, ApplyAlong
    PROVE  FreshInv'
  <1>1. NoneInFlight /\ ApplyStep /\ cache' = cache /\ chk' = Disturbed
    BY DEF ApplyAlong
  <1>2. chk' = [x \in Checks |-> NoCheck]
    BY <1>1, IdleChecks
  <1>3. pc' \notin Phases \cup Tail => pc \notin Phases \cup Tail /\ stored' = stored
    <2>1. CASE Open \/ Poll \/ Watch
      BY <2>1 DEF Open, Poll, Watch, Phases, Tail
    <2>2. CASE Load
      BY <2>2 DEF Load, Phases, Tail
    <2>3. CASE ReadCurrent \/ Advance \/ SetTools \/ StoreKits
      BY <2>3 DEF ReadCurrent, Advance, AfterPhase, SetTools, StoreKits, Phases, Tail
    <2>4. CASE (pc \in Phases /\ \E ts \in SUBSET Todo(pc) : Chunk(ts)) \/ \E t \in Tuple : LeaveBehind(t)
      BY <2>4 DEF Chunk, LeaveBehind, Phases, Tail
    <2> QED  BY <1>1, <2>1, <2>2, <2>3, <2>4 DEF ApplyStep
  <1>4. CacheFresh'
    BY <1>1, <1>3 DEF CacheFresh, FreshInv, Read
  <1>5. cache' \in [Key -> (SUBSET Subjects) \cup {Miss}]
    BY <1>1 DEF FreshInv
  <1> QED  BY <1>2, <1>4, <1>5, QuietFresh

LEMMA ReturnFresh ==
    ASSUME FreshInv, ReturnAlong \/ CrashAll
    PROVE  FreshInv'
  <1>1. cache' = EmptyCache
    BY DEF ReturnAlong, CrashAll, Invalidate
  <1>2. CASE CrashAll
    BY <1>1, <1>2, EmptyFresh, QuietFresh DEF CrashAll
  <1>3. CASE ReturnAlong
    <2>1. pc # "idle" /\ chk' = Disturbed
      BY <1>3 DEF ReturnAlong, ApplyReturns, Done, Fail, Phases
    <2>2. NoneInFlight
      BY <2>1 DEF FreshInv, NoneInFlight
    <2> QED  BY <1>1, <2>1, <2>2, IdleChecks, EmptyFresh, QuietFresh
  <1> QED  BY <1>2, <1>3

LEMMA EditFresh ==
    ASSUME FreshInv, UNCHANGED <<stored, kits, pc>>, UNCHANGED checkVars
    PROVE  FreshInv'
  <1>1. cache' = cache /\ chk' = chk
    BY DEF checkVars
  <1>2. \A x \in Checks : ReadFresh(chk[x])' <=> ReadFresh(chk[x])
    BY <1>1 DEF ReadFresh, Read, IsWhole
  <1>3. CacheFresh'
    BY <1>1 DEF FreshInv, CacheFresh, Read
  <1> QED  BY <1>1, <1>2, <1>3 DEF FreshInv

LEMMA FreshNext ==
    ASSUME ~ChecksDuringApply, ApplyInv, FreshInv, [ChecksNext]_allVars
    PROVE  FreshInv'
  <1>1. CASE UNCHANGED allVars
    BY <1>1, EditFresh DEF allVars, authzVars
  <1>2. ASSUME NEW p \in Policies \cup {Invalid}, EditAlong(p)  PROVE FreshInv'
    BY <1>2, EditFresh DEF EditAlong, Edit
  <1>3. ASSUME NEW x \in Checks, NEW c \in Callers, NEW t \in Tools, NEW held \in SUBSET HeldGrants,
               StartCheck(x, c, t, held)
        PROVE  FreshInv'
    BY <1>3, StartFresh
  <1>4. ASSUME NEW x \in Checks, NEW key \in Key, ReadKey(x, key) \/ SetCache(x, key)  PROVE FreshInv'
    BY <1>4, ReadKeyFresh, SetCacheFresh
  <1>5. ASSUME NEW x \in Checks, LoadParts(x) \/ Answer(x) \/ EndCheck(x)  PROVE FreshInv'
    BY <1>5, LoadPartsFresh, AnswerFresh
  <1>6. CASE ApplyAlong
    BY <1>6, ApplyFresh
  <1>7. CASE ReturnAlong \/ CrashAll
    BY <1>7, ReturnFresh
  <1> QED  BY <1>1, <1>2, <1>3, <1>4, <1>5, <1>6, <1>7 DEF ChecksNext

\* A check that has read all its keys has seen the stored rules of its tool.
LEMMA SeenIsStored ==
    ASSUME ApplyInv, FreshInv, NEW x \in Checks, chk[x].pc = "answered",
           NEW t \in Tuple, t.object \in PlacesOf[chk[x].tool] \cup {chk[x].tool}
    PROVE  t \in Seen(x) <=> t \in stored
  <1>1. ReadFresh(chk[x]) /\ DOMAIN chk[x].view = KeysOf(chk[x].tool)
    BY DEF FreshInv, ReadFresh
  <1>2. stored \subseteq Tuple
    BY DEF ApplyInv, CoverInv, AuthzTypeOK
  <1>3. ASSUME t \in Seen(x)  PROVE t \in stored
    <2>1. PICK j \in DOMAIN chk[x].view : t.rel = j.rel /\ t.object = j.object /\ t.user \in Read(stored, j)
      BY <1>1, <1>3 DEF Seen, ReadFresh
    <2>2. PICK s \in stored : s.rel = j.rel /\ s.object = j.object /\ s.user = t.user
      BY <2>1 DEF Read
    <2>3. s \in Tuple /\ s.rel = t.rel /\ s.object = t.object /\ s.user = t.user
      BY <1>2, <2>1, <2>2
    <2>4. s = t
      BY <2>3 DEF Tuple
    <2> QED  BY <2>2, <2>4
  <1>4. ASSUME t \in stored  PROVE t \in Seen(x)
    <2> DEFINE j == [rel |-> t.rel, object |-> t.object]
    <2>1. j \in Key /\ j.rel = t.rel /\ j.object = t.object
      BY DEF Key, Tuple
    <2> HIDE DEF j
    <2>2. j \in DOMAIN chk[x].view
      BY <1>1, <2>1 DEF KeysOf
    <2>3. t.user \in Read(stored, j)
      BY <1>4, <2>1 DEF Read
    <2> QED  BY <1>1, <2>1, <2>2, <2>3 DEF Seen, ReadFresh
  <1> QED  BY <1>3, <1>4

LEMMA ChecksInvAlways ==
    ASSUME ~ChecksDuringApply
    PROVE  ChecksSpec => [](ApplyInv /\ FreshInv)
  <1>1. ChecksInit => ApplyInv /\ FreshInv
    <2> SUFFICES ASSUME ChecksInit  PROVE ApplyInv /\ FreshInv
      OBVIOUS
    <2>1. ApplyInv
      BY CoverInit, PhaseInit DEF ChecksInit, ApplyInv
    <2>2. chk = [y \in Checks |-> NoCheck] /\ cache = [j \in Key |-> Miss]
      BY DEF ChecksInit, EmptyCache
    <2>3. FreshInv
      BY <2>2, NoCheckType DEF FreshInv, CacheFresh
    <2> QED  BY <2>1, <2>3
  <1>2. ApplyInv /\ FreshInv /\ [ChecksNext]_allVars => ApplyInv' /\ FreshInv'
    BY ChecksStepOfAuthz, CoverNext, PhaseNext, FreshNext DEF ApplyInv
  <1> QED  BY <1>1, <1>2, PTL DEF ChecksSpec

\* Embedded.Check, epochCache: for any rules, applies that fail or crash
\* halfway and number of checks that share the cache, a check that does not
\* overlap with an apply is answered by the rules that are stored.
THEOREM ChecksAreFresh ==
    ASSUME ~ChecksDuringApply
    PROVE  ChecksSpec => []FreshAfterApply
  <1>1. ApplyInv /\ FreshInv => FreshAfterApply
    <2> SUFFICES ASSUME ApplyInv, FreshInv, NEW x \in Checks, chk[x].pc = "answered"
                 PROVE  Allowed(x) <=> CanExecute(stored, Who(x), chk[x].extra, chk[x].tool)
      BY DEF FreshAfterApply
    <2>1. stored \subseteq Tuple /\ Seen(x) \subseteq Tuple
      BY DEF ApplyInv, CoverInv, AuthzTypeOK, Seen
    <2>2. \A t \in Tuple : t.object \in PlacesOf[chk[x].tool] \cup {chk[x].tool} => (t \in Seen(x) <=> t \in stored)
      BY SeenIsStored
    <2> QED  BY <2>1, <2>2 DEF Allowed, CanExecute, Grants, Denies
  <1> QED  BY <1>1, ChecksInvAlways, PTL

\* KitPart, IsWhole: for any kits and grants of them, a caller who holds parts
\* of kits gets nothing but what it may do without them and the entries of its
\* parts, however the kits changed since the parts were granted.
THEOREM PartsAlwaysNarrow ==
    ASSUME ~ChecksDuringApply
    PROVE  ChecksSpec => []PartOnlyNarrows
  <1>1. ApplyInv /\ FreshInv => PartOnlyNarrows
    <2> SUFFICES ASSUME ApplyInv, FreshInv, NEW x \in Checks, stored = desired(target), kits = target.kits,
                        chk[x].pc = "answered", Allowed(x), \A g \in chk[x].held : g.part # {},
                        \A g \in chk[x].held : g.part \cap (PlacesOf[chk[x].tool] \cup {chk[x].tool}) = {}
                 PROVE  CanExecute(Seen(x), {chk[x].caller}, {}, chk[x].tool)
      BY DEF PartOnlyNarrows
    <2> DEFINE objects == PlacesOf[chk[x].tool] \cup {chk[x].tool}
    <2>1. ReadFresh(chk[x])
      BY DEF FreshInv
    <2>2. chk[x].extra \cap objects = {}
      BY <2>1 DEF ReadFresh
    <2>3. /\ \E t \in Grants(Seen(x)) : t.user \in Who(x) /\ t.object \in objects
          /\ ~ \E t \in Denies(Seen(x)) : t.user \in {chk[x].caller} /\ t.object \in objects
      BY <2>2 DEF Allowed, CanExecute, Who
    <2>4. PICK t \in Grants(Seen(x)) : t.user \in Who(x) /\ t.object \in objects
      BY <2>3
    <2>5. t \in Tuple /\ t \in stored /\ t.rel = "executor"
      BY <2>4, SeenIsStored DEF Grants, isDeny, Seen, Tuple
    <2>6. t.user \notin chk[x].whole
      <3> SUFFICES ASSUME t.user \in chk[x].whole  PROVE FALSE
        OBVIOUS
      <3>1. PICK g \in chk[x].held : g.kit = t.user /\ kits[g.kit] \subseteq g.part
        BY <2>1 DEF ReadFresh, IsWhole
      <3>2. t.user \in KitNames
        BY DEF FreshInv, CheckRec
      <3>3. t.object \in target.kits[t.user]
        <4>1. t \in tuplesOf("executor", target.grants) \/ t \in tuplesOf("blocked", target.denies) \/ t \in kitTuples(target)
          BY <2>5 DEF desired
        <4>2. t \notin tuplesOf("blocked", target.denies)
          BY <2>5 DEF tuplesOf
        <4>3. t \notin tuplesOf("executor", target.grants)
          <5>1. target.grants \subseteq Callers \X Objects
            BY AuthzAssumption DEF ApplyInv, CoverInv, AuthzTypeOK, Policy
          <5> QED  BY <3>2, <5>1, AuthzAssumption DEF tuplesOf
        <4> QED  BY <4>1, <4>2, <4>3 DEF kitTuples
      <3> QED  BY <2>4, <3>1, <3>3
    <2>7. t.user = chk[x].caller
      BY <2>4, <2>6 DEF Who
    <2> QED  BY <2>3, <2>4, <2>7 DEF CanExecute
  <1> QED  BY <1>1, ChecksInvAlways, PTL
=============================================================================
