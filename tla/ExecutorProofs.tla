--------------------------- MODULE ExecutorProofs ---------------------------
(***************************************************************************)
(* For every set of calls, users, backends, tools and grants: the types of *)
(* Executor, the truth of its audit entries, and, as long as backends.yaml *)
(* is not reloaded, that nothing reaches a backend unchecked.              *)
(***************************************************************************)
EXTENDS Executor, FiniteSetTheorems, TLAPS, WellFoundedInduction

(***************************************************************************)
(* A set of numbers that is not empty has a least one.                     *)
(***************************************************************************)
LEMMA LeastExists ==
    ASSUME NEW T \in SUBSET Nat, T # {}
    PROVE  \E x \in T : \A y \in T : x <= y
<1> DEFINE R == OpToRel(<, Nat)
<1>1. \E x \in T : \A y \in T : ~(<<y, x>> \in R)
  <2>1. IsWellFoundedOn(R, Nat)
    BY NatLessThanWellFounded
  <2> HIDE DEF R
  <2> QED  BY <2>1, WFMin
<1>2. PICK x \in T : \A y \in T : ~(<<y, x>> \in R)
  BY <1>1
<1>3. ASSUME NEW y \in T  PROVE x <= y
  <2>1. ~(<<y, x>> \in R)
    BY <1>2
  <2> QED  BY <2>1 DEF OpToRel
<1> QED  BY <1>3

(***************************************************************************)
(* The names found for a tool are shorter than it, so one of them is the   *)
(* longest: longestPrefix returns a candidate whenever there is one.       *)
(***************************************************************************)
LEMMA LongestPrefixFound ==
    ASSUME NEW s, BackendNames(s) \subseteq Seq(STRING), NEW tool \in Seq(STRING),
           Candidates(tool, s) # {}
    PROVE  longestPrefix(tool, s) \in Candidates(tool, s)
<1> DEFINE C == Candidates(tool, s)
           D == {Len(tool) - Len(n) : n \in C}
<1>1. \A n \in C : n \in Seq(STRING) /\ Len(n) \in Nat /\ Len(n) < Len(tool)
  BY DEF Candidates, hasPrefix
<1>2. Len(tool) \in Nat
  OBVIOUS
<1>3. D \in SUBSET Nat /\ D # {}
  BY <1>1, <1>2
<1>4. PICK d \in D : \A e \in D : d <= e
  <2> HIDE DEF D
  <2> QED  BY <1>3, LeastExists
<1>5. PICK n \in C : d = Len(tool) - Len(n)
  BY <1>4
<1>6. \A m \in C : Len(m) <= Len(n)
  <2> SUFFICES ASSUME NEW m \in C  PROVE Len(m) <= Len(n)
    OBVIOUS
  <2>1. d <= Len(tool) - Len(m)
    BY <1>4
  <2> QED  BY <2>1, <1>5, <1>1, <1>2
<1> QED  BY <1>5, <1>6 DEF longestPrefix

LEMMA RouteType ==
    ASSUME CompOK, NEW tool \in AllTools
    PROVE  longestPrefix(tool, comp) \in Names /\ LookupTool(tool) \in Classes
<1>1. PICK cfg \in Configs, units \in SUBSET Units, guarded \in BOOLEAN :
         comp = [rest |-> cfg.rest, mcp |-> cfg.mcp, units |-> units, guarded |-> guarded]
  BY DEF CompOK
<1>2. BackendNames(comp) \subseteq Names
  <2>1. DOMAIN cfg.rest \cup cfg.mcp \subseteq Names
    BY DEF Names
  <2>2. units \subseteq Names
    BY DEF Names
  <2>3. comp.rest = cfg.rest /\ comp.mcp = cfg.mcp /\ comp.units = units
    BY <1>1
  <2> QED  BY <2>1, <2>2, <2>3 DEF BackendNames, Named
<1>3. BackendNames(comp) \subseteq Seq(STRING) /\ tool \in Seq(STRING)
  BY <1>2, NamesAssumption
<1>4. longestPrefix(tool, comp) \in Names
  <2>1. CASE Candidates(tool, comp) = {}
    BY <2>1 DEF longestPrefix, Names
  <2>2. CASE Candidates(tool, comp) # {}
    <3>1. longestPrefix(tool, comp) \in Candidates(tool, comp)
      BY <1>3, <2>2, LongestPrefixFound
    <3> QED  BY <3>1, <1>2 DEF Candidates
  <2> QED  BY <2>1, <2>2
<1>5. LookupTool(tool) \in Classes
  <2> DEFINE b == longestPrefix(tool, comp)
  <2>1. CASE b \in DOMAIN comp.rest /\ tool \in DOMAIN comp.rest[b]
    <3> HIDE DEF b
    <3>1. b \in DOMAIN cfg.rest /\ tool \in DOMAIN cfg.rest[b]
      BY <1>1, <2>1
    <3>2. cfg.rest[b][tool] \in Classes
      BY <3>1 DEF Classes
    <3>3. LookupTool(tool) = cfg.rest[b][tool]
      BY <1>1, <2>1 DEF LookupTool, b
    <3> QED  BY <3>2, <3>3
  <2>2. CASE ~(b \in DOMAIN comp.rest /\ tool \in DOMAIN comp.rest[b])
    BY <2>2 DEF LookupTool, Classes
  <2> QED  BY <2>1, <2>2
<1> QED  BY <1>4, <1>5
(***************************************************************************)
(* The parts of the type invariant that the pipeline's steps change.       *)
(***************************************************************************)
LEMMA RecordTypes ==
    ASSUME ExecutorTypeOK, NEW c \in Calls, NEW r \in CallRecord, Set(c, r)
    PROVE  call' \in [Calls -> CallRecord]
  BY DEF ExecutorTypeOK, Set

LEMMA RefuseType ==
    ASSUME NEW c \in Calls, NEW r \in CallRecord, NEW status \in Statuses,
           Refuse(c, r, status), ExecutorTypeOK
    PROVE  call' \in [Calls -> CallRecord]
<1> DEFINE q == IF r.child THEN [r EXCEPT !.pc = "script"]
                ELSE [r EXCEPT !.pc = "audit", !.status = status]
<1>1. q \in CallRecord
  BY DEF CallRecord
<1>2. Set(c, q)
  BY DEF Refuse
<1> QED  BY <1>1, <1>2, RecordTypes

LEMMA ResultType ==
    ASSUME NEW r \in CallRecord, NEW outcome \in Outcomes
    PROVE  Result(r, outcome) \in CallRecord
  BY DEF Result, Outcomes, CallRecord, Statuses

LEMMA ReachType ==
    ASSUME ExecutorTypeOK, NEW c \in Calls, NEW r \in CallRecord, NEW by \in Names, NEW outcome,
           Reach(c, r, by, outcome)
    PROVE  effects' \subseteq [call : Calls, tool : AllTools, by : Names, for : Names,
                               access : Classes, checked : BOOLEAN]
<1>1. Effect(c, r, by) \in [call : Calls, tool : AllTools, by : Names, for : Names,
                            access : Classes, checked : BOOLEAN]
  BY DEF Effect, CallRecord
<1> QED  BY <1>1 DEF Reach, ExecutorTypeOK

(***************************************************************************)
(* Every step keeps the types.                                             *)
(***************************************************************************)
LEMMA TypeStep ==
    ASSUME ExecutorTypeOK, [Next]_vars
    PROVE  ExecutorTypeOK'
<1> USE ExecutorAssumption
<1> DEFINE E == [call : Calls, tool : AllTools, by : Names, for : Names,
                 access : Classes, checked : BOOLEAN]
<1>0. \A c \in Calls : call[c] \in CallRecord
  BY DEF ExecutorTypeOK
<1>1. CASE LoadUnits
  <2>1. CompOK'
    <3>1. PICK cfg \in Configs, units \in SUBSET Units, guarded \in BOOLEAN :
             comp = [rest |-> cfg.rest, mcp |-> cfg.mcp, units |-> units, guarded |-> guarded]
      BY DEF ExecutorTypeOK, CompOK
    <3>2. comp' = [rest |-> cfg.rest, mcp |-> cfg.mcp,
                   units |-> Units \ BackendNames(comp), guarded |-> guarded]
      BY <1>1, <3>1 DEF LoadUnits
    <3> QED  BY <3>2 DEF CompOK
  <2> QED  BY <1>1, <2>1 DEF LoadUnits, ExecutorTypeOK
<1>2. CASE SetChildGuard
  <2>1. CompOK'
    <3>1. PICK cfg \in Configs, units \in SUBSET Units, guarded \in BOOLEAN :
             comp = [rest |-> cfg.rest, mcp |-> cfg.mcp, units |-> units, guarded |-> guarded]
      BY DEF ExecutorTypeOK, CompOK
    <3>2. comp' = [rest |-> cfg.rest, mcp |-> cfg.mcp, units |-> units, guarded |-> TRUE]
      BY <1>2, <3>1 DEF SetChildGuard
    <3> QED  BY <3>2 DEF CompOK
  <2> QED  BY <1>2, <2>1 DEF SetChildGuard, ExecutorTypeOK
<1>3. ASSUME NEW cfg \in Configs, Reload(cfg)  PROVE ExecutorTypeOK'
  <2>1. CompOK'
    BY <1>3 DEF Reload, Built, CompOK
  <2> QED  BY <1>3, <2>1 DEF Reload, ExecutorTypeOK
<1>4. ASSUME NEW c \in Calls, call' \in [Calls -> CallRecord], UNCHANGED <<boot, comp, reloads>>,
             window' \in [{UserOf[d] : d \in Calls} -> Nat], effects' \subseteq E,
             entries' \in [Calls -> Seq(Statuses)]
      PROVE  ExecutorTypeOK'
  BY <1>4 DEF ExecutorTypeOK, CompOK
<1>5. ASSUME NEW c \in Calls, NEW tool \in Tools, ExecuteTool(c, tool)  PROVE ExecutorTypeOK'
  <2> DEFINE q == [Idle EXCEPT !.pc = "authz", !.tool = tool, !.cur = tool, !.access = LookupTool(tool)]
  <2>1. tool \in AllTools /\ <<>> \in AllTools /\ <<>> \in Names /\ Unclassified \in Classes
    BY DEF AllTools, Names, Classes
  <2>2. LookupTool(tool) \in Classes
    BY <2>1, RouteType DEF ExecutorTypeOK
  <2>3. q \in CallRecord
    BY <2>1, <2>2 DEF Idle, CallRecord, Statuses
  <2>4. call' \in [Calls -> CallRecord]
    BY <1>5, <2>3, RecordTypes DEF ExecuteTool
  <2> QED  BY <1>5, <2>4, <1>4 DEF ExecuteTool, ExecutorTypeOK
<1>6. ASSUME NEW c \in Calls, Authorize(c)  PROVE ExecutorTypeOK'
  <2> DEFINE r == [call[c] EXCEPT !.backend = ResolveBackendName(call[c].cur)]
  <2>1. call[c].cur \in AllTools
    BY <1>0 DEF CallRecord
  <2>2. ResolveBackendName(call[c].cur) \in Names
    BY <2>1, RouteType DEF ResolveBackendName, ExecutorTypeOK
  <2>3. r \in CallRecord
    BY <2>2, <1>0 DEF CallRecord
  <2>4. \A covered \in {FALSE, KitMayCover} :
           [r EXCEPT !.pc = "record", !.covered = covered] \in CallRecord
    BY <2>3 DEF CallRecord
  <2> HIDE DEF r
  <2>5. call' \in [Calls -> CallRecord]
    <3>1. \/ Refuse(c, r, "error") \/ Refuse(c, r, "denied")
          \/ \E covered \in {FALSE, KitMayCover} :
                Set(c, [r EXCEPT !.pc = "record", !.covered = covered])
      BY <1>6 DEF Authorize, r
    <3>2. "error" \in Statuses /\ "denied" \in Statuses
      BY DEF Statuses
    <3> QED  BY <3>1, <3>2, <2>3, <2>4, RefuseType, RecordTypes
  <2> QED  BY <1>6, <2>5, <1>4 DEF Authorize, ExecutorTypeOK
<1>7. ASSUME NEW c \in Calls, Record(c)  PROVE ExecutorTypeOK'
  <2>1. [call[c] EXCEPT !.pc = "policies"] \in CallRecord
    BY <1>0 DEF CallRecord
  <2>2. call' \in [Calls -> CallRecord]
    BY <1>7, <2>1, RecordTypes DEF Record
  <2>3. window' \in [{UserOf[d] : d \in Calls} -> Nat]
    BY <1>7 DEF Record, ExecutorTypeOK
  <2> QED  BY <1>7, <2>2, <2>3, <1>4 DEF Record, ExecutorTypeOK
<1>8. ASSUME NEW c \in Calls, Policies(c)  PROVE ExecutorTypeOK'
  <2> DEFINE r == call[c]
  <2>1. /\ r \in CallRecord
        /\ [r EXCEPT !.pc = "run", !.cleared = TRUE] \in CallRecord
        /\ [r EXCEPT !.pc = "audit"] \in CallRecord
    <3>1. r \in CallRecord
      BY <1>0
    <3> HIDE DEF r
    <3>4. [r EXCEPT !.pc = "run", !.cleared = TRUE] \in CallRecord
      BY <3>1 DEF CallRecord
    <3>5. [r EXCEPT !.pc = "audit"] \in CallRecord
      BY <3>1 DEF CallRecord
    <3> QED  BY <3>1, <3>4, <3>5
  <2>2. \/ Refuse(c, r, "denied")
        \/ Set(c, [r EXCEPT !.pc = "run", !.cleared = TRUE])
        \/ Set(c, [r EXCEPT !.pc = "audit"])
    BY <1>8 DEF Policies
  <2>3. "denied" \in Statuses
    BY DEF Statuses
  <2>4. call' \in [Calls -> CallRecord]
    BY <2>1, <2>2, <2>3, RefuseType, RecordTypes
  <2> QED  BY <1>8, <2>4, <1>4 DEF Policies, ExecutorTypeOK
<1>9. ASSUME NEW c \in Calls, Execute(c)  PROVE ExecutorTypeOK'
  <2> DEFINE r == [call[c] EXCEPT !.cleared = FALSE]
             b == longestPrefix(r.tool, comp)
             here == b \in DOMAIN comp.rest /\ r.tool \in DOMAIN comp.rest[b]
             q == [r EXCEPT !.pc = "script", !.child = TRUE, !.adapter = b,
                            !.guarded = comp.guarded, !.api = DOMAIN comp.rest[b] \ Composites,
                            !.left = MaxAPICalls]
  <2>0. call[c] \in CallRecord
    BY <1>0
  <2>1. r \in CallRecord
    BY <2>0 DEF CallRecord
  <2>2. r.tool \in AllTools
    BY <2>1 DEF CallRecord
  <2>3. b \in Names
    BY <2>2, RouteType DEF ExecutorTypeOK
  <2>4. PICK cfg \in Configs, units \in SUBSET Units, guarded \in BOOLEAN :
           comp = [rest |-> cfg.rest, mcp |-> cfg.mcp, units |-> units, guarded |-> guarded]
    BY DEF ExecutorTypeOK, CompOK
  <2>5. matchBackend(r.tool) \subseteq Names
    BY <2>4 DEF matchBackend, Names
  <2>6. here => q \in CallRecord
    <3> HIDE DEF b, r
    <3>1. b \in DOMAIN cfg.rest => DOMAIN cfg.rest[b] \subseteq AllTools
      BY DEF AllTools
    <3> QED  BY <3>1, <2>1, <2>3, <2>4 DEF CallRecord
  <2>7. \/ here /\ Set(c, q) /\ UNCHANGED effects
        \/ \E outcome \in Outcomes :
              /\ Set(c, Result(r, outcome))
              /\ \/ Reach(c, call[c], b, outcome)
                 \/ \E n \in matchBackend(r.tool) : Reach(c, call[c], n, outcome)
                 \/ UNCHANGED effects
    BY <1>9 DEF Execute
  <2> HIDE DEF r, b, here, q
  <2>8. call' \in [Calls -> CallRecord]
    <3>1. \A outcome \in Outcomes : Result(r, outcome) \in CallRecord
      BY <2>1, ResultType
    <3> QED  BY <2>6, <2>7, <3>1, RecordTypes
  <2>9. effects' \subseteq E
    <3>1. UNCHANGED effects => effects' \subseteq E
      BY DEF ExecutorTypeOK
    <3>2. \A n \in Names : \A outcome : Reach(c, call[c], n, outcome) => effects' \subseteq E
      BY <1>0, ReachType
    <3> QED  BY <2>3, <2>5, <2>7, <3>1, <3>2
  <2> HIDE DEF E
  <2> QED  BY <1>9, <2>8, <2>9, <1>4 DEF Execute, ExecutorTypeOK
<1>10. ASSUME NEW c \in Calls, NEW tool \in call[c].api, APICall(c, tool)  PROVE ExecutorTypeOK'
  <2> DEFINE r == [call[c] EXCEPT !.left = @ - 1, !.cur = tool]
  <2>1. tool \in AllTools
    BY <1>0 DEF CallRecord
  <2>2. r \in CallRecord
    <3>1. call[c] \in CallRecord /\ call[c].left > 0
      BY <1>0, <1>10 DEF APICall
    <3>2. call[c].left - 1 \in Nat
      BY <3>1 DEF CallRecord
    <3> DEFINE k == call[c].left - 1
    <3>3. r = [call[c] EXCEPT !.left = k, !.cur = tool]
      OBVIOUS
    <3> HIDE DEF k
    <3>4. k \in Nat
      BY <3>2 DEF k
    <3> HIDE DEF r
    <3> QED  BY <3>1, <3>3, <3>4, <2>1 DEF CallRecord
  <2>3. LookupTool(tool) \in Classes
    BY <2>1, RouteType DEF ExecutorTypeOK
  <2>4. /\ [r EXCEPT !.pc = "authz", !.access = LookupTool(tool)] \in CallRecord
        /\ [r EXCEPT !.pc = "run"] \in CallRecord
    <3> HIDE DEF r
    <3> QED  BY <2>2, <2>3 DEF CallRecord
  <2>5. \/ Set(c, [r EXCEPT !.pc = "authz", !.access = LookupTool(tool)])
        \/ Set(c, [r EXCEPT !.pc = "run"])
    BY <1>10 DEF APICall
  <2> HIDE DEF r
  <2>6. call' \in [Calls -> CallRecord]
    BY <2>4, <2>5, RecordTypes
  <2> QED  BY <1>10, <2>6, <1>4 DEF APICall, ExecutorTypeOK
<1>11. ASSUME NEW c \in Calls, RunChild(c)  PROVE ExecutorTypeOK'
  <2>1. [call[c] EXCEPT !.pc = "script", !.cleared = FALSE] \in CallRecord /\ call[c].adapter \in Names
    BY <1>0, ZenonT(40) DEF CallRecord
  <2>2. call' \in [Calls -> CallRecord]
    BY <1>11, <2>1, RecordTypes DEF RunChild
  <2>3. effects' \subseteq E
    <3>1. \E outcome \in {"success", "error"} : Reach(c, call[c], call[c].adapter, outcome)
      BY <1>11 DEF RunChild
    <3> QED  BY <3>1, <2>1, <1>0, ReachType
  <2> QED  BY <1>11, <2>2, <2>3, <1>4 DEF RunChild, ExecutorTypeOK
<1>12. ASSUME NEW c \in Calls, EndScript(c)  PROVE ExecutorTypeOK'
  <2>1. \A outcome \in Outcomes : Result(call[c], outcome) \in CallRecord
    BY <1>0, ResultType
  <2>2. \E outcome \in Outcomes : Set(c, Result(call[c], outcome))
    BY <1>12 DEF EndScript, Outcomes
  <2>3. call' \in [Calls -> CallRecord]
    BY <2>1, <2>2, RecordTypes
  <2> QED  BY <1>12, <2>3, <1>4 DEF EndScript, ExecutorTypeOK
<1>13. ASSUME NEW c \in Calls, Cancel(c)  PROVE ExecutorTypeOK'
  <2>1. [call[c] EXCEPT !.cancelled = TRUE] \in CallRecord
    BY <1>0, ZenonT(40) DEF CallRecord
  <2>2. call' \in [Calls -> CallRecord]
    BY <1>13, <2>1, RecordTypes DEF Cancel
  <2> QED  BY <1>13, <2>2, <1>4 DEF Cancel, ExecutorTypeOK
<1>14. ASSUME NEW c \in Calls, recordAudit(c)  PROVE ExecutorTypeOK'
  <2>1. [call[c] EXCEPT !.pc = "done"] \in CallRecord /\ call[c].status \in Statuses
    BY <1>0 DEF CallRecord
  <2>2. call' \in [Calls -> CallRecord]
    BY <1>14, <2>1, RecordTypes DEF recordAudit
  <2>3. entries' \in [Calls -> Seq(Statuses)]
    BY <1>14, <2>1 DEF recordAudit, ExecutorTypeOK
  <2> QED  BY <1>14, <2>2, <2>3, <1>4 DEF recordAudit, ExecutorTypeOK
<1>15. CASE UNCHANGED vars
  BY <1>15 DEF vars, ExecutorTypeOK, CompOK
<1> QED
  BY <1>1, <1>2, <1>3, <1>5, <1>6, <1>7, <1>8, <1>9, <1>10, <1>11, <1>12, <1>13, <1>14, <1>15
     DEF Next, Step, Finished

(***************************************************************************)
(* Executor keeps its types.                                               *)
(***************************************************************************)
THEOREM ExecutorTypeCorrect == Spec => []ExecutorTypeOK
<1>1. Init => ExecutorTypeOK
  <2> SUFFICES ASSUME Init  PROVE ExecutorTypeOK
    OBVIOUS
  <2>1. CompOK
    BY DEF Init, Built, CompOK
  <2>2. Idle \in CallRecord
    BY DEF Idle, CallRecord, AllTools, Names, Classes, Statuses
  <2> QED  BY <2>1, <2>2, ExecutorAssumption DEF Init, ExecutorTypeOK
<1>2. ExecutorTypeOK /\ [Next]_vars => ExecutorTypeOK'
  BY TypeStep
<1> QED  BY <1>1, <1>2, PTL DEF Spec
-----------------------------------------------------------------------------
(***************************************************************************)
(* The invariant behind EveryEffectChecked: a composite runs on a guarded  *)
(* adapter, and from the authorizer's decision to the run the call carries *)
(* a request that was allowed.                                             *)
(***************************************************************************)
CallChecked(r) ==
    /\ r.child => r.guarded
    /\ r.pc = "script" => r.child
    /\ r.pc \in {"record", "policies"} /\ r.phase = "pre" => Permits(r.backend, r.access)
    /\ r.pc = "run" => r.cleared /\ Permits(r.backend, r.access)

CheckInv ==
    /\ EveryEffectChecked
    /\ boot = "serving" => comp.guarded
    /\ \A c \in Calls : CallChecked(call[c]) /\ (call[c].pc # "idle" => boot = "serving")

\* One call moves on; nothing else that CheckInv speaks of changes.
LEMMA CheckMove ==
    ASSUME ExecutorTypeOK, CheckInv, NEW c \in Calls, NEW q, Set(c, q), CallChecked(q),
           UNCHANGED <<boot, comp>>, boot = "serving", EveryEffectChecked'
    PROVE  CheckInv'
<1>1. \A d \in Calls : call'[d] = IF d = c THEN q ELSE call[d]
  BY DEF Set, ExecutorTypeOK
<1> QED  BY <1>1 DEF CheckInv

LEMMA RefuseChecked ==
    ASSUME ExecutorTypeOK, CheckInv, NEW c \in Calls, NEW r \in CallRecord, NEW status,
           r.child => r.guarded,
           Refuse(c, r, status), UNCHANGED <<boot, comp, effects>>, boot = "serving"
    PROVE  CheckInv'
<1> DEFINE q == IF r.child THEN [r EXCEPT !.pc = "script"]
                ELSE [r EXCEPT !.pc = "audit", !.status = status]
<1>1. CallChecked(q)
  BY DEF CallChecked, CallRecord
<1>2. Set(c, q)
  BY DEF Refuse
<1>3. EveryEffectChecked'
  BY DEF CheckInv, EveryEffectChecked
<1> HIDE DEF q
<1> QED  BY <1>1, <1>2, <1>3, CheckMove

LEMMA ResultChecked ==
    ASSUME NEW r \in CallRecord, NEW outcome \in Outcomes, r.child => r.guarded
    PROVE  CallChecked(Result(r, outcome))
  BY DEF Result, CallChecked, CallRecord, Outcomes

LEMMA ReachChecked ==
    ASSUME ExecutorTypeOK, CheckInv, NEW c \in Calls, NEW r \in CallRecord, NEW by, NEW outcome,
           r.cleared, Permits(r.backend, r.access), Reach(c, r, by, outcome)
    PROVE  EveryEffectChecked'
<1>1. Effect(c, r, by).checked /\ Permits(Effect(c, r, by).for, Effect(c, r, by).access)
  BY DEF Effect
<1> QED  BY <1>1 DEF Reach, CheckInv, EveryEffectChecked

LEMMA CheckStep ==
    ASSUME MaxReloads = 0, ExecutorTypeOK, CheckInv, [Next]_vars
    PROVE  CheckInv'
<1>0. \A c \in Calls : call[c] \in CallRecord /\ CallChecked(call[c])
                        /\ (call[c].pc # "idle" => boot = "serving")
  BY DEF ExecutorTypeOK, CheckInv
<1>a. UNCHANGED effects => EveryEffectChecked'
  BY DEF CheckInv, EveryEffectChecked
<1>1. CASE LoadUnits
  BY <1>1, <1>a DEF LoadUnits, CheckInv
<1>2. CASE SetChildGuard
  <2>1. comp'.guarded
    BY <1>2 DEF SetChildGuard, ExecutorTypeOK, CompOK
  <2> QED  BY <1>2, <2>1, <1>a DEF SetChildGuard, CheckInv
<1>3. ASSUME NEW cfg \in Configs, Reload(cfg)  PROVE FALSE
  BY <1>3 DEF Reload, ExecutorTypeOK
<1>5. ASSUME NEW c \in Calls, NEW tool \in Tools, ExecuteTool(c, tool)  PROVE CheckInv'
  <2> DEFINE q == [Idle EXCEPT !.pc = "authz", !.tool = tool, !.cur = tool, !.access = LookupTool(tool)]
  <2>1. CallChecked(q)
    BY DEF Idle, CallChecked
  <2>2. Set(c, q) /\ UNCHANGED <<boot, comp, effects>> /\ boot = "serving"
    BY <1>5 DEF ExecuteTool
  <2> HIDE DEF q
  <2> QED  BY <2>1, <2>2, <1>a, CheckMove
<1>6. ASSUME NEW c \in Calls, Authorize(c)  PROVE CheckInv'
  <2> DEFINE r == [call[c] EXCEPT !.backend = ResolveBackendName(call[c].cur)]
  <2>0. call[c] \in CallRecord /\ call[c].cur \in AllTools /\ CallChecked(call[c])
    BY <1>0 DEF CallRecord
  <2>1. ResolveBackendName(call[c].cur) \in Names
    BY <2>0, RouteType DEF ResolveBackendName, ExecutorTypeOK
  <2>2. r \in CallRecord /\ (r.child => r.guarded)
    BY <2>0, <2>1 DEF CallRecord, CallChecked
  <2>3. UNCHANGED <<boot, comp, effects>> /\ boot = "serving"
    BY <1>6, <1>0 DEF Authorize
  <2>4. \/ Refuse(c, r, "error") \/ Refuse(c, r, "denied")
        \/ /\ Permits(r.backend, r.access)
           /\ \E covered \in {FALSE, KitMayCover} :
                 Set(c, [r EXCEPT !.pc = "record", !.covered = covered])
    BY <1>6 DEF Authorize
  <2> HIDE DEF r
  <2>5. ASSUME Permits(r.backend, r.access), NEW covered
        PROVE  CallChecked([r EXCEPT !.pc = "record", !.covered = covered])
    BY <2>2, <2>5 DEF CallChecked, CallRecord
  <2> QED  BY <2>2, <2>3, <2>4, <2>5, <1>a, RefuseChecked, CheckMove
<1>7. ASSUME NEW c \in Calls, Record(c)  PROVE CheckInv'
  <2>0. call[c] \in CallRecord /\ CallChecked(call[c]) /\ call[c].pc = "record"
    BY <1>0, <1>7 DEF Record
  <2>1. CallChecked([call[c] EXCEPT !.pc = "policies"])
    BY <2>0 DEF CallChecked, CallRecord
  <2> QED  BY <1>7, <2>0, <2>1, <1>0, <1>a, CheckMove DEF Record
<1>8. ASSUME NEW c \in Calls, Policies(c)  PROVE CheckInv'
  <2> DEFINE r == call[c]
  <2>0. r \in CallRecord /\ CallChecked(r) /\ r.pc = "policies"
    BY <1>0, <1>8 DEF Policies
  <2>1. UNCHANGED <<boot, comp, effects>> /\ boot = "serving"
    BY <1>8, <1>0 DEF Policies
  <2>2. \/ Refuse(c, r, "denied")
        \/ r.phase = "pre" /\ Set(c, [r EXCEPT !.pc = "run", !.cleared = TRUE])
        \/ Set(c, [r EXCEPT !.pc = "audit"])
    BY <1>8 DEF Policies
  <2> HIDE DEF r
  <2>3. r.child => r.guarded
    BY <2>0 DEF CallRecord, CallChecked
  <2>5. r.phase = "pre" => CallChecked([r EXCEPT !.pc = "run", !.cleared = TRUE])
    BY <2>0 DEF CallRecord, CallChecked
  <2>6. CallChecked([r EXCEPT !.pc = "audit"])
    BY <2>0 DEF CallRecord, CallChecked
  <2> QED  BY <2>0, <2>1, <2>2, <2>3, <2>5, <2>6, <1>a, RefuseChecked, CheckMove
<1>9. ASSUME NEW c \in Calls, Execute(c)  PROVE CheckInv'
  <2> DEFINE r == [call[c] EXCEPT !.cleared = FALSE]
             b == longestPrefix(r.tool, comp)
             q == [r EXCEPT !.pc = "script", !.child = TRUE, !.adapter = b,
                            !.guarded = comp.guarded, !.api = DOMAIN comp.rest[b] \ Composites,
                            !.left = MaxAPICalls]
  <2>0. call[c] \in CallRecord /\ CallChecked(call[c]) /\ call[c].pc = "run" /\ ~call[c].child
    BY <1>0, <1>9 DEF Execute
  <2>1. UNCHANGED <<boot, comp>> /\ boot = "serving" /\ comp.guarded
    BY <1>9, <1>0 DEF Execute, CheckInv
  <2>2. r \in CallRecord /\ ~r.child
    BY <2>0 DEF CallRecord
  <2>3. call[c].cleared /\ Permits(call[c].backend, call[c].access)
    BY <2>0 DEF CallChecked
  <2>4. \/ Set(c, q) /\ UNCHANGED effects
        \/ \E outcome \in Outcomes :
              /\ Set(c, Result(r, outcome))
              /\ (\E by : Reach(c, call[c], by, outcome)) \/ UNCHANGED effects
    BY <1>9 DEF Execute
  <2>5. EveryEffectChecked'
    BY <2>0, <2>3, <2>4, <1>a, ReachChecked
  <2> HIDE DEF r
  <2>6. CallChecked(q)
    <3> HIDE DEF b
    <3> QED  BY <2>1, <2>2 DEF CallChecked, CallRecord
  <2>7. \A outcome \in Outcomes : CallChecked(Result(r, outcome))
    BY <2>2, ResultChecked
  <2> HIDE DEF b, q
  <2> QED  BY <2>1, <2>4, <2>5, <2>6, <2>7, CheckMove
<1>10. ASSUME NEW c \in Calls, NEW tool \in call[c].api, APICall(c, tool)  PROVE CheckInv'
  <2> DEFINE r == [call[c] EXCEPT !.left = @ - 1, !.cur = tool]
  <2>0. call[c] \in CallRecord /\ CallChecked(call[c]) /\ call[c].pc = "script"
    BY <1>0, <1>10 DEF APICall
  <2>1. UNCHANGED <<boot, comp, effects>> /\ boot = "serving"
    BY <1>10, <1>0 DEF APICall
  <2>2. call[c].child /\ call[c].guarded
    BY <2>0 DEF CallChecked
  <2>3. Set(c, [r EXCEPT !.pc = "authz", !.access = LookupTool(tool)])
    BY <1>10, <2>0, <2>2 DEF APICall, CallRecord
  <2>4. CallChecked([r EXCEPT !.pc = "authz", !.access = LookupTool(tool)])
    BY <2>0, <2>2 DEF CallChecked, CallRecord
  <2> HIDE DEF r
  <2> QED  BY <2>1, <2>3, <2>4, <1>a, CheckMove
<1>11. ASSUME NEW c \in Calls, RunChild(c)  PROVE CheckInv'
  <2> DEFINE q == [call[c] EXCEPT !.pc = "script", !.cleared = FALSE]
  <2>0. call[c] \in CallRecord /\ CallChecked(call[c]) /\ call[c].pc = "run" /\ call[c].child
    BY <1>0, <1>11 DEF RunChild
  <2>1. UNCHANGED <<boot, comp>> /\ boot = "serving" /\ Set(c, q)
    BY <1>11, <1>0 DEF RunChild
  <2>2. CallChecked(q)
    BY <2>0 DEF CallChecked, CallRecord
  <2>3. EveryEffectChecked'
    <3>1. \E outcome \in {"success", "error"} : Reach(c, call[c], call[c].adapter, outcome)
      BY <1>11 DEF RunChild
    <3>2. call[c].cleared /\ Permits(call[c].backend, call[c].access)
      BY <2>0 DEF CallChecked
    <3> QED  BY <2>0, <3>1, <3>2, ReachChecked
  <2> HIDE DEF q
  <2> QED  BY <2>1, <2>2, <2>3, CheckMove
<1>12. ASSUME NEW c \in Calls, EndScript(c)  PROVE CheckInv'
  <2>0. call[c] \in CallRecord /\ (call[c].child => call[c].guarded)
    BY <1>0 DEF CallChecked
  <2>1. UNCHANGED <<boot, comp, effects>> /\ boot = "serving"
    BY <1>12, <1>0 DEF EndScript
  <2>2. \E outcome \in Outcomes : Set(c, Result(call[c], outcome))
    BY <1>12 DEF EndScript, Outcomes
  <2> QED  BY <2>0, <2>1, <2>2, <1>a, ResultChecked, CheckMove
<1>13. ASSUME NEW c \in Calls, Cancel(c)  PROVE CheckInv'
  <2>0. call[c] \in CallRecord /\ CallChecked(call[c])
    BY <1>0
  <2>1. CallChecked([call[c] EXCEPT !.cancelled = TRUE])
    BY <2>0 DEF CallChecked, CallRecord
  <2> QED  BY <1>13, <2>1, <1>0, <1>a, CheckMove DEF Cancel
<1>14. ASSUME NEW c \in Calls, recordAudit(c)  PROVE CheckInv'
  <2>0. call[c] \in CallRecord /\ CallChecked(call[c])
    BY <1>0
  <2>1. CallChecked([call[c] EXCEPT !.pc = "done"])
    BY <2>0 DEF CallChecked, CallRecord
  <2> QED  BY <1>14, <2>1, <1>0, <1>a, CheckMove DEF recordAudit
<1>15. CASE UNCHANGED vars
  BY <1>15, <1>a DEF vars, CheckInv
<1> QED
  BY <1>1, <1>2, <1>3, <1>5, <1>6, <1>7, <1>8, <1>9, <1>10, <1>11, <1>12, <1>13, <1>14, <1>15
     DEF Next, Step, Finished

(***************************************************************************)
(* While backends.yaml stays as it is, nothing reaches a backend, directly *)
(* or from a composite, that the authorizer and the pre-execution gate did *)
(* not clear.                                                              *)
(***************************************************************************)
THEOREM NothingUnchecked ==
    ASSUME MaxReloads = 0
    PROVE  Spec => []EveryEffectChecked
<1>1. Init => CheckInv
  BY DEF Init, CheckInv, EveryEffectChecked, CallChecked, Idle
<1>2. ExecutorTypeOK /\ CheckInv /\ [Next]_vars => CheckInv'
  BY CheckStep
<1>3. CheckInv => EveryEffectChecked
  BY DEF CheckInv
<1> QED  BY <1>1, <1>2, <1>3, ExecutorTypeCorrect, PTL DEF Spec
-----------------------------------------------------------------------------
(***************************************************************************)
(* The invariant behind the audit properties: until its run a call has     *)
(* reached no backend, only a composite has child calls, and the entry is  *)
(* the status the call ends with.                                          *)
(***************************************************************************)
Ran(c) == \E e \in effects : e.call = c

CallAudited(r, ran, written) ==
    /\ r.pc = "idle" => r.phase = "pre" /\ ~r.child
    /\ r.phase = "pre" /\ ~r.child /\ r.pc \notin {"audit", "done"} => ~ran
    /\ r.phase = "pre" /\ r.pc \in {"audit", "done"} => r.status # "success"
    /\ r.phase = "pre" /\ r.pc \in {"audit", "done"} /\ r.status = "denied" => ~ran
    /\ r.phase = "post" /\ r.status = "success" => ran \/ r.tool \in Composites
    /\ r.pc = "script" => r.child
    /\ r.child => r.tool \in Composites
    /\ r.pc # "done" => written = <<>>
    /\ r.pc = "done" => written = <<r.status>> \/ (AuditStore = "sqlite" /\ written = <<>>)

AuditInv == \A c \in Calls : CallAudited(call[c], Ran(c), entries[c])

\* One call moves on without reaching a backend.
LEMMA AuditMove ==
    ASSUME ExecutorTypeOK, AuditInv, NEW c \in Calls, NEW q, Set(c, q),
           CallAudited(q, Ran(c), entries[c]), UNCHANGED <<effects, entries>>
    PROVE  AuditInv'
<1>1. \A d \in Calls : call'[d] = IF d = c THEN q ELSE call[d]
  BY DEF Set, ExecutorTypeOK
<1>2. \A d \in Calls : Ran(d)' = Ran(d) /\ entries'[d] = entries[d]
  BY DEF Ran
<1>3. ASSUME NEW d \in Calls  PROVE CallAudited(call'[d], Ran(d)', entries'[d])
  <2>1. CASE d = c
    BY <2>1, <1>1, <1>2
  <2>2. CASE d # c
    BY <2>2, <1>1, <1>2 DEF AuditInv
  <2> QED  BY <2>1, <2>2
<1> QED  BY <1>3 DEF AuditInv

\* One call moves on and may reach a backend.
LEMMA AuditReach ==
    ASSUME ExecutorTypeOK, AuditInv, NEW c \in Calls, NEW q, Set(c, q), NEW by, NEW outcome,
           Reach(c, call[c], by, outcome), UNCHANGED entries,
           CallAudited(q, TRUE, entries[c]),
           outcome # "success" => CallAudited(q, Ran(c), entries[c])
    PROVE  AuditInv'
<1>1. \A d \in Calls : call'[d] = IF d = c THEN q ELSE call[d]
  BY DEF Set, ExecutorTypeOK
<1>2. CASE UNCHANGED effects /\ outcome # "success"
  BY <1>2, AuditMove
<1>3. CASE effects' = effects \cup {Effect(c, call[c], by)}
  <2>1. Effect(c, call[c], by).call = c
    BY DEF Effect
  <2>2. Ran(c)' = TRUE
    BY <1>3, <2>1 DEF Ran
  <2>3. \A d \in Calls : d # c => (Ran(d)' = Ran(d))
    BY <1>3, <2>1 DEF Ran
  <2>4. ASSUME NEW d \in Calls  PROVE CallAudited(call'[d], Ran(d)', entries'[d])
    <3>1. CASE d = c
      BY <3>1, <1>1, <2>2
    <3>2. CASE d # c
      BY <3>2, <1>1, <2>3 DEF AuditInv
    <3> QED  BY <3>1, <3>2
  <2> QED  BY <2>4 DEF AuditInv
<1> QED  BY <1>2, <1>3 DEF Reach

\* A refusal of the call itself, before its run, or of a child.
LEMMA RefuseAudited ==
    ASSUME NEW r \in CallRecord, NEW ran \in BOOLEAN, NEW written, CallAudited(r, ran, written),
           r.pc \notin {"audit", "done"}, NEW status \in {"error", "denied"}
    PROVE  CallAudited(IF r.child THEN [r EXCEPT !.pc = "script"]
                       ELSE [r EXCEPT !.pc = "audit", !.status = status], ran, written)
  BY DEF CallAudited, CallRecord

LEMMA ResultAudited ==
    ASSUME NEW r \in CallRecord, NEW ran \in BOOLEAN, NEW written, written = <<>>,
           r.child => r.tool \in Composites, NEW outcome \in Outcomes, outcome = "success" => ran \/ r.tool \in Composites
    PROVE  CallAudited(Result(r, outcome), ran, written)
  BY DEF CallAudited, CallRecord, Result, Outcomes

LEMMA AuditStep ==
    ASSUME ExecutorTypeOK, AuditInv, [Next]_vars
    PROVE  AuditInv'
<1> USE ExecutorAssumption
<1>0. \A c \in Calls : call[c] \in CallRecord /\ CallAudited(call[c], Ran(c), entries[c])
                        /\ Ran(c) \in BOOLEAN
  BY DEF ExecutorTypeOK, AuditInv, Ran
<1>1. CASE UNCHANGED <<call, effects, entries>>
  BY <1>1 DEF AuditInv, Ran
<1>2. ASSUME NEW c \in Calls, NEW r \in CallRecord, CallAudited(r, Ran(c), entries[c]),
             r.pc \notin {"audit", "done"}, NEW status \in {"error", "denied"},
             Refuse(c, r, status), UNCHANGED <<effects, entries>>
      PROVE  AuditInv'
  <2> DEFINE q == IF r.child THEN [r EXCEPT !.pc = "script"]
                  ELSE [r EXCEPT !.pc = "audit", !.status = status]
  <2>1. Ran(c) \in BOOLEAN
    BY <1>0
  <2>2. CallAudited(q, Ran(c), entries[c])
    BY <1>2, <2>1, RefuseAudited
  <2>3. Set(c, q)
    BY <1>2 DEF Refuse
  <2> HIDE DEF q
  <2> QED  BY <1>2, <2>2, <2>3, AuditMove
<1>5. ASSUME NEW c \in Calls, NEW tool \in Tools, ExecuteTool(c, tool)  PROVE AuditInv'
  <2> DEFINE q == [Idle EXCEPT !.pc = "authz", !.tool = tool, !.cur = tool, !.access = LookupTool(tool)]
  <2>0. CallAudited(call[c], Ran(c), entries[c]) /\ call[c].pc = "idle"
    BY <1>0, <1>5 DEF ExecuteTool
  <2>1. CallAudited(q, Ran(c), entries[c])
    BY <2>0 DEF Idle, CallAudited
  <2>2. Set(c, q) /\ UNCHANGED <<effects, entries>>
    BY <1>5 DEF ExecuteTool
  <2> HIDE DEF q
  <2> QED  BY <2>1, <2>2, AuditMove
<1>6. ASSUME NEW c \in Calls, Authorize(c)  PROVE AuditInv'
  <2> DEFINE r == [call[c] EXCEPT !.backend = ResolveBackendName(call[c].cur)]
  <2>0. call[c] \in CallRecord /\ call[c].cur \in AllTools /\ CallAudited(call[c], Ran(c), entries[c])
        /\ call[c].pc = "authz"
    BY <1>0, <1>6 DEF CallRecord, Authorize
  <2>1. ResolveBackendName(call[c].cur) \in Names
    BY <2>0, RouteType DEF ResolveBackendName, ExecutorTypeOK
  <2>2. r \in CallRecord
    BY <2>0, <2>1 DEF CallRecord
  <2>3. CallAudited(r, Ran(c), entries[c]) /\ r.pc = "authz"
    BY <2>0 DEF CallAudited, CallRecord
  <2>4. \/ Refuse(c, r, "error") \/ Refuse(c, r, "denied")
        \/ \E covered \in {FALSE, KitMayCover} :
                 Set(c, [r EXCEPT !.pc = "record", !.covered = covered])
    BY <1>6 DEF Authorize
  <2> HIDE DEF r
  <2>5. \A covered \in BOOLEAN :
           CallAudited([r EXCEPT !.pc = "record", !.covered = covered], Ran(c), entries[c])
    BY <2>2, <2>3 DEF CallAudited, CallRecord
  <2>6. UNCHANGED <<effects, entries>>
    BY <1>6 DEF Authorize
  <2> QED  BY <2>2, <2>3, <2>4, <2>5, <2>6, <1>2, AuditMove
<1>7. ASSUME NEW c \in Calls, Record(c)  PROVE AuditInv'
  <2>0. call[c] \in CallRecord /\ CallAudited(call[c], Ran(c), entries[c]) /\ call[c].pc = "record"
    BY <1>0, <1>7 DEF Record
  <2>1. CallAudited([call[c] EXCEPT !.pc = "policies"], Ran(c), entries[c])
    BY <2>0 DEF CallAudited, CallRecord
  <2> QED  BY <1>7, <2>1, AuditMove DEF Record
<1>8. ASSUME NEW c \in Calls, Policies(c)  PROVE AuditInv'
  <2> DEFINE r == call[c]
  <2>0. r \in CallRecord /\ CallAudited(r, Ran(c), entries[c]) /\ r.pc = "policies"
    BY <1>0, <1>8 DEF Policies
  <2>1. UNCHANGED <<effects, entries>>
    BY <1>8 DEF Policies
  <2>2. \/ Refuse(c, r, "denied")
        \/ r.phase = "pre" /\ Set(c, [r EXCEPT !.pc = "run", !.cleared = TRUE])
        \/ r.phase # "pre" /\ Set(c, [r EXCEPT !.pc = "audit"])
    BY <1>8 DEF Policies
  <2> HIDE DEF r
  <2>5. CallAudited([r EXCEPT !.pc = "run", !.cleared = TRUE], Ran(c), entries[c])
    BY <2>0 DEF CallRecord, CallAudited
  <2>6. r.phase # "pre" => CallAudited([r EXCEPT !.pc = "audit"], Ran(c), entries[c])
    BY <2>0 DEF CallRecord, CallAudited
  <2> QED  BY <2>0, <2>1, <2>2, <2>5, <2>6, <1>2, AuditMove
<1>9. ASSUME NEW c \in Calls, Execute(c)  PROVE AuditInv'
  <2> DEFINE r == [call[c] EXCEPT !.cleared = FALSE]
             b == longestPrefix(r.tool, comp)
             q == [r EXCEPT !.pc = "script", !.child = TRUE, !.adapter = b,
                            !.guarded = comp.guarded, !.api = DOMAIN comp.rest[b] \ Composites,
                            !.left = MaxAPICalls]
  <2>0. call[c] \in CallRecord /\ CallAudited(call[c], Ran(c), entries[c])
        /\ call[c].pc = "run" /\ ~call[c].child
    BY <1>0, <1>9 DEF Execute
  <2>1. UNCHANGED entries /\ entries[c] = <<>>
    BY <1>9, <2>0 DEF Execute, CallAudited
  <2>2. r \in CallRecord /\ ~r.child
    BY <2>0 DEF CallRecord
  <2>3. CallAudited(r, Ran(c), entries[c])
    BY <2>0 DEF CallRecord, CallAudited
  <2>4. \/ r.tool \in Composites /\ Set(c, q) /\ UNCHANGED effects
        \/ \E outcome \in Outcomes :
              /\ Set(c, Result(r, outcome))
              /\ \/ \E by : Reach(c, call[c], by, outcome)
                 \/ outcome = "failed" /\ UNCHANGED effects
    BY <1>9 DEF Execute
  <2> HIDE DEF r
  <2>5. ASSUME r.tool \in Composites  PROVE CallAudited(q, Ran(c), entries[c])
    <3> HIDE DEF b
    <3> QED  BY <2>1, <2>2, <2>3, <2>5 DEF CallAudited, CallRecord
  <2> HIDE DEF b, q
  <2>6. ASSUME NEW outcome \in Outcomes
        PROVE  /\ CallAudited(Result(r, outcome), TRUE, entries[c])
               /\ outcome # "success" => CallAudited(Result(r, outcome), Ran(c), entries[c])
    <3>1. Ran(c) \in BOOLEAN
      BY <1>0
    <3> QED  BY <2>1, <2>2, <3>1, ResultAudited
  <2>7. CASE r.tool \in Composites /\ Set(c, q) /\ UNCHANGED effects
    BY <2>7, <2>1, <2>5, AuditMove
  <2>8. ASSUME NEW outcome \in Outcomes, Set(c, Result(r, outcome)), NEW by,
               Reach(c, call[c], by, outcome)
        PROVE  AuditInv'
    BY <2>8, <2>1, <2>6, AuditReach
  <2>9. ASSUME NEW outcome \in Outcomes, Set(c, Result(r, outcome)),
               outcome = "failed", UNCHANGED effects
        PROVE  AuditInv'
    BY <2>9, <2>1, <2>6, AuditMove
  <2> QED  BY <2>4, <2>7, <2>8, <2>9
<1>10. ASSUME NEW c \in Calls, NEW tool \in call[c].api, APICall(c, tool)  PROVE AuditInv'
  <2> DEFINE r == [call[c] EXCEPT !.left = @ - 1, !.cur = tool]
  <2>0. call[c] \in CallRecord /\ CallAudited(call[c], Ran(c), entries[c]) /\ call[c].pc = "script"
    BY <1>0, <1>10 DEF APICall
  <2>1. CallAudited([r EXCEPT !.pc = "authz", !.access = LookupTool(tool)], Ran(c), entries[c])
    BY <2>0 DEF CallAudited, CallRecord
  <2>2. CallAudited([r EXCEPT !.pc = "run"], Ran(c), entries[c])
    BY <2>0 DEF CallAudited, CallRecord
  <2>3. \/ Set(c, [r EXCEPT !.pc = "authz", !.access = LookupTool(tool)])
        \/ Set(c, [r EXCEPT !.pc = "run"])
    BY <1>10 DEF APICall
  <2>4. UNCHANGED <<effects, entries>>
    BY <1>10 DEF APICall
  <2> HIDE DEF r
  <2> QED  BY <2>1, <2>2, <2>3, <2>4, AuditMove
<1>11. ASSUME NEW c \in Calls, RunChild(c)  PROVE AuditInv'
  <2> DEFINE q == [call[c] EXCEPT !.pc = "script", !.cleared = FALSE]
  <2>0. call[c] \in CallRecord /\ CallAudited(call[c], Ran(c), entries[c])
        /\ call[c].pc = "run" /\ call[c].child
    BY <1>0, <1>11 DEF RunChild
  <2>1. Set(c, q) /\ UNCHANGED entries
        /\ \E outcome \in {"success", "error"} : Reach(c, call[c], call[c].adapter, outcome)
    BY <1>11 DEF RunChild
  <2>2. CallAudited(q, Ran(c), entries[c]) /\ CallAudited(q, TRUE, entries[c])
    BY <2>0 DEF CallAudited, CallRecord
  <2> HIDE DEF q
  <2> QED  BY <2>1, <2>2, AuditReach
<1>12. ASSUME NEW c \in Calls, EndScript(c)  PROVE AuditInv'
  <2>0. call[c] \in CallRecord /\ CallAudited(call[c], Ran(c), entries[c])
        /\ call[c].pc = "script" /\ Ran(c) \in BOOLEAN
    BY <1>0, <1>12 DEF EndScript
  <2>1. entries[c] = <<>> /\ call[c].tool \in Composites
    BY <2>0 DEF CallAudited
  <2>2. \A outcome \in Outcomes : CallAudited(Result(call[c], outcome), Ran(c), entries[c])
    BY <2>0, <2>1, ResultAudited
  <2>3. (\E outcome \in Outcomes : Set(c, Result(call[c], outcome))) /\ UNCHANGED <<effects, entries>>
    BY <1>12 DEF EndScript, Outcomes
  <2> QED  BY <2>2, <2>3, AuditMove
<1>13. ASSUME NEW c \in Calls, Cancel(c)  PROVE AuditInv'
  <2>0. call[c] \in CallRecord /\ CallAudited(call[c], Ran(c), entries[c])
    BY <1>0
  <2>1. CallAudited([call[c] EXCEPT !.cancelled = TRUE], Ran(c), entries[c])
    BY <2>0 DEF CallAudited, CallRecord
  <2> QED  BY <1>13, <2>1, AuditMove DEF Cancel
<1>14. ASSUME NEW c \in Calls, recordAudit(c)  PROVE AuditInv'
  <2> DEFINE q == [call[c] EXCEPT !.pc = "done"]
  <2>0. call[c] \in CallRecord /\ CallAudited(call[c], Ran(c), entries[c]) /\ call[c].pc = "audit"
    BY <1>0, <1>14 DEF recordAudit
  <2>1. entries[c] = <<>>
    BY <2>0 DEF CallAudited
  <2>2. entries'[c] = <<call[c].status>> \/ (AuditStore = "sqlite" /\ entries'[c] = <<>>)
    BY <1>14, <2>1 DEF recordAudit, Lost, ExecutorTypeOK
  <2>3. CallAudited(q, Ran(c), entries'[c])
    BY <2>0, <2>2 DEF CallAudited, CallRecord
  <2>4. \A d \in Calls : d # c => entries'[d] = entries[d]
    BY <1>14 DEF recordAudit, ExecutorTypeOK
  <2> HIDE DEF q
  <2>5. \A d \in Calls : call'[d] = IF d = c THEN q ELSE call[d]
    BY <1>14 DEF recordAudit, Set, q, ExecutorTypeOK
  <2>6. \A d \in Calls : Ran(d)' = Ran(d)
    BY <1>14 DEF recordAudit, Ran
  <2>7. ASSUME NEW d \in Calls  PROVE CallAudited(call'[d], Ran(d)', entries'[d])
    <3>1. CASE d = c
      BY <3>1, <2>3, <2>5, <2>6
    <3>2. CASE d # c
      BY <3>2, <2>4, <2>5, <2>6 DEF AuditInv
    <3> QED  BY <3>1, <3>2
  <2> QED  BY <2>7 DEF AuditInv
<1>15. LoadUnits \/ SetChildGuard \/ (\E cfg \in Configs : Reload(cfg)) \/ UNCHANGED vars
         => UNCHANGED <<call, effects, entries>>
  BY DEF LoadUnits, SetChildGuard, Reload, vars
<1> QED
  BY <1>1, <1>5, <1>6, <1>7, <1>8, <1>9, <1>10, <1>11, <1>12, <1>13, <1>14, <1>15
     DEF Next, Step, Finished

(***************************************************************************)
(* Whatever calls, reloads and disconnects do, an audit entry tells what   *)
(* happened to its call.                                                   *)
(***************************************************************************)
THEOREM EntriesTruthful == Spec => []AuditTruthful
<1>1. Init => AuditInv
  BY DEF Init, AuditInv, CallAudited, Idle, Ran
<1>2. ExecutorTypeOK /\ AuditInv /\ [Next]_vars => AuditInv'
  BY AuditStep
<1>3. ExecutorTypeOK /\ AuditInv => AuditTruthful
  <2> SUFFICES ASSUME ExecutorTypeOK, AuditInv, NEW c \in Calls
               PROVE  /\ entries[c] = <<"denied">> /\ call[c].phase = "pre" => ~Ran(c)
                      /\ entries[c] = <<"success">> => Ran(c) \/ call[c].tool \in Composites
    BY DEF AuditTruthful, Ran
  <2>1. CallAudited(call[c], Ran(c), entries[c]) /\ call[c] \in CallRecord
    BY DEF AuditInv, ExecutorTypeOK
  <2>2. entries[c] # <<>> => call[c].pc = "done" /\ entries[c] = <<call[c].status>>
    BY <2>1 DEF CallAudited
  <2>3. entries[c] = <<"denied">> => call[c].status = "denied" /\ call[c].pc = "done"
    BY <2>2
  <2>4. entries[c] = <<"success">> => call[c].status = "success" /\ call[c].pc = "done"
    BY <2>2
  <2>5. call[c].phase \in {"pre", "post"}
    BY <2>1 DEF CallRecord
  <2> QED  BY <2>1, <2>3, <2>4, <2>5 DEF CallAudited
<1> QED  BY <1>1, <1>2, <1>3, ExecutorTypeCorrect, PTL DEF Spec

(***************************************************************************)
(* With the log store every call that has been answered has one entry.     *)
(***************************************************************************)
THEOREM EntriesComplete ==
    ASSUME AuditStore = "log"
    PROVE  Spec => []AuditComplete
<1>1. Init => AuditInv
  BY DEF Init, AuditInv, CallAudited, Idle, Ran
<1>2. ExecutorTypeOK /\ AuditInv /\ [Next]_vars => AuditInv'
  BY AuditStep
<1>3. AuditInv => AuditComplete
  <2> SUFFICES ASSUME AuditInv, NEW c \in Calls
               PROVE  Len(entries[c]) = IF call[c].pc = "done" THEN 1 ELSE 0
    BY DEF AuditComplete
  <2>1. entries[c] = IF call[c].pc = "done" THEN <<call[c].status>> ELSE <<>>
    BY DEF AuditInv, CallAudited
  <2>2. \A status : Len(<<status>>) = 1
    OBVIOUS
  <2> QED  BY <2>1, <2>2
<1> QED  BY <1>1, <1>2, <1>3, ExecutorTypeCorrect, PTL DEF Spec
-----------------------------------------------------------------------------
(***************************************************************************)
(* The invariant behind LimitHolds: the calls of a user that have been     *)
(* recorded for a run are no more than the window of the limiter counts,   *)
(* and those that passed the gate are no more than the limit.              *)
(***************************************************************************)
PassedGate(r) == r.child \/ r.phase = "post" \/ r.pc \in {"run", "script"}
Passed(c) == PassedGate(call[c]) \/ Ran(c)
Counted(c) == Passed(c) \/ call[c].pc = "policies"
PassedOf(u) == {c \in Calls : UserOf[c] = u /\ Passed(c)}
CountedOf(u) == {c \in Calls : UserOf[c] = u /\ Counted(c)}

LimitInv ==
    \A u \in {UserOf[c] : c \in Calls} :
        /\ Cardinality(CountedOf(u)) <= window[u]
        /\ LimitEnforced => Cardinality(PassedOf(u)) <= Limit

LEMMA SetsFinite ==
    ASSUME NEW u
    PROVE  /\ IsFiniteSet(PassedOf(u)) /\ IsFiniteSet(CountedOf(u))
           /\ Cardinality(PassedOf(u)) \in Nat /\ Cardinality(CountedOf(u)) \in Nat
<1>1. PassedOf(u) \subseteq Calls /\ CountedOf(u) \subseteq Calls
  BY DEF PassedOf, CountedOf
<1>2. IsFiniteSet(PassedOf(u)) /\ IsFiniteSet(CountedOf(u))
  BY <1>1, ExecutorAssumption, FS_Subset
<1> QED  BY <1>2, FS_CardinalityType

\* The sets do not grow and the window does not shrink.
LEMMA LimitKept ==
    ASSUME ExecutorTypeOK, LimitInv,
           \A d \in Calls : (Passed(d)' => Passed(d)) /\ (Counted(d)' => Counted(d)),
           UNCHANGED window
    PROVE  LimitInv'
<1> SUFFICES ASSUME NEW u \in {UserOf[c] : c \in Calls}
             PROVE  /\ Cardinality(CountedOf(u)') <= window[u]
                    /\ LimitEnforced => Cardinality(PassedOf(u)') <= Limit
  BY DEF LimitInv
<1>1. CountedOf(u)' \subseteq CountedOf(u) /\ PassedOf(u)' \subseteq PassedOf(u)
  BY DEF CountedOf, PassedOf
<1>2. /\ Cardinality(CountedOf(u)') <= Cardinality(CountedOf(u)) /\ Cardinality(CountedOf(u)') \in Nat
      /\ Cardinality(PassedOf(u)') <= Cardinality(PassedOf(u)) /\ Cardinality(PassedOf(u)') \in Nat
  BY <1>1, SetsFinite, FS_Subset, FS_CardinalityType
<1>3. window[u] \in Nat
  BY DEF ExecutorTypeOK
<1> QED  BY <1>2, <1>3, SetsFinite, ExecutorAssumption DEF LimitInv

\* One call moves on, has not passed the gate unless it had, and reaches a
\* backend only if it had.
LEMMA LimitMove ==
    ASSUME ExecutorTypeOK, LimitInv, NEW c \in Calls, NEW q, Set(c, q),
           PassedGate(q) => Passed(c), q.pc = "policies" => Counted(c),
           \A e \in effects' : e \in effects \/ (e.call = c /\ Passed(c)),
           UNCHANGED window
    PROVE  LimitInv'
<1>1. call'[c] = q /\ \A d \in Calls \ {c} : call'[d] = call[d]
  BY DEF Set, ExecutorTypeOK
<1>2. ASSUME NEW d \in Calls  PROVE Ran(d)' => Ran(d) \/ (d = c /\ Passed(c))
  BY DEF Ran
<1>3. ASSUME NEW d \in Calls  PROVE (Passed(d)' => Passed(d)) /\ (Counted(d)' => Counted(d))
  <2>1. CASE d = c
    BY <1>1, <1>2, <2>1 DEF Passed, Counted
  <2>2. CASE d # c
    BY <1>1, <1>2, <2>2 DEF Passed, Counted
  <2> QED  BY <2>1, <2>2
<1> QED  BY <1>3, LimitKept

LEMMA RefuseLimit ==
    ASSUME ExecutorTypeOK, LimitInv, NEW c \in Calls, NEW r \in CallRecord, NEW status,
           r.child => call[c].child, r.phase = call[c].phase,
           Refuse(c, r, status), UNCHANGED <<window, effects>>
    PROVE  LimitInv'
<1> DEFINE q == IF r.child THEN [r EXCEPT !.pc = "script"]
                ELSE [r EXCEPT !.pc = "audit", !.status = status]
<1>1. PassedGate(q) => r.child \/ r.phase = "post"
  BY DEF PassedGate, CallRecord
<1>2. q.pc # "policies"
  BY DEF CallRecord
<1>3. Set(c, q)
  BY DEF Refuse
<1> HIDE DEF q
<1>4. PassedGate(q) => Passed(c)
  BY <1>1 DEF Passed, PassedGate
<1> QED  BY <1>2, <1>3, <1>4, LimitMove

LEMMA ReachLimit ==
    ASSUME NEW c \in Calls, NEW r, NEW by, NEW outcome, Passed(c), Reach(c, r, by, outcome)
    PROVE  \A e \in effects' : e \in effects \/ (e.call = c /\ Passed(c))
<1>1. Effect(c, r, by).call = c
  BY DEF Effect
<1> QED  BY <1>1 DEF Reach

\* The request is recorded: one call more is counted, and the window is one more.
LEMMA RecordLimit ==
    ASSUME ExecutorTypeOK, LimitInv, NEW c \in Calls, Record(c)
    PROVE  LimitInv'
<1> DEFINE q == [call[c] EXCEPT !.pc = "policies"]
<1>0. call[c] \in CallRecord /\ call[c].pc = "record"
  BY DEF ExecutorTypeOK, Record
<1>1. q.child = call[c].child /\ q.phase = call[c].phase /\ q.pc = "policies"
  BY <1>0 DEF CallRecord
<1>2. call'[c] = q /\ \A d \in Calls \ {c} : call'[d] = call[d]
  BY DEF Record, Set, ExecutorTypeOK
<1>3. \A d \in Calls : Ran(d)' <=> Ran(d)
  BY DEF Record, Ran
<1>4. \A d \in Calls : (Passed(d)' => Passed(d)) /\ (d # c /\ Counted(d)' => Counted(d))
  <2>1. PassedGate(q) => PassedGate(call[c])
    BY <1>1 DEF PassedGate
  <2> HIDE DEF q
  <2> QED  BY <1>2, <1>3, <2>1 DEF Passed, Counted
<1> SUFFICES ASSUME NEW u \in {UserOf[d] : d \in Calls}
             PROVE  /\ Cardinality(CountedOf(u)') <= window'[u]
                    /\ LimitEnforced => Cardinality(PassedOf(u)') <= Limit
  BY DEF LimitInv
<1>5. window[u] \in Nat /\ window'[u] = IF u = UserOf[c] THEN window[u] + 1 ELSE window[u]
  BY DEF ExecutorTypeOK, Record
<1>6. PassedOf(u)' \subseteq PassedOf(u)
  BY <1>4 DEF PassedOf
<1>7. Cardinality(PassedOf(u)') <= Cardinality(PassedOf(u)) /\ Cardinality(PassedOf(u)') \in Nat
  BY <1>6, SetsFinite, FS_Subset, FS_CardinalityType
<1>8. Cardinality(CountedOf(u)') <= window'[u]
  <2>1. CASE u # UserOf[c]
    <3>1. CountedOf(u)' \subseteq CountedOf(u)
      BY <1>4, <2>1 DEF CountedOf
    <3>2. Cardinality(CountedOf(u)') <= Cardinality(CountedOf(u)) /\ Cardinality(CountedOf(u)') \in Nat
      BY <3>1, SetsFinite, FS_Subset, FS_CardinalityType
    <3> QED  BY <1>5, <2>1, <3>2, SetsFinite DEF LimitInv
  <2>2. CASE u = UserOf[c]
    <3>1. CountedOf(u)' \subseteq CountedOf(u) \cup {c}
      BY <1>4 DEF CountedOf
    <3>2. /\ IsFiniteSet(CountedOf(u) \cup {c})
          /\ Cardinality(CountedOf(u) \cup {c}) <= Cardinality(CountedOf(u)) + 1
          /\ Cardinality(CountedOf(u) \cup {c}) \in Nat
      <4> DEFINE T == CountedOf(u)
      <4>1. IsFiniteSet(T) /\ Cardinality(T) \in Nat
        BY SetsFinite
      <4> HIDE DEF T
      <4>2. IsFiniteSet(T \cup {c}) /\ (Cardinality(T \cup {c}) = Cardinality(T) \/ Cardinality(T \cup {c}) = Cardinality(T) + 1)
        BY <4>1, FS_AddElement
      <4>3. IsFiniteSet(T \cup {c}) /\ Cardinality(T \cup {c}) <= Cardinality(T) + 1 /\ Cardinality(T \cup {c}) \in Nat
        BY <4>1, <4>2
      <4> QED  BY <4>3 DEF T
    <3>3. Cardinality(CountedOf(u)') <= Cardinality(CountedOf(u) \cup {c}) /\ Cardinality(CountedOf(u)') \in Nat
      BY <3>1, <3>2, FS_Subset, FS_CardinalityType
    <3>4. Cardinality(CountedOf(u)) <= window[u]
      BY DEF LimitInv
    <3> QED  BY <1>5, <2>2, <3>2, <3>3, <3>4, SetsFinite
  <2> QED  BY <2>1, <2>2
<1> QED  BY <1>7, <1>8, SetsFinite, ExecutorAssumption DEF LimitInv

\* A recorded request passes while the window is within the limit.
LEMMA PassLimit ==
    ASSUME ExecutorTypeOK, LimitInv, NEW c \in Calls, call[c].pc = "policies",
           LimitEnforced => ~rateLimitExceeded(c),
           Set(c, [call[c] EXCEPT !.pc = "run", !.cleared = TRUE]), UNCHANGED <<window, effects>>
    PROVE  LimitInv'
<1> DEFINE q == [call[c] EXCEPT !.pc = "run", !.cleared = TRUE]
<1>1. q.pc = "run"
  BY DEF ExecutorTypeOK, CallRecord
<1>2. call'[c] = q /\ \A d \in Calls \ {c} : call'[d] = call[d]
  BY DEF Set, ExecutorTypeOK
<1>3. \A d \in Calls : Ran(d)' <=> Ran(d)
  BY DEF Ran
<1>4. \A d \in Calls : (d # c /\ Passed(d)' => Passed(d)) /\ (Counted(d)' => Counted(d))
  <2> HIDE DEF q
  <2> QED  BY <1>1, <1>2, <1>3 DEF Passed, Counted
<1> SUFFICES ASSUME NEW u \in {UserOf[d] : d \in Calls}
             PROVE  /\ Cardinality(CountedOf(u)') <= window[u]
                    /\ LimitEnforced => Cardinality(PassedOf(u)') <= Limit
  BY DEF LimitInv
<1>5. window[u] \in Nat
  BY DEF ExecutorTypeOK
<1>6. CountedOf(u)' \subseteq CountedOf(u)
  BY <1>4 DEF CountedOf
<1>7. Cardinality(CountedOf(u)') <= Cardinality(CountedOf(u)) /\ Cardinality(CountedOf(u)') \in Nat
  BY <1>6, SetsFinite, FS_Subset, FS_CardinalityType
<1>8. ASSUME LimitEnforced  PROVE Cardinality(PassedOf(u)') <= Limit
  <2>1. CASE u # UserOf[c]
    <3>1. PassedOf(u)' \subseteq PassedOf(u)
      BY <1>4, <2>1 DEF PassedOf
    <3>2. Cardinality(PassedOf(u)') <= Cardinality(PassedOf(u)) /\ Cardinality(PassedOf(u)') \in Nat
      BY <3>1, SetsFinite, FS_Subset, FS_CardinalityType
    <3> QED  BY <1>8, <3>2, SetsFinite, ExecutorAssumption DEF LimitInv
  <2>2. CASE u = UserOf[c]
    <3>1. PassedOf(u)' \subseteq CountedOf(u)'
      BY DEF PassedOf, CountedOf, Counted
    <3>2. PassedOf(u)' \subseteq CountedOf(u)
      BY <1>6, <3>1
    <3>3. Cardinality(PassedOf(u)') <= Cardinality(CountedOf(u)) /\ Cardinality(PassedOf(u)') \in Nat
      BY <3>2, SetsFinite, FS_Subset, FS_CardinalityType
    <3>4. window[u] <= Limit
      BY <1>5, <1>8, <2>2, ExecutorAssumption DEF rateLimitExceeded
    <3>5. Cardinality(CountedOf(u)) <= window[u]
      BY DEF LimitInv
    <3> QED  BY <1>5, <3>3, <3>4, <3>5, SetsFinite, ExecutorAssumption
  <2> QED  BY <2>1, <2>2
<1> QED  BY <1>5, <1>7, <1>8, SetsFinite DEF LimitInv

LEMMA ResultLimit ==
    ASSUME NEW r \in CallRecord, NEW outcome \in Outcomes
    PROVE  Result(r, outcome).pc # "policies"
  BY DEF Result, CallRecord, Outcomes

LEMMA LimitStep ==
    ASSUME ExecutorTypeOK, LimitInv, [Next]_vars
    PROVE  LimitInv'
<1>0. \A c \in Calls : call[c] \in CallRecord
  BY DEF ExecutorTypeOK
<1>a. ASSUME UNCHANGED effects, NEW c
      PROVE  \A e \in effects' : e \in effects \/ (e.call = c /\ Passed(c))
  BY <1>a
<1>1. CASE UNCHANGED <<call, effects, window>>
  BY <1>1, LimitKept DEF Passed, Counted, Ran
<1>5. ASSUME NEW c \in Calls, NEW tool \in Tools, ExecuteTool(c, tool)  PROVE LimitInv'
  <2> DEFINE q == [Idle EXCEPT !.pc = "authz", !.tool = tool, !.cur = tool, !.access = LookupTool(tool)]
  <2>1. ~PassedGate(q) /\ q.pc # "policies"
    BY DEF Idle, PassedGate
  <2>2. Set(c, q) /\ UNCHANGED <<effects, window>>
    BY <1>5 DEF ExecuteTool
  <2> HIDE DEF q
  <2> QED  BY <2>1, <2>2, <1>a, LimitMove
<1>6. ASSUME NEW c \in Calls, Authorize(c)  PROVE LimitInv'
  <2> DEFINE r == [call[c] EXCEPT !.backend = ResolveBackendName(call[c].cur)]
  <2>0. call[c] \in CallRecord /\ call[c].cur \in AllTools /\ call[c].pc = "authz"
    BY <1>0, <1>6 DEF CallRecord, Authorize
  <2>1. ResolveBackendName(call[c].cur) \in Names
    BY <2>0, RouteType DEF ResolveBackendName, ExecutorTypeOK
  <2>2. r \in CallRecord /\ r.child = call[c].child /\ r.phase = call[c].phase
    BY <2>0, <2>1 DEF CallRecord
  <2>3. UNCHANGED <<effects, window>>
    BY <1>6 DEF Authorize
  <2>4. \/ Refuse(c, r, "error") \/ Refuse(c, r, "denied")
        \/ \E covered \in {FALSE, KitMayCover} :
                 Set(c, [r EXCEPT !.pc = "record", !.covered = covered])
    BY <1>6 DEF Authorize
  <2> HIDE DEF r
  <2>5. ASSUME NEW covered
        PROVE  LET q == [r EXCEPT !.pc = "record", !.covered = covered]
               IN  (PassedGate(q) => Passed(c)) /\ q.pc # "policies"
    BY <2>2 DEF PassedGate, Passed, CallRecord
  <2> QED  BY <2>2, <2>3, <2>4, <2>5, <1>a, RefuseLimit, LimitMove
<1>8. ASSUME NEW c \in Calls, Policies(c)  PROVE LimitInv'
  <2> DEFINE r == call[c]
  <2>0. r \in CallRecord /\ r.pc = "policies" /\ UNCHANGED <<effects, window>>
    BY <1>0, <1>8 DEF Policies
  <2>1. \/ Refuse(c, r, "denied")
        \/ r.phase = "pre" /\ ~(rateLimitExceeded(c) /\ ~Skipped(r, LimitEnforced))
           /\ Set(c, [r EXCEPT !.pc = "run", !.cleared = TRUE])
        \/ r.phase # "pre" /\ Set(c, [r EXCEPT !.pc = "audit"])
    BY <1>8 DEF Policies
  <2>2. CASE Refuse(c, r, "denied")
    BY <2>0, <2>2, RefuseLimit
  <2>3. CASE r.phase = "pre" /\ ~(rateLimitExceeded(c) /\ ~Skipped(r, LimitEnforced))
             /\ Set(c, [r EXCEPT !.pc = "run", !.cleared = TRUE])
    <3>1. LimitEnforced => ~rateLimitExceeded(c)
      BY <2>3 DEF Skipped
    <3> QED  BY <2>0, <2>3, <3>1, PassLimit
  <2>4. CASE r.phase # "pre" /\ Set(c, [r EXCEPT !.pc = "audit"])
    <3>1. Passed(c)
      BY <2>0, <2>4 DEF Passed, PassedGate, CallRecord
    <3>2. [r EXCEPT !.pc = "audit"].pc # "policies"
      BY <2>0 DEF CallRecord
    <3> QED  BY <2>0, <2>4, <3>1, <3>2, <1>a, LimitMove
  <2> QED  BY <2>1, <2>2, <2>3, <2>4
<1>9. ASSUME NEW c \in Calls, Execute(c)  PROVE LimitInv'
  <2> DEFINE r == [call[c] EXCEPT !.cleared = FALSE]
             b == longestPrefix(r.tool, comp)
             q == [r EXCEPT !.pc = "script", !.child = TRUE, !.adapter = b,
                            !.guarded = comp.guarded, !.api = DOMAIN comp.rest[b] \ Composites,
                            !.left = MaxAPICalls]
  <2>0. call[c] \in CallRecord /\ call[c].pc = "run" /\ UNCHANGED window
    BY <1>0, <1>9 DEF Execute
  <2>1. Passed(c)
    BY <2>0 DEF Passed, PassedGate
  <2>2. r \in CallRecord
    BY <2>0 DEF CallRecord
  <2>4. \/ Set(c, q) /\ UNCHANGED effects
        \/ \E outcome \in Outcomes :
              /\ Set(c, Result(r, outcome))
              /\ (\E by : Reach(c, call[c], by, outcome)) \/ UNCHANGED effects
    BY <1>9 DEF Execute
  <2>5. \A e \in effects' : e \in effects \/ (e.call = c /\ Passed(c))
    BY <2>1, <2>4, <1>a, ReachLimit
  <2> HIDE DEF r
  <2>6. q.pc # "policies"
    <3> HIDE DEF b
    <3> QED  BY <2>2 DEF CallRecord
  <2>7. \A outcome \in Outcomes : Result(r, outcome).pc # "policies"
    BY <2>2, ResultLimit
  <2> HIDE DEF b, q
  <2> QED  BY <2>0, <2>1, <2>4, <2>5, <2>6, <2>7, LimitMove
<1>10. ASSUME NEW c \in Calls, NEW tool \in call[c].api, APICall(c, tool)  PROVE LimitInv'
  <2> DEFINE r == [call[c] EXCEPT !.left = @ - 1, !.cur = tool]
  <2>0. call[c] \in CallRecord /\ call[c].pc = "script" /\ UNCHANGED <<effects, window>>
    BY <1>0, <1>10 DEF APICall
  <2>1. Passed(c)
    BY <2>0 DEF Passed, PassedGate
  <2>2. [r EXCEPT !.pc = "authz", !.access = LookupTool(tool)].pc # "policies" /\ [r EXCEPT !.pc = "run"].pc # "policies"
    BY <2>0 DEF CallRecord
  <2>3. \/ Set(c, [r EXCEPT !.pc = "authz", !.access = LookupTool(tool)])
        \/ Set(c, [r EXCEPT !.pc = "run"])
    BY <1>10 DEF APICall
  <2> HIDE DEF r
  <2> QED  BY <2>0, <2>1, <2>2, <2>3, <1>a, LimitMove
<1>11. ASSUME NEW c \in Calls, RunChild(c)  PROVE LimitInv'
  <2> DEFINE q == [call[c] EXCEPT !.pc = "script", !.cleared = FALSE]
  <2>0. call[c] \in CallRecord /\ call[c].pc = "run" /\ Set(c, q) /\ UNCHANGED window
    BY <1>0, <1>11 DEF RunChild
  <2>1. Passed(c)
    BY <2>0 DEF Passed, PassedGate
  <2>2. q.pc # "policies"
    BY <2>0 DEF CallRecord
  <2>3. \A e \in effects' : e \in effects \/ (e.call = c /\ Passed(c))
    <3>1. \E outcome \in {"success", "error"} : Reach(c, call[c], call[c].adapter, outcome)
      BY <1>11 DEF RunChild
    <3> QED  BY <2>1, <3>1, ReachLimit
  <2> HIDE DEF q
  <2> QED  BY <2>0, <2>1, <2>2, <2>3, LimitMove
<1>12. ASSUME NEW c \in Calls, EndScript(c)  PROVE LimitInv'
  <2>0. call[c] \in CallRecord /\ call[c].pc = "script" /\ UNCHANGED <<effects, window>>
    BY <1>0, <1>12 DEF EndScript
  <2>1. Passed(c)
    BY <2>0 DEF Passed, PassedGate
  <2>2. \E outcome \in Outcomes : Set(c, Result(call[c], outcome))
    BY <1>12 DEF EndScript, Outcomes
  <2> QED  BY <2>0, <2>1, <2>2, <1>a, ResultLimit, LimitMove
<1>13. ASSUME NEW c \in Calls, Cancel(c)  PROVE LimitInv'
  <2> DEFINE q == [call[c] EXCEPT !.cancelled = TRUE]
  <2>0. call[c] \in CallRecord /\ Set(c, q) /\ UNCHANGED <<effects, window>>
    BY <1>0, <1>13 DEF Cancel
  <2>1. (PassedGate(q) => PassedGate(call[c])) /\ (q.pc = "policies" => call[c].pc = "policies")
    BY <2>0 DEF PassedGate, CallRecord
  <2> HIDE DEF q
  <2> QED  BY <2>0, <2>1, <1>a, LimitMove DEF Passed, Counted
<1>14. ASSUME NEW c \in Calls, recordAudit(c)  PROVE LimitInv'
  <2> DEFINE q == [call[c] EXCEPT !.pc = "done"]
  <2>0. call[c] \in CallRecord /\ Set(c, q) /\ UNCHANGED <<effects, window>>
    BY <1>0, <1>14 DEF recordAudit
  <2>1. (PassedGate(q) => PassedGate(call[c])) /\ q.pc # "policies"
    BY <2>0 DEF PassedGate, CallRecord
  <2> HIDE DEF q
  <2> QED  BY <2>0, <2>1, <1>a, LimitMove DEF Passed
<1>15. LoadUnits \/ SetChildGuard \/ (\E cfg \in Configs : Reload(cfg)) \/ UNCHANGED vars
         => UNCHANGED <<call, effects, window>>
  BY DEF LoadUnits, SetChildGuard, Reload, vars
<1> QED
  BY <1>1, <1>5, <1>6, RecordLimit, <1>8, <1>9, <1>10, <1>11, <1>12, <1>13, <1>14, <1>15
     DEF Next, Step, Finished

(***************************************************************************)
(* However many calls of a user interleave, however they end and whatever  *)
(* is reloaded: no more of them reach a backend in the hour than the limit *)
(* of a policy that no kit replaces.                                       *)
(***************************************************************************)
THEOREM LimitAlwaysHolds == Spec => []LimitHolds
<1>1. Init => LimitInv
  <2> SUFFICES ASSUME Init, NEW u \in {UserOf[c] : c \in Calls}
               PROVE  /\ Cardinality(CountedOf(u)) <= window[u]
                      /\ LimitEnforced => Cardinality(PassedOf(u)) <= Limit
    BY DEF LimitInv
  <2>1. \A c \in Calls : ~Counted(c) /\ ~Passed(c)
    BY DEF Init, Idle, Counted, Passed, PassedGate, Ran
  <2>2. CountedOf(u) = {} /\ PassedOf(u) = {}
    BY <2>1 DEF CountedOf, PassedOf
  <2> QED  BY <2>2, FS_EmptySet, ExecutorAssumption DEF Init
<1>2. ExecutorTypeOK /\ LimitInv /\ [Next]_vars => LimitInv'
  BY LimitStep
<1>3. LimitInv => LimitHolds
  <2> SUFFICES ASSUME LimitInv, LimitEnforced, NEW u \in {UserOf[c] : c \in Calls}
               PROVE  Cardinality({c \in Calls : UserOf[c] = u /\ Ran(c)}) <= Limit
    BY DEF LimitHolds, Ran
  <2> DEFINE R == {c \in Calls : UserOf[c] = u /\ Ran(c)}
  <2>1. R \subseteq PassedOf(u)
    BY DEF PassedOf, Passed
  <2> HIDE DEF R
  <2>2. Cardinality(R) <= Cardinality(PassedOf(u)) /\ Cardinality(R) \in Nat
    BY <2>1, SetsFinite, FS_Subset, FS_CardinalityType
  <2>3. Cardinality(R) <= Limit
    BY <2>2, SetsFinite, ExecutorAssumption DEF LimitInv
  <2> QED  BY <2>3 DEF R
<1> QED  BY <1>1, <1>2, <1>3, ExecutorTypeCorrect, PTL DEF Spec
-----------------------------------------------------------------------------
(***************************************************************************)
(* Names that do not lead to two places: a tool of a REST backend has no   *)
(* longer name of another backend or unit in front of it, and no two MCP   *)
(* servers can both claim a tool.  The first is what LoadUnits and the     *)
(* canonical names are for; nothing tests the second (matchBackend).       *)
(***************************************************************************)
RoutesApart ==
    \A cfg \in Configs :
        /\ \A b \in DOMAIN cfg.rest : \A t \in DOMAIN cfg.rest[b] :
              /\ hasPrefix(t, b)
              /\ \A n \in DOMAIN cfg.rest \cup cfg.mcp \cup Units : hasPrefix(t, n) /\ n # b => Len(n) < Len(b)
        /\ \A m, n \in cfg.mcp, t \in Tools : hasPrefix(t, m) /\ hasPrefix(t, n) => m = n

(***************************************************************************)
(* The invariant behind RoutedAsAuthorized: from the decision to the run a *)
(* call keeps the backend its name leads to, and the api.* calls of a      *)
(* composite stay among the tools of the adapter that runs it.             *)
(***************************************************************************)
CallRouted(r, s) ==
    /\ r.pc # "idle" => r.tool \in Tools
    /\ r.pc \in {"authz", "run", "script"} => r.phase = "pre"
    /\ r.phase = "pre" /\ r.pc \in {"record", "policies", "run"} => r.backend = longestPrefix(r.cur, s)
    /\ r.phase = "pre" /\ ~r.child => r.cur = r.tool
    /\ r.child => /\ r.phase = "pre" /\ r.adapter \in DOMAIN s.rest /\ r.api \subseteq DOMAIN s.rest[r.adapter]
                  /\ r.pc # "script" => r.cur \in r.api

RouteInv == RoutedAsAuthorized /\ \A c \in Calls : CallRouted(call[c], comp)

LEMMA CompFacts ==
    ASSUME CompOK
    PROVE  \E cfg \in Configs : /\ comp.rest = cfg.rest /\ comp.mcp = cfg.mcp /\ comp.units \subseteq Units
                                /\ BackendNames(comp) \subseteq DOMAIN cfg.rest \cup cfg.mcp \cup Units
                                /\ BackendNames(comp) \subseteq Seq(STRING)
<1>1. PICK cfg \in Configs, units \in SUBSET Units, guarded \in BOOLEAN :
         comp = [rest |-> cfg.rest, mcp |-> cfg.mcp, units |-> units, guarded |-> guarded]
  BY DEF CompOK
<1>2. comp.rest = cfg.rest /\ comp.mcp = cfg.mcp /\ comp.units \subseteq Units
  BY <1>1
<1>3. BackendNames(comp) \subseteq DOMAIN cfg.rest \cup cfg.mcp \cup Units
  BY <1>2 DEF BackendNames, Named
<1>4. DOMAIN cfg.rest \cup cfg.mcp \cup Units \subseteq Seq(STRING)
  BY NamesAssumption DEF Names
<1> QED  BY <1>2, <1>3, <1>4

\* A tool of a REST backend leads to that backend.
LEMMA RestRoute ==
    ASSUME RoutesApart, CompOK, NEW b \in DOMAIN comp.rest, NEW t \in DOMAIN comp.rest[b]
    PROVE  longestPrefix(t, comp) = b
<1>1. PICK cfg \in Configs : /\ comp.rest = cfg.rest
                             /\ BackendNames(comp) \subseteq DOMAIN cfg.rest \cup cfg.mcp \cup Units
                             /\ BackendNames(comp) \subseteq Seq(STRING)
  BY CompFacts
<1>2. b \in DOMAIN cfg.rest /\ t \in DOMAIN cfg.rest[b]
  BY <1>1
<1>3. hasPrefix(t, b) /\ \A n \in BackendNames(comp) : hasPrefix(t, n) /\ n # b => Len(n) < Len(b)
  BY <1>1, <1>2 DEF RoutesApart
<1>4. b \in Candidates(t, comp) /\ \A n \in Candidates(t, comp) : n # b => Len(n) < Len(b)
  BY <1>3 DEF Candidates, BackendNames, Named
<1>5. \A n \in Candidates(t, comp) : Len(n) \in Nat
  BY <1>1 DEF Candidates
<1> DEFINE C == Candidates(t, comp)
<1>6. b \in C /\ (\A n \in C : n # b => Len(n) < Len(b)) /\ (\A n \in C : Len(n) \in Nat)
  BY <1>4, <1>5
<1>7. longestPrefix(t, comp) = CHOOSE n \in C : \A m \in C : Len(m) <= Len(n)
  BY <1>6 DEF longestPrefix
<1> HIDE DEF C
<1>8. \A n \in C : (\A m \in C : Len(m) <= Len(n)) <=> n = b
  BY <1>6
<1>9. (CHOOSE n \in C : \A m \in C : Len(m) <= Len(n)) = b
  BY <1>6, <1>8
<1> QED  BY <1>7, <1>9

\* The server that takes a tool of no named backend is the one its name leads to.
LEMMA McpRoute ==
    ASSUME RoutesApart, CompOK, NEW t \in Tools, longestPrefix(t, comp) \notin Named(comp), NEW n \in matchBackend(t)
    PROVE  longestPrefix(t, comp) = n
<1>1. PICK cfg \in Configs : comp.mcp = cfg.mcp /\ BackendNames(comp) \subseteq Seq(STRING)
  BY CompFacts
<1>2. n \in Candidates(t, comp)
  BY DEF matchBackend, Candidates, BackendNames
<1>3. t \in Seq(STRING)
  BY NamesAssumption DEF AllTools
<1>4. longestPrefix(t, comp) \in Candidates(t, comp)
  BY <1>1, <1>2, <1>3, LongestPrefixFound
<1>5. longestPrefix(t, comp) \in comp.mcp /\ hasPrefix(t, longestPrefix(t, comp))
  BY <1>4 DEF Candidates, BackendNames
<1> QED  BY <1>1, <1>5 DEF RoutesApart, matchBackend

LEMMA RouteMove ==
    ASSUME ExecutorTypeOK, RouteInv, NEW c \in Calls, NEW q, Set(c, q), CallRouted(q, comp),
           UNCHANGED comp, RoutedAsAuthorized'
    PROVE  RouteInv'
<1>1. \A d \in Calls : call'[d] = IF d = c THEN q ELSE call[d]
  BY DEF Set, ExecutorTypeOK
<1>2. ASSUME NEW d \in Calls  PROVE CallRouted(call'[d], comp')
  <2>1. CASE d = c
    BY <1>1, <2>1
  <2>2. CASE d # c
    BY <1>1, <2>2 DEF RouteInv
  <2> QED  BY <2>1, <2>2
<1> QED  BY <1>2 DEF RouteInv

LEMMA RefuseRouted ==
    ASSUME NEW r \in CallRecord, NEW s, NEW status, CallRouted(r, s), r.pc # "idle"
    PROVE  CallRouted(IF r.child THEN [r EXCEPT !.pc = "script"]
                      ELSE [r EXCEPT !.pc = "audit", !.status = status], s)
  BY DEF CallRouted, CallRecord

LEMMA ResultRouted ==
    ASSUME NEW r \in CallRecord, NEW outcome \in Outcomes, NEW s, CallRouted(r, s), r.pc # "idle",
           outcome = "failed" => ~r.child
    PROVE  CallRouted(Result(r, outcome), s)
  BY DEF Result, CallRouted, CallRecord, Outcomes

LEMMA ReachRouted ==
    ASSUME RouteInv, NEW c, NEW r, NEW by, NEW outcome, by = r.backend, Reach(c, r, by, outcome)
    PROVE  RoutedAsAuthorized'
<1>1. Effect(c, r, by).by = by /\ Effect(c, r, by).for = r.backend
  BY DEF Effect
<1> QED  BY <1>1 DEF Reach, RouteInv, RoutedAsAuthorized

LEMMA RouteStep ==
    ASSUME MaxReloads = 0, RoutesApart, ExecutorTypeOK, CheckInv, RouteInv, [Next]_vars
    PROVE  RouteInv'
<1> USE ExecutorAssumption
<1>0. \A c \in Calls : call[c] \in CallRecord /\ CallRouted(call[c], comp) /\ CallChecked(call[c])
                        /\ (call[c].pc # "idle" => boot = "serving")
  BY DEF ExecutorTypeOK, CheckInv, RouteInv
<1>a. UNCHANGED effects => RoutedAsAuthorized'
  BY DEF RouteInv, RoutedAsAuthorized
<1>1. CASE LoadUnits \/ SetChildGuard
  <2>1. boot # "serving" /\ UNCHANGED <<call, effects>> /\ comp'.rest = comp.rest
    BY <1>1 DEF LoadUnits, SetChildGuard, ExecutorTypeOK, CompOK
  <2>2. ASSUME NEW c \in Calls  PROVE CallRouted(call'[c], comp')
    <3>1. call[c].pc = "idle" /\ CallRouted(call[c], comp)
      BY <1>0, <2>1
    <3> QED  BY <2>1, <3>1 DEF CallRouted
  <2> QED  BY <2>1, <2>2, <1>a DEF RouteInv
<1>3. ASSUME NEW cfg \in Configs, Reload(cfg)  PROVE FALSE
  BY <1>3 DEF Reload, ExecutorTypeOK
<1>5. ASSUME NEW c \in Calls, NEW tool \in Tools, ExecuteTool(c, tool)  PROVE RouteInv'
  <2> DEFINE q == [Idle EXCEPT !.pc = "authz", !.tool = tool, !.cur = tool, !.access = LookupTool(tool)]
  <2>1. CallRouted(q, comp)
    BY DEF Idle, CallRouted
  <2>2. Set(c, q) /\ UNCHANGED <<comp, effects>>
    BY <1>5 DEF ExecuteTool
  <2> HIDE DEF q
  <2> QED  BY <2>1, <2>2, <1>a, RouteMove
<1>6. ASSUME NEW c \in Calls, Authorize(c)  PROVE RouteInv'
  <2> DEFINE r == [call[c] EXCEPT !.backend = ResolveBackendName(call[c].cur)]
  <2>0. call[c] \in CallRecord /\ call[c].cur \in AllTools /\ CallRouted(call[c], comp) /\ call[c].pc = "authz"
    BY <1>0, <1>6 DEF CallRecord, Authorize
  <2>1. ResolveBackendName(call[c].cur) \in Names
    BY <2>0, RouteType DEF ResolveBackendName, ExecutorTypeOK
  <2>2. r \in CallRecord /\ r.pc = "authz" /\ r.backend = longestPrefix(r.cur, comp)
    BY <2>0, <2>1 DEF CallRecord, ResolveBackendName
  <2>3. CallRouted(r, comp)
    BY <2>0 DEF CallRouted, CallRecord
  <2>4. UNCHANGED <<comp, effects>>
    BY <1>6 DEF Authorize
  <2>5. \/ Refuse(c, r, "error") \/ Refuse(c, r, "denied")
        \/ \E covered \in {FALSE, KitMayCover} :
                 Set(c, [r EXCEPT !.pc = "record", !.covered = covered])
    BY <1>6 DEF Authorize
  <2> HIDE DEF r
  <2>6. ASSUME NEW covered  PROVE CallRouted([r EXCEPT !.pc = "record", !.covered = covered], comp)
    BY <2>2, <2>3 DEF CallRouted, CallRecord
  <2>7. ASSUME NEW status, Refuse(c, r, status)  PROVE RouteInv'
    <3> DEFINE q == IF r.child THEN [r EXCEPT !.pc = "script"] ELSE [r EXCEPT !.pc = "audit", !.status = status]
    <3>1. CallRouted(q, comp) /\ Set(c, q)
      BY <2>2, <2>3, <2>7, RefuseRouted DEF Refuse
    <3> HIDE DEF q
    <3> QED  BY <2>4, <3>1, <1>a, RouteMove
  <2> QED  BY <2>4, <2>5, <2>6, <2>7, <1>a, RouteMove
<1>7. ASSUME NEW c \in Calls, Record(c)  PROVE RouteInv'
  <2>0. call[c] \in CallRecord /\ CallRouted(call[c], comp) /\ call[c].pc = "record"
    BY <1>0, <1>7 DEF Record
  <2>1. CallRouted([call[c] EXCEPT !.pc = "policies"], comp)
    BY <2>0 DEF CallRouted, CallRecord
  <2> QED  BY <1>7, <2>1, <1>a, RouteMove DEF Record
<1>8. ASSUME NEW c \in Calls, Policies(c)  PROVE RouteInv'
  <2> DEFINE r == call[c]
  <2>0. r \in CallRecord /\ CallRouted(r, comp) /\ r.pc = "policies"
    BY <1>0, <1>8 DEF Policies
  <2>1. UNCHANGED <<comp, effects>>
    BY <1>8 DEF Policies
  <2>2. \/ Refuse(c, r, "denied")
        \/ r.phase = "pre" /\ Set(c, [r EXCEPT !.pc = "run", !.cleared = TRUE])
        \/ r.phase # "pre" /\ Set(c, [r EXCEPT !.pc = "audit"])
    BY <1>8 DEF Policies
  <2> HIDE DEF r
  <2>3. r.phase = "pre" => CallRouted([r EXCEPT !.pc = "run", !.cleared = TRUE], comp)
    BY <2>0 DEF CallRecord, CallRouted
  <2>4. r.phase # "pre" => CallRouted([r EXCEPT !.pc = "audit"], comp)
    BY <2>0 DEF CallRecord, CallRouted
  <2>5. ASSUME Refuse(c, r, "denied")  PROVE RouteInv'
    <3> DEFINE q == IF r.child THEN [r EXCEPT !.pc = "script"] ELSE [r EXCEPT !.pc = "audit", !.status = "denied"]
    <3>1. CallRouted(q, comp) /\ Set(c, q)
      BY <2>0, <2>5, RefuseRouted DEF Refuse
    <3> HIDE DEF q
    <3> QED  BY <2>1, <3>1, <1>a, RouteMove
  <2> QED  BY <2>1, <2>2, <2>3, <2>4, <2>5, <1>a, RouteMove
<1>9. ASSUME NEW c \in Calls, Execute(c)  PROVE RouteInv'
  <2> DEFINE r == [call[c] EXCEPT !.cleared = FALSE]
             b == longestPrefix(r.tool, comp)
             here == b \in DOMAIN comp.rest /\ r.tool \in DOMAIN comp.rest[b]
             q == [r EXCEPT !.pc = "script", !.child = TRUE, !.adapter = b,
                            !.guarded = comp.guarded, !.api = DOMAIN comp.rest[b] \ Composites,
                            !.left = MaxAPICalls]
  <2>0. call[c] \in CallRecord /\ CallRouted(call[c], comp) /\ call[c].pc = "run" /\ ~call[c].child /\ UNCHANGED comp
    BY <1>0, <1>9 DEF Execute
  <2>1. r \in CallRecord /\ CallRouted(r, comp) /\ ~r.child /\ r.pc = "run" /\ r.tool = call[c].tool /\ r.phase = call[c].phase
    BY <2>0 DEF CallRecord, CallRouted
  <2>2. \/ here /\ Set(c, q) /\ UNCHANGED effects
        \/ \E outcome \in Outcomes :
              /\ Set(c, Result(r, outcome))
              /\ \/ Reach(c, call[c], b, outcome)
                 \/ /\ b \notin Named(comp)
                    /\ \E n \in matchBackend(r.tool) : Reach(c, call[c], n, outcome)
                 \/ UNCHANGED effects
    BY <1>9 DEF Execute
  <2>3. RoutedAsAuthorized'
    <3>1. call[c].phase = "pre" => call[c].backend = b /\ call[c].tool \in Tools
      BY <2>0, <2>1 DEF CallRouted
    <3>2. call[c].phase = "pre"
      BY <2>0 DEF CallRouted
    <3>3. \A n \in matchBackend(r.tool) : b \notin Named(comp) => n = b
      <4>1. r.tool \in Tools
        BY <2>1, <3>1, <3>2
      <4> HIDE DEF r
      <4> QED  BY <4>1, McpRoute DEF ExecutorTypeOK
    <3> HIDE DEF b, r, q, here
    <3> QED  BY <2>2, <3>1, <3>2, <3>3, <1>a, ReachRouted
  <2> HIDE DEF r
  <2>4. here => CallRouted(q, comp)
    <3>1. r.phase = "pre"
      BY <2>1 DEF CallRouted
    <3> HIDE DEF b
    <3> QED  BY <2>1, <3>1 DEF CallRouted, CallRecord
  <2>5. \A outcome \in Outcomes : CallRouted(Result(r, outcome), comp)
    BY <2>1, ResultRouted
  <2> HIDE DEF b, q, here
  <2> QED  BY <2>0, <2>2, <2>3, <2>4, <2>5, RouteMove
<1>10. ASSUME NEW c \in Calls, NEW tool \in call[c].api, APICall(c, tool)  PROVE RouteInv'
  <2> DEFINE r == [call[c] EXCEPT !.left = @ - 1, !.cur = tool]
  <2>0. call[c] \in CallRecord /\ CallRouted(call[c], comp) /\ CallChecked(call[c]) /\ call[c].pc = "script"
    BY <1>0, <1>10 DEF APICall
  <2>1. UNCHANGED <<comp, effects>>
    BY <1>10 DEF APICall
  <2>2. call[c].child /\ call[c].guarded
    BY <2>0 DEF CallChecked
  <2>3. Set(c, [r EXCEPT !.pc = "authz", !.access = LookupTool(tool)])
    BY <1>10, <2>0, <2>2 DEF APICall, CallRecord
  <2>4. CallRouted([r EXCEPT !.pc = "authz", !.access = LookupTool(tool)], comp)
    BY <2>0, <2>2 DEF CallRouted, CallRecord
  <2> HIDE DEF r
  <2> QED  BY <2>1, <2>3, <2>4, <1>a, RouteMove
<1>11. ASSUME NEW c \in Calls, RunChild(c)  PROVE RouteInv'
  <2> DEFINE q == [call[c] EXCEPT !.pc = "script", !.cleared = FALSE]
  <2>0. call[c] \in CallRecord /\ CallRouted(call[c], comp) /\ call[c].pc = "run" /\ call[c].child
    BY <1>0, <1>11 DEF RunChild
  <2>1. UNCHANGED comp /\ Set(c, q)
    BY <1>11 DEF RunChild
  <2>2. CallRouted(q, comp)
    BY <2>0 DEF CallRouted, CallRecord
  <2>3. RoutedAsAuthorized'
    <3>1. \E outcome \in {"success", "error"} : Reach(c, call[c], call[c].adapter, outcome)
      BY <1>11 DEF RunChild
    <3>2. call[c].backend = longestPrefix(call[c].cur, comp) /\ call[c].adapter \in DOMAIN comp.rest
          /\ call[c].cur \in DOMAIN comp.rest[call[c].adapter]
      BY <2>0 DEF CallRouted
    <3>3. call[c].adapter = call[c].backend
      BY <3>2, RestRoute DEF ExecutorTypeOK
    <3> QED  BY <3>1, <3>3, ReachRouted
  <2> HIDE DEF q
  <2> QED  BY <2>1, <2>2, <2>3, RouteMove
<1>12. ASSUME NEW c \in Calls, EndScript(c)  PROVE RouteInv'
  <2>0. call[c] \in CallRecord /\ CallRouted(call[c], comp) /\ call[c].pc = "script" /\ UNCHANGED <<comp, effects>>
    BY <1>0, <1>12 DEF EndScript
  <2>1. \E outcome \in {"success", "error"} : Set(c, Result(call[c], outcome))
    BY <1>12 DEF EndScript
  <2>2. \A outcome \in {"success", "error"} : CallRouted(Result(call[c], outcome), comp)
    BY <2>0, ResultRouted DEF Outcomes
  <2> QED  BY <2>0, <2>1, <2>2, <1>a, RouteMove
<1>13. ASSUME NEW c \in Calls, Cancel(c)  PROVE RouteInv'
  <2>0. call[c] \in CallRecord /\ CallRouted(call[c], comp)
    BY <1>0
  <2>1. CallRouted([call[c] EXCEPT !.cancelled = TRUE], comp)
    BY <2>0 DEF CallRouted, CallRecord
  <2> QED  BY <1>13, <2>1, <1>a, RouteMove DEF Cancel
<1>14. ASSUME NEW c \in Calls, recordAudit(c)  PROVE RouteInv'
  <2>0. call[c] \in CallRecord /\ CallRouted(call[c], comp) /\ call[c].pc = "audit"
    BY <1>0, <1>14 DEF recordAudit
  <2>1. CallRouted([call[c] EXCEPT !.pc = "done"], comp)
    BY <2>0 DEF CallRouted, CallRecord
  <2> QED  BY <1>14, <2>1, <1>a, RouteMove DEF recordAudit
<1>15. CASE UNCHANGED vars
  BY <1>15, <1>a DEF vars, RouteInv
<1> QED
  BY <1>1, <1>3, <1>5, <1>6, <1>7, <1>8, <1>9, <1>10, <1>11, <1>12, <1>13, <1>14, <1>15
     DEF Next, Step, Finished

(***************************************************************************)
(* While backends.yaml stays as it is and no name leads to two places, the *)
(* backend that runs a tool, from a call or from a composite, is the one   *)
(* the authorizer was asked about.                                         *)
(***************************************************************************)
THEOREM RoutingFollowsDecision ==
    ASSUME MaxReloads = 0, RoutesApart
    PROVE  Spec => []RoutedAsAuthorized
<1>1. Init => CheckInv /\ RouteInv
  BY DEF Init, CheckInv, EveryEffectChecked, CallChecked, Idle, RouteInv, RoutedAsAuthorized, CallRouted
<1>2. ExecutorTypeOK /\ CheckInv /\ RouteInv /\ [Next]_vars => CheckInv' /\ RouteInv'
  BY CheckStep, RouteStep
<1>3. RouteInv => RoutedAsAuthorized
  BY DEF RouteInv
<1> QED  BY <1>1, <1>2, <1>3, ExecutorTypeCorrect, PTL DEF Spec
=============================================================================
