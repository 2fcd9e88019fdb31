----------------------------- MODULE CallsProofs ----------------------------
(***************************************************************************)
(* Theorems about what surrounds a call: what a caller is told (Rights),   *)
(* the units it may call (Catalog), the key it comes with (ApiKeys) and    *)
(* the logins with a password (LoginThrottle).  They share no state.       *)
(***************************************************************************)
EXTENDS Catalog, Rights, ApiKeys, LoginThrottle, FiniteSetTheorems, TLAPS

(***************************************************************************)
(* The units for any list of directories, configuration and script: the   *)
(* sessions loadUnits opens and closes, the names it accepts and the       *)
(* budget of api.* calls.  UnitsWired needs how far the loop over the      *)
(* directories has come (Loop) and that a call counts before it runs       *)
(* (Counted).                                                              *)
(***************************************************************************)
\* The directories the loop has been through, and where it is.
Loop ==
    /\ loadAt \in 1..(Len(UnitDirs) + 1)
    /\ loadStep \in {"read", "wire", "describe", "register", "serving", "stopped"}
    /\ loadStep \in {"serving", "stopped"} <=> loadAt = Len(UnitDirs) + 1
    /\ \A d \in accepted : \E i \in DOMAIN UnitDirs : i < loadAt /\ UnitDirs[i] = d

Wired ==
    /\ adapters \in [Dirs -> {"none", "open", "closed"}]
    /\ unitsIn \subseteq accepted /\ accepted \subseteq Dirs
    /\ loadStep \in {"wire", "describe", "register"} => adapters[Loading] = "open"
    /\ loadStep # "stopped" => \A d \in accepted : adapters[d] = "open"
    /\ \A d \in Dirs : adapters[d] = "open" =>
         d \in accepted \/ (loadStep \notin {"read", "serving", "stopped"} /\ d = Loading)
    /\ \A d \in unitsIn : configured[UnitName[d]] = NoTools
    /\ \A d, e \in accepted : UnitName[d] = UnitName[e] => d = e

Counted ==
    /\ unitCall.count \in Nat /\ unitCall.ran \in Nat
    /\ unitCall.ran <= unitCall.count /\ unitCall.ran <= MaxUnitCalls

CatalogInv == Loop /\ Wired /\ Counted

-----------------------------------------------------------------------------
LEMMA Directories ==
    /\ Len(UnitDirs) \in Nat \ {0}
    /\ DOMAIN UnitDirs = 1..Len(UnitDirs)
    /\ \A i \in DOMAIN UnitDirs : UnitDirs[i] \in Dirs
    /\ \A i, j \in DOMAIN UnitDirs : UnitDirs[i] = UnitDirs[j] => i = j
<1>1. UnitDirs \in Seq(Dirs) /\ UnitDirs # <<>>
  BY CatalogAssumption
<1>2. QED
  BY <1>1, CatalogAssumption

\* While a unit is being loaded, its directory is not among the accepted ones.
LEMMA LoadingIsNew ==
  ASSUME Loop, loadStep \notin {"serving", "stopped"}
  PROVE  loadAt \in DOMAIN UnitDirs /\ Loading \in Dirs /\ Loading \notin accepted
  BY Directories DEF Loop, Loading

LEMMA CatalogInitial == CatalogInit => CatalogInv
<1> SUFFICES ASSUME CatalogInit PROVE CatalogInv
  OBVIOUS
<1>1. Loop
  BY Directories DEF CatalogInit, Loop
<1>2. Wired
  BY DEF CatalogInit, Wired
<1>3. Counted
  BY CatalogAssumption DEF CatalogInit, Counted, IdleUnitCall
<1>4. QED
  BY <1>1, <1>2, <1>3 DEF CatalogInv

\* The loop goes on, with the directory accepted or not.
LEMMA NextKeepsLoop ==
  ASSUME Loop, loadStep \notin {"serving", "stopped"}, nextUnit, accepted' \in {accepted, accepted \cup {Loading}}
  PROVE  Loop' /\ loadStep' \in {"read", "serving"}
<1>1. loadAt \in DOMAIN UnitDirs /\ loadAt \in 1..Len(UnitDirs) /\ Len(UnitDirs) \in Nat
  BY LoadingIsNew, Directories
<1>2. loadAt' = loadAt + 1 /\ loadStep' = IF loadAt = Len(UnitDirs) THEN "serving" ELSE "read"
  BY DEF nextUnit
<1>3. ASSUME NEW d \in accepted' PROVE \E i \in DOMAIN UnitDirs : i < loadAt' /\ UnitDirs[i] = d
  <2>1. CASE d \in accepted
    <3>1. PICK i \in DOMAIN UnitDirs : i < loadAt /\ UnitDirs[i] = d
      BY <2>1 DEF Loop
    <3>2. QED
      BY <1>1, <1>2, <3>1, Directories
  <2>2. CASE d = Loading
    BY <1>1, <1>2, <2>2 DEF Loading
  <2>3. QED
    BY <1>3, <2>1, <2>2
<1>4. QED
  BY <1>1, <1>2, <1>3 DEF Loop

\* A unit that fails: its adapter was never opened or is closed.
LEMMA UnitFails ==
  ASSUME CatalogInv, loadStep \notin {"serving", "stopped"}, nextUnit,
         \/ loadStep = "read" /\ UNCHANGED adapters
         \/ adapters' = [adapters EXCEPT ![Loading] = "closed"],
         UNCHANGED <<configured, unitsIn, accepted, unitCall>>
  PROVE  CatalogInv'
<1>1. Loop' /\ loadStep' \in {"read", "serving"}
  BY NextKeepsLoop DEF CatalogInv
<1>2. Loading \in Dirs /\ Loading \notin accepted
  BY LoadingIsNew DEF CatalogInv
<1>3. adapters' \in [Dirs -> {"none", "open", "closed"}]
  BY <1>2 DEF CatalogInv, Wired
<1>4. \A d \in Dirs : d # Loading => adapters'[d] = adapters[d]
  BY <1>2 DEF CatalogInv, Wired
<1>5. adapters'[Loading] # "open"
  BY <1>2 DEF CatalogInv, Wired
<1>6. Wired'
  BY <1>1, <1>2, <1>3, <1>4, <1>5 DEF CatalogInv, Wired
<1>7. QED
  BY <1>1, <1>6 DEF CatalogInv, Counted

LEMMA LoadSteps ==
  ASSUME CatalogInv,
         \/ readFails \/ connectSubBackends \/ describeFails \/ register
         \/ \E ok \in BOOLEAN : wireSubBackends(ok)
         \/ \E tools \in SUBSET BareNames : describe(tools)
  PROVE  CatalogInv'
<1>1. CASE readFails \/ describeFails \/ wireSubBackends(FALSE)
  <2>1. UNCHANGED <<configured, unitsIn, accepted, unitCall>> /\ nextUnit /\ loadStep \notin {"serving", "stopped"}
    BY <1>1 DEF readFails, describeFails, wireSubBackends, clientVars
  <2>2. (loadStep = "read" /\ UNCHANGED adapters) \/ adapters' = [adapters EXCEPT ![Loading] = "closed"]
    BY <1>1 DEF readFails, describeFails, wireSubBackends
  <2>3. QED
    BY <2>1, <2>2, UnitFails
<1>2. CASE connectSubBackends
  <2>1. /\ loadStep = "read" /\ loadStep' = "wire" /\ adapters' = [adapters EXCEPT ![Loading] = "open"]
        /\ UNCHANGED <<configured, unitsIn, loadAt, accepted, unitCall>>
    BY <1>2 DEF connectSubBackends, clientVars
  <2>2. Loading \in Dirs /\ Loading \notin accepted
    BY <2>1, LoadingIsNew DEF CatalogInv
  <2>3. Loading' = Loading
    BY <2>1 DEF Loading
  <2>4. Loop' /\ Counted'
    BY <2>1 DEF CatalogInv, Loop, Counted
  <2>5. Wired'
    BY <2>1, <2>2, <2>3 DEF CatalogInv, Wired
  <2>6. QED
    BY <2>4, <2>5 DEF CatalogInv
<1>3. CASE wireSubBackends(TRUE) \/ \E tools \in SUBSET BareNames : describe(tools)
  <2>1. /\ UNCHANGED <<configured, unitsIn, loadAt, accepted, adapters, unitCall>>
        /\ loadStep \in {"wire", "describe"} /\ loadStep' \in {"describe", "register"}
    BY <1>3 DEF wireSubBackends, describe, clientVars
  <2>2. Loading' = Loading
    BY <2>1 DEF Loading
  <2>3. Loop' /\ Counted'
    BY <2>1 DEF CatalogInv, Loop, Counted
  <2>4. Wired'
    BY <2>1, <2>2 DEF CatalogInv, Wired
  <2>5. QED
    BY <2>3, <2>4 DEF CatalogInv
<1>4. CASE register
  <2>1. loadStep = "register" /\ nextUnit /\ UNCHANGED <<configured, unitCall>>
    BY <1>4 DEF register, clientVars
  <2>2. CASE Clash(Loading)
    BY <1>4, <2>1, <2>2, UnitFails DEF register
  <2>3. CASE ~Clash(Loading)
    <3>1. unitsIn' = unitsIn \cup {Loading} /\ accepted' = accepted \cup {Loading} /\ UNCHANGED adapters
      BY <1>4, <2>3 DEF register
    <3>2. Loop' /\ loadStep' \in {"read", "serving"}
      BY <2>1, <3>1, NextKeepsLoop DEF CatalogInv
    <3>3. Loading \in Dirs /\ adapters[Loading] = "open"
      BY <2>1, LoadingIsNew DEF CatalogInv, Wired
    <3>4. configured[UnitName[Loading]] = NoTools /\ \A e \in accepted : UnitName[e] # UnitName[Loading]
      BY <2>3 DEF Clash
    <3>5. Wired'
      BY <2>1, <3>1, <3>2, <3>3, <3>4 DEF CatalogInv, Wired
    <3>6. QED
      BY <2>1, <3>2, <3>5 DEF CatalogInv, Counted
  <2>4. QED
    BY <2>2, <2>3
<1>5. QED
  BY <1>1, <1>2, <1>3, <1>4

LEMMA ServeSteps ==
  ASSUME CatalogInv, CloseUnits \/ BuildToolList \/ \E c \in CatalogConfigs : SwapAll(c)
  PROVE  CatalogInv'
<1>1. CASE CloseUnits
  <2>1. /\ loadStep = "serving" /\ loadStep' = "stopped"
        /\ adapters' = [d \in Dirs |-> IF d \in accepted THEN "closed" ELSE adapters[d]]
        /\ UNCHANGED <<configured, unitsIn, loadAt, accepted, unitCall>>
    BY <1>1 DEF CloseUnits, clientVars
  <2>2. Loop' /\ Counted'
    BY <2>1 DEF CatalogInv, Loop, Counted
  <2>3. Wired'
    BY <2>1 DEF CatalogInv, Wired
  <2>4. QED
    BY <2>2, <2>3 DEF CatalogInv
<1>2. CASE BuildToolList
  BY <1>2 DEF BuildToolList, loadVars, CatalogInv, Loop, Wired, Counted, Loading
<1>3. ASSUME NEW c \in CatalogConfigs, SwapAll(c) PROVE CatalogInv'
  BY <1>3 DEF SwapAll, loadVars, CatalogInv, Loop, Wired, Counted, Loading
<1>4. QED
  BY <1>1, <1>2, <1>3

\* Steps of a call leave the units alone.
LEMMA CallSteps ==
  ASSUME CatalogInv, UNCHANGED restVarsOfCall, Counted'
  PROVE  CatalogInv'
  BY DEF restVarsOfCall, loadVars, CatalogInv, Loop, Wired, Loading

LEMMA CatalogStep == CatalogInv /\ [CatalogNext]_catalogVars => CatalogInv'
<1> SUFFICES ASSUME CatalogInv, [CatalogNext]_catalogVars PROVE CatalogInv'
  OBVIOUS
<1>1. CASE UNCHANGED catalogVars
  BY <1>1 DEF catalogVars, CatalogInv, Loop, Wired, Counted, Loading
<1>2. ASSUME NEW from, NEW to, CallTo(from, to) PROVE Counted'
  BY <1>2 DEF CallTo, CatalogInv, Counted
<1>3. CASE loadFails \/ runFunction \/ subReturns \/ interruptUnit \/ \E ok \in BOOLEAN : scriptDone(ok)
  BY <1>2, <1>3, CallSteps DEF loadFails, runFunction, subReturns, interruptUnit, scriptDone
<1>4. CASE contextEnds
  BY <1>4, CallSteps DEF contextEnds, CatalogInv, Counted
<1>5. CASE \E d \in Dirs : startUnitCall(d)
  <2>1. Counted'
    BY <1>5, CatalogAssumption DEF startUnitCall, IdleUnitCall, Counted
  <2>2. QED
    BY <1>5, <2>1, CallSteps DEF startUnitCall
<1>6. CASE apiCall
  <2>1. Counted'
    BY <1>6, CatalogAssumption DEF apiCall, tooMany, CatalogInv, Counted
  <2>2. QED
    BY <1>6, <2>1, CallSteps DEF apiCall
<1>7. QED
  BY <1>1, <1>3, <1>4, <1>5, <1>6, LoadSteps, ServeSteps DEF CatalogNext

\* UnitsWired for any directories, names and configurations: loadUnits leaves no
\* session of a rejected unit open and accepts no name twice, and makeAPICall
\* lets no script past its budget.
THEOREM UnitsAlwaysWired == CatalogSpec => []UnitsWired
<1>1. CatalogInv => UnitsWired
  BY DEF CatalogInv, Wired, Counted, UnitsWired
<1>2. QED
  BY CatalogInitial, CatalogStep, <1>1, PTL DEF CatalogSpec

-----------------------------------------------------------------------------
(***************************************************************************)
(* The root list, for any backends, units and reserved names.  PromotedTools *)
(* and ResolveAlias visit the backends in an order of their own, so a list *)
(* and a later call may keep different promotions of a name.  What a name  *)
(* ends with is settled by demotion: SameName says that two promotions end *)
(* with one name only if they are of one tool, or the name overlaps.       *)
(* ListsKept is what RootNamesResolve needs beyond CatalogInv.             *)
(***************************************************************************)
ListsKept ==
    /\ exposed \in [Dirs -> SUBSET BareNames]
    /\ listFresh => loadStep \in {"serving", "stopped"} /\ rootList \in PromotedLists

\* All that PromotedTools may keep.
Demotions == {Demote(p) : p \in Promotions}

\* A promotion asks for the bare or the canonical name of a tool.
LEMMA PromotionShape ==
  ASSUME exposed \in [Dirs -> SUBSET BareNames], unitsIn \subseteq Dirs,
         NEW p \in Promotions
  PROVE  /\ p = [name |-> p.name, tool |-> p.tool]
         /\ p.tool \in BackendIds \X BareNames
         /\ p.name = p.tool[2] \/ p.name = CanonicalOf[p.tool]
<1>1. CASE \E t \in BackendIds \X BareNames : p = [name |-> t[2], tool |-> t]
  BY <1>1
<1>2. CASE \E d \in unitsIn : \E t \in exposed[d] :
             p = [name |-> CanonicalOf[<<UnitName[d], t>>], tool |-> <<UnitName[d], t>>]
  <2>1. PICK d \in unitsIn : \E t \in exposed[d] :
             p = [name |-> CanonicalOf[<<UnitName[d], t>>], tool |-> <<UnitName[d], t>>]
    BY <1>2
  <2>2. PICK t \in exposed[d] :
             p = [name |-> CanonicalOf[<<UnitName[d], t>>], tool |-> <<UnitName[d], t>>]
    BY <2>1
  <2>3. UnitName[d] \in BackendIds /\ t \in BareNames
    BY CatalogAssumption
  <2>4. QED
    BY <2>2, <2>3
<1>3. QED
  BY <1>1, <1>2 DEF Promotions

\* Demotion changes a name only, to the canonical one.
LEMMA DemotionShape ==
  ASSUME exposed \in [Dirs -> SUBSET BareNames], unitsIn \subseteq Dirs,
         NEW x \in Demotions
  PROVE  /\ x.tool \in BackendIds \X BareNames
         /\ x.name = x.tool[2] \/ x.name = CanonicalOf[x.tool]
         /\ x.name # CanonicalOf[x.tool] => x \in Promotions /\ ~demoted(x)
<1>1. PICK p \in Promotions : x = Demote(p)
  BY DEF Demotions
<1>2. /\ p = [name |-> p.name, tool |-> p.tool]
      /\ p.tool \in BackendIds \X BareNames
      /\ p.name = p.tool[2] \/ p.name = CanonicalOf[p.tool]
  BY PromotionShape
<1>3. CASE demoted(p)
  <2>1. x = [p EXCEPT !.name = CanonicalOf[p.tool]]
    BY <1>1, <1>3 DEF Demote
  <2>2. x.name = CanonicalOf[p.tool] /\ x.tool = p.tool
    BY <1>2, <2>1
  <2>3. QED
    BY <1>2, <2>2
<1>4. CASE ~demoted(p)
  BY <1>1, <1>2, <1>4 DEF Demote
<1>5. QED
  BY <1>3, <1>4

\* Two promotions that end with one name are of one tool, unless the name is
\* the canonical name of one tool and a name of another.
LEMMA SameName ==
  ASSUME exposed \in [Dirs -> SUBSET BareNames], unitsIn \subseteq Dirs,
         NEW x \in Demotions, NEW y \in Demotions, x.name = y.name, ~Overlapping(x.name)
  PROVE  x.tool = y.tool
<1>1. x.tool \in BackendIds \X BareNames /\ y.tool \in BackendIds \X BareNames
  BY DemotionShape
<1>2. /\ x.name = x.tool[2] \/ x.name = CanonicalOf[x.tool]
      /\ y.name = y.tool[2] \/ y.name = CanonicalOf[y.tool]
  BY DemotionShape
<1>3. CASE CanonicalOf[x.tool] = x.name \/ CanonicalOf[y.tool] = y.name
  BY <1>1, <1>2, <1>3 DEF Overlapping
<1>4. CASE CanonicalOf[x.tool] # x.name /\ CanonicalOf[y.tool] # y.name
  <2>1. y \in Promotions /\ x \in Promotions /\ ~demoted(x)
    BY <1>4, DemotionShape
  <2>2. x = y
    BY <2>1 DEF demoted
  <2>3. QED
    BY <2>2
<1>5. QED
  BY <1>3, <1>4

\* Every list has one promotion of each name anything ended with.
LEMMA ListShape ==
  ASSUME NEW list \in PromotedLists
  PROVE  /\ list \subseteq Demotions
         /\ \A x, y \in list : x.name = y.name => x = y
         /\ \A x \in Demotions : \E y \in list : y.name = x.name
<1> DEFINE Names == {p.name : p \in Demotions}
<1>1. PICK f \in [Names -> Demotions] : (\A n \in Names : f[n].name = n) /\ list = {f[n] : n \in Names}
  BY DEF PromotedLists, Demotions
<1>2. list \subseteq Demotions
  BY <1>1
<1>3. ASSUME NEW x \in list, NEW y \in list, x.name = y.name PROVE x = y
  BY <1>1, <1>3
<1>4. ASSUME NEW x \in Demotions PROVE \E y \in list : y.name = x.name
  BY <1>1
<1>5. QED
  BY <1>2, <1>3, <1>4

\* A name of a list that does not overlap is routed to the tool it was listed for.
LEMMA ListedNameResolves ==
  ASSUME exposed \in [Dirs -> SUBSET BareNames], unitsIn \subseteq Dirs,
         NEW list \in PromotedLists, NEW p \in list, ~Overlapping(p.name)
  PROVE  ResolveAlias(p.name) = {CanonicalOf[p.tool]}
<1> DEFINE Hit(other) == {q \in other : q.name = p.name /\ CanonicalOf[q.tool] # p.name}
           Route(other) == IF Hit(other) = {} THEN p.name ELSE CanonicalOf[(CHOOSE q \in Hit(other) : TRUE).tool]
<1>1. p \in Demotions
  BY ListShape
<1>2. ASSUME NEW other \in PromotedLists PROVE Route(other) = CanonicalOf[p.tool]
  <2>1. PICK own \in other : own.name = p.name
    BY <1>1, ListShape
  <2>2. \A q \in other : q.name = p.name => q.tool = p.tool
    BY <1>1, ListShape, SameName
  <2>3. CASE CanonicalOf[p.tool] = p.name
    <3>1. Hit(other) = {}
      BY <2>2, <2>3
    <3>2. QED
      BY <2>3, <3>1
  <2>4. CASE CanonicalOf[p.tool] # p.name
    <3>1. own \in Hit(other)
      BY <2>1, <2>2, <2>4
    <3>2. \A q \in Hit(other) : q.tool = p.tool
      BY <2>2
    <3> HIDE DEF Hit
    <3>3. (CHOOSE q \in Hit(other) : TRUE) \in Hit(other)
      BY <3>1
    <3>4. QED
      BY <3>1, <3>2, <3>3
  <2>5. QED
    BY <2>3, <2>4
<1>3. ResolveAlias(p.name) = {Route(other) : other \in PromotedLists}
  BY DEF ResolveAlias
<1> HIDE DEF Route
<1>4. QED
  BY <1>2, <1>3

\* What a list may be depends on what is served.
LEMMA SameLists ==
  ASSUME UNCHANGED <<configured, unitsIn, exposed>>
  PROVE  PromotedLists' = PromotedLists
  BY DEF PromotedLists, Promotions, Demote, demoted

LEMMA ListsInitial == CatalogInit => ListsKept
  BY DEF CatalogInit, ListsKept

LEMMA ListsStep == CatalogInv /\ ListsKept /\ [CatalogNext]_catalogVars => ListsKept'
<1> SUFFICES ASSUME CatalogInv, ListsKept, [CatalogNext]_catalogVars PROVE ListsKept'
  OBVIOUS
<1>1. ASSUME UNCHANGED <<configured, unitsIn, exposed, rootList, listFresh>>,
             loadStep \in {"serving", "stopped"} => loadStep' \in {"serving", "stopped"}
      PROVE  ListsKept'
  BY <1>1, SameLists DEF ListsKept
<1>2. CASE UNCHANGED catalogVars
  BY <1>1, <1>2 DEF catalogVars
<1>3. CASE readFails \/ connectSubBackends \/ describeFails \/ \E ok \in BOOLEAN : wireSubBackends(ok)
  BY <1>1, <1>3 DEF readFails, connectSubBackends, describeFails, wireSubBackends, clientVars
<1>4. CASE register
  BY <1>4 DEF register, ListsKept, clientVars
<1>5. CASE CloseUnits
  BY <1>1, <1>5 DEF CloseUnits, clientVars
<1>6. CASE BuildToolList
  <2>1. UNCHANGED <<configured, unitsIn, exposed>> /\ loadStep' = "serving" /\ rootList' \in PromotedLists
    BY <1>6 DEF BuildToolList, loadVars
  <2>2. QED
    BY <2>1, SameLists DEF ListsKept
<1>7. CASE \E tools \in SUBSET BareNames : describe(tools)
  <2>1. PICK tools \in SUBSET BareNames : describe(tools)
    BY <1>7
  <2>2. exposed' \in [Dirs -> SUBSET BareNames]
    BY <2>1 DEF describe, ListsKept
  <2>3. ~listFresh'
    BY <2>1 DEF describe, ListsKept, clientVars
  <2>4. QED
    BY <2>2, <2>3 DEF ListsKept
<1>8. CASE \E c \in CatalogConfigs : SwapAll(c)
  BY <1>8 DEF SwapAll, loadVars, ListsKept
<1>9. CASE UNCHANGED restVarsOfCall
  BY <1>1, <1>9 DEF restVarsOfCall, loadVars
<1>10. QED
  BY <1>2, <1>3, <1>4, <1>5, <1>6, <1>7, <1>8, <1>9
  DEF CatalogNext, startUnitCall, loadFails, runFunction, apiCall, subReturns, contextEnds, interruptUnit, scriptDone

\* RootNamesResolve for any backends, units, canonical names and reserved names:
\* between two reloads, whatever order PromotedTools and ResolveAlias visit the
\* backends in, a name of the root list that is not the canonical name of
\* another tool is routed to the tool it was listed for.
THEOREM RootNamesAlwaysResolve == CatalogSpec => []RootNamesResolve
<1>1. CatalogInv /\ ListsKept => RootNamesResolve
  <2> SUFFICES ASSUME CatalogInv, ListsKept, listFresh, NEW p \in rootList, ~Overlapping(p.name)
               PROVE  /\ ResolveAlias(p.name) = {CanonicalOf[p.tool]}
                      /\ \A q \in rootList : q.name = p.name => q = p
    BY DEF RootNamesResolve
  <2>1. rootList \in PromotedLists /\ exposed \in [Dirs -> SUBSET BareNames] /\ unitsIn \subseteq Dirs
    BY DEF ListsKept, CatalogInv, Wired
  <2>2. QED
    BY <2>1, ListedNameResolves, ListShape
<1>2. QED
  BY CatalogInitial, CatalogStep, ListsInitial, ListsStep, <1>1, PTL DEF CatalogSpec
-----------------------------------------------------------------------------
(***************************************************************************)
(* The rights of a caller.  First what the operators of an answer promise, *)
(* for any configuration; then that the greedy choice of kits (pickKit)    *)
(* leaves out only tools a chosen kit lifts, which is what RightsInv says. *)
(***************************************************************************)

\* More kits never take a tool away: kits only add.
LEMMA KitsOnlyAdd ==
    ASSUME NEW t, NEW K, NEW L, K \subseteq L
    PROVE  /\ appliedKit(t, K) => appliedKit(t, L)
           /\ Check(t, K) => Check(t, L)
           /\ gatePreflight(t, K) => gatePreflight(t, L)
           /\ callPasses(t, K) => callPasses(t, L)
  BY DEF appliedKit, Check, gatePreflight, callPasses

\* A tool that passes with more kits and not with those held is covered by
\* one of the others, and one kit that covers a tool does what all of them do.
LEMMA OneKitLifts ==
    ASSUME NEW t, NEW K \in SUBSET RightsKits, callPasses(t, held.kits \cup K), ~callPasses(t, held.kits)
    PROVE  \E k \in K : t \in covers[k] /\ k \in Covering(t) /\ callPasses(t, withKit(k))
<1>1. ~appliedKit(t, held.kits) /\ appliedKit(t, held.kits \cup K)
  BY DEF callPasses, Check, gatePreflight, appliedKit
<1>2. PICK k \in K : t \in covers[k]
  BY <1>1 DEF appliedKit
<1>3. appliedKit(t, withKit(k))
  BY <1>2 DEF appliedKit, withKit
<1>4. callPasses(t, withKit(k))
  BY <1>3 DEF callPasses, Check, gatePreflight
<1> QED  BY <1>2, <1>4 DEF Covering

Verdicts == {"allowed", "escalatable", "denied"}
Right == [verdict : Verdicts \cup {"unasked"}, kits : SUBSET RightsKits, blocked : BOOLEAN, refusal : BOOLEAN]

\* assess, taken apart.
LEMMA AssessFacts ==
    ASSUME NEW t, NEW verify \in BOOLEAN
    PROVE  /\ assess(t, verify) \in Right
           /\ assess(t, verify).verdict = "allowed" <=> checkAll(t, held.kits)
           /\ assess(t, verify).verdict = "escalatable" =>
                 ~checkAll(t, held.kits) /\ assess(t, verify).kits # {}
           /\ assess(t, verify).verdict = "denied" => ~checkAll(t, held.kits) /\ assess(t, verify).kits = {}
           /\ assess(t, verify).verdict \in Verdicts
           /\ ~checkAll(t, held.kits) =>
                 assess(t, verify).kits = {k \in Covering(t) : verify => checkAll(t, withKit(k))}
<1> DEFINE K == {k \in Covering(t) : verify => checkAll(t, withKit(k))}
           a == assess(t, verify)
<1>0. K \subseteq RightsKits
  BY DEF Covering
<1>1. CASE checkAll(t, held.kits)
  <2>1. a = [verdict |-> "allowed", kits |-> {}, blocked |-> FALSE, refusal |-> FALSE]
    BY <1>1 DEF assess
  <2> QED  BY <1>1, <2>1 DEF Right, Verdicts
<1>2. CASE ~checkAll(t, held.kits)
  <2> DEFINE b == Covering(t) # {} /\ K = {}
  <2>1. a = [verdict |-> IF K # {} THEN "escalatable" ELSE "denied", kits |-> K, blocked |-> b, refusal |-> FALSE]
    BY <1>2 DEF assess
  <2>2. b \in BOOLEAN
    OBVIOUS
  <2> HIDE DEF a, b, K
  <2>3. a.kits = K /\ a.verdict = IF K # {} THEN "escalatable" ELSE "denied"
    BY <2>1
  <2>4. a \in Right
    BY <1>0, <2>1, <2>2 DEF Right, Verdicts
  <2> QED  BY <1>2, <2>3, <2>4 DEF Verdicts, a, K
<1> QED  BY <1>1, <1>2

\* What the answer of AssessTools promises for tool t.
Promised(t, r) ==
    /\ r.verdict = "allowed" => callPasses(t, held.kits)
    /\ r.verdict = "escalatable" =>
         /\ ~callPasses(t, held.kits) /\ r.kits # {}
         /\ \A k \in r.kits : k \in RightsKits /\ callPasses(t, withKit(k))
    /\ r.verdict = "denied" /\ failing = {} =>
         \A kits \in SUBSET RightsKits : ~callPasses(t, held.kits \cup kits)

LEMMA AllowedKept ==
    ASSUME NEW t, checkAll(t, held.kits)
    PROVE  Promised(t, gateRights(t, assess(t, TRUE)))
<1> DEFINE a == assess(t, TRUE)
           g == gateRights(t, a)
<1> SUFFICES Promised(t, g)
  OBVIOUS
<1>1. a \in Right /\ a.verdict = "allowed"
  BY AssessFacts
<1>2. Check(t, held.kits)
  BY DEF checkAll
<1>3. CASE gatePreflight(t, held.kits)
  <2>1. g = a
    BY <1>1, <1>3 DEF gateRights
  <2> QED  BY <1>1, <1>2, <1>3, <2>1 DEF Promised, callPasses
<1>4. CASE ~gatePreflight(t, held.kits)
  <2> DEFINE v == IF liftingKits(t) # {} THEN "escalatable" ELSE "denied"
  <2>1. g = [a EXCEPT !.refusal = TRUE, !.kits = liftingKits(t), !.verdict = v]
    BY <1>1, <1>4 DEF gateRights
  <2>2. g.kits = liftingKits(t) /\ g.verdict = v
    BY <1>1, <2>1 DEF Right
  <2>3. ~callPasses(t, held.kits)
    BY <1>4 DEF callPasses
  <2>4. \A k \in liftingKits(t) : k \in RightsKits /\ callPasses(t, withKit(k))
    <3>1. \A k : held.kits \subseteq withKit(k)
      BY DEF withKit
    <3> QED  BY <1>2, <3>1, KitsOnlyAdd DEF liftingKits, Covering, callPasses
  <2>5. ASSUME liftingKits(t) = {}, NEW K \in SUBSET RightsKits  PROVE ~callPasses(t, held.kits \cup K)
    <3>1. SUFFICES ASSUME callPasses(t, held.kits \cup K)  PROVE FALSE
      OBVIOUS
    <3>2. PICK k \in K : k \in Covering(t) /\ callPasses(t, withKit(k))
      BY <2>3, <3>1, OneKitLifts
    <3> QED  BY <2>5, <3>2 DEF liftingKits, callPasses
  <2> HIDE DEF g
  <2> QED  BY <2>2, <2>3, <2>4, <2>5 DEF Promised
<1> QED  BY <1>3, <1>4

LEMMA OthersKept ==
    ASSUME NEW t, ~checkAll(t, held.kits)
    PROVE  Promised(t, gateRights(t, assess(t, TRUE)))
<1> DEFINE a == assess(t, TRUE)
           g == gateRights(t, a)
           passing == {k \in a.kits : gatePreflight(t, withKit(k))}
<1> SUFFICES Promised(t, g)
  OBVIOUS
<1>1. /\ a \in Right /\ a.verdict \in {"escalatable", "denied"}
      /\ a.kits = {k \in Covering(t) : checkAll(t, withKit(k))}
      /\ (a.verdict = "denied" => a.kits = {}) /\ (a.verdict = "escalatable" => a.kits # {})
  BY AssessFacts DEF Verdicts
<1>2. \A k \in passing : k \in RightsKits /\ callPasses(t, withKit(k))
  BY <1>1 DEF Covering, checkAll, callPasses
<1>3. ASSUME a.kits # {}  PROVE ~callPasses(t, held.kits)
  BY <1>1, <1>3 DEF checkAll, callPasses
<1>4. ASSUME passing = {}, failing = {}, NEW K \in SUBSET RightsKits  PROVE ~callPasses(t, held.kits \cup K)
  <2>1. SUFFICES ASSUME callPasses(t, held.kits \cup K)  PROVE FALSE
    OBVIOUS
  <2>2. ~callPasses(t, held.kits)
    BY <1>4 DEF checkAll, callPasses
  <2>3. PICK k \in K : k \in Covering(t) /\ callPasses(t, withKit(k))
    BY <2>1, <2>2, OneKitLifts
  <2>4. k \in passing
    BY <1>1, <1>4, <2>3 DEF checkAll, callPasses
  <2> QED  BY <1>4, <2>4
<1>5. CASE a.verdict = "denied"
  <2>1. g = a
    BY <1>5 DEF gateRights
  <2>2. passing = {}
    BY <1>1, <1>5
  <2> QED  BY <1>4, <1>5, <2>1, <2>2 DEF Promised
<1>6. CASE a.verdict = "escalatable"
  <2> DEFINE v == IF passing = {} THEN "denied" ELSE "escalatable"
             f == passing = {}
  <2>1. g = [a EXCEPT !.kits = passing, !.refusal = f, !.verdict = v]
    BY <1>6 DEF gateRights
  <2>2. g.kits = passing /\ g.verdict = v
    <3> HIDE DEF passing, f, v, g, a
    <3> QED  BY <1>1, <2>1 DEF Right
  <2>3. ~callPasses(t, held.kits)
    BY <1>1, <1>3, <1>6
  <2> HIDE DEF g, passing, a
  <2> QED  BY <1>2, <1>4, <2>2, <2>3 DEF Promised
<1> QED  BY <1>1, <1>5, <1>6

LEMMA AnswersKept == \A t : Promised(t, AssessTools(t, TRUE))
  BY AllowedKept, OthersKept DEF AssessTools

\* The verdict of a tool that was asked about is one of three.
LEMMA AnswerType ==
    ASSUME NEW t
    PROVE  /\ AssessTools(t, TRUE).kits \subseteq RightsKits
           /\ AssessTools(t, TRUE).verdict # "unasked"
<1> DEFINE a == assess(t, TRUE)
           g == gateRights(t, a)
           passing == {k \in a.kits : gatePreflight(t, withKit(k))}
           f == passing = {}
<1>1. a \in Right /\ a.verdict \in Verdicts
  BY AssessFacts
<1>2. liftingKits(t) \subseteq RightsKits /\ passing \subseteq RightsKits
  BY <1>1 DEF liftingKits, Covering, Right
<1>3. CASE a.verdict = "allowed" /\ ~gatePreflight(t, held.kits)
  <2> DEFINE v == IF liftingKits(t) # {} THEN "escalatable" ELSE "denied"
  <2>1. g = [a EXCEPT !.refusal = TRUE, !.kits = liftingKits(t), !.verdict = v]
    BY <1>3 DEF gateRights
  <2>2. g.kits = liftingKits(t) /\ g.verdict = v
    BY <1>1, <2>1 DEF Right
  <2> QED  BY <1>2, <2>2 DEF AssessTools
<1>4. CASE a.verdict = "escalatable"
  <2> DEFINE v == IF passing = {} THEN "denied" ELSE "escalatable"
  <2>1. g = [a EXCEPT !.kits = passing, !.refusal = f, !.verdict = v]
    BY <1>4 DEF gateRights
  <2>2. g.kits = passing /\ g.verdict = v
    <3> HIDE DEF passing, f, v, g, a
    <3> QED  BY <1>1, <2>1 DEF Right
  <2> QED  BY <1>2, <2>2 DEF AssessTools
<1>5. CASE ~(a.verdict = "allowed" /\ ~gatePreflight(t, held.kits)) /\ a.verdict # "escalatable"
  <2>1. g = a
    BY <1>5 DEF gateRights
  <2> QED  BY <1>1, <2>1 DEF AssessTools, Right, Verdicts
<1> QED  BY <1>3, <1>4, <1>5

\* What discovery hides no kit makes callable.
LEMMA HiddenIsOut ==
    ASSUME NEW t, t \notin failing, ~visible(AssessTools(t, FALSE)), NEW K \in SUBSET RightsKits
    PROVE  ~callPasses(t, held.kits \cup K)
<1> DEFINE a == assess(t, FALSE)
<1>1. AssessTools(t, FALSE) = a
  BY DEF AssessTools
<1>2. a.verdict = "denied" /\ ~checkAll(t, held.kits) /\ a.kits = {}
  BY <1>1, AssessFacts DEF visible
<1>3. Covering(t) = {}
  BY <1>2, AssessFacts
<1>4. ~callPasses(t, held.kits)
  BY <1>2 DEF checkAll, callPasses
<1> QED  BY <1>3, <1>4, OneKitLifts

\* An approver is shown every tool that a kit adds.
LEMMA AddedIsShown ==
    ASSUME NEW k \in RightsKits, NEW t, ~callPasses(t, held.kits), callPasses(t, withKit(k))
    PROVE  t \in KitCoverage(k)
<1>1. {k} \in SUBSET RightsKits /\ withKit(k) = held.kits \cup {k}
  BY DEF withKit
<1>2. t \in covers[k]
  BY <1>1, OneKitLifts
<1> QED  BY <1>2 DEF KitCoverage, checkAll, callPasses

\* How far the answer is, and that a tool left out of the remaining ones is
\* lifted by a kit of the bundle.
RightsInv ==
    /\ answer = [phase |-> answer.phase, rights |-> answer.rights, bundle |-> answer.bundle, remaining |-> answer.remaining]
    /\ answer.phase \in {"idle", "bundle", "answered", "listed"}
    /\ answer.phase = "idle" => answer = Unasked
    /\ answer.bundle \subseteq RightsKits
    /\ \A t \in RightsTools : answer.rights[t] = NoRight \/ answer.rights[t] = AssessTools(t, TRUE)
    /\ \A t \in answer.remaining : t \in RightsTools /\ answer.rights[t].verdict = "escalatable"
    /\ \A t \in RightsTools : answer.rights[t].verdict = "escalatable" =>
          t \in answer.remaining \/ \E k \in answer.bundle : k \in answer.rights[t].kits
    /\ answer.phase \in {"answered", "listed"} => answer.remaining = {}
    /\ answer.phase = "listed" => listed = {t \in RightsTools : visible(AssessTools(t, FALSE))}

\* The configuration stands while the answer is put together.
LEMMA SameAnswers ==
    ASSUME UNCHANGED <<rules, covers, held, failing>>
    PROVE  \A t, verify : AssessTools(t, verify)' = AssessTools(t, verify)
<1>1. \A t, K : checkAll(t, K)' = checkAll(t, K) /\ gatePreflight(t, K)' = gatePreflight(t, K)
  BY DEF checkAll, gatePreflight, Check, appliedKit
<1>2. \A t : Covering(t)' = Covering(t)
  BY DEF Covering
<1>3. \A k : withKit(k)' = withKit(k)
  BY DEF withKit
<1>4. \A t, verify : assess(t, verify)' = assess(t, verify)
  BY DEF assess, checkAll, Check, appliedKit, Covering, withKit
<1>5. \A t, r : gateRights(t, r)' = gateRights(t, r)
  BY DEF gateRights, liftingKits, Covering, withKit, gatePreflight, appliedKit
<1> QED  BY <1>4, <1>5 DEF AssessTools

LEMMA RightsStep == ASSUME RightsInv, [RightsNext]_rightsVars PROVE RightsInv'
<1>1. UNCHANGED <<rules, covers, held, failing>>
  BY DEF RightsNext, preflight, pickKit, bundleDone, discover, rightsVars
<1>2. \A t, verify : AssessTools(t, verify)' = AssessTools(t, verify)
  BY <1>1, SameAnswers
<1>3. ASSUME NEW asked \in SUBSET RightsTools, preflight(asked)  PROVE RightsInv'
  <2> DEFINE rights == [t \in RightsTools |-> IF t \in asked THEN AssessTools(t, TRUE) ELSE NoRight]
             rest == {t \in asked : rights[t].verdict = "escalatable"}
  <2>1. answer.phase = "idle" /\ answer = Unasked /\ listed' = listed
    BY <1>3 DEF preflight, RightsInv
  <2>2. answer' = [phase |-> "bundle", rights |-> rights, bundle |-> {}, remaining |-> rest]
    BY <1>3, <2>1 DEF preflight, Unasked
  <2>3. \A t \in RightsTools : rights[t] = NoRight \/ rights[t] = AssessTools(t, TRUE)
    OBVIOUS
  <2>4. \A t \in RightsTools : rights[t].verdict = "escalatable" => t \in rest
    BY DEF NoRight
  <2>5. \A t \in rest : t \in RightsTools /\ rights[t].verdict = "escalatable"
    OBVIOUS
  <2> HIDE DEF rights, rest
  <2>6. /\ answer'.phase = "bundle" /\ answer'.rights = rights /\ answer'.bundle = {} /\ answer'.remaining = rest
    BY <2>2
  <2> QED  BY <1>2, <2>2, <2>3, <2>4, <2>5, <2>6 DEF RightsInv
<1>4. ASSUME pickKit  PROVE RightsInv'
  <2>1. PICK best \in RightsKits :
          answer' = [answer EXCEPT !.bundle = @ \cup {best},
                         !.remaining = {t \in @ : best \notin answer.rights[t].kits}]
    BY <1>4 DEF pickKit
  <2>2. answer.phase = "bundle" /\ listed' = listed
    BY <1>4 DEF pickKit
  <2> DEFINE rest == {t \in answer.remaining : best \notin answer.rights[t].kits}
             more == answer.bundle \cup {best}
  <2>3. answer' = [phase |-> "bundle", rights |-> answer.rights, bundle |-> more, remaining |-> rest]
    BY <2>1, <2>2 DEF RightsInv
  <2>4. /\ more \subseteq RightsKits
        /\ \A t \in rest : t \in RightsTools /\ answer.rights[t].verdict = "escalatable"
        /\ \A t \in RightsTools : answer.rights[t].verdict = "escalatable" =>
              t \in rest \/ \E k \in more : k \in answer.rights[t].kits
    BY DEF RightsInv
  <2> HIDE DEF rest, more
  <2>5. /\ answer'.phase = "bundle" /\ answer'.rights = answer.rights /\ answer'.bundle = more /\ answer'.remaining = rest
    BY <2>3
  <2> QED  BY <1>2, <2>3, <2>4, <2>5 DEF RightsInv
<1>5. ASSUME NEW ph \in {"answered", "listed"}, answer' = [answer EXCEPT !.phase = ph], answer.remaining = {},
             ph = "listed" => listed' = {t \in RightsTools : visible(AssessTools(t, FALSE))}
      PROVE  RightsInv'
  <2>1. answer' = [phase |-> ph, rights |-> answer.rights, bundle |-> answer.bundle, remaining |-> answer.remaining]
    BY <1>5 DEF RightsInv
  <2>2. answer'.phase = ph /\ answer'.rights = answer.rights /\ answer'.bundle = answer.bundle
        /\ answer'.remaining = answer.remaining
    BY <2>1
  <2>3. {t \in RightsTools : visible(AssessTools(t, FALSE))}' = {t \in RightsTools : visible(AssessTools(t, FALSE))}
    BY <1>2 DEF visible
  <2> QED  BY <1>2, <1>5, <2>1, <2>2, <2>3 DEF RightsInv
<1>6. CASE bundleDone
  BY <1>5, <1>6 DEF bundleDone
<1>7. CASE discover
  BY <1>5, <1>7 DEF discover, RightsInv
<1>8. CASE UNCHANGED rightsVars
  <2>1. {t \in RightsTools : visible(AssessTools(t, FALSE))}' = {t \in RightsTools : visible(AssessTools(t, FALSE))}
    BY <1>2 DEF visible
  <2>2. UNCHANGED <<answer, listed>>
    BY <1>8 DEF rightsVars
  <2> QED  BY <1>2, <2>1, <2>2 DEF RightsInv
<1> QED  BY <1>3, <1>4, <1>6, <1>7, <1>8 DEF RightsNext

(***************************************************************************)
(* For every configuration of grants, denies, policies, kits and failing   *)
(* checks: what tell_me_my_rights promises, ExecuteTool keeps; the bundle  *)
(* lifts every escalatable tool; what is denied or hidden no kit lifts;    *)
(* and the approver is shown all that a kit adds (assess, gateRights,      *)
(* smallestBundle, visibleTools, KitCoverage).                             *)
(***************************************************************************)
THEOREM AnswersHonest == RightsSpec => []RightsHonest
<1>1. RightsInit => RightsInv
  <2> SUFFICES ASSUME RightsInit  PROVE RightsInv
    OBVIOUS
  <2>1. answer = Unasked
    BY DEF RightsInit
  <2>2. /\ answer.phase = "idle" /\ answer.bundle = {} /\ answer.remaining = {}
        /\ answer.rights = [t \in RightsTools |-> NoRight]
        /\ answer = [phase |-> answer.phase, rights |-> answer.rights, bundle |-> answer.bundle, remaining |-> answer.remaining]
    BY <2>1 DEF Unasked
  <2> QED  BY <2>1, <2>2 DEF RightsInv, NoRight
<1>2. RightsInv /\ [RightsNext]_rightsVars => RightsInv'
  BY RightsStep
<1>3. RightsInv => RightsHonest
  <2> SUFFICES ASSUME RightsInv  PROVE RightsHonest
    OBVIOUS
  <2>1. ASSUME NEW t \in RightsTools
        PROVE  Promised(t, answer.rights[t])
    <3>1. Promised(t, NoRight)
      BY DEF Promised, NoRight
    <3> QED  BY <3>1, AnswersKept DEF RightsInv
  <2>2. ASSUME answer.phase = "answered", NEW t \in RightsTools, answer.rights[t].verdict = "escalatable"
        PROVE  callPasses(t, held.kits \cup answer.bundle)
    <3>1. PICK k \in answer.bundle : k \in answer.rights[t].kits
      BY <2>2 DEF RightsInv
    <3>2. callPasses(t, withKit(k))
      BY <2>1, <2>2, <3>1 DEF Promised
    <3>3. withKit(k) \subseteq held.kits \cup answer.bundle
      BY <3>1 DEF withKit
    <3> QED  BY <3>2, <3>3, KitsOnlyAdd
  <2>3. answer.phase = "bundle" => \A t \in answer.remaining : answer.rights[t].kits # {}
    BY <2>1 DEF RightsInv, Promised
  <2>4. ASSUME answer.phase = "listed", NEW t \in RightsTools \ (listed \cup failing), NEW K \in SUBSET RightsKits
        PROVE  ~callPasses(t, held.kits \cup K)
    <3>1. ~visible(AssessTools(t, FALSE))
      BY <2>4 DEF RightsInv
    <3> QED  BY <3>1, <2>4, HiddenIsOut
  <2>5. ASSUME NEW k \in RightsKits, NEW t \in RightsTools, ~callPasses(t, held.kits), callPasses(t, withKit(k))
        PROVE  t \in KitCoverage(k)
    BY <2>5, AddedIsShown
  <2>6. \A t \in RightsTools :
          LET r == answer.rights[t] IN
          /\ r.verdict = "allowed" => callPasses(t, held.kits)
          /\ r.verdict = "escalatable" => ~callPasses(t, held.kits) /\ \A k \in r.kits : callPasses(t, withKit(k))
          /\ r.verdict = "denied" /\ failing = {} =>
               \A kits \in SUBSET RightsKits : ~callPasses(t, held.kits \cup kits)
    BY <2>1 DEF Promised
  <2> QED  BY <2>2, <2>3, <2>4, <2>5, <2>6 DEF RightsHonest
<1> QED  BY <1>1, <1>2, <1>3, PTL DEF RightsSpec
-----------------------------------------------------------------------------
(***************************************************************************)
(* Bearer keys, for any number of concurrent requests, any entries and any *)
(* relation of values to the hashes they match.  KeysBoundOnce needs that  *)
(* only one request scans, so that what it has still to compare is unseen  *)
(* (ScanOK), and what a request has been through where it stands (AskedOK).*)
(***************************************************************************)
EntriesIn(s) == {s[i] : i \in DOMAIN s}

BearerPCs == {"new", "anonymous", "accepted", "token", "verify", "count", "queue", "scan",
              "unauthorized", "unavailable"}
BearerType == [pc : BearerPCs, value : Values, scan : Seq(HashSet), unchecked : BOOLEAN, expired : BOOLEAN]

\* Types of the store and of the requests.
KeysTypeOK ==
    /\ keyFile \in BOOLEAN /\ loginSet \in BOOLEAN
    /\ index \subseteq Matches
    /\ unseen \in Seq(HashSet)
    /\ bearerReq \in [BearerReqs -> BearerType]

\* The index and the unseen entries.
IndexOK ==
    /\ \A m, n \in index : m[1] = n[1] <=> m[2] = n[2]
    /\ \A i, j \in DOMAIN unseen : unseen[i] = unseen[j] => i = j
    /\ keyFile => \A m \in Matches : m[2] \in DigestEntries => m \in index
    /\ keyFile => \A e \in HashSet : e \in EntriesIn(unseen) <=> ~(\E v \in Values : <<v, e>> \in index)

\* The scans.
ScanOK ==
    /\ \A r, q \in Scanning : r = q
    /\ \A r \in Scanning :
         /\ EntriesIn(bearerReq[r].scan) \subseteq EntriesIn(unseen)
         /\ \A e \in EntriesIn(unseen) : <<bearerReq[r].value, e>> \in Matches => e \in EntriesIn(bearerReq[r].scan)

\* What a request that was not decided yet has been through.
AskedOK(r) ==
    /\ bearerReq[r].pc \in {"token", "verify", "count", "queue", "scan"} =>
         IF keyFile THEN \A e \in DigestEntries : <<bearerReq[r].value, e>> \notin Matches
         ELSE bearerReq[r].value # SingleKey
    /\ bearerReq[r].pc \in {"verify", "count", "queue", "scan"} =>
         /\ keyFile
         /\ loginSet /\ ~bearerReq[r].unchecked => TokenOf[bearerReq[r].value] # "valid"

\* A 401 was the right answer.
RefusedOK(r) ==
    bearerReq[r].pc = "unauthorized" /\ ~bearerReq[r].expired /\ r \notin lookedBefore => NoCredential(r)

KeysInv == KeysTypeOK /\ IndexOK /\ ScanOK /\ \A r \in BearerReqs : AskedOK(r) /\ RefusedOK(r)
-----------------------------------------------------------------------------
\* slices.Delete keeps the other elements, each where it was among them.
LEMMA DeleteAt ==
  ASSUME NEW S, NEW s \in Seq(S), NEW pos \in DOMAIN s
  PROVE  /\ Delete(s, pos) \in Seq(S)
         /\ Len(Delete(s, pos)) = Len(s) - 1
         /\ \A i \in 1..(Len(s) - 1) : Delete(s, pos)[i] = IF i < pos THEN s[i] ELSE s[i + 1]
<1> DEFINE a == SubSeq(s, 1, pos - 1)
           b == SubSeq(s, pos + 1, Len(s))
<1>1. Len(s) \in Nat /\ pos \in 1..Len(s)
  OBVIOUS
<1>2. a \in Seq(S) /\ Len(a) = pos - 1 /\ \A i \in 1..(pos - 1) : a[i] = s[i]
  BY <1>1
<1>3. b \in Seq(S) /\ Len(b) = Len(s) - pos /\ \A i \in 1..(Len(s) - pos) : b[i] = s[pos + i]
  BY <1>1
<1>4. Delete(s, pos) = a \o b
  BY DEF Delete
<1> HIDE DEF a, b
<1>5. a \o b \in Seq(S) /\ Len(a \o b) = Len(s) - 1
  BY <1>1, <1>2, <1>3
<1>6. ASSUME NEW i \in 1..(Len(s) - 1) PROVE (a \o b)[i] = IF i < pos THEN s[i] ELSE s[i + 1]
  <2>1. CASE i < pos
    BY <1>1, <1>2, <1>3, <2>1
  <2>2. CASE ~(i < pos)
    BY <1>1, <1>2, <1>3, <2>2
  <2>3. QED
    BY <2>1, <2>2
<1>7. QED
  BY <1>4, <1>5, <1>6

\* Of a list without repetitions one element goes.
LEMMA DeleteOne ==
  ASSUME NEW S, NEW s \in Seq(S), NEW pos \in DOMAIN s, \A i, j \in DOMAIN s : s[i] = s[j] => i = j
  PROVE  /\ Delete(s, pos) \in Seq(S)
         /\ EntriesIn(Delete(s, pos)) = EntriesIn(s) \ {s[pos]}
         /\ \A i, j \in DOMAIN Delete(s, pos) : Delete(s, pos)[i] = Delete(s, pos)[j] => i = j
<1> DEFINE t == Delete(s, pos)
<1>1. /\ t \in Seq(S) /\ Len(t) = Len(s) - 1
      /\ \A i \in 1..(Len(s) - 1) : t[i] = IF i < pos THEN s[i] ELSE s[i + 1]
  BY DeleteAt
<1>2. Len(s) \in Nat /\ DOMAIN s = 1..Len(s) /\ DOMAIN t = 1..(Len(s) - 1)
  BY <1>1
<1> HIDE DEF t
<1>3. ASSUME NEW x \in EntriesIn(t) PROVE x \in EntriesIn(s) \ {s[pos]}
  <2>1. PICK i \in 1..(Len(s) - 1) : x = t[i]
    BY <1>2 DEF EntriesIn
  <2>2. CASE i < pos
    BY <1>1, <1>2, <2>1, <2>2 DEF EntriesIn
  <2>3. CASE ~(i < pos)
    <3>1. x = s[i + 1] /\ i + 1 \in DOMAIN s /\ i + 1 # pos
      BY <1>1, <1>2, <2>1, <2>3
    <3>2. QED
      BY <3>1 DEF EntriesIn
  <2>4. QED
    BY <2>2, <2>3
<1>4. ASSUME NEW x \in EntriesIn(s) \ {s[pos]} PROVE x \in EntriesIn(t)
  <2>1. PICK i \in 1..Len(s) : x = s[i] /\ i # pos
    BY <1>2 DEF EntriesIn
  <2>2. CASE i < pos
    BY <1>1, <1>2, <2>1, <2>2 DEF EntriesIn
  <2>3. CASE ~(i < pos)
    <3>1. i - 1 \in 1..(Len(s) - 1) /\ ~(i - 1 < pos) /\ t[i - 1] = s[(i - 1) + 1]
      BY <1>1, <1>2, <2>1, <2>3
    <3>2. x = t[i - 1]
      BY <2>1, <3>1
    <3>3. QED
      BY <1>2, <3>1, <3>2 DEF EntriesIn
  <2>4. QED
    BY <2>2, <2>3
<1>5. ASSUME NEW i \in DOMAIN t, NEW j \in DOMAIN t, t[i] = t[j] PROVE i = j
  BY <1>1, <1>2, <1>5
<1>6. QED
  BY <1>1, <1>3, <1>4, <1>5 DEF t

LEMMA KeysInitial == ApiKeysInit => KeysInv
<1> SUFFICES ASSUME ApiKeysInit PROVE KeysInv
  OBVIOUS
<1>1. KeysTypeOK
  <2>1. NoBearer \in BearerType
    BY ApiKeysAssumption DEF NoBearer, BearerType, BearerPCs
  <2>2. unseen \in Seq(HashSet)
    BY ApiKeysAssumption DEF ApiKeysInit
  <2>3. QED
    BY <2>1, <2>2 DEF ApiKeysInit, KeysTypeOK
<1>2. \A i, j \in DOMAIN unseen : unseen[i] = unseen[j] => i = j
  BY ApiKeysAssumption DEF ApiKeysInit
<1>3. \A m, n \in index : m[1] = n[1] <=> m[2] = n[2]
  <2> SUFFICES ASSUME NEW m \in index, NEW n \in index PROVE m[1] = n[1] <=> m[2] = n[2]
    OBVIOUS
  <2>1. m \in Matches /\ n \in Matches /\ m[2] \in DigestEntries /\ n[2] \in DigestEntries
    BY DEF ApiKeysInit
  <2>2. m = <<m[1], m[2]>> /\ n = <<n[1], n[2]>> /\ m[1] \in Values /\ n[1] \in Values
    BY <2>1, ApiKeysAssumption
  <2>3. QED
    BY <2>1, <2>2, ApiKeysAssumption
<1>4. keyFile => \A e \in HashSet : e \in EntriesIn(unseen) /\ ~(\E v \in Values : <<v, e>> \in index)
  BY ApiKeysAssumption DEF ApiKeysInit, EntriesIn, HashSet
<1>5. IndexOK
  BY <1>2, <1>3, <1>4 DEF IndexOK, ApiKeysInit
<1>6. \A r \in BearerReqs : bearerReq[r].pc = "new"
  BY DEF ApiKeysInit, NoBearer
<1>7. ScanOK /\ \A r \in BearerReqs : AskedOK(r) /\ RefusedOK(r)
  BY <1>6 DEF ScanOK, Scanning, AskedOK, RefusedOK
<1>8. QED
  BY <1>1, <1>5, <1>7 DEF KeysInv

\* The index only grows, so what holds of the other requests stays.
LEMMA OtherRequests ==
  ASSUME KeysInv, NEW q \in BearerReqs, bearerReq'[q] = bearerReq[q], UNCHANGED <<keyFile, loginSet>>,
         index \subseteq index', lookedBefore \subseteq lookedBefore'
  PROVE  AskedOK(q)' /\ RefusedOK(q)'
<1>1. AskedOK(q) /\ RefusedOK(q)
  BY DEF KeysInv
<1>2. AskedOK(q)'
  BY <1>1 DEF AskedOK
<1>3. NoCredential(q) => NoCredential(q)'
  BY DEF NoCredential
<1>4. QED
  BY <1>1, <1>2, <1>3 DEF RefusedOK

\* One request goes on, and the store stays as it is.
LEMMA RequestMoves ==
  ASSUME KeysInv, NEW r \in BearerReqs,
         bearerReq' \in [BearerReqs -> BearerType], \A q \in BearerReqs \ {r} : bearerReq'[q] = bearerReq[q],
         UNCHANGED <<keyFile, loginSet, index, unseen>>, lookedBefore \subseteq lookedBefore',
         bearerReq'[r].pc = "scan" =>
           /\ \A q \in Scanning : q = r
           /\ EntriesIn(bearerReq'[r].scan) \subseteq EntriesIn(unseen)
           /\ \A e \in EntriesIn(unseen) : <<bearerReq'[r].value, e>> \in Matches => e \in EntriesIn(bearerReq'[r].scan),
         AskedOK(r)', RefusedOK(r)'
  PROVE  KeysInv'
<1>1. KeysTypeOK' /\ IndexOK'
  BY DEF KeysInv, KeysTypeOK, IndexOK
<1>2. \A q \in BearerReqs : AskedOK(q)' /\ RefusedOK(q)'
  BY OtherRequests
<1>3. ScanOK'
  <2>1. \A q \in Scanning' : q \in Scanning \/ (q = r /\ bearerReq'[r].pc = "scan")
    BY DEF Scanning
  <2>2. \A q \in Scanning' : q \in BearerReqs
    BY DEF Scanning
  <2>3. \A p, q \in Scanning' : p = q
    BY <2>1, <2>2 DEF KeysInv, ScanOK, Scanning
  <2>4. ASSUME NEW q \in Scanning'
        PROVE  /\ EntriesIn(bearerReq'[q].scan) \subseteq EntriesIn(unseen')
               /\ \A e \in EntriesIn(unseen') : <<bearerReq'[q].value, e>> \in Matches => e \in EntriesIn(bearerReq'[q].scan)
    <3>1. CASE q = r
      BY <2>4, <3>1 DEF Scanning
    <3>2. CASE q # r
      BY <2>1, <2>2, <3>2 DEF KeysInv, ScanOK
    <3>3. QED
      BY <3>1, <3>2
  <2>5. QED
    BY <2>3, <2>4 DEF ScanOK
<1>4. QED
  BY <1>1, <1>2, <1>3 DEF KeysInv

\* The fields of a request.
LEMMA BearerFields ==
  ASSUME KeysTypeOK, NEW r \in BearerReqs
  PROVE  /\ bearerReq[r] \in BearerType
         /\ bearerReq[r].pc \in BearerPCs /\ bearerReq[r].value \in Values
         /\ bearerReq[r].scan \in Seq(HashSet)
         /\ bearerReq[r].unchecked \in BOOLEAN /\ bearerReq[r].expired \in BOOLEAN
  BY DEF KeysTypeOK, BearerType

LEMMA PcMoves ==
  ASSUME KeysTypeOK, NEW r \in BearerReqs, NEW pc \in BearerPCs, BearerAt(r, pc)
  PROVE  /\ bearerReq' \in [BearerReqs -> BearerType]
         /\ \A q \in BearerReqs \ {r} : bearerReq'[q] = bearerReq[q]
         /\ bearerReq'[r].pc = pc
         /\ bearerReq'[r].value = bearerReq[r].value /\ bearerReq'[r].scan = bearerReq[r].scan
         /\ bearerReq'[r].unchecked = bearerReq[r].unchecked /\ bearerReq'[r].expired = bearerReq[r].expired
  BY DEF BearerAt, KeysTypeOK, BearerType

LEMMA RefusedMoves ==
  ASSUME KeysTypeOK, NEW r \in BearerReqs, NEW u \in BOOLEAN, Refused(r, u)
  PROVE  /\ bearerReq' \in [BearerReqs -> BearerType]
         /\ \A q \in BearerReqs \ {r} : bearerReq'[q] = bearerReq[q]
         /\ bearerReq'[r].pc = Verdict401(u)
         /\ bearerReq'[r].value = bearerReq[r].value
         /\ bearerReq'[r].unchecked = u
<1>1. <<>> \in Seq(HashSet) /\ Verdict401(u) \in BearerPCs
  BY DEF Verdict401, BearerPCs
<1>2. QED
  BY <1>1 DEF Refused, KeysTypeOK, BearerType

\* A request that is decided otherwise than with 401.
LEMMA RequestDecided ==
  ASSUME KeysInv, NEW r \in BearerReqs, bearerReq' \in [BearerReqs -> BearerType],
         \A q \in BearerReqs \ {r} : bearerReq'[q] = bearerReq[q],
         bearerReq'[r].pc \in {"accepted", "anonymous", "unavailable"},
         UNCHANGED <<keyFile, loginSet, index, unseen>>, lookedBefore \subseteq lookedBefore'
  PROVE  KeysInv'
<1>1. AskedOK(r)' /\ RefusedOK(r)' /\ bearerReq'[r].pc # "scan"
  BY DEF AskedOK, RefusedOK
<1>2. QED
  BY <1>1, RequestMoves

\* A request that goes on to a step before the scan.
LEMMA RequestAsks ==
  ASSUME KeysInv, NEW r \in BearerReqs, bearerReq' \in [BearerReqs -> BearerType],
         \A q \in BearerReqs \ {r} : bearerReq'[q] = bearerReq[q],
         bearerReq'[r].pc \in {"token", "verify", "count", "queue"}, AskedOK(r)',
         UNCHANGED <<keyFile, loginSet, index, unseen>>, lookedBefore \subseteq lookedBefore'
  PROVE  KeysInv'
<1>1. RefusedOK(r)' /\ bearerReq'[r].pc # "scan"
  BY DEF RefusedOK
<1>2. QED
  BY <1>1, RequestMoves

\* A request whose scan, or count, found nothing left to compare.
LEMMA RequestRefused ==
  ASSUME KeysInv, NEW r \in BearerReqs, bearerReq' \in [BearerReqs -> BearerType],
         \A q \in BearerReqs \ {r} : bearerReq'[q] = bearerReq[q],
         bearerReq'[r].pc = Verdict401(bearerReq[r].unchecked), bearerReq'[r].value = bearerReq[r].value,
         bearerReq[r].pc \in {"count", "scan"},
         \A e \in EntriesIn(unseen) : <<bearerReq[r].value, e>> \notin Matches,
         Indexed(bearerReq[r].value) => r \in lookedBefore',
         UNCHANGED <<keyFile, loginSet, index, unseen>>, lookedBefore \subseteq lookedBefore'
  PROVE  KeysInv'
<1>1. bearerReq[r].value \in Values /\ bearerReq[r].unchecked \in BOOLEAN
  BY BearerFields DEF KeysInv
<1>2. CASE bearerReq[r].unchecked
  BY <1>2, RequestDecided DEF Verdict401
<1>3. CASE ~bearerReq[r].unchecked
  <2>1. bearerReq'[r].pc = "unauthorized"
    BY <1>3 DEF Verdict401
  <2>2. /\ keyFile
        /\ \A e \in DigestEntries : <<bearerReq[r].value, e>> \notin Matches
        /\ loginSet => TokenOf[bearerReq[r].value] # "valid"
    BY <1>3 DEF KeysInv, AskedOK
  <2>3. ASSUME r \notin lookedBefore', NEW e \in KeyEntries, <<bearerReq[r].value, e>> \in Matches
        PROVE  \E w \in Values \ {bearerReq[r].value} : <<w, e>> \in index
    <3>1. e \in HashSet /\ e \notin EntriesIn(unseen)
      BY <2>2, <2>3 DEF KeyEntries
    <3>2. PICK w \in Values : <<w, e>> \in index
      BY <2>2, <3>1 DEF KeysInv, IndexOK
    <3>3. w # bearerReq[r].value
      BY <2>3, <3>2 DEF Indexed
    <3>4. QED
      BY <3>2, <3>3
  <2>4. r \notin lookedBefore' => NoCredential(r)'
    BY <2>2, <2>3 DEF NoCredential
  <2>5. AskedOK(r)' /\ RefusedOK(r)' /\ bearerReq'[r].pc # "scan"
    BY <2>1, <2>4 DEF AskedOK, RefusedOK
  <2>6. QED
    BY <2>5, RequestMoves
<1>4. QED
  BY <1>1, <1>2, <1>3

LEMMA KeysPresent ==
  ASSUME KeysInv, NEW r \in BearerReqs, Anonymous(r) \/ \E v \in Values : PresentBearer(r, v)
  PROVE  KeysInv'
<1>1. CASE Anonymous(r)
  <2>1. "anonymous" \in BearerPCs
    BY DEF BearerPCs
  <2>2. QED
    BY <1>1, <2>1, PcMoves, RequestDecided DEF Anonymous, KeysInv
<1>2. ASSUME NEW v \in Values, PresentBearer(r, v) PROVE KeysInv'
  <2>1. /\ bearerReq' \in [BearerReqs -> BearerType]
        /\ \A q \in BearerReqs \ {r} : bearerReq'[q] = bearerReq[q]
        /\ bearerReq'[r].value = v
        /\ bearerReq'[r].pc = IF (keyFile /\ Indexed(v)) \/ (~keyFile /\ v = SingleKey) THEN "accepted" ELSE "token"
    <3> DEFINE pc == IF (keyFile /\ Indexed(v)) \/ (~keyFile /\ v = SingleKey) THEN "accepted" ELSE "token"
    <3>1. pc \in BearerPCs
      BY DEF BearerPCs
    <3>2. bearerReq' = [bearerReq EXCEPT ![r].value = v, ![r].pc = pc]
      BY <1>2 DEF PresentBearer
    <3> HIDE DEF pc
    <3>3. /\ bearerReq' \in [BearerReqs -> BearerType]
          /\ \A q \in BearerReqs \ {r} : bearerReq'[q] = bearerReq[q]
          /\ bearerReq'[r].value = v /\ bearerReq'[r].pc = pc
      BY <3>1, <3>2 DEF KeysInv, KeysTypeOK, BearerType
    <3>4. QED
      BY <3>3 DEF pc
  <2>2. UNCHANGED <<keyFile, loginSet, index, unseen, lookedBefore>>
    BY <1>2 DEF PresentBearer
  <2>3. CASE bearerReq'[r].pc = "accepted"
    BY <2>1, <2>2, <2>3, RequestDecided
  <2>4. CASE bearerReq'[r].pc # "accepted"
    <3>1. ~(keyFile /\ Indexed(v)) /\ ~(~keyFile /\ v = SingleKey) /\ bearerReq'[r].pc = "token"
      BY <2>1, <2>4
    <3>2. keyFile => \A e \in DigestEntries : <<v, e>> \notin Matches
      BY <3>1 DEF KeysInv, IndexOK, Indexed, KeyEntries
    <3>3. AskedOK(r)'
      BY <2>1, <2>2, <3>1, <3>2 DEF AskedOK, KeysInv, KeysTypeOK
    <3>4. QED
      BY <2>1, <2>2, <3>1, <3>3, RequestAsks
  <2>5. QED
    BY <2>3, <2>4
<1>3. QED
  BY <1>1, <1>2

LEMMA KeysGetToken ==
  ASSUME KeysInv, NEW r \in BearerReqs, getToken(r)
  PROVE  KeysInv'
<1> DEFINE v == bearerReq[r].value
<1>1. /\ bearerReq[r].pc = "token" /\ v \in Values /\ AskedOK(r)
      /\ bearerReq[r].unchecked \in BOOLEAN /\ KeysTypeOK
      /\ UNCHANGED <<keyFile, loginSet, index, unseen, lookedBefore>>
  BY BearerFields DEF getToken, KeysInv
<1>2. /\ \A pc \in {"accepted", "verify", "unauthorized", "unavailable"} : pc \in BearerPCs
      /\ TokenOf[v] \in {"valid", "expired", "unknown"}
  BY <1>1, ApiKeysAssumption DEF BearerPCs
<1>3. CASE BearerAt(r, "accepted")
  BY <1>1, <1>2, <1>3, PcMoves, RequestDecided
<1>4. CASE BearerAt(r, "verify") /\ keyFile /\ (loginSet => TokenOf[v] = "unknown")
  <2>1. AskedOK(r)'
    BY <1>1, <1>2, <1>4, PcMoves DEF AskedOK
  <2>2. QED
    BY <1>1, <1>2, <1>4, <2>1, PcMoves, RequestAsks
<1>5. CASE BearerAt(r, "unauthorized") /\ ~keyFile /\ (loginSet => TokenOf[v] = "unknown")
  <2>1. bearerReq'[r].pc = "unauthorized" /\ bearerReq'[r].value = v
    BY <1>1, <1>2, <1>5, PcMoves
  <2>2. NoCredential(r)'
    BY <1>1, <1>5, <2>1 DEF NoCredential, AskedOK
  <2>3. AskedOK(r)' /\ RefusedOK(r)'
    BY <2>1, <2>2 DEF AskedOK, RefusedOK
  <2>4. QED
    BY <1>1, <1>2, <1>5, <2>1, <2>3, PcMoves, RequestMoves
<1>6. CASE bearerReq' = [bearerReq EXCEPT ![r].pc = "unauthorized", ![r].expired = TRUE]
  <2>1. /\ bearerReq' \in [BearerReqs -> BearerType]
        /\ \A q \in BearerReqs \ {r} : bearerReq'[q] = bearerReq[q]
        /\ bearerReq'[r].pc = "unauthorized" /\ bearerReq'[r].expired = TRUE
    BY <1>1, <1>2, <1>6 DEF KeysTypeOK, BearerType
  <2>2. AskedOK(r)' /\ RefusedOK(r)'
    BY <2>1 DEF AskedOK, RefusedOK
  <2>3. QED
    BY <1>1, <2>1, <2>2, RequestMoves
<1>7. ASSUME NEW pc \in {"verify", "unavailable"}, pc = "verify" <=> keyFile,
             bearerReq' = [bearerReq EXCEPT ![r].unchecked = TRUE, ![r].pc = pc]
      PROVE  KeysInv'
  <2>1. /\ bearerReq' \in [BearerReqs -> BearerType]
        /\ \A q \in BearerReqs \ {r} : bearerReq'[q] = bearerReq[q]
        /\ bearerReq'[r].pc = pc /\ bearerReq'[r].unchecked = TRUE /\ bearerReq'[r].value = v
    BY <1>1, <1>2, <1>7 DEF KeysTypeOK, BearerType
  <2>2. CASE pc = "unavailable"
    BY <1>1, <2>1, <2>2, RequestDecided
  <2>3. CASE pc = "verify"
    <3>1. AskedOK(r)'
      BY <1>1, <1>7, <2>1, <2>3 DEF AskedOK
    <3>2. QED
      BY <1>1, <2>1, <2>3, <3>1, RequestAsks
  <2>4. QED
    BY <2>2, <2>3
<1>8. QED
  BY <1>1, <1>3, <1>4, <1>5, <1>6, <1>7 DEF getToken, Verdict401

LEMMA KeysLookAgain ==
  ASSUME KeysInv, NEW r \in BearerReqs, verifyLookup(r) \/ countUnseen(r) \/ admit(r) \/ compareDeferred(r)
  PROVE  KeysInv'
<1>1. \A pc \in {"accepted", "count", "queue", "scan"} : pc \in BearerPCs
  BY DEF BearerPCs
<1>2. KeysTypeOK /\ AskedOK(r) /\ bearerReq[r].unchecked \in BOOLEAN
  BY BearerFields DEF KeysInv
<1>3. ASSUME NEW pc \in {"count", "queue"}, BearerAt(r, pc), bearerReq[r].pc \in {"verify", "count"},
             UNCHANGED <<keyFile, loginSet, index, unseen, lookedBefore>>
      PROVE  KeysInv'
  <2>1. AskedOK(r)'
    BY <1>1, <1>2, <1>3, PcMoves DEF AskedOK
  <2>2. QED
    BY <1>1, <1>2, <1>3, <2>1, PcMoves, RequestAsks
<1>4. CASE verifyLookup(r)
  <2>1. CASE BearerAt(r, "accepted")
    BY <1>1, <1>2, <1>4, <2>1, PcMoves, RequestDecided DEF verifyLookup
  <2>2. QED
    BY <1>3, <1>4, <2>1 DEF verifyLookup
<1>5. CASE countUnseen(r)
  <2>1. CASE unseen = <<>>
    <3>1. /\ Refused(r, bearerReq[r].unchecked) /\ bearerReq[r].pc = "count"
          /\ UNCHANGED <<keyFile, loginSet, index, unseen>> /\ lookedBefore \subseteq lookedBefore'
          /\ Indexed(bearerReq[r].value) => r \in lookedBefore'
      BY <1>5, <2>1 DEF countUnseen
    <3>2. EntriesIn(unseen) = {}
      BY <2>1 DEF EntriesIn
    <3>3. QED
      BY <1>2, <3>1, <3>2, RefusedMoves, RequestRefused
  <2>2. QED
    BY <1>3, <1>5, <2>1 DEF countUnseen
<1>6. CASE admit(r)
  <2>1. /\ bearerReq' \in [BearerReqs -> BearerType]
        /\ \A q \in BearerReqs \ {r} : bearerReq'[q] = bearerReq[q]
        /\ bearerReq'[r].pc = "scan" /\ bearerReq'[r].scan = unseen /\ bearerReq'[r].value = bearerReq[r].value
        /\ bearerReq'[r].unchecked = bearerReq[r].unchecked
    BY <1>1, <1>2, <1>6 DEF admit, KeysTypeOK, BearerType
  <2>2. UNCHANGED <<keyFile, loginSet, index, unseen, lookedBefore>> /\ Scanning = {} /\ bearerReq[r].pc = "queue"
    BY <1>6 DEF admit
  <2>3. AskedOK(r)' /\ RefusedOK(r)'
    BY <1>2, <2>1, <2>2 DEF AskedOK, RefusedOK
  <2>4. QED
    BY <2>1, <2>2, <2>3, RequestMoves
<1>7. CASE compareDeferred(r)
  <2>1. Refused(r, TRUE) /\ UNCHANGED <<keyFile, loginSet, index, unseen, lookedBefore>>
    BY <1>7 DEF compareDeferred
  <2>2. QED
    BY <1>2, <2>1, RefusedMoves, RequestDecided DEF Verdict401
<1>8. QED
  BY <1>4, <1>5, <1>6, <1>7

\* remember binds an unseen entry to the value of the one request that scans.
LEMMA KeysRemember ==
  ASSUME KeysInv, NEW r \in BearerReqs, bearerReq[r].pc = "scan", ~Indexed(bearerReq[r].value),
         NEW e \in EntriesIn(bearerReq[r].scan), <<bearerReq[r].value, e>> \in Matches, remember(r, e),
         UNCHANGED <<keyFile, loginSet, lookedBefore>>
  PROVE  KeysInv'
<1> DEFINE v == bearerReq[r].value
<1>1. r \in Scanning /\ KeysTypeOK /\ keyFile /\ v \in Values
  BY BearerFields DEF KeysInv, AskedOK, Scanning
<1>2. e \in EntriesIn(unseen) /\ e \in HashSet
  BY <1>1 DEF KeysInv, ScanOK, EntriesIn, KeysTypeOK
<1>3. PICK pos \in DOMAIN unseen : unseen[pos] = e /\ unseen' = Delete(unseen, pos)
  BY <1>2 DEF remember, EntriesIn
<1>4. /\ index' = index \cup {<<v, e>>}
      /\ bearerReq' = [bearerReq EXCEPT ![r].pc = "accepted", ![r].scan = <<>>]
  BY <1>2 DEF remember, EntriesIn
<1>5. /\ bearerReq' \in [BearerReqs -> BearerType]
      /\ \A q \in BearerReqs \ {r} : bearerReq'[q] = bearerReq[q]
      /\ bearerReq'[r].pc = "accepted"
  <2>1. "accepted" \in BearerPCs /\ <<>> \in Seq(HashSet)
    BY DEF BearerPCs
  <2>2. QED
    BY <1>1, <1>4, <2>1 DEF KeysTypeOK, BearerType
<1>6. /\ unseen' \in Seq(HashSet)
      /\ EntriesIn(unseen') = EntriesIn(unseen) \ {e}
      /\ \A i, j \in DOMAIN unseen' : unseen'[i] = unseen'[j] => i = j
  BY <1>1, <1>3, DeleteOne DEF KeysInv, IndexOK, KeysTypeOK
<1>7. KeysTypeOK'
  BY <1>1, <1>4, <1>5, <1>6 DEF KeysTypeOK
<1>8. IndexOK'
  <2>1. \A w \in Values : <<w, e>> \notin index
    BY <1>1, <1>2 DEF KeysInv, IndexOK
  <2>2. \A m \in index : m = <<m[1], m[2]>> /\ m[1] \in Values /\ m[2] \in KeyEntries
    BY <1>1, ApiKeysAssumption DEF KeysTypeOK
  <2>3. \A m \in index : m[2] # e /\ m[1] # v
    BY <2>1, <2>2 DEF Indexed
  <2>4. \A m, n \in index' : m[1] = n[1] <=> m[2] = n[2]
    BY <1>4, <2>3 DEF KeysInv, IndexOK
  <2>5. \A m \in Matches : m[2] \in DigestEntries => m \in index'
    BY <1>1, <1>4 DEF KeysInv, IndexOK
  <2>6. ASSUME NEW f \in HashSet
        PROVE  f \in EntriesIn(unseen') <=> ~(\E w \in Values : <<w, f>> \in index')
    <3>1. CASE f = e
      BY <1>1, <1>4, <1>6, <3>1
    <3>2. CASE f # e
      <4>1. \A w \in Values : <<w, f>> \in index' <=> <<w, f>> \in index
        BY <1>4, <3>2
      <4>2. f \in EntriesIn(unseen) <=> ~(\E w \in Values : <<w, f>> \in index)
        BY <1>1 DEF KeysInv, IndexOK
      <4>3. QED
        BY <1>6, <3>2, <4>1, <4>2
    <3>3. QED
      BY <3>1, <3>2
  <2>7. QED
    BY <1>6, <2>4, <2>5, <2>6 DEF IndexOK
<1>9. Scanning' = {}
  BY <1>1, <1>5 DEF KeysInv, ScanOK, Scanning
<1>10. ScanOK'
  BY <1>9 DEF ScanOK
<1>11. \A q \in BearerReqs : AskedOK(q)' /\ RefusedOK(q)'
  <2>1. AskedOK(r)' /\ RefusedOK(r)'
    BY <1>5 DEF AskedOK, RefusedOK
  <2>2. QED
    BY <1>4, <1>5, <2>1, OtherRequests
<1>12. QED
  BY <1>7, <1>8, <1>10, <1>11 DEF KeysInv

LEMMA KeysScan ==
  ASSUME KeysInv, NEW r \in BearerReqs, scan(r)
  PROVE  KeysInv'
<1> DEFINE v == bearerReq[r].value
           rest == bearerReq[r].scan
<1>1. /\ bearerReq[r].pc = "scan" /\ KeysTypeOK /\ AskedOK(r) /\ r \in Scanning
      /\ rest \in Seq(HashSet) /\ bearerReq[r].unchecked \in BOOLEAN
      /\ UNCHANGED <<keyFile, loginSet, lookedBefore>>
  BY BearerFields DEF scan, KeysInv, Scanning
<1>2. /\ EntriesIn(rest) \subseteq EntriesIn(unseen)
      /\ \A e \in EntriesIn(unseen) : <<v, e>> \in Matches => e \in EntriesIn(rest)
      /\ \A q \in Scanning : q = r
  BY <1>1 DEF KeysInv, ScanOK
<1>3. CASE /\ known(r) /\ bearerReq' = [bearerReq EXCEPT ![r].pc = "accepted", ![r].scan = <<>>]
           /\ UNCHANGED <<unseen, index>>
  <2>1. "accepted" \in BearerPCs /\ <<>> \in Seq(HashSet)
    BY DEF BearerPCs
  <2>2. /\ bearerReq' \in [BearerReqs -> BearerType]
        /\ \A q \in BearerReqs \ {r} : bearerReq'[q] = bearerReq[q]
        /\ bearerReq'[r].pc = "accepted"
    BY <1>1, <1>3, <2>1 DEF KeysTypeOK, BearerType
  <2>3. QED
    BY <1>1, <1>3, <2>2, RequestDecided
<1>4. CASE ~known(r) /\ rest = <<>> /\ Refused(r, bearerReq[r].unchecked) /\ UNCHANGED <<unseen, index>>
  <2>1. \A e \in EntriesIn(unseen) : <<v, e>> \notin Matches
    BY <1>2, <1>4 DEF EntriesIn
  <2>2. ~Indexed(v)
    BY <1>4 DEF known
  <2>3. QED
    BY <1>1, <1>4, <2>1, <2>2, RefusedMoves, RequestRefused
<1>5. CASE ~known(r) /\ rest # <<>> /\ <<v, Head(rest)>> \in Matches /\ remember(r, Head(rest))
  <2>1. Head(rest) \in EntriesIn(rest)
    BY <1>1, <1>5 DEF EntriesIn
  <2>2. QED
    BY <1>1, <1>5, <2>1, KeysRemember DEF known
<1>6. CASE /\ ~known(r) /\ rest # <<>> /\ <<v, Head(rest)>> \notin Matches
           /\ bearerReq' = [bearerReq EXCEPT ![r].scan = Tail(rest)] /\ UNCHANGED <<unseen, index>>
  <2>1. /\ Tail(rest) \in Seq(HashSet)
        /\ EntriesIn(Tail(rest)) \subseteq EntriesIn(rest)
        /\ \A e \in EntriesIn(rest) : e = Head(rest) \/ e \in EntriesIn(Tail(rest))
    <3>1. Tail(rest) \in Seq(HashSet) /\ Len(Tail(rest)) = Len(rest) - 1
      BY <1>1, <1>6
    <3>2. \A i \in 1..(Len(rest) - 1) : Tail(rest)[i] = rest[i + 1]
      BY <1>1, <1>6
    <3>3. Len(rest) \in Nat /\ DOMAIN rest = 1..Len(rest) /\ DOMAIN Tail(rest) = 1..(Len(rest) - 1) /\ Head(rest) = rest[1]
      BY <1>1, <1>6, <3>1
    <3>4. EntriesIn(Tail(rest)) \subseteq EntriesIn(rest)
      BY <3>2, <3>3 DEF EntriesIn
    <3>5. ASSUME NEW e \in EntriesIn(rest), e # Head(rest) PROVE e \in EntriesIn(Tail(rest))
      <4>1. PICK i \in 1..Len(rest) : e = rest[i] /\ i # 1
        BY <3>3, <3>5 DEF EntriesIn
      <4>2. i - 1 \in 1..(Len(rest) - 1) /\ Tail(rest)[i - 1] = rest[(i - 1) + 1] /\ (i - 1) + 1 = i
        BY <3>2, <3>3, <4>1
      <4>3. QED
        BY <3>3, <4>1, <4>2 DEF EntriesIn
    <3>6. QED
      BY <3>1, <3>4, <3>5
  <2>2. /\ bearerReq' \in [BearerReqs -> BearerType]
        /\ \A q \in BearerReqs \ {r} : bearerReq'[q] = bearerReq[q]
        /\ bearerReq'[r].pc = "scan" /\ bearerReq'[r].scan = Tail(rest) /\ bearerReq'[r].value = v
        /\ bearerReq'[r].unchecked = bearerReq[r].unchecked
    BY <1>1, <1>6, <2>1 DEF KeysTypeOK, BearerType
  <2>3. AskedOK(r)' /\ RefusedOK(r)'
    BY <1>1, <2>2 DEF AskedOK, RefusedOK
  <2>4. \A e \in EntriesIn(unseen) : <<v, e>> \in Matches => e \in EntriesIn(Tail(rest))
    BY <1>2, <1>6, <2>1
  <2>5. QED
    BY <1>1, <1>2, <1>6, <2>1, <2>2, <2>3, <2>4, RequestMoves
<1>7. QED
  BY <1>3, <1>4, <1>5, <1>6 DEF scan

LEMMA KeysStep == KeysInv /\ [ApiKeysNext]_apiKeyVars => KeysInv'
<1> SUFFICES ASSUME KeysInv, [ApiKeysNext]_apiKeyVars PROVE KeysInv'
  OBVIOUS
<1>1. CASE UNCHANGED apiKeyVars
  BY <1>1 DEF apiKeyVars, KeysInv, KeysTypeOK, IndexOK, ScanOK, Scanning, AskedOK, RefusedOK, NoCredential
<1>2. QED
  BY <1>1, KeysPresent, KeysGetToken, KeysLookAgain, KeysScan DEF ApiKeysNext

\* KeysBoundOnce for any number of requests, entries and values: whichever
\* requests present a key first at the same time (Verify, scan, remember), an
\* entry is bound to one value and a value to one entry, and a key is answered
\* 401 only when no entry is left for it, or when its request looked in the index
\* before another's scan bound the last entry and counted after it.
THEOREM KeysAlwaysBoundOnce == ApiKeysSpec => []KeysBoundOnce
<1>1. KeysInv => KeysBoundOnce
  <2> SUFFICES ASSUME KeysInv PROVE KeysBoundOnce
    OBVIOUS
  <2>1. \A r \in BearerReqs \ lookedBefore :
          bearerReq[r].pc = "unauthorized" /\ ~bearerReq[r].expired => NoCredential(r)
    BY DEF KeysInv, RefusedOK
  <2>2. index \subseteq Matches /\ \A m, n \in index : m[1] = n[1] <=> m[2] = n[2]
    BY DEF KeysInv, KeysTypeOK, IndexOK
  <2>3. ASSUME keyFile, NEW i \in DOMAIN HashEntries
        PROVE  (\E j \in DOMAIN unseen : unseen[j] = HashEntries[i]) <=> ~(\E v \in Values : <<v, HashEntries[i]>> \in index)
    <3>1. HashEntries[i] \in HashSet
      BY DEF HashSet
    <3>2. HashEntries[i] \in EntriesIn(unseen) <=> \E j \in DOMAIN unseen : unseen[j] = HashEntries[i]
      BY DEF EntriesIn
    <3>3. QED
      BY <2>3, <3>1, <3>2 DEF KeysInv, IndexOK
  <2>4. QED
    BY <2>1, <2>2, <2>3 DEF KeysBoundOnce
<1>2. QED
  BY KeysInitial, KeysStep, <1>1, PTL DEF ApiKeysSpec
-----------------------------------------------------------------------------
(***************************************************************************)
(* The login throttle, for any number of attempts, accounts, addresses and *)
(* any limits.  LoginLimitHolds needs that no table counts less than the   *)
(* charges it holds, but for those it is known to have lost (Counts), and  *)
(* that an attempt Redis decides has no charges Redis does not know        *)
(* (Decided), as long as the tables do not decide side by side; the bounds *)
(* need that a full table is never over its bound, and who waits is in the *)
(* queue once (Slotted).                                                   *)
(***************************************************************************)
LoginPCs == {"new", "redis", "local", "charge", "exhaust", "allowed", "waiting", "comparing",
             "release", "releaseLocal", "failed", "answered"}
AttemptType == [pc : LoginPCs, counters : Seq(LoginKeys), shared : BOOLEAN, clear : BOOLEAN]

LoginTypeOK ==
    /\ rdb \in BOOLEAN /\ userStore \in BOOLEAN
    /\ shared \in [LoginKeys -> Nat]
    /\ local \in [LoginKeys -> [count : Nat, unshared : Nat]]
    /\ attempt \in [Attempts -> AttemptType]
    /\ slotQueue \in Seq(Attempts)
    /\ redisFails \in Nat
    /\ charged \in [Attempts -> SUBSET (Tables \X LoginKeys)]
    /\ loosened \in [Tables \X LoginKeys -> Nat]
    /\ overlapped \in BOOLEAN /\ lockoutLost \in BOOLEAN

\* The charges of an attempt, by how far it has come.
Charged(a) ==
    /\ \A t \in Tables, k \in LoginKeys : <<t, k>> \in charged[a] => k \in Keys(a)
    /\ attempt[a].pc \in {"new", "redis", "local", "exhaust", "answered"} => charged[a] = {}
    /\ \A k \in LoginKeys : <<"shared", k>> \in charged[a] => attempt[a].shared
    /\ attempt[a].pc = "charge" => attempt[a].shared /\ \A k \in LoginKeys : <<"local", k>> \notin charged[a]
    /\ attempt[a].pc = "releaseLocal" => \A k \in LoginKeys : <<"shared", k>> \notin charged[a]
    /\ attempt[a].pc = "exhaust" => attempt[a].counters # <<>>
    /\ ~rdb => attempt[a].pc \notin {"redis", "charge", "exhaust", "releaseLocal"}
    /\ Len(attempt[a].counters) <= 3

\* The attempts whose charge Redis and not the table holds, but for the one
\* that is about to be mirrored; with them, those the table counts or once
\* did; and those whose charge only the table holds.
Unmirrored(k) == {a \in HeldIn("shared", k) : attempt[a].pc # "charge"} \ HeldIn("local", k)
OnTable(k) == HeldIn("local", k) \cup Unmirrored(k)
OnlyLocal(k) == {a \in HeldIn("local", k) : ~attempt[a].shared}

\* What a table counts and the charges it holds.
Counts(k) ==
    /\ Cardinality(HeldIn("shared", k)) <= shared[k] + loosened[<<"shared", k>>]
    /\ Cardinality(OnTable(k)) <= local[k].count + loosened[<<"local", k>>]
    /\ Cardinality(Unmirrored(k)) <= loosened[<<"local", k>>]
    /\ Cardinality(OnlyLocal(k)) <= local[k].unshared + loosened[<<"local", k>>]

\* The attempts that count against a limit.
InForce(k) == HeldIn("shared", k) \cup OnlyLocal(k)
Limited(k) == Cardinality(InForce(k)) <= LoginLimit(k) + loosened[<<"shared", k>>] + loosened[<<"local", k>>]
Decided ==
    \A a \in Attempts : attempt[a].pc \in {"redis", "charge"} => \A k \in Keys(a) : local[k].unshared = 0

\* The counters of one table are exact while it has lost nothing.
Exact(k) ==
    /\ rdb /\ redisFails = 0 /\ loosened[<<"shared", k>>] = 0 => shared[k] = Cardinality(HeldIn("shared", k))
    /\ ~rdb /\ loosened[<<"local", k>>] = 0 => local[k].count = Cardinality(HeldIn("local", k))

\* The slots of the CompareLimiter.
Slotted ==
    /\ Cardinality(Comparing) <= Slots
    /\ slotQueue # <<>> => Cardinality(Comparing) = Slots
    /\ Len(slotQueue) <= MaxWaiting
    /\ \A i, j \in DOMAIN slotQueue : slotQueue[i] = slotQueue[j] => i = j
    /\ \A a \in Attempts : attempt[a].pc = "waiting" <=> \E i \in DOMAIN slotQueue : slotQueue[i] = a

Roomy == IsFiniteSet(Present) /\ Cardinality(Present) <= MaxEntries /\ ~lockoutLost

LoginInv ==
    /\ LoginTypeOK /\ Slotted /\ Roomy
    /\ \A a \in Attempts : Charged(a)
    /\ \A k \in LoginKeys : Counts(k) /\ Exact(k)
    /\ ~overlapped => Decided /\ \A k \in LoginKeys : Limited(k)
-----------------------------------------------------------------------------
\* A counter is of one of three kinds, and its limit is a number.
LEMMA CounterKind ==
  ASSUME NEW k \in LoginKeys
  PROVE  k[1] \in {"user_ip", "user", "ip"} /\ LoginLimit(k) \in Nat
<1>1. k[1] \in {"user_ip", "user", "ip"}
  BY DEF LoginKeys
<1>2. QED
  BY <1>1, LoginAssumption DEF LoginLimit

\* An attempt has at most three counters.
LEMMA CountersType ==
  ASSUME NEW acct \in Accounts, NEW ip \in IPs
  PROVE  counters(acct, ip) \in Seq(LoginKeys) /\ Len(counters(acct, ip)) <= 3
<1>1. ASSUME NEW k \in LoginKeys PROVE Enabled(k) \in Seq(LoginKeys) /\ Len(Enabled(k)) <= 1
  BY <1>1 DEF Enabled
<1>2. <<"user_ip", acct, ip>> \in LoginKeys /\ <<"user", acct>> \in LoginKeys /\ <<"ip", ip>> \in LoginKeys
  BY DEF LoginKeys
<1> DEFINE x == Enabled(<<"user_ip", acct, ip>>)
           y == Enabled(<<"user", acct>>)
           z == Enabled(<<"ip", ip>>)
<1>3. /\ x \in Seq(LoginKeys) /\ Len(x) <= 1 /\ y \in Seq(LoginKeys) /\ Len(y) <= 1
      /\ z \in Seq(LoginKeys) /\ Len(z) <= 1 /\ counters(acct, ip) = x \o y \o z
  BY <1>1, <1>2 DEF counters
<1> HIDE DEF x, y, z
<1>4. x \o y \in Seq(LoginKeys) /\ Len(x \o y) <= 2
  BY <1>3
<1>5. QED
  BY <1>3, <1>4

\* Sets of attempts are finite, so their sizes are numbers.
LEMMA Sizes ==
  ASSUME NEW S \in SUBSET Attempts, NEW T \in SUBSET Attempts
  PROVE  /\ IsFiniteSet(S) /\ Cardinality(S) \in Nat
         /\ S \subseteq T => Cardinality(S) <= Cardinality(T)
         /\ Cardinality(S \cup T) <= Cardinality(S) + Cardinality(T)
<1>1. IsFiniteSet(S) /\ IsFiniteSet(T)
  BY FS_Subset, LoginAssumption
<1>2. Cardinality(S) \in Nat /\ Cardinality(T) \in Nat
  BY <1>1, FS_CardinalityType
<1>3. S \subseteq T => Cardinality(S) <= Cardinality(T)
  BY <1>1, FS_Subset
<1>4. Cardinality(S \cup T) = Cardinality(S) + Cardinality(T) - Cardinality(S \cap T)
  BY <1>1, FS_Union
<1>5. IsFiniteSet(S \cap T)
  BY <1>1, FS_Intersection
<1>6. Cardinality(S \cap T) \in Nat
  BY <1>5, FS_CardinalityType
<1>7. QED
  BY <1>1, <1>2, <1>3, <1>4, <1>6

LEMMA OneAttempt ==
  ASSUME NEW S \in SUBSET Attempts, NEW a \in Attempts
  PROVE  /\ Cardinality(S \cup {a}) = IF a \in S THEN Cardinality(S) ELSE Cardinality(S) + 1
         /\ Cardinality(S \ {a}) = IF a \in S THEN Cardinality(S) - 1 ELSE Cardinality(S)
         /\ a \in S => Cardinality(S) > 0
         /\ Cardinality(S \cup {a}) \in Nat /\ Cardinality(S \cup {a}) <= Cardinality(S) + 1
<1>1. IsFiniteSet(S) /\ Cardinality(S) \in Nat
  BY Sizes
<1>2. IsFiniteSet(S \ {a}) /\ Cardinality(S \ {a}) = IF a \in S THEN Cardinality(S) - 1 ELSE Cardinality(S)
  BY <1>1, FS_RemoveElement
<1>3. Cardinality(S \ {a}) \in Nat
  BY <1>2, FS_CardinalityType
<1>4. Cardinality(S \cup {a}) = IF a \in S THEN Cardinality(S) ELSE Cardinality(S) + 1
  BY <1>1, FS_AddElement
<1>5. a \in S => Cardinality(S) > 0
  BY <1>1, <1>2, <1>3
<1>6. Cardinality(S \cup {a}) \in Nat /\ Cardinality(S \cup {a}) <= Cardinality(S) + 1
  BY <1>1, <1>4
<1>7. QED
  BY <1>2, <1>4, <1>5, <1>6

\* The counters of an attempt are known, and few.
LEMMA KeysType ==
  ASSUME LoginInv, NEW a \in Attempts
  PROVE  /\ Keys(a) \subseteq LoginKeys /\ IsFiniteSet(Keys(a)) /\ Cardinality(Keys(a)) <= 3
         /\ attempt[a] \in AttemptType /\ charged[a] \subseteq Tables \X LoginKeys /\ Charged(a)
         /\ \A i \in DOMAIN attempt[a].counters : attempt[a].counters[i] \in Keys(a)
<1>1. /\ attempt[a] \in AttemptType /\ charged[a] \subseteq Tables \X LoginKeys /\ Charged(a)
  BY DEF LoginInv, LoginTypeOK
<1> DEFINE cs == attempt[a].counters
<1>2. cs \in Seq(LoginKeys) /\ Len(cs) <= 3
  BY <1>1 DEF AttemptType, Charged
<1>3. Keys(a) = {cs[i] : i \in DOMAIN cs}
  BY DEF Keys, KeysOf
<1> HIDE DEF cs
<1>4. Keys(a) \subseteq LoginKeys /\ DOMAIN cs = 1..Len(cs) /\ Len(cs) \in Nat
  BY <1>2, <1>3
<1> DEFINE f == [i \in 1..Len(cs) |-> cs[i]]
<1>5. f \in Surjection(1..Len(cs), Keys(a))
  BY <1>3, <1>4 DEF Surjection
<1>6. IsFiniteSet(1..Len(cs)) /\ Cardinality(1..Len(cs)) = Len(cs)
  <2>1. 1 \in Int /\ Len(cs) \in Int
    BY <1>4
  <2>2. IsFiniteSet(1..Len(cs)) /\ Cardinality(1..Len(cs)) = IF 1 > Len(cs) THEN 0 ELSE Len(cs) - 1 + 1
    BY <2>1, FS_Interval
  <2>3. QED
    BY <1>4, <2>2
<1>7. IsFiniteSet(Keys(a)) /\ Cardinality(Keys(a)) <= Len(cs)
  BY <1>5, <1>6, FS_Surjection
<1>8. Cardinality(Keys(a)) \in Nat
  BY <1>7, FS_CardinalityType
<1>9. QED
  BY <1>1, <1>2, <1>3, <1>4, <1>7, <1>8 DEF cs

\* The sets of attempts the invariant counts.
LEMMA HeldType ==
  ASSUME NEW k \in LoginKeys
  PROVE  /\ HeldIn("shared", k) \subseteq Attempts /\ HeldIn("local", k) \subseteq Attempts
         /\ Unmirrored(k) \subseteq Attempts /\ OnlyLocal(k) \subseteq Attempts
         /\ OnTable(k) \subseteq Attempts /\ InForce(k) \subseteq Attempts
         /\ HeldIn("shared", k)' \subseteq Attempts /\ HeldIn("local", k)' \subseteq Attempts
         /\ Unmirrored(k)' \subseteq Attempts /\ OnlyLocal(k)' \subseteq Attempts
         /\ OnTable(k)' \subseteq Attempts /\ InForce(k)' \subseteq Attempts
  BY DEF HeldIn, Unmirrored, OnlyLocal, OnTable, InForce

\* The initial state satisfies the invariant.
LEMMA LoginInitInv == LoginInit => LoginInv
<1> SUFFICES ASSUME LoginInit PROVE LoginInv
  OBVIOUS
<1>1. NoAttempt \in AttemptType /\ NoAttempt.pc = "new" /\ NoAttempt.counters = <<>>
  BY DEF NoAttempt, AttemptType, LoginPCs
<1>2. LoginTypeOK
  <2>1. rdb \in BOOLEAN /\ userStore \in BOOLEAN /\ overlapped \in BOOLEAN /\ lockoutLost \in BOOLEAN
    BY DEF LoginInit
  <2>2. shared \in [LoginKeys -> Nat] /\ local \in [LoginKeys -> [count : Nat, unshared : Nat]]
    BY DEF LoginInit, NoCounter
  <2>3. attempt \in [Attempts -> AttemptType] /\ slotQueue \in Seq(Attempts) /\ redisFails \in Nat
    BY <1>1 DEF LoginInit
  <2>4. charged \in [Attempts -> SUBSET (Tables \X LoginKeys)] /\ loosened \in [Tables \X LoginKeys -> Nat]
    BY DEF LoginInit
  <2>5. QED
    BY <2>1, <2>2, <2>3, <2>4 DEF LoginTypeOK
<1>3. \A a \in Attempts : attempt[a] = NoAttempt /\ charged[a] = {} /\ Charged(a)
  BY <1>1, <1>2 DEF LoginInit, Charged, Keys, KeysOf
<1>4. Comparing = {} /\ Present = {}
  BY <1>1, <1>3 DEF LoginInit, Comparing, Present, NoCounter
<1>5. Slotted
  BY <1>1, <1>3, <1>4, FS_EmptySet, LoginAssumption DEF LoginInit, Slotted
<1>6. Roomy
  BY <1>4, FS_EmptySet, LoginAssumption DEF LoginInit, Roomy
<1>7. ASSUME NEW k \in LoginKeys PROVE Counts(k) /\ Exact(k) /\ Limited(k)
  <2>1. HeldIn("shared", k) = {} /\ HeldIn("local", k) = {}
    BY <1>3 DEF HeldIn
  <2>2. Unmirrored(k) = {} /\ OnlyLocal(k) = {} /\ InForce(k) = {} /\ OnTable(k) = {}
    BY <2>1 DEF Unmirrored, OnlyLocal, OnTable, InForce
  <2>3. <<"shared", k>> \in Tables \X LoginKeys /\ <<"local", k>> \in Tables \X LoginKeys
    BY DEF Tables
  <2>4. /\ shared[k] = 0 /\ local[k].count = 0 /\ local[k].unshared = 0
        /\ loosened[<<"shared", k>>] = 0 /\ loosened[<<"local", k>>] = 0
    BY <2>3 DEF LoginInit, NoCounter
  <2>5. Cardinality({}) = 0 /\ LoginLimit(k) \in Nat
    BY FS_EmptySet, CounterKind
  <2>6. Counts(k)
    BY <2>1, <2>2, <2>4, <2>5 DEF Counts
  <2>7. Exact(k)
    BY <2>1, <2>4, <2>5 DEF Exact
  <2>8. Limited(k)
    BY <2>2, <2>4, <2>5 DEF Limited
  <2>9. QED
    BY <2>6, <2>7, <2>8
<1>8. Decided
  BY <1>1, <1>3 DEF Decided
<1>9. QED
  BY <1>2, <1>3, <1>5, <1>6, <1>7, <1>8 DEF LoginInv

-----------------------------------------------------------------------------
\* The numbers of a counter.
Numbers(k) ==
    /\ shared[k] \in Nat /\ local[k].count \in Nat /\ local[k].unshared \in Nat
    /\ loosened[<<"shared", k>>] \in Nat /\ loosened[<<"local", k>>] \in Nat

\* How many attempts the invariant counts.
Sized(k) ==
    /\ Cardinality(HeldIn("shared", k)) \in Nat /\ Cardinality(HeldIn("local", k)) \in Nat
    /\ Cardinality(OnTable(k)) \in Nat
    /\ Cardinality(Unmirrored(k)) \in Nat /\ Cardinality(OnlyLocal(k)) \in Nat /\ Cardinality(InForce(k)) \in Nat

LEMMA CounterNumbers ==
  ASSUME LoginTypeOK, LoginTypeOK', NEW k \in LoginKeys
  PROVE  LoginLimit(k) \in Nat /\ Numbers(k) /\ Numbers(k)' /\ Sized(k) /\ Sized(k)'
<1>1. <<"shared", k>> \in Tables \X LoginKeys /\ <<"local", k>> \in Tables \X LoginKeys
  BY DEF Tables
<1>2. LoginLimit(k) \in Nat
  BY CounterKind
<1>3. Numbers(k)
  BY <1>1 DEF LoginTypeOK, Numbers
<1>4. Numbers(k)'
  BY <1>1 DEF LoginTypeOK, Numbers
<1>5. Sized(k)
  BY HeldType, Sizes DEF Sized
<1>6. Sized(k)'
  BY HeldType, Sizes DEF Sized
<1>7. QED
  BY <1>2, <1>3, <1>4, <1>5, <1>6

\* The charges of a counter stay, and what is known of those attempts.
LEMMA SameHolders ==
  ASSUME NEW k \in LoginKeys,
         \A b \in Attempts, t \in Tables : <<t, k>> \in charged'[b] <=> <<t, k>> \in charged[b],
         \A b \in Attempts : (\E t \in Tables : <<t, k>> \in charged[b]) =>
            /\ attempt'[b].shared = attempt[b].shared
            /\ attempt'[b].pc = "charge" <=> attempt[b].pc = "charge"
  PROVE  /\ HeldIn("shared", k)' = HeldIn("shared", k) /\ HeldIn("local", k)' = HeldIn("local", k)
         /\ Unmirrored(k)' = Unmirrored(k) /\ OnlyLocal(k)' = OnlyLocal(k) /\ OnTable(k)' = OnTable(k) /\ InForce(k)' = InForce(k)
<1>1. HeldIn("shared", k)' = HeldIn("shared", k) /\ HeldIn("local", k)' = HeldIn("local", k)
  BY DEF HeldIn, Tables
<1>2. \A b \in Attempts : b \in HeldIn("shared", k) \/ b \in HeldIn("local", k) =>
            /\ attempt'[b].shared = attempt[b].shared
            /\ attempt'[b].pc = "charge" <=> attempt[b].pc = "charge"
  BY DEF HeldIn, Tables
<1>3. HeldIn("shared", k) \subseteq Attempts /\ HeldIn("local", k) \subseteq Attempts
  BY HeldType
<1>4. Unmirrored(k)' = Unmirrored(k)
  BY <1>1, <1>2, <1>3 DEF Unmirrored
<1>5. OnlyLocal(k)' = OnlyLocal(k)
  BY <1>1, <1>2, <1>3 DEF OnlyLocal
<1>6. QED
  BY <1>1, <1>4, <1>5 DEF InForce, OnTable

\* A counter of which a step changes neither the number nor the charges.
LEMMA SameCounter ==
  ASSUME LoginInv, NEW k \in LoginKeys, rdb' = rdb, redisFails' = redisFails,
         shared'[k] = shared[k], local'[k] = local[k],
         loosened'[<<"shared", k>>] = loosened[<<"shared", k>>],
         loosened'[<<"local", k>>] = loosened[<<"local", k>>],
         HeldIn("shared", k)' = HeldIn("shared", k), HeldIn("local", k)' = HeldIn("local", k),
         Unmirrored(k)' = Unmirrored(k), OnlyLocal(k)' = OnlyLocal(k), OnTable(k)' = OnTable(k), InForce(k)' = InForce(k)
  PROVE  Counts(k)' /\ Exact(k)' /\ (Limited(k) => Limited(k)')
<1>1. Counts(k) /\ Exact(k)
  BY DEF LoginInv
<1>2. Counts(k)'
  BY <1>1 DEF Counts
<1>3. Exact(k)'
  BY <1>1 DEF Exact
<1>4. Limited(k) => Limited(k)'
  BY DEF Limited
<1>5. QED
  BY <1>2, <1>3, <1>4

\* A step that changes no counter and no charge.
LEMMA QuietAttempt ==
  ASSUME LoginInv, LoginTypeOK',
         UNCHANGED <<rdb, shared, local, charged, loosened, overlapped, lockoutLost, redisFails>>,
         \A b \in Attempts : charged[b] # {} =>
            attempt'[b].shared = attempt[b].shared /\ (attempt'[b].pc = "charge" <=> attempt[b].pc = "charge"),
         \A b \in Attempts : attempt'[b].pc \in {"redis", "charge"} =>
            \/ attempt[b].pc \in {"redis", "charge"} /\ Keys(b)' = Keys(b)
            \/ \A k \in Keys(b)' : local[k].unshared = 0
  PROVE  /\ Roomy' /\ \A k \in LoginKeys : Counts(k)' /\ Exact(k)'
         /\ ~overlapped' => Decided' /\ \A k \in LoginKeys : Limited(k)'
<1>1. Present' = Present
  BY DEF Present
<1>2. Roomy'
  BY <1>1 DEF LoginInv, Roomy
<1>3. ASSUME NEW k \in LoginKeys PROVE Counts(k)' /\ Exact(k)' /\ (Limited(k) => Limited(k)')
  <2>1. /\ HeldIn("shared", k)' = HeldIn("shared", k) /\ HeldIn("local", k)' = HeldIn("local", k)
        /\ Unmirrored(k)' = Unmirrored(k) /\ OnlyLocal(k)' = OnlyLocal(k) /\ OnTable(k)' = OnTable(k) /\ InForce(k)' = InForce(k)
    BY SameHolders
  <2>2. QED
    BY <2>1, SameCounter
<1>4. ASSUME ~overlapped' PROVE Decided'
  BY <1>4 DEF LoginInv, Decided
<1>5. ASSUME ~overlapped', NEW k \in LoginKeys PROVE Limited(k)'
  BY <1>3, <1>5 DEF LoginInv
<1>6. QED
  BY <1>2, <1>3, <1>4, <1>5

\* A step of attempt a that takes charges from others at most.
LEMMA OthersCharged ==
  ASSUME LoginInv, NEW a \in Attempts, rdb' = rdb, Charged(a)',
         \A b \in Attempts \ {a} : attempt'[b] = attempt[b] /\ charged'[b] \subseteq charged[b]
  PROVE  \A b \in Attempts : Charged(b)'
<1>1. ASSUME NEW b \in Attempts \ {a} PROVE Charged(b)'
  <2>1. Charged(b) /\ attempt'[b] = attempt[b] /\ charged'[b] \subseteq charged[b]
    BY DEF LoginInv
  <2>2. Keys(b)' = Keys(b)
    BY <2>1 DEF Keys
  <2>3. QED
    BY <2>1, <2>2 DEF Charged
<1>2. QED
  BY <1>1

\* A step after which the same attempts compare and the same wait.
LEMMA SameSlots ==
  ASSUME LoginInv, UNCHANGED slotQueue,
         \A b \in Attempts : /\ attempt'[b].pc = "comparing" <=> attempt[b].pc = "comparing"
                             /\ attempt'[b].pc = "waiting" <=> attempt[b].pc = "waiting"
  PROVE  Slotted'
<1>1. Comparing' = Comparing
  BY DEF Comparing
<1>2. QED
  BY <1>1 DEF LoginInv, Slotted

-----------------------------------------------------------------------------
\* An attempt that goes on, with the counters it has.
LEMMA GoesOn ==
  ASSUME LoginInv, NEW a \in Attempts, NEW pc \in LoginPCs, attempt' = [attempt EXCEPT ![a].pc = pc]
  PROVE  /\ attempt' \in [Attempts -> AttemptType] /\ attempt'[a].pc = pc
         /\ attempt'[a].counters = attempt[a].counters /\ attempt'[a].shared = attempt[a].shared
         /\ attempt'[a].clear = attempt[a].clear
         /\ \A b \in Attempts \ {a} : attempt'[b] = attempt[b]
         /\ \A b \in Attempts : Keys(b)' = Keys(b)
<1>1. attempt \in [Attempts -> AttemptType]
  BY DEF LoginInv, LoginTypeOK
<1>2. /\ attempt' \in [Attempts -> AttemptType] /\ attempt'[a].pc = pc
      /\ attempt'[a].counters = attempt[a].counters /\ attempt'[a].shared = attempt[a].shared
      /\ attempt'[a].clear = attempt[a].clear
      /\ \A b \in Attempts \ {a} : attempt'[b] = attempt[b]
  BY <1>1 DEF AttemptType
<1>3. \A b \in Attempts : attempt'[b].counters = attempt[b].counters
  BY <1>2
<1>4. QED
  BY <1>2, <1>3 DEF Keys

\* An attempt that is over.
LEMMA IsOver ==
  ASSUME LoginInv, NEW a \in Attempts, attempt' = Answered(a)
  PROVE  /\ attempt' \in [Attempts -> AttemptType] /\ attempt'[a].pc = "answered"
         /\ attempt'[a].counters = <<>> /\ Keys(a)' = {}
         /\ \A b \in Attempts \ {a} : attempt'[b] = attempt[b] /\ Keys(b)' = Keys(b)
<1>1. attempt \in [Attempts -> AttemptType]
  BY DEF LoginInv, LoginTypeOK
<1> DEFINE r == [NoAttempt EXCEPT !.pc = "answered"]
<1>2. r \in AttemptType /\ r.pc = "answered" /\ r.counters = <<>>
  <2>1. NoAttempt \in AttemptType /\ NoAttempt.counters = <<>>
    BY DEF NoAttempt, AttemptType, LoginPCs
  <2>2. QED
    BY <2>1 DEF AttemptType, LoginPCs
<1>3. attempt' = [attempt EXCEPT ![a] = r]
  BY DEF Answered
<1> HIDE DEF r
<1>4. attempt' \in [Attempts -> AttemptType] /\ attempt'[a] = r /\ \A b \in Attempts \ {a} : attempt'[b] = attempt[b]
  BY <1>1, <1>2, <1>3
<1>5. Keys(a)' = {}
  BY <1>2, <1>4 DEF Keys, KeysOf
<1>6. QED
  BY <1>2, <1>4, <1>5 DEF Keys

\* What an attempt without charges must satisfy.
LEMMA NothingCharged ==
  ASSUME NEW a \in Attempts, charged'[a] = {}, Len(attempt'[a].counters) <= 3,
         attempt'[a].pc = "charge" => attempt'[a].shared,
         attempt'[a].pc = "exhaust" => attempt'[a].counters # <<>>,
         ~rdb' => attempt'[a].pc \notin {"redis", "charge", "exhaust", "releaseLocal"}
  PROVE  Charged(a)'
  BY DEF Charged

LEMMA RejectInv ==
  ASSUME LoginInv, NEW a \in Attempts, Reject(a)
  PROVE  LoginInv'
<1>1. /\ attempt[a].pc = "new" /\ attempt' = Answered(a)
      /\ UNCHANGED <<rdb, userStore, shared, local, slotQueue, redisFails, charged, loosened, overlapped, lockoutLost>>
  BY DEF Reject, loginHistory
<1>2. /\ attempt' \in [Attempts -> AttemptType] /\ attempt'[a].pc = "answered" /\ attempt'[a].counters = <<>>
      /\ \A b \in Attempts \ {a} : attempt'[b] = attempt[b] /\ Keys(b)' = Keys(b)
  BY <1>1, IsOver
<1>3. charged[a] = {}
  BY <1>1, KeysType DEF Charged
<1>4. LoginTypeOK'
  BY <1>1, <1>2 DEF LoginInv, LoginTypeOK
<1>5. Charged(a)'
  BY <1>1, <1>2, <1>3, NothingCharged
<1>6. \A b \in Attempts : Charged(b)'
  BY <1>1, <1>2, <1>5, OthersCharged
<1>7. Slotted'
  BY <1>1, <1>2, SameSlots
<1>8. /\ Roomy' /\ \A k \in LoginKeys : Counts(k)' /\ Exact(k)'
      /\ ~overlapped' => Decided' /\ \A k \in LoginKeys : Limited(k)'
  BY <1>1, <1>2, <1>3, <1>4, QuietAttempt
<1>9. QED
  BY <1>4, <1>6, <1>7, <1>8 DEF LoginInv

LEMMA AcquireInv ==
  ASSUME LoginInv, NEW a \in Attempts, Acquire(a)
  PROVE  LoginInv'
<1>1. /\ attempt[a].pc = "new"
      /\ UNCHANGED <<rdb, userStore, shared, local, slotQueue, redisFails, charged, loosened, overlapped, lockoutLost>>
  BY DEF Acquire, loginHistory
<1>2. PICK acct \in Accounts, ip \in IPs :
          LET cs == counters(acct, ip) IN
          attempt' = [attempt EXCEPT ![a].counters = cs,
                          ![a].pc = IF cs = <<>> THEN "allowed"
                                    ELSE IF rdb /\ ~holdsUnshared(cs) THEN "redis" ELSE "local"]
  BY LoginAssumption DEF Acquire
<1> DEFINE cs == counters(acct, ip)
           pc == IF cs = <<>> THEN "allowed" ELSE IF rdb /\ ~holdsUnshared(cs) THEN "redis" ELSE "local"
<1>3. attempt' = [attempt EXCEPT ![a].counters = cs, ![a].pc = pc]
  BY <1>2
<1>4. /\ cs \in Seq(LoginKeys) /\ Len(cs) <= 3 /\ pc \in {"allowed", "redis", "local"}
      /\ pc = "redis" => rdb /\ ~holdsUnshared(cs)
  BY CountersType
<1> HIDE DEF cs, pc
<1>5. attempt \in [Attempts -> AttemptType]
  BY DEF LoginInv, LoginTypeOK
<1>6. /\ attempt' \in [Attempts -> AttemptType] /\ attempt'[a].pc = pc /\ attempt'[a].counters = cs
      /\ \A b \in Attempts \ {a} : attempt'[b] = attempt[b]
  BY <1>3, <1>4, <1>5 DEF AttemptType, LoginPCs
<1>7. /\ \A b \in Attempts \ {a} : Keys(b)' = Keys(b)
      /\ Keys(a)' = KeysOf(cs)
  BY <1>6 DEF Keys
<1>8. charged[a] = {}
  BY <1>1, KeysType DEF Charged
<1>9. LoginTypeOK'
  BY <1>1, <1>6 DEF LoginInv, LoginTypeOK
<1>10. Charged(a)'
  BY <1>1, <1>4, <1>6, <1>8, NothingCharged
<1>11. \A b \in Attempts : Charged(b)'
  BY <1>1, <1>6, <1>10, OthersCharged
<1>12. Slotted'
  BY <1>1, <1>4, <1>6, SameSlots
<1>13. pc = "redis" => \A k \in KeysOf(cs) : local[k].unshared = 0
  <2>1. KeysOf(cs) \subseteq LoginKeys
    BY <1>4 DEF KeysOf
  <2>2. \A k \in LoginKeys : local[k].unshared \in Nat
    BY DEF LoginInv, LoginTypeOK
  <2>3. QED
    BY <1>4, <2>1, <2>2 DEF holdsUnshared
<1>14. \A b \in Attempts : attempt'[b].pc \in {"redis", "charge"} =>
            \/ attempt[b].pc \in {"redis", "charge"} /\ Keys(b)' = Keys(b)
            \/ \A k \in Keys(b)' : local[k].unshared = 0
  BY <1>4, <1>6, <1>7, <1>13
<1>15. /\ Roomy' /\ \A k \in LoginKeys : Counts(k)' /\ Exact(k)'
       /\ ~overlapped' => Decided' /\ \A k \in LoginKeys : Limited(k)'
  BY <1>1, <1>6, <1>8, <1>9, <1>14, QuietAttempt
<1>16. QED
  BY <1>9, <1>11, <1>12, <1>15 DEF LoginInv

-----------------------------------------------------------------------------
\* A step between the charge and the end of the comparison.
LEMMA ComparisonInv ==
  ASSUME LoginInv, Slotted', attempt' \in [Attempts -> AttemptType], slotQueue' \in Seq(Attempts),
         UNCHANGED <<rdb, userStore, shared, local, redisFails, charged, loosened, overlapped, lockoutLost>>,
         \A b \in Attempts : \/ attempt'[b] = attempt[b]
                             \/ /\ attempt[b].pc \in {"allowed", "waiting", "comparing"}
                                /\ attempt'[b].pc \in {"waiting", "comparing", "release", "failed"}
                                /\ attempt'[b].counters = attempt[b].counters
                                /\ attempt'[b].shared = attempt[b].shared
  PROVE  LoginInv'
<1>1. LoginTypeOK'
  BY DEF LoginInv, LoginTypeOK
<1>2. ASSUME NEW b \in Attempts PROVE Keys(b)' = Keys(b) /\ Charged(b)'
  <2>1. Charged(b) /\ charged'[b] = charged[b] /\ rdb' = rdb
    BY DEF LoginInv
  <2>2. Keys(b)' = Keys(b)
    BY DEF Keys
  <2>3. CASE attempt'[b] = attempt[b]
    BY <2>1, <2>2, <2>3 DEF Charged
  <2>4. CASE /\ attempt'[b].pc \in {"waiting", "comparing", "release", "failed"}
             /\ attempt'[b].counters = attempt[b].counters /\ attempt'[b].shared = attempt[b].shared
    BY <2>1, <2>2, <2>4 DEF Charged
  <2>5. QED
    BY <2>2, <2>3, <2>4
<1>3. \A b \in Attempts : /\ attempt'[b].shared = attempt[b].shared
                          /\ attempt'[b].pc = "charge" <=> attempt[b].pc = "charge"
                          /\ attempt'[b].pc \in {"redis", "charge"} => attempt[b].pc \in {"redis", "charge"}
  OBVIOUS
<1>4. /\ Roomy' /\ \A k \in LoginKeys : Counts(k)' /\ Exact(k)'
      /\ ~overlapped' => Decided' /\ \A k \in LoginKeys : Limited(k)'
  BY <1>1, <1>2, <1>3, QuietAttempt
<1>5. QED
  BY <1>1, <1>2, <1>4 DEF LoginInv

\* Of the slots, the number taken.
LEMMA SlotsTaken ==
  /\ Comparing \subseteq Attempts /\ Comparing' \subseteq Attempts
  /\ Cardinality(Comparing) \in Nat /\ Cardinality(Comparing') \in Nat /\ Slots \in Nat \ {0} /\ MaxWaiting \in Nat
<1>1. Comparing \subseteq Attempts /\ Comparing' \subseteq Attempts
  BY DEF Comparing
<1>2. QED
  BY <1>1, Sizes, LoginAssumption

LEMMA AcquireSlotInv ==
  ASSUME LoginInv, NEW a \in Attempts, acquireSlot(a)
  PROVE  LoginInv'
<1>1. /\ attempt[a].pc = "allowed"
      /\ UNCHANGED <<rdb, userStore, shared, local, redisFails, charged, loosened, overlapped, lockoutLost>>
  BY DEF acquireSlot, loginHistory
<1>2. /\ slotQueue \in Seq(Attempts) /\ Slotted
  BY DEF LoginInv, LoginTypeOK
<1>3. \A pc \in {"release", "comparing", "waiting"} : pc \in LoginPCs
  BY DEF LoginPCs
<1>4. CASE attempt' = Cancel(attempt, a) /\ slotQueue' = slotQueue
  <2>1. /\ attempt' \in [Attempts -> AttemptType] /\ attempt'[a].pc = "release"
        /\ attempt'[a].counters = attempt[a].counters /\ attempt'[a].shared = attempt[a].shared
        /\ \A b \in Attempts \ {a} : attempt'[b] = attempt[b]
    BY <1>3, <1>4, GoesOn DEF Cancel
  <2>2. Slotted'
    BY <1>1, <1>4, <2>1, SameSlots
  <2>3. QED
    BY <1>1, <1>2, <1>4, <2>1, <2>2, ComparisonInv
<1>5. CASE Cardinality(Comparing) < Slots /\ LoginAt(a, "comparing") /\ slotQueue' = slotQueue
  <2>1. /\ attempt' \in [Attempts -> AttemptType] /\ attempt'[a].pc = "comparing"
        /\ attempt'[a].counters = attempt[a].counters /\ attempt'[a].shared = attempt[a].shared
        /\ \A b \in Attempts \ {a} : attempt'[b] = attempt[b]
    BY <1>3, <1>5, GoesOn DEF LoginAt
  <2>2. slotQueue = <<>>
    BY <1>2, <1>5, SlotsTaken DEF Slotted
  <2>3. Comparing' = Comparing \cup {a}
    BY <2>1 DEF Comparing
  <2>4. Cardinality(Comparing') <= Slots
    BY <1>5, <2>3, SlotsTaken, OneAttempt
  <2>5. \A b \in Attempts : attempt'[b].pc = "waiting" <=> attempt[b].pc = "waiting"
    BY <1>1, <2>1
  <2>6. Slotted'
    BY <1>2, <1>5, <2>2, <2>4, <2>5 DEF Slotted
  <2>7. QED
    BY <1>1, <1>2, <1>5, <2>1, <2>6, ComparisonInv
<1>6. CASE /\ Cardinality(Comparing) >= Slots /\ ~(Len(slotQueue) >= MaxWaiting)
           /\ LoginAt(a, "waiting") /\ slotQueue' = Append(slotQueue, a)
  <2>1. /\ attempt' \in [Attempts -> AttemptType] /\ attempt'[a].pc = "waiting"
        /\ attempt'[a].counters = attempt[a].counters /\ attempt'[a].shared = attempt[a].shared
        /\ \A b \in Attempts \ {a} : attempt'[b] = attempt[b]
    BY <1>3, <1>6, GoesOn DEF LoginAt
  <2>2. Comparing' = Comparing
    BY <1>1, <2>1 DEF Comparing
  <2>3. /\ slotQueue' \in Seq(Attempts) /\ Len(slotQueue') = Len(slotQueue) + 1
        /\ slotQueue'[Len(slotQueue) + 1] = a /\ \A i \in 1..Len(slotQueue) : slotQueue'[i] = slotQueue[i]
    BY <1>2, <1>6
  <2>4. Len(slotQueue) \in Nat /\ DOMAIN slotQueue = 1..Len(slotQueue) /\ DOMAIN slotQueue' = 1..(Len(slotQueue) + 1)
    BY <1>2, <2>3
  <2>5. Cardinality(Comparing') <= Slots /\ Cardinality(Comparing') = Slots
    BY <1>2, <1>6, <2>2, SlotsTaken DEF Slotted
  <2>6. Len(slotQueue') <= MaxWaiting
    BY <1>6, <2>3, <2>4, SlotsTaken
  <2>7. \A i \in DOMAIN slotQueue : slotQueue[i] # a
    BY <1>1, <1>2 DEF Slotted
  <2>8. \A i, j \in DOMAIN slotQueue' : slotQueue'[i] = slotQueue'[j] => i = j
    BY <1>2, <2>3, <2>4, <2>7 DEF Slotted
  <2>9. ASSUME NEW b \in Attempts PROVE attempt'[b].pc = "waiting" <=> \E i \in DOMAIN slotQueue' : slotQueue'[i] = b
    <3>1. CASE b = a
      BY <2>1, <2>3, <2>4, <3>1
    <3>2. CASE b # a
      <4>1. attempt'[b].pc = "waiting" <=> \E i \in DOMAIN slotQueue : slotQueue[i] = b
        BY <1>2, <2>1, <3>2 DEF Slotted
      <4>2. (\E i \in DOMAIN slotQueue : slotQueue[i] = b) <=> (\E i \in DOMAIN slotQueue' : slotQueue'[i] = b)
        BY <2>3, <2>4, <3>2
      <4>3. QED
        BY <4>1, <4>2
    <3>3. QED
      BY <3>1, <3>2
  <2>10. Slotted'
    BY <2>5, <2>6, <2>8, <2>9 DEF Slotted
  <2>11. QED
    BY <1>1, <2>1, <2>3, <2>10, ComparisonInv
<1>7. QED
  BY <1>4, <1>5, <1>6 DEF acquireSlot

LEMMA GiveUpWaitingInv ==
  ASSUME LoginInv, NEW a \in Attempts, GiveUpWaiting(a)
  PROVE  LoginInv'
<1>1. /\ attempt[a].pc = "waiting" /\ attempt' = Cancel(attempt, a)
      /\ UNCHANGED <<rdb, userStore, shared, local, redisFails, charged, loosened, overlapped, lockoutLost>>
  BY DEF GiveUpWaiting, loginHistory
<1>2. /\ slotQueue \in Seq(Attempts) /\ Slotted
  BY DEF LoginInv, LoginTypeOK
<1>3. PICK i \in DOMAIN slotQueue : slotQueue[i] = a /\ slotQueue' = Delete(slotQueue, i)
  BY DEF GiveUpWaiting, Delete
<1>4. /\ attempt' \in [Attempts -> AttemptType] /\ attempt'[a].pc = "release"
      /\ attempt'[a].counters = attempt[a].counters /\ attempt'[a].shared = attempt[a].shared
      /\ \A b \in Attempts \ {a} : attempt'[b] = attempt[b]
  BY <1>1, GoesOn DEF Cancel, LoginPCs
<1>5. /\ slotQueue' \in Seq(Attempts) /\ EntriesIn(slotQueue') = EntriesIn(slotQueue) \ {a}
      /\ \A m, n \in DOMAIN slotQueue' : slotQueue'[m] = slotQueue'[n] => m = n
  BY <1>2, <1>3, DeleteOne DEF Slotted
<1>6. Len(slotQueue') = Len(slotQueue) - 1
  BY <1>2, <1>3, DeleteAt
<1>7. Comparing' = Comparing
  BY <1>1, <1>4 DEF Comparing
<1>8. ASSUME NEW b \in Attempts PROVE attempt'[b].pc = "waiting" <=> \E m \in DOMAIN slotQueue' : slotQueue'[m] = b
  <2>1. (\E m \in DOMAIN slotQueue' : slotQueue'[m] = b) <=> b \in EntriesIn(slotQueue')
    BY DEF EntriesIn
  <2>2. attempt[b].pc = "waiting" <=> b \in EntriesIn(slotQueue)
    BY <1>2 DEF Slotted, EntriesIn
  <2>3. QED
    BY <1>4, <1>5, <2>1, <2>2
<1>9. slotQueue # <<>> /\ Len(slotQueue) \in Nat
  BY <1>2, <1>3
<1>10. Cardinality(Comparing') <= Slots /\ Cardinality(Comparing') = Slots /\ Len(slotQueue') <= MaxWaiting
  BY <1>2, <1>6, <1>7, <1>9, SlotsTaken DEF Slotted
<1>11. Slotted'
  BY <1>5, <1>8, <1>10 DEF Slotted
<1>12. QED
  BY <1>1, <1>4, <1>5, <1>11, ComparisonInv

\* The verdict on one password.
LEMMA VerdictMoves ==
  ASSUME LoginInv, NEW a \in Attempts, NEW right \in BOOLEAN, NEW v, v = Verdict(attempt, a, right)
  PROVE  /\ v \in [Attempts -> AttemptType] /\ v[a].pc \in {"release", "failed"}
         /\ v[a].counters = attempt[a].counters /\ v[a].shared = attempt[a].shared
         /\ \A b \in Attempts \ {a} : v[b] = attempt[b]
<1>1. attempt \in [Attempts -> AttemptType]
  BY DEF LoginInv, LoginTypeOK
<1>2. QED
  BY <1>1 DEF Verdict, AttemptType, LoginPCs

LEMMA SinglePasswordInv ==
  ASSUME LoginInv, NEW a \in Attempts, SinglePassword(a)
  PROVE  LoginInv'
<1>1. /\ attempt[a].pc = "allowed" /\ slotQueue' = slotQueue
      /\ UNCHANGED <<rdb, userStore, shared, local, redisFails, charged, loosened, overlapped, lockoutLost>>
  BY DEF SinglePassword, loginHistory
<1>2. PICK right \in BOOLEAN : attempt' = Verdict(attempt, a, right)
  BY DEF SinglePassword
<1>3. /\ attempt' \in [Attempts -> AttemptType] /\ attempt'[a].pc \in {"release", "failed"}
      /\ attempt'[a].counters = attempt[a].counters /\ attempt'[a].shared = attempt[a].shared
      /\ \A b \in Attempts \ {a} : attempt'[b] = attempt[b]
  BY <1>2, VerdictMoves
<1>4. Slotted'
  BY <1>1, <1>3, SameSlots
<1>5. slotQueue' \in Seq(Attempts)
  BY <1>1 DEF LoginInv, LoginTypeOK
<1>6. QED
  BY <1>1, <1>3, <1>4, <1>5, ComparisonInv

LEMMA ComparedInv ==
  ASSUME LoginInv, NEW a \in Attempts, Compared(a)
  PROVE  LoginInv'
<1>1. /\ attempt[a].pc = "comparing"
      /\ slotQueue' = IF slotQueue = <<>> THEN <<>> ELSE Tail(slotQueue)
      /\ UNCHANGED <<rdb, userStore, shared, local, redisFails, charged, loosened, overlapped, lockoutLost>>
  BY DEF Compared, loginHistory
<1>2. /\ slotQueue \in Seq(Attempts) /\ Slotted
  BY DEF LoginInv, LoginTypeOK
<1>3. PICK right \in BOOLEAN :
          attempt' = IF slotQueue = <<>> THEN Verdict(attempt, a, right)
                     ELSE [Verdict(attempt, a, right) EXCEPT ![Head(slotQueue)].pc = "comparing"]
  BY DEF Compared
<1> DEFINE v == Verdict(attempt, a, right)
<1>4. /\ v \in [Attempts -> AttemptType] /\ v[a].pc \in {"release", "failed"}
      /\ v[a].counters = attempt[a].counters /\ v[a].shared = attempt[a].shared
      /\ \A b \in Attempts \ {a} : v[b] = attempt[b]
  BY VerdictMoves
<1>5. attempt' = IF slotQueue = <<>> THEN v ELSE [v EXCEPT ![Head(slotQueue)].pc = "comparing"]
  BY <1>3
<1> HIDE DEF v
<1>6. a \in Comparing
  BY <1>1 DEF Comparing
<1>7. CASE slotQueue = <<>>
  <2>1. attempt' = v /\ slotQueue' = slotQueue
    BY <1>1, <1>5, <1>7
  <2>2. Comparing' = Comparing \ {a}
    BY <1>4, <2>1 DEF Comparing
  <2>3. Cardinality(Comparing') <= Slots
    BY <1>2, <1>6, <2>2, OneAttempt, SlotsTaken DEF Slotted
  <2>4. \A b \in Attempts : attempt'[b].pc = "waiting" <=> attempt[b].pc = "waiting"
    BY <1>1, <1>4, <2>1
  <2>5. Slotted'
    BY <1>2, <1>7, <2>1, <2>3, <2>4 DEF Slotted
  <2>6. QED
    BY <1>1, <1>2, <1>4, <2>1, <2>5, ComparisonInv
<1>8. CASE slotQueue # <<>>
  <2> DEFINE h == Head(slotQueue)
  <2>1. /\ h \in Attempts /\ h = slotQueue[1] /\ Len(slotQueue) \in Nat \ {0} /\ 1 \in DOMAIN slotQueue
        /\ DOMAIN slotQueue = 1..Len(slotQueue)
    BY <1>2, <1>8
  <2>2. /\ slotQueue' \in Seq(Attempts) /\ Len(slotQueue') = Len(slotQueue) - 1
        /\ DOMAIN slotQueue' = 1..(Len(slotQueue) - 1)
        /\ \A i \in 1..(Len(slotQueue) - 1) : slotQueue'[i] = slotQueue[i + 1]
    BY <1>1, <1>2, <1>8
  <2>3. attempt' = [v EXCEPT ![h].pc = "comparing"]
    BY <1>5, <1>8
  <2> HIDE DEF h
  <2>4. attempt[h].pc = "waiting" /\ h # a
    BY <1>1, <1>2, <2>1 DEF Slotted
  <2>5. /\ attempt' \in [Attempts -> AttemptType] /\ attempt'[h].pc = "comparing" /\ attempt'[a] = v[a]
        /\ attempt'[h].counters = attempt[h].counters /\ attempt'[h].shared = attempt[h].shared
        /\ \A b \in Attempts \ {a, h} : attempt'[b] = attempt[b]
    <3>1. v[h] \in AttemptType /\ v[h] = attempt[h]
      BY <1>4, <2>1, <2>4
    <3>2. [v[h] EXCEPT !.pc = "comparing"] \in AttemptType
      BY <3>1 DEF AttemptType, LoginPCs
    <3>3. attempt' = [v EXCEPT ![h] = [v[h] EXCEPT !.pc = "comparing"]]
      BY <2>3
    <3>4. attempt' \in [Attempts -> AttemptType] /\ \A b \in Attempts \ {h} : attempt'[b] = v[b]
      BY <1>4, <2>1, <3>2, <3>3
    <3>5. attempt'[h] = [v[h] EXCEPT !.pc = "comparing"]
      BY <1>4, <2>1, <3>3
    <3>6. attempt'[h].pc = "comparing" /\ attempt'[h].counters = attempt[h].counters /\ attempt'[h].shared = attempt[h].shared
      BY <3>1, <3>5 DEF AttemptType
    <3>7. QED
      BY <1>4, <2>4, <3>4, <3>6
  <2>6. Comparing' = (Comparing \ {a}) \cup {h}
    BY <1>4, <2>1, <2>5 DEF Comparing
  <2>7. h \notin Comparing /\ Comparing \ {a} \in SUBSET Attempts /\ h \notin Comparing \ {a}
    BY <2>4, SlotsTaken DEF Comparing
  <2>8. Cardinality(Comparing \ {a}) = Cardinality(Comparing) - 1
    BY <1>6, SlotsTaken, OneAttempt
  <2>9. Cardinality(Comparing') = Cardinality(Comparing \ {a}) + 1
    BY <2>1, <2>6, <2>7, OneAttempt
  <2>10. Cardinality(Comparing') = Slots /\ Cardinality(Comparing') <= Slots
    BY <1>2, <1>8, <2>8, <2>9, SlotsTaken DEF Slotted
  <2>11. Len(slotQueue') <= MaxWaiting
    BY <1>2, <2>1, <2>2, SlotsTaken DEF Slotted
  <2>12. \A i, j \in DOMAIN slotQueue' : slotQueue'[i] = slotQueue'[j] => i = j
    <3>1. SUFFICES ASSUME NEW i \in DOMAIN slotQueue', NEW j \in DOMAIN slotQueue', slotQueue'[i] = slotQueue'[j]
                   PROVE  i = j
      OBVIOUS
    <3>2. i + 1 \in DOMAIN slotQueue /\ j + 1 \in DOMAIN slotQueue /\ slotQueue[i + 1] = slotQueue[j + 1]
      BY <2>1, <2>2, <3>1
    <3>3. i + 1 = j + 1
      BY <1>2, <3>2 DEF Slotted
    <3>4. QED
      BY <2>1, <2>2, <3>3
  <2>13. ASSUME NEW b \in Attempts PROVE attempt'[b].pc = "waiting" <=> \E i \in DOMAIN slotQueue' : slotQueue'[i] = b
    <3>1. attempt[b].pc = "waiting" <=> \E i \in DOMAIN slotQueue : slotQueue[i] = b
      BY <1>2 DEF Slotted
    <3>2. (\E i \in DOMAIN slotQueue' : slotQueue'[i] = b) <=> (\E i \in DOMAIN slotQueue : i # 1 /\ slotQueue[i] = b)
      <4>1. ASSUME NEW i \in DOMAIN slotQueue', slotQueue'[i] = b PROVE \E j \in DOMAIN slotQueue : j # 1 /\ slotQueue[j] = b
        <5>1. i + 1 \in DOMAIN slotQueue /\ i + 1 # 1 /\ slotQueue[i + 1] = b
          BY <2>1, <2>2, <4>1
        <5>2. QED
          BY <5>1
      <4>2. ASSUME NEW i \in DOMAIN slotQueue, i # 1, slotQueue[i] = b PROVE \E j \in DOMAIN slotQueue' : slotQueue'[j] = b
        <5>1. i - 1 \in DOMAIN slotQueue' /\ (i - 1) + 1 = i
          BY <2>1, <2>2, <4>2
        <5>2. slotQueue'[i - 1] = slotQueue[i]
          BY <2>2, <5>1
        <5>3. QED
          BY <4>2, <5>1, <5>2
      <4>3. QED
        BY <4>1, <4>2
    <3>3. \A i \in DOMAIN slotQueue : slotQueue[i] = h => i = 1
      BY <1>2, <2>1 DEF Slotted
    <3>4. CASE b = h
      BY <2>5, <3>2, <3>3, <3>4
    <3>5. CASE b = a
      BY <1>1, <1>4, <2>5, <3>1, <3>2, <3>5
    <3>6. CASE b # h /\ b # a
      BY <2>1, <2>5, <3>1, <3>2, <3>6
    <3>7. QED
      BY <3>4, <3>5, <3>6
  <2>14. Slotted'
    BY <2>10, <2>11, <2>12, <2>13 DEF Slotted
  <2>15. \A b \in Attempts : \/ attempt'[b] = attempt[b]
                             \/ /\ attempt[b].pc \in {"allowed", "waiting", "comparing"}
                                /\ attempt'[b].pc \in {"waiting", "comparing", "release", "failed"}
                                /\ attempt'[b].counters = attempt[b].counters
                                /\ attempt'[b].shared = attempt[b].shared
    BY <1>1, <1>4, <2>4, <2>5
  <2>16. QED
    BY <1>1, <2>2, <2>5, <2>14, <2>15, ComparisonInv
<1>9. QED
  BY <1>7, <1>8

-----------------------------------------------------------------------------
\* makeRoom spares the counters of the attempt, makes the new ones fit, and
\* drops an exhausted counter only when no other is left.
LEMMA RoomMade ==
  ASSUME LoginInv, NEW keep \in SUBSET LoginKeys, IsFiniteSet(keep), Cardinality(keep) <= 3,
         NEW dropped \in makeRoom(Cardinality(keep \ Present), keep)
  PROVE  /\ dropped \subseteq Present \ keep
         /\ Cardinality(Present \ dropped) + Cardinality(keep \ Present) <= MaxEntries
         /\ ~(/\ \E k \in dropped : local[k].count >= LoginLimit(k)
              /\ \E k \in Present \ (keep \cup dropped) : local[k].count < LoginLimit(k))
<1> DEFINE need   == Cardinality(keep \ Present)
           others == Present \ keep
           weak   == {k \in others : local[k].count < LoginLimit(k)}
           batch  == IF need > MaxEntries \div 10 THEN need ELSE MaxEntries \div 10
           Left(d) == Cardinality(Present \ d) + need
           First  == {d \in SUBSET weak : Cardinality(d) = batch \/ (d = weak /\ Cardinality(d) < batch)}
           Then(d) == {e \in SUBSET others : d \subseteq e /\ (Left(e) = MaxEntries \/ (e = others /\ Left(e) > MaxEntries))}
<1>1. dropped \in IF Left({}) <= MaxEntries THEN {{}}
                  ELSE UNION {IF Left(d) <= MaxEntries THEN {d} ELSE Then(d) : d \in First}
  BY DEF makeRoom
<1>2. /\ IsFiniteSet(Present) /\ Cardinality(Present) <= MaxEntries /\ MaxEntries \in Nat /\ MaxEntries >= 3
      /\ Present \subseteq LoginKeys
  BY LoginAssumption DEF LoginInv, Roomy, Present
<1>3. \A k \in Present : local[k].count \in Nat /\ LoginLimit(k) \in Nat
  BY <1>2, CounterKind DEF LoginInv, LoginTypeOK
<1>4. IsFiniteSet(keep \ Present) /\ IsFiniteSet(keep \cap Present)
  BY FS_Difference, FS_Intersection
<1>5. need \in Nat /\ Cardinality(keep \cap Present) \in Nat /\ Cardinality(Present) \in Nat /\ Cardinality(keep) \in Nat
  BY <1>2, <1>4, FS_CardinalityType
<1>6. ASSUME NEW d \in SUBSET Present
      PROVE  /\ Cardinality(d) \in Nat /\ Cardinality(Present \ d) = Cardinality(Present) - Cardinality(d)
             /\ Cardinality(Present \ d) \in Nat
  <2>1. IsFiniteSet(d) /\ IsFiniteSet(Present \ d)
    BY <1>2, FS_Subset, FS_Difference
  <2>2. Present \cap d = d
    OBVIOUS
  <2>3. Cardinality(Present \ d) = Cardinality(Present) - Cardinality(Present \cap d)
    BY <1>2, FS_Difference
  <2>4. QED
    BY <2>1, <2>2, <2>3, FS_CardinalityType
<1>7. CASE Left({}) <= MaxEntries
  <2>1. dropped = {} /\ Present \ {} = Present
    BY <1>1, <1>7
  <2>2. QED
    BY <1>7, <2>1
<1>8. CASE ~(Left({}) <= MaxEntries)
  <2>1. PICK d \in First : dropped \in IF Left(d) <= MaxEntries THEN {d} ELSE Then(d)
    BY <1>1, <1>8
  <2>2. d \subseteq weak /\ d \subseteq others /\ d \subseteq Present
    BY <2>1
  <2>3. CASE Left(d) <= MaxEntries
    <3>1. dropped = d
      BY <2>1, <2>3
    <3>2. ~(\E k \in dropped : local[k].count >= LoginLimit(k))
      BY <1>3, <2>2, <3>1
    <3>3. Cardinality(Present \ dropped) + need <= MaxEntries
      BY <2>3, <3>1
    <3>4. QED
      BY <2>2, <3>1, <3>2, <3>3
  <2>4. CASE ~(Left(d) <= MaxEntries)
    <3>1. dropped \subseteq others /\ d \subseteq dropped
      BY <2>1, <2>4
    <3>2. Left(dropped) = MaxEntries \/ (dropped = others /\ Left(dropped) > MaxEntries)
      BY <2>1, <2>4
    <3>3. dropped # others => Left(dropped) = MaxEntries
      BY <3>2
    <3>4. Left(others) <= MaxEntries
      <4>1. Present \ others = keep \cap Present
        OBVIOUS
      <4>2. Cardinality(keep \ Present) = Cardinality(keep) - Cardinality(keep \cap Present)
        BY FS_Difference
      <4>3. Cardinality(Present \ others) = Cardinality(keep \cap Present)
        BY <4>1
      <4>4. Left(others) = Cardinality(keep)
        BY ONLY <1>5, <4>2, <4>3
      <4>5. QED
        BY <1>2, <1>5, <4>4
    <3>5. Left(dropped) <= MaxEntries
      <4>1. CASE Left(dropped) = MaxEntries
        BY <1>2, <4>1
      <4>2. CASE dropped = others
        BY <3>4, <4>2
      <4>3. QED
        BY <3>2, <4>1, <4>2
    <3>6. d = weak
      <4>1. Cardinality(d) \in Nat /\ Left(d) = Cardinality(Present) - Cardinality(d) + need
        BY <1>6, <2>2
      <4>2. batch >= need /\ batch \in Nat
        BY <1>2, <1>5
      <4>3. Cardinality(d) # batch
        <5> HIDE DEF batch, need, Left
        <5> QED  BY <1>2, <1>5, <2>4, <4>1, <4>2
      <4>4. QED
        BY <2>1, <4>3
    <3>7. ~(\E k \in Present \ (keep \cup dropped) : local[k].count < LoginLimit(k))
      BY <3>1, <3>6
    <3>8. QED
      BY <3>1, <3>5, <3>7
  <2>5. QED
    BY <2>3, <2>4
<1>9. QED
  BY <1>7, <1>8

\* What Loosen adds, and where.
LEMMA Loosened ==
  ASSUME LoginTypeOK, NEW table \in Tables, NEW n \in [LoginKeys -> Nat]
  PROVE  /\ Loosen(table, n) \in [Tables \X LoginKeys -> Nat]
         /\ \A k \in LoginKeys, t \in Tables :
               Loosen(table, n)[<<t, k>>] = loosened[<<t, k>>] + (IF t = table THEN n[k] ELSE 0)
<1>1. \A tk \in Tables \X LoginKeys : loosened[tk] \in Nat /\ n[tk[2]] \in Nat
  BY DEF LoginTypeOK
<1>2. Loosen(table, n) \in [Tables \X LoginKeys -> Nat]
  BY <1>1 DEF Loosen
<1>3. ASSUME NEW k \in LoginKeys, NEW t \in Tables
      PROVE  Loosen(table, n)[<<t, k>>] = loosened[<<t, k>>] + (IF t = table THEN n[k] ELSE 0)
  <2>1. <<t, k>> \in Tables \X LoginKeys /\ <<t, k>>[1] = t /\ <<t, k>>[2] = k
    OBVIOUS
  <2>2. loosened[<<t, k>>] \in Nat
    BY <1>1, <2>1
  <2>3. QED
    BY <2>1, <2>2 DEF Loosen
<1>4. QED
  BY <1>2, <1>3

\* A counter that goes from the table, whatever the reason.
LEMMA Emptied ==
  ASSUME LoginInv, LoginTypeOK', NEW k \in LoginKeys, rdb' = rdb, redisFails' = redisFails,
         shared'[k] = shared[k], local'[k] = NoCounter, HeldIn("local", k)' = {},
         HeldIn("shared", k)' \subseteq HeldIn("shared", k),
         rdb => HeldIn("shared", k)' = HeldIn("shared", k),
         loosened'[<<"shared", k>>] = loosened[<<"shared", k>>],
         loosened'[<<"local", k>>] >= loosened[<<"local", k>>],
         Cardinality(Unmirrored(k)') <= loosened'[<<"local", k>>]
  PROVE  Counts(k)' /\ Exact(k)' /\ (Limited(k) => Limited(k)')
<1>1. Counts(k) /\ Exact(k) /\ LoginTypeOK
  BY DEF LoginInv
<1>2. local'[k].count = 0 /\ local'[k].unshared = 0 /\ Cardinality({}) = 0
  BY FS_EmptySet DEF NoCounter
<1>3. OnlyLocal(k)' = {} /\ InForce(k)' = HeldIn("shared", k)' /\ OnTable(k)' = Unmirrored(k)'
  BY DEF OnlyLocal, OnTable, InForce
<1>4. Cardinality(HeldIn("shared", k)') <= Cardinality(HeldIn("shared", k))
  BY HeldType, Sizes
<1>5. HeldIn("shared", k) \subseteq InForce(k)
  BY DEF InForce
<1>6. Cardinality(HeldIn("shared", k)) <= Cardinality(InForce(k))
  BY <1>5, HeldType, Sizes
<1> LoginLimit(k) \in Nat /\ Numbers(k) /\ Numbers(k)' /\ Sized(k) /\ Sized(k)'
  BY <1>1, CounterNumbers
<1>7. Counts(k)'
  <2>1. Cardinality(HeldIn("shared", k)') <= shared'[k] + loosened'[<<"shared", k>>]
    BY <1>1, <1>4 DEF Counts, Numbers, Sized
  <2>2. Cardinality(OnTable(k)') <= local'[k].count + loosened'[<<"local", k>>]
    BY <1>2, <1>3 DEF Numbers
  <2>3. Cardinality(OnlyLocal(k)') <= local'[k].unshared + loosened'[<<"local", k>>]
    BY <1>2, <1>3 DEF Numbers
  <2>4. QED
    BY <2>1, <2>2, <2>3 DEF Counts
<1>8. Exact(k)'
  BY <1>1, <1>2 DEF Exact
<1>9. Limited(k) => Limited(k)'
  BY <1>3, <1>4, <1>6 DEF Limited, Numbers, Sized
<1>10. QED
  BY <1>7, <1>8, <1>9

\* One more charge on a counter of the table.
LEMMA OneCharge ==
  ASSUME LoginInv, LoginTypeOK', NEW k \in LoginKeys, NEW a \in Attempts, rdb' = rdb, redisFails' = redisFails,
         shared'[k] = shared[k], local'[k].count = local[k].count + 1,
         loosened'[<<"shared", k>>] = loosened[<<"shared", k>>],
         loosened'[<<"local", k>>] = loosened[<<"local", k>>],
         HeldIn("shared", k)' = HeldIn("shared", k), a \notin HeldIn("local", k),
         HeldIn("local", k)' = HeldIn("local", k) \cup {a}, Unmirrored(k)' = Unmirrored(k),
         \/ local'[k].unshared = local[k].unshared /\ OnlyLocal(k)' = OnlyLocal(k)
         \/ local'[k].unshared = local[k].unshared + 1 /\ OnlyLocal(k)' \subseteq OnlyLocal(k) \cup {a}
  PROVE  Counts(k)' /\ Exact(k)'
<1>1. Counts(k) /\ Exact(k) /\ LoginTypeOK
  BY DEF LoginInv
<1> LoginLimit(k) \in Nat /\ Numbers(k) /\ Numbers(k)' /\ Sized(k) /\ Sized(k)'
  BY <1>1, CounterNumbers
<1>2. OnTable(k)' = OnTable(k) \cup {a}
  BY DEF OnTable
<1>3. Cardinality(OnTable(k)') <= Cardinality(OnTable(k)) + 1
  <2>1. Cardinality(OnTable(k) \cup {a}) <= Cardinality(OnTable(k)) + 1
    BY HeldType, OneAttempt
  <2>2. QED
    BY <1>2, <2>1
<1>4. Cardinality(HeldIn("local", k)') = Cardinality(HeldIn("local", k)) + 1
  BY HeldType, OneAttempt
<1>5. Cardinality(OnlyLocal(k)') <= local'[k].unshared + loosened'[<<"local", k>>]
  <2>1. CASE local'[k].unshared = local[k].unshared /\ OnlyLocal(k)' = OnlyLocal(k)
    BY <1>1, <2>1 DEF Counts
  <2>2. CASE local'[k].unshared = local[k].unshared + 1 /\ OnlyLocal(k)' \subseteq OnlyLocal(k) \cup {a}
    <3>1. OnlyLocal(k) \cup {a} \in SUBSET Attempts
      BY HeldType
    <3>2. Cardinality(OnlyLocal(k)') <= Cardinality(OnlyLocal(k) \cup {a})
      BY <2>2, <3>1, HeldType, Sizes
    <3>3. Cardinality(OnlyLocal(k) \cup {a}) <= Cardinality(OnlyLocal(k)) + 1 /\ Cardinality(OnlyLocal(k) \cup {a}) \in Nat
      BY HeldType, OneAttempt
    <3>4. QED
      BY <1>1, <2>2, <3>2, <3>3 DEF Counts, Numbers, Sized
  <2>3. QED
    BY <2>1, <2>2
<1>6. Cardinality(OnTable(k)') <= local'[k].count + loosened'[<<"local", k>>]
  BY <1>1, <1>3 DEF Counts, Numbers, Sized
<1>7. Counts(k)'
  BY <1>1, <1>5, <1>6 DEF Counts
<1>8. Exact(k)'
  BY <1>1, <1>4 DEF Exact
<1>9. QED
  BY <1>7, <1>8

\* A table that gets the counters keep and loses those dropped stays in bounds.
LEMMA RoomKept ==
  ASSUME LoginInv, NEW keep \in SUBSET LoginKeys, IsFiniteSet(keep), Cardinality(keep) <= 3,
         NEW dropped \in makeRoom(Cardinality(keep \ Present), keep), NEW marked,
         Present' \subseteq (Present \ dropped) \cup keep, Evicted(dropped, keep, marked)
  PROVE  Roomy' /\ lockoutLost' \in BOOLEAN
<1>1. /\ dropped \subseteq Present \ keep
      /\ Cardinality(Present \ dropped) + Cardinality(keep \ Present) <= MaxEntries
      /\ ~(/\ \E k \in dropped : local[k].count >= LoginLimit(k)
           /\ \E k \in Present \ (keep \cup dropped) : local[k].count < LoginLimit(k))
  BY RoomMade
<1>2. IsFiniteSet(Present) /\ ~lockoutLost /\ MaxEntries \in Nat
  BY LoginAssumption DEF LoginInv, Roomy
<1>3. lockoutLost' = FALSE
  BY <1>1, <1>2 DEF Evicted
<1> DEFINE A == Present \ dropped
           B == keep \ Present
<1>4. IsFiniteSet(A) /\ IsFiniteSet(B)
  BY <1>2, FS_Difference
<1>5. Present' \subseteq A \cup B
  BY <1>1
<1>6. Cardinality(A) + Cardinality(B) <= MaxEntries
  BY <1>1
<1> HIDE DEF A, B
<1>7. IsFiniteSet(A \cup B) /\ Cardinality(A \cup B) = Cardinality(A) + Cardinality(B) - Cardinality(A \cap B)
  BY <1>4, FS_Union
<1>8. IsFiniteSet(A \cap B)
  BY <1>4, FS_Intersection
<1>9. /\ Cardinality(A) \in Nat /\ Cardinality(B) \in Nat /\ Cardinality(A \cap B) \in Nat
  BY <1>4, <1>8, FS_CardinalityType
<1>10. IsFiniteSet(Present') /\ Cardinality(Present') <= Cardinality(A \cup B)
  BY <1>5, <1>7, FS_Subset
<1>11. Cardinality(Present') \in Nat
  BY <1>10, FS_CardinalityType
<1>12. Cardinality(Present') <= MaxEntries
  BY <1>2, <1>6, <1>7, <1>9, <1>10, <1>11
<1>13. QED
  BY <1>3, <1>10, <1>12 DEF Roomy

\* A counter the table drops to make room.
LEMMA DroppedCounter ==
  ASSUME LoginInv, LoginTypeOK', NEW k \in LoginKeys, rdb' = rdb, redisFails' = redisFails,
         shared'[k] = shared[k], local'[k] = NoCounter, HeldIn("local", k)' = {},
         HeldIn("shared", k)' = HeldIn("shared", k), Unmirrored(k)' \subseteq OnTable(k),
         loosened'[<<"shared", k>>] = loosened[<<"shared", k>>],
         loosened'[<<"local", k>>] = loosened[<<"local", k>>] + Cardinality(HeldIn("local", k))
  PROVE  Counts(k)' /\ Exact(k)' /\ (Limited(k) => Limited(k)')
<1>1. Counts(k) /\ LoginTypeOK
  BY DEF LoginInv
<1> Numbers(k) /\ Numbers(k)' /\ Sized(k) /\ Sized(k)'
  BY <1>1, CounterNumbers
<1>2. Cardinality(Unmirrored(k)') <= Cardinality(OnTable(k))
  BY HeldType, Sizes
<1>3. Cardinality(OnTable(k)) <= Cardinality(HeldIn("local", k)) + Cardinality(Unmirrored(k))
  BY HeldType, Sizes DEF OnTable
<1>4. Cardinality(Unmirrored(k)') <= loosened'[<<"local", k>>]
  BY <1>1, <1>2, <1>3 DEF Counts, Numbers, Sized
<1>5. loosened'[<<"local", k>>] >= loosened[<<"local", k>>]
  BY DEF Numbers, Sized
<1>6. QED
  BY <1>4, <1>5, Emptied

\* charge, for Redis (unshared 0) or for the table alone (unshared 1).
LEMMA ChargeInv ==
  ASSUME LoginInv, NEW a \in Attempts, NEW un, charge(a, un), LoginAt(a, "allowed"),
         (un = 0 /\ attempt[a].pc = "charge") \/ (un = 1 /\ attempt[a].pc = "local"),
         UNCHANGED <<rdb, userStore, shared, slotQueue, redisFails>>, overlapped' \in BOOLEAN,
         un = 1 => \A k \in Keys(a) : local[k].count < LoginLimit(k),
         ~overlapped' => ~overlapped,
         ~overlapped' /\ un = 1 => \A b \in Attempts : attempt[b].pc \in {"redis", "charge"} => Keys(a) \cap Keys(b) = {}
  PROVE  LoginInv'
<1>1. /\ Keys(a) \subseteq LoginKeys /\ IsFiniteSet(Keys(a)) /\ Cardinality(Keys(a)) <= 3
      /\ charged[a] \subseteq Tables \X LoginKeys /\ Charged(a) /\ LoginTypeOK
  BY KeysType DEF LoginInv
<1>2. PICK dropped \in makeRoom(Cardinality(Keys(a) \ Present), Keys(a)) :
       /\ local' = [k \in LoginKeys |->
                       IF k \in Keys(a) THEN [count |-> local[k].count + 1, unshared |-> local[k].unshared + un]
                       ELSE IF k \in dropped THEN NoCounter ELSE local[k]]
       /\ charged' = [Uncharge("local", dropped) EXCEPT ![a] = @ \cup ({"local"} \X Keys(a))]
       /\ Evicted(dropped, Keys(a), [k \in LoginKeys |-> 0])
  BY DEF charge
<1>3. dropped \subseteq Present \ Keys(a) /\ Present \subseteq LoginKeys
  BY <1>1, <1>2, RoomMade DEF Present
<1>4. /\ attempt' \in [Attempts -> AttemptType] /\ attempt'[a].pc = "allowed"
      /\ attempt'[a].counters = attempt[a].counters /\ attempt'[a].shared = attempt[a].shared
      /\ \A b \in Attempts \ {a} : attempt'[b] = attempt[b]
      /\ \A b \in Attempts : Keys(b)' = Keys(b)
  BY GoesOn DEF LoginAt, LoginPCs
<1>5. \A k \in LoginKeys : local[k].count \in Nat /\ local[k].unshared \in Nat /\ local[k] \in [count : Nat, unshared : Nat]
  BY <1>1 DEF LoginTypeOK
<1>6. /\ local' \in [LoginKeys -> [count : Nat, unshared : Nat]]
      /\ \A k \in Keys(a) : local'[k].count = local[k].count + 1 /\ local'[k].unshared = local[k].unshared + un
      /\ \A k \in dropped : local'[k] = NoCounter
      /\ \A k \in LoginKeys \ (Keys(a) \cup dropped) : local'[k] = local[k]
  <2>1. un \in Nat /\ NoCounter \in [count : Nat, unshared : Nat]
    BY DEF NoCounter
  <2>2. QED
    BY <1>1, <1>2, <1>3, <1>5, <2>1
<1>7. /\ charged' \in [Attempts -> SUBSET (Tables \X LoginKeys)]
      /\ charged'[a] = (charged[a] \ ({"local"} \X dropped)) \cup ({"local"} \X Keys(a))
      /\ \A b \in Attempts \ {a} : charged'[b] = charged[b] \ ({"local"} \X dropped)
  <2>1. charged \in [Attempts -> SUBSET (Tables \X LoginKeys)] /\ {"local"} \X Keys(a) \subseteq Tables \X LoginKeys
    BY <1>1 DEF LoginTypeOK, Tables
  <2>2. QED
    BY <1>2, <2>1 DEF Uncharge
<1>8. \A b \in Attempts, k \in LoginKeys :
         /\ <<"shared", k>> \in charged'[b] <=> <<"shared", k>> \in charged[b]
         /\ <<"local", k>> \in charged'[b] <=> \/ <<"local", k>> \in charged[b] /\ k \notin dropped
                                               \/ b = a /\ k \in Keys(a)
  BY <1>3, <1>7
<1> DEFINE n == [k \in LoginKeys |-> IF k \in dropped THEN Cardinality(HeldIn("local", k)) ELSE 0]
<1>9. loosened' = Loosen("local", n)
  BY <1>2 DEF Evicted
<1>10. n \in [LoginKeys -> Nat] /\ "local" \in Tables /\ "shared" \in Tables
  BY HeldType, Sizes DEF Tables
<1>11. \A k \in LoginKeys : n[k] = IF k \in dropped THEN Cardinality(HeldIn("local", k)) ELSE 0
  OBVIOUS
<1> HIDE DEF n
<1>12. /\ loosened' \in [Tables \X LoginKeys -> Nat]
       /\ \A k \in LoginKeys, t \in Tables : loosened'[<<t, k>>] = loosened[<<t, k>>] + (IF t = "local" THEN n[k] ELSE 0)
  <2>1. /\ Loosen("local", n) \in [Tables \X LoginKeys -> Nat]
        /\ \A k \in LoginKeys, t \in Tables :
              Loosen("local", n)[<<t, k>>] = loosened[<<t, k>>] + (IF t = "local" THEN n[k] ELSE 0)
    BY <1>1, <1>10, Loosened
  <2>2. QED
    BY <1>9, <2>1
<1>13. Roomy' /\ lockoutLost' \in BOOLEAN
  <2>1. Present' \subseteq (Present \ dropped) \cup Keys(a)
    <3>1. NoCounter.count = 0
      BY DEF NoCounter
    <3>2. QED
      BY <1>6, <3>1 DEF Present
  <2>2. QED
    BY <1>1, <1>2, <2>1, RoomKept
<1>14. LoginTypeOK'
  BY <1>1, <1>4, <1>6, <1>7, <1>12, <1>13 DEF LoginTypeOK
<1>15. Charged(a)'
  BY <1>1, <1>4, <1>8 DEF Charged, Tables
<1>16. \A b \in Attempts : Charged(b)'
  BY <1>4, <1>7, <1>15, OthersCharged
<1>17. Slotted'
  BY <1>4, SameSlots
<1>18. \A k \in LoginKeys : HeldIn("shared", k)' = HeldIn("shared", k)
  BY <1>8 DEF HeldIn
<1>19. \A k \in LoginKeys : a \notin HeldIn("local", k)
  BY <1>1 DEF Charged, HeldIn
<1>20. \A k \in LoginKeys : loosened'[<<"shared", k>>] = loosened[<<"shared", k>>]
  <2>1. ASSUME NEW k \in LoginKeys PROVE loosened'[<<"shared", k>>] = loosened[<<"shared", k>>]
    <3>1. loosened[<<"shared", k>>] \in Nat
      BY <1>1, <1>14, CounterNumbers DEF Numbers
    <3>2. QED
      BY <1>10, <1>12, <3>1
  <2>2. QED
    BY <2>1
<1>21. ASSUME NEW k \in Keys(a) PROVE Counts(k)' /\ Exact(k)' /\ (~overlapped' => Limited(k)')
  <2>1. k \in LoginKeys /\ k \notin dropped
    BY <1>1, <1>3
  <2>2. LoginLimit(k) \in Nat /\ Numbers(k) /\ Numbers(k)' /\ Sized(k) /\ Sized(k)'
    BY <1>1, <1>14, <2>1, CounterNumbers
  <2>3. loosened'[<<"local", k>>] = loosened[<<"local", k>>]
    BY <1>10, <1>11, <1>12, <2>1, <2>2 DEF Numbers
  <2>4. HeldIn("local", k)' = HeldIn("local", k) \cup {a}
    BY <1>8, <2>1 DEF HeldIn
  <2>5. Unmirrored(k)' = Unmirrored(k)
    <3>1. a \notin Unmirrored(k) /\ a \notin Unmirrored(k)'
      <4>1. attempt[a].pc = "charge" \/ a \notin HeldIn("shared", k)
        BY <1>1, <2>1 DEF Charged, HeldIn
      <4>2. QED
        BY <2>4, <4>1 DEF Unmirrored
    <3>2. ASSUME NEW b \in Attempts \ {a} PROVE b \in Unmirrored(k)' <=> b \in Unmirrored(k)
      BY <1>4, <1>18, <2>1, <2>4 DEF Unmirrored
    <3>3. Unmirrored(k)' \subseteq Attempts /\ Unmirrored(k) \subseteq Attempts
      BY <2>1, HeldType
    <3>4. QED
      BY <3>1, <3>2, <3>3
  <2>6. OnlyLocal(k)' = OnlyLocal(k) \cup (IF attempt[a].shared THEN {} ELSE {a})
    <3>1. ASSUME NEW b \in Attempts \ {a} PROVE b \in OnlyLocal(k)' <=> b \in OnlyLocal(k)
      BY <1>4, <2>4 DEF OnlyLocal
    <3>2. a \notin OnlyLocal(k) /\ (a \in OnlyLocal(k)' <=> ~attempt[a].shared)
      BY <1>4, <1>19, <2>1, <2>4 DEF OnlyLocal
    <3>3. QED
      BY <2>1, <3>1, <3>2, HeldType
  <2>7. \/ un = 0 /\ OnlyLocal(k)' = OnlyLocal(k)
        \/ un = 1 /\ OnlyLocal(k)' \subseteq OnlyLocal(k) \cup {a}
    BY <1>1, <2>6 DEF Charged
  <2>8. Counts(k)' /\ Exact(k)'
    BY <1>6, <1>14, <1>18, <1>19, <1>20, <2>1, <2>2, <2>3, <2>4, <2>5, <2>7, OneCharge DEF Numbers
  <2>9. ASSUME ~overlapped' PROVE Limited(k)'
    <3>1. CASE un = 0
      <4>1. InForce(k)' = InForce(k) /\ Limited(k)
        BY <1>18, <2>1, <2>7, <2>9, <3>1 DEF InForce, LoginInv
      <4>2. QED
        BY <1>20, <2>1, <2>3, <4>1 DEF Limited
    <3>2. CASE un = 1
      <4>1. \A b \in Attempts : attempt[b].pc = "charge" => b \notin HeldIn("shared", k)
        <5>1. ASSUME NEW b \in Attempts, attempt[b].pc = "charge", b \in HeldIn("shared", k) PROVE FALSE
          <6>1. k \in Keys(b)
            BY <2>1, <5>1, KeysType DEF Charged, HeldIn, Tables
          <6>2. QED
            BY <2>9, <3>2, <5>1, <6>1
        <5>2. QED
          BY <5>1
      <4>2. InForce(k)' \subseteq OnTable(k) \cup {a}
        BY <1>18, <2>1, <2>7, <3>2, <4>1, HeldType DEF InForce, OnTable, Unmirrored, OnlyLocal
      <4>3. OnTable(k) \cup {a} \in SUBSET Attempts
        BY <2>1, HeldType
      <4>4. Cardinality(InForce(k)') <= Cardinality(OnTable(k) \cup {a})
        BY <2>1, <4>2, <4>3, HeldType, Sizes
      <4>5. Cardinality(OnTable(k) \cup {a}) \in Nat /\ Cardinality(OnTable(k) \cup {a}) <= Cardinality(OnTable(k)) + 1
        BY <2>1, HeldType, OneAttempt
      <4>6. Cardinality(OnTable(k)) <= local[k].count + loosened[<<"local", k>>] /\ local[k].count < LoginLimit(k)
        BY <2>1, <3>2 DEF LoginInv, Counts
      <4>7. QED
        BY <1>20, <2>1, <2>2, <2>3, <4>4, <4>5, <4>6 DEF Limited, Numbers, Sized
    <3>3. QED
      BY <3>1, <3>2
  <2>10. QED
    BY <2>8, <2>9
<1>22. ASSUME NEW k \in LoginKeys \ Keys(a) PROVE Counts(k)' /\ Exact(k)' /\ (Limited(k) => Limited(k)')
  <2>1. \A b \in Attempts : <<"shared", k>> \in charged[b] \/ <<"local", k>> \in charged[b] => b # a
    BY <1>1 DEF Charged, Tables
  <2>2. CASE k \in dropped
    <3>1. HeldIn("local", k)' = {}
      BY <1>8, <1>22, <2>2 DEF HeldIn
    <3>2. Unmirrored(k)' \subseteq OnTable(k)
      BY <1>4, <1>18, <2>1 DEF Unmirrored, OnTable, HeldIn
    <3>3. loosened'[<<"local", k>>] = loosened[<<"local", k>>] + Cardinality(HeldIn("local", k))
      BY <1>10, <1>11, <1>12, <2>2
    <3>4. QED
      BY <1>6, <1>14, <1>18, <1>20, <2>2, <3>1, <3>2, <3>3, DroppedCounter
  <2>3. CASE k \notin dropped
    <3>1. Numbers(k)
      BY <1>1, <1>14, CounterNumbers
    <3>2. local'[k] = local[k] /\ loosened'[<<"local", k>>] = loosened[<<"local", k>>]
      BY <1>6, <1>10, <1>11, <1>12, <2>3, <3>1 DEF Numbers
    <3>3. \A b \in Attempts, t \in Tables : <<t, k>> \in charged'[b] <=> <<t, k>> \in charged[b]
      BY <1>8, <2>3 DEF Tables
    <3>4. \A b \in Attempts : (\E t \in Tables : <<t, k>> \in charged[b]) => attempt'[b] = attempt[b]
      BY <1>4, <2>1 DEF Tables
    <3>5. /\ HeldIn("shared", k)' = HeldIn("shared", k) /\ HeldIn("local", k)' = HeldIn("local", k)
          /\ Unmirrored(k)' = Unmirrored(k) /\ OnlyLocal(k)' = OnlyLocal(k)
          /\ OnTable(k)' = OnTable(k) /\ InForce(k)' = InForce(k)
      BY <3>3, <3>4, SameHolders
    <3>6. QED
      BY <1>20, <3>2, <3>5, SameCounter
  <2>4. QED
    BY <2>2, <2>3
<1>23. ASSUME ~overlapped' PROVE Decided' /\ \A k \in LoginKeys : Limited(k)'
  <2>1. Decided /\ \A k \in LoginKeys : Limited(k)
    BY <1>23 DEF LoginInv
  <2>2. \A k \in LoginKeys : Limited(k)'
    BY <1>21, <1>22, <1>23, <2>1
  <2>3. ASSUME NEW b \in Attempts, attempt'[b].pc \in {"redis", "charge"}, NEW k \in Keys(b)' PROVE local'[k].unshared = 0
    <3>1. b # a /\ attempt[b].pc \in {"redis", "charge"} /\ k \in Keys(b) /\ local[k].unshared = 0 /\ k \in LoginKeys
      BY <1>4, <2>1, <2>3, KeysType DEF Decided
    <3>2. CASE k \in Keys(a)
      BY <1>6, <1>23, <3>1, <3>2
    <3>3. CASE k \notin Keys(a)
      BY <1>6, <3>1, <3>3 DEF NoCounter
    <3>4. QED
      BY <3>2, <3>3
  <2>4. QED
    BY <2>2, <2>3 DEF Decided
<1>24. QED
  BY <1>13, <1>14, <1>16, <1>17, <1>21, <1>22, <1>23 DEF LoginInv

LEMMA MirrorChargeInv ==
  ASSUME LoginInv, NEW a \in Attempts, mirrorCharge(a)
  PROVE  LoginInv'
<1>1. overlapped' = overlapped /\ overlapped \in BOOLEAN
  BY DEF mirrorCharge, LoginInv, LoginTypeOK
<1>2. QED
  BY <1>1, ChargeInv DEF mirrorCharge

LEMMA AcquireLocalInv ==
  ASSUME LoginInv, NEW a \in Attempts, acquireLocal(a)
  PROVE  LoginInv'
<1>1. /\ attempt[a].pc = "local" /\ UNCHANGED <<rdb, userStore, shared, slotQueue, redisFails>>
  BY DEF acquireLocal
<1>2. CASE \E k \in Keys(a) : local[k].count >= LoginLimit(k)
  <2>1. attempt' = Answered(a) /\ UNCHANGED <<local, charged, loosened, overlapped, lockoutLost>>
    BY <1>2 DEF acquireLocal
  <2>2. /\ attempt' \in [Attempts -> AttemptType] /\ attempt'[a].pc = "answered" /\ attempt'[a].counters = <<>>
        /\ \A b \in Attempts \ {a} : attempt'[b] = attempt[b] /\ Keys(b)' = Keys(b)
    BY <2>1, IsOver
  <2>3. charged[a] = {}
    BY <1>1, KeysType DEF Charged
  <2>4. LoginTypeOK'
    BY <1>1, <2>1, <2>2 DEF LoginInv, LoginTypeOK
  <2>5. Charged(a)'
    BY <2>1, <2>2, <2>3, NothingCharged
  <2>6. \A b \in Attempts : Charged(b)'
    BY <1>1, <2>1, <2>2, <2>5, OthersCharged
  <2>7. Slotted'
    BY <1>1, <2>2, SameSlots
  <2>8. /\ Roomy' /\ \A k \in LoginKeys : Counts(k)' /\ Exact(k)'
        /\ ~overlapped' => Decided' /\ \A k \in LoginKeys : Limited(k)'
    BY <1>1, <2>1, <2>2, <2>3, <2>4, QuietAttempt
  <2>9. QED
    BY <2>4, <2>6, <2>7, <2>8 DEF LoginInv
<1>3. CASE ~(\E k \in Keys(a) : local[k].count >= LoginLimit(k))
  <2> DEFINE meets == \E b \in Attempts : attempt[b].pc \in {"redis", "charge"} /\ Keys(a) \cap Keys(b) # {}
  <2>1. charge(a, 1) /\ LoginAt(a, "allowed") /\ overlapped' = (overlapped \/ meets)
    BY <1>3 DEF acquireLocal
  <2>2. overlapped' \in BOOLEAN /\ (~overlapped' => ~overlapped /\ ~meets)
    BY <2>1
  <2>3. \A k \in Keys(a) : local[k].count < LoginLimit(k)
    <3>1. ASSUME NEW k \in Keys(a) PROVE local[k].count \in Nat /\ LoginLimit(k) \in Nat
      BY KeysType, CounterKind DEF LoginInv, LoginTypeOK
    <3>2. QED
      BY <1>3, <3>1
  <2>4. ~overlapped' => \A b \in Attempts : attempt[b].pc \in {"redis", "charge"} => Keys(a) \cap Keys(b) = {}
    BY <2>2
  <2> HIDE DEF meets
  <2>5. QED
    BY <1>1, <2>1, <2>2, <2>3, <2>4, ChargeInv
<1>4. QED
  BY <1>2, <1>3

-----------------------------------------------------------------------------
\* loginAcquireScript never counts down, and by one on the counters it charges.
LEMMA ScriptCounts ==
  ASSUME LoginInv, NEW a \in Attempts
  PROVE  /\ acquireScript(a) \in [LoginKeys -> Nat]
         /\ \A k \in LoginKeys : acquireScript(a)[k] >= shared[k]
         /\ SharedExhausted(a) = {} => /\ \A k \in Keys(a) : acquireScript(a)[k] = shared[k] + 1
                                       /\ \A k \in LoginKeys \ Keys(a) : acquireScript(a)[k] = shared[k]
         /\ SharedExhausted(a) # {} => acquireScript(a) = shared
<1>1. shared \in [LoginKeys -> Nat] /\ Keys(a) \subseteq LoginKeys
  BY KeysType DEF LoginInv, LoginTypeOK
<1>2. QED
  BY <1>1 DEF acquireScript

LEMMA AcquireRedisInv ==
  ASSUME LoginInv, NEW a \in Attempts, acquireRedis(a)
  PROVE  LoginInv'
<1>1. /\ attempt[a].pc = "redis"
      /\ UNCHANGED <<rdb, userStore, local, slotQueue, loosened, overlapped, lockoutLost>>
  BY DEF acquireRedis
<1>2. /\ Keys(a) \subseteq LoginKeys /\ attempt[a] \in AttemptType /\ Charged(a) /\ LoginTypeOK
      /\ charged[a] = {} /\ rdb /\ Len(attempt[a].counters) <= 3
  BY <1>1, KeysType DEF LoginInv, Charged
<1>3. attempt \in [Attempts -> AttemptType] /\ shared \in [LoginKeys -> Nat]
  BY <1>2 DEF LoginTypeOK
<1>4. Present' = Present
  BY <1>1 DEF Present
<1>5. Roomy'
  BY <1>1, <1>4 DEF LoginInv, Roomy
<1>6. CASE /\ shared' = acquireScript(a) /\ SharedExhausted(a) = {} /\ UNCHANGED redisFails
           /\ attempt' = [attempt EXCEPT ![a].pc = "charge", ![a].shared = TRUE]
           /\ charged' = [charged EXCEPT ![a] = {"shared"} \X Keys(a)]
  <2>1. /\ attempt' \in [Attempts -> AttemptType] /\ attempt'[a].pc = "charge" /\ attempt'[a].shared
        /\ attempt'[a].counters = attempt[a].counters
        /\ \A b \in Attempts \ {a} : attempt'[b] = attempt[b]
    BY <1>3, <1>6 DEF AttemptType, LoginPCs
  <2>2. \A b \in Attempts : Keys(b)' = Keys(b)
    BY <2>1 DEF Keys
  <2>3. /\ charged' \in [Attempts -> SUBSET (Tables \X LoginKeys)] /\ charged'[a] = {"shared"} \X Keys(a)
        /\ \A b \in Attempts \ {a} : charged'[b] = charged[b]
    <3>1. {"shared"} \X Keys(a) \subseteq Tables \X LoginKeys
      BY <1>2 DEF Tables
    <3>2. QED
      BY <1>2, <1>6, <3>1 DEF LoginTypeOK
  <2>4. LoginTypeOK'
    BY <1>1, <1>2, <1>6, <2>1, <2>3, ScriptCounts DEF LoginTypeOK
  <2>5. Charged(a)'
    BY <1>1, <1>2, <2>1, <2>2, <2>3 DEF Charged, Tables
  <2>6. \A b \in Attempts : Charged(b)'
    BY <1>1, <2>1, <2>3, <2>5, OthersCharged
  <2>7. Slotted'
    BY <1>1, <2>1, SameSlots
  <2>8. \A k \in LoginKeys : HeldIn("local", k)' = HeldIn("local", k) /\ a \notin HeldIn("local", k)
    BY <1>2, <2>3 DEF HeldIn
  <2>9. ASSUME NEW k \in LoginKeys PROVE OnlyLocal(k)' = OnlyLocal(k)
    <3>1. ASSUME NEW b \in Attempts PROVE b \in OnlyLocal(k)' <=> b \in OnlyLocal(k)
      BY <2>1, <2>8 DEF OnlyLocal
    <3>2. OnlyLocal(k)' \subseteq Attempts /\ OnlyLocal(k) \subseteq Attempts
      BY HeldType
    <3>3. QED
      BY <3>1, <3>2
  <2>10. ASSUME NEW k \in Keys(a)
         PROVE  Counts(k)' /\ Exact(k)' /\ (~overlapped' => Limited(k)')
    <3>1. k \in LoginKeys /\ Counts(k) /\ Exact(k)
      BY <1>2 DEF LoginInv
    <3>2. LoginLimit(k) \in Nat /\ Numbers(k) /\ Numbers(k)' /\ Sized(k) /\ Sized(k)'
      BY <1>2, <2>4, <3>1, CounterNumbers
    <3>3. HeldIn("shared", k)' = HeldIn("shared", k) \cup {a} /\ a \notin HeldIn("shared", k)
      BY <1>2, <2>3 DEF HeldIn
    <3>4. Unmirrored(k)' = Unmirrored(k)
      <4>1. ASSUME NEW b \in Attempts PROVE b \in Unmirrored(k)' <=> b \in Unmirrored(k)
        BY <1>1, <2>1, <2>8, <3>1, <3>3 DEF Unmirrored
      <4>2. Unmirrored(k)' \subseteq Attempts /\ Unmirrored(k) \subseteq Attempts
        BY <3>1, HeldType
      <4>3. QED
        BY <4>1, <4>2
    <3>5. OnTable(k)' = OnTable(k)
      BY <2>8, <3>1, <3>4 DEF OnTable
    <3>6. Cardinality(HeldIn("shared", k)') = Cardinality(HeldIn("shared", k)) + 1
      BY <3>1, <3>3, HeldType, OneAttempt
    <3>7. shared'[k] = shared[k] + 1
      BY <1>6, ScriptCounts
    <3>8. Cardinality(HeldIn("shared", k)') <= shared'[k] + loosened'[<<"shared", k>>]
      BY <1>1, <3>1, <3>2, <3>6, <3>7 DEF Counts, Numbers, Sized
    <3>9. Counts(k)'
      BY <1>1, <2>9, <3>1, <3>4, <3>5, <3>8 DEF Counts
    <3>10. Exact(k)'
      BY <1>1, <1>2, <1>6, <3>1, <3>6, <3>7 DEF Exact
    <3>11. ASSUME ~overlapped' PROVE Limited(k)'
      <4>1. local[k].unshared = 0
        BY <1>1, <3>11 DEF LoginInv, Decided
      <4>2. shared[k] < LoginLimit(k)
        <5>1. PICK i \in DOMAIN attempt[a].counters : attempt[a].counters[i] = k
          BY DEF Keys, KeysOf
        <5>2. ~(shared[k] >= LoginLimit(k))
          BY <1>6, <5>1 DEF SharedExhausted
        <5>3. QED
          BY <3>2, <5>2 DEF Numbers
      <4>3. InForce(k)' = HeldIn("shared", k)' \cup OnlyLocal(k)
        BY <2>9, <3>1 DEF InForce
      <4>4. Cardinality(InForce(k)') <= Cardinality(HeldIn("shared", k)') + Cardinality(OnlyLocal(k))
        <5>1. Cardinality(HeldIn("shared", k)' \cup OnlyLocal(k)) <= Cardinality(HeldIn("shared", k)') + Cardinality(OnlyLocal(k))
          BY <3>1, HeldType, Sizes
        <5>2. QED
          BY <4>3, <5>1
      <4>5. Cardinality(OnlyLocal(k)) <= loosened[<<"local", k>>]
        BY <3>1, <3>2, <4>1 DEF Counts, Numbers
      <4>6. QED
        BY <1>1, <3>1, <3>2, <3>6, <4>2, <4>4, <4>5 DEF Limited, Counts, Numbers, Sized
    <3>12. QED
      BY <3>9, <3>10, <3>11
  <2>11. ASSUME NEW k \in LoginKeys \ Keys(a) PROVE Counts(k)' /\ Exact(k)' /\ (Limited(k) => Limited(k)')
    <3>1. \A b \in Attempts, t \in Tables : <<t, k>> \in charged'[b] <=> <<t, k>> \in charged[b]
      BY <1>2, <2>3
    <3>2. \A b \in Attempts : (\E t \in Tables : <<t, k>> \in charged[b]) => attempt'[b] = attempt[b]
      BY <1>2, <2>1
    <3>3. /\ HeldIn("shared", k)' = HeldIn("shared", k) /\ HeldIn("local", k)' = HeldIn("local", k)
          /\ Unmirrored(k)' = Unmirrored(k) /\ OnlyLocal(k)' = OnlyLocal(k)
          /\ OnTable(k)' = OnTable(k) /\ InForce(k)' = InForce(k)
      BY <3>1, <3>2, SameHolders
    <3>4. shared'[k] = shared[k]
      BY <1>6, ScriptCounts
    <3>5. QED
      BY <1>1, <1>6, <3>3, <3>4, SameCounter
  <2>12. ASSUME ~overlapped' PROVE Decided' /\ \A k \in LoginKeys : Limited(k)'
    <3>1. Decided /\ \A k \in LoginKeys : Limited(k)
      BY <1>1, <2>12 DEF LoginInv
    <3>2. \A k \in LoginKeys : Limited(k)'
      BY <2>10, <2>11, <2>12, <3>1
    <3>3. Decided'
      BY <1>1, <2>1, <2>2, <3>1 DEF Decided
    <3>4. QED
      BY <3>2, <3>3
  <2>13. QED
    BY <1>5, <2>4, <2>6, <2>7, <2>10, <2>11, <2>12 DEF LoginInv
<1>7. ASSUME shared' = acquireScript(a), SharedExhausted(a) # {}, UNCHANGED <<charged, redisFails>>,
             NEW i \in SharedExhausted(a),
             attempt' = [attempt EXCEPT ![a].pc = "exhaust", ![a].counters = <<@[i]>>]
      PROVE  LoginInv'
  <2>1. attempt[a].counters[i] \in LoginKeys
    BY <1>2, <1>7 DEF SharedExhausted, AttemptType
  <2> DEFINE c == attempt[a].counters[i]
  <2>2. attempt' = [attempt EXCEPT ![a].pc = "exhaust", ![a].counters = <<c>>]
    BY <1>7
  <2>3. c \in LoginKeys /\ <<c>> \in Seq(LoginKeys) /\ Len(<<c>>) = 1 /\ <<c>> # <<>>
    BY <2>1
  <2> HIDE DEF c
  <2>4. /\ attempt' \in [Attempts -> AttemptType] /\ attempt'[a].pc = "exhaust" /\ attempt'[a].counters = <<c>>
        /\ \A b \in Attempts \ {a} : attempt'[b] = attempt[b]
    BY <1>3, <2>2, <2>3 DEF AttemptType, LoginPCs
  <2>5. \A b \in Attempts \ {a} : Keys(b)' = Keys(b)
    BY <2>4 DEF Keys
  <2>6. shared' = shared
    BY <1>7, ScriptCounts
  <2>7. LoginTypeOK'
    BY <1>1, <1>2, <1>7, <2>4, <2>6 DEF LoginTypeOK
  <2>8. Charged(a)'
    BY <1>1, <1>2, <1>7, <2>3, <2>4, NothingCharged
  <2>9. \A b \in Attempts : Charged(b)'
    BY <1>1, <1>7, <2>4, <2>8, OthersCharged
  <2>10. Slotted'
    BY <1>1, <2>4, SameSlots
  <2>11. /\ \A k \in LoginKeys : Counts(k)' /\ Exact(k)'
         /\ ~overlapped' => Decided' /\ \A k \in LoginKeys : Limited(k)'
    BY <1>1, <1>2, <1>7, <2>4, <2>5, <2>6, <2>7, QuietAttempt
  <2>12. QED
    BY <1>5, <2>7, <2>9, <2>10, <2>11 DEF LoginInv
<1>8. CASE /\ redisFails' = redisFails + 1 /\ shared' \in {shared, acquireScript(a)}
           /\ LoginAt(a, "local") /\ UNCHANGED charged
  <2>1. /\ attempt' \in [Attempts -> AttemptType] /\ attempt'[a].pc = "local"
        /\ attempt'[a].counters = attempt[a].counters /\ attempt'[a].shared = attempt[a].shared
        /\ \A b \in Attempts \ {a} : attempt'[b] = attempt[b]
        /\ \A b \in Attempts : Keys(b)' = Keys(b)
    BY <1>8, GoesOn DEF LoginAt, LoginPCs
  <2>2. shared' \in [LoginKeys -> Nat] /\ \A k \in LoginKeys : shared'[k] >= shared[k]
    BY <1>3, <1>8, ScriptCounts
  <2>3. redisFails \in Nat /\ redisFails' \in Nat /\ redisFails' # 0
    BY <1>2, <1>8 DEF LoginTypeOK
  <2>4. LoginTypeOK'
    BY <1>1, <1>2, <1>8, <2>1, <2>2, <2>3 DEF LoginTypeOK
  <2>5. Charged(a)'
    BY <1>1, <1>2, <1>8, <2>1, NothingCharged
  <2>6. \A b \in Attempts : Charged(b)'
    BY <1>1, <1>8, <2>1, <2>5, OthersCharged
  <2>7. Slotted'
    BY <1>1, <2>1, SameSlots
  <2>8. ASSUME NEW k \in LoginKeys PROVE Counts(k)' /\ Exact(k)' /\ (Limited(k) => Limited(k)')
    <3>1. \A b \in Attempts, t \in Tables : <<t, k>> \in charged'[b] <=> <<t, k>> \in charged[b]
      BY <1>8
    <3>2. \A b \in Attempts : (\E t \in Tables : <<t, k>> \in charged[b]) => attempt'[b] = attempt[b]
      BY <1>2, <2>1
    <3>3. /\ HeldIn("shared", k)' = HeldIn("shared", k) /\ HeldIn("local", k)' = HeldIn("local", k)
          /\ Unmirrored(k)' = Unmirrored(k) /\ OnlyLocal(k)' = OnlyLocal(k)
          /\ OnTable(k)' = OnTable(k) /\ InForce(k)' = InForce(k)
      BY <3>1, <3>2, SameHolders
    <3>4. Numbers(k) /\ Numbers(k)' /\ Sized(k) /\ Counts(k)
      BY <1>2, <2>4, CounterNumbers DEF LoginInv
    <3>5. Cardinality(HeldIn("shared", k)) <= shared'[k] + loosened[<<"shared", k>>]
      BY <2>2, <3>4 DEF Counts, Numbers, Sized
    <3>6. Counts(k)'
      BY <1>1, <3>3, <3>4, <3>5 DEF Counts
    <3>7. Exact(k)'
      BY <1>1, <1>2, <2>3 DEF Exact
    <3>8. QED
      BY <1>1, <3>3, <3>6, <3>7 DEF Limited
  <2>9. ASSUME ~overlapped' PROVE Decided' /\ \A k \in LoginKeys : Limited(k)'
    <3>1. Decided /\ \A k \in LoginKeys : Limited(k)
      BY <1>1, <2>9 DEF LoginInv
    <3>2. Decided'
      BY <1>1, <2>1, <3>1 DEF Decided
    <3>3. QED
      BY <2>8, <3>1, <3>2
  <2>10. QED
    BY <1>5, <2>4, <2>6, <2>7, <2>8, <2>9 DEF LoginInv
<1>9. QED
  BY <1>6, <1>7, <1>8 DEF acquireRedis

LEMMA ExhaustInv ==
  ASSUME LoginInv, NEW a \in Attempts, exhaust(a)
  PROVE  LoginInv'
<1>1. /\ attempt[a].pc = "exhaust" /\ attempt' = Answered(a)
      /\ UNCHANGED <<rdb, userStore, shared, slotQueue, redisFails, overlapped>>
  BY DEF exhaust
<1>2. LoginTypeOK /\ Charged(a) /\ charged[a] = {} /\ rdb /\ attempt[a].counters # <<>> /\ attempt[a].counters \in Seq(LoginKeys)
  BY <1>1, KeysType DEF LoginInv, Charged, AttemptType
<1>3. PICK k \in LoginKeys : k = attempt[a].counters[1]
  BY <1>2
<1> DEFINE excess == IF local[k].count > LoginLimit(k) THEN local[k].count - LoginLimit(k) ELSE 0
<1>4. /\ attempt' \in [Attempts -> AttemptType] /\ attempt'[a].pc = "answered" /\ attempt'[a].counters = <<>>
      /\ \A b \in Attempts \ {a} : attempt'[b] = attempt[b] /\ Keys(b)' = Keys(b)
  BY <1>1, IsOver
<1>5. Slotted'
  BY <1>1, <1>4, SameSlots
<1>6. CASE UNCHANGED <<local, charged, loosened, lockoutLost>>
  <2>1. LoginTypeOK'
    BY <1>1, <1>2, <1>4, <1>6 DEF LoginTypeOK
  <2>2. Charged(a)'
    BY <1>2, <1>4, <1>6, NothingCharged
  <2>3. \A b \in Attempts : Charged(b)'
    BY <1>1, <1>4, <1>6, <2>2, OthersCharged
  <2>4. /\ Roomy' /\ \A j \in LoginKeys : Counts(j)' /\ Exact(j)'
        /\ ~overlapped' => Decided' /\ \A j \in LoginKeys : Limited(j)'
    BY <1>1, <1>2, <1>4, <1>6, <2>1, QuietAttempt
  <2>5. QED
    BY <1>5, <2>1, <2>3, <2>4 DEF LoginInv
<1>7. ASSUME local[k].unshared = 0, NEW dropped \in IF k \in Present THEN {{}} ELSE makeRoom(1, {k}),
             local' = [j \in LoginKeys |->
                          IF j = k THEN [count |-> LoginLimit(k), unshared |-> 0]
                          ELSE IF j \in dropped THEN NoCounter ELSE local[j]],
             charged' = Uncharge("local", dropped),
             Evicted(dropped, {k}, [j \in LoginKeys |-> IF j = k THEN excess ELSE 0])
      PROVE  LoginInv'
  <2>1. LoginLimit(k) \in Nat /\ local[k].count \in Nat
    BY <1>2, <1>3, CounterKind DEF LoginTypeOK
  <2>2. excess \in Nat /\ LoginLimit(k) + excess >= local[k].count
    BY <2>1
  <2> HIDE DEF excess
  <2>3. IsFiniteSet({k}) /\ Cardinality({k}) = 1 /\ {k} \subseteq LoginKeys
    BY <1>3, FS_Singleton
  <2>4. k \notin Present => dropped \in makeRoom(Cardinality({k} \ Present), {k})
    <3>1. k \notin Present => {k} \ Present = {k}
      OBVIOUS
    <3>2. QED
      BY <1>7, <2>3, <3>1
  <2>5. dropped \subseteq Present \ {k} /\ Present \subseteq LoginKeys
    <3>1. Present \subseteq LoginKeys
      BY DEF Present
    <3>2. CASE k \in Present
      BY <1>7, <3>1, <3>2
    <3>3. CASE k \notin Present
      <4>1. dropped \in makeRoom(Cardinality({k} \ Present), {k}) /\ Cardinality({k}) <= 3
        BY <2>3, <2>4, <3>3
      <4>2. dropped \subseteq Present \ {k}
        BY <2>3, <4>1, RoomMade
      <4>3. QED
        BY <3>1, <4>2
    <3>4. QED
      BY <3>2, <3>3
  <2>6. /\ local' \in [LoginKeys -> [count : Nat, unshared : Nat]]
        /\ local'[k].count = LoginLimit(k) /\ local'[k].unshared = 0
        /\ \A j \in dropped : local'[j] = NoCounter
        /\ \A j \in LoginKeys \ ({k} \cup dropped) : local'[j] = local[j]
    <3>1. NoCounter \in [count : Nat, unshared : Nat] /\ local \in [LoginKeys -> [count : Nat, unshared : Nat]]
      BY <1>2 DEF NoCounter, LoginTypeOK
    <3>2. QED
      BY <1>3, <1>7, <2>1, <2>5, <3>1
  <2>7. Present' \subseteq (Present \ dropped) \cup {k}
    <3>1. NoCounter.count = 0
      BY DEF NoCounter
    <3>2. QED
      BY <2>6, <3>1 DEF Present
  <2>8. Roomy' /\ lockoutLost' \in BOOLEAN
    <3>1. CASE k \notin Present
      BY <1>7, <2>3, <2>4, <2>7, <3>1, RoomKept
    <3>2. CASE k \in Present
      <4>1. dropped = {} /\ Present' \subseteq Present
        BY <1>7, <2>7, <3>2
      <4>2. IsFiniteSet(Present) /\ ~lockoutLost /\ MaxEntries \in Nat /\ Cardinality(Present) <= MaxEntries
        BY LoginAssumption DEF LoginInv, Roomy
      <4>3. lockoutLost' = FALSE
        BY <1>7, <4>1, <4>2 DEF Evicted
      <4>4. IsFiniteSet(Present') /\ Cardinality(Present') <= Cardinality(Present)
        BY <4>1, <4>2, FS_Subset
      <4>5. Cardinality(Present') \in Nat /\ Cardinality(Present) \in Nat
        BY <4>2, <4>4, FS_CardinalityType
      <4>6. Cardinality(Present') <= MaxEntries
        BY <4>2, <4>4, <4>5
      <4>7. QED
        BY <4>3, <4>4, <4>6 DEF Roomy
    <3>3. QED
      BY <3>1, <3>2
  <2>9. /\ charged' \in [Attempts -> SUBSET (Tables \X LoginKeys)]
        /\ \A b \in Attempts : charged'[b] = charged[b] \ ({"local"} \X dropped)
    BY <1>2, <1>7 DEF LoginTypeOK, Uncharge
  <2>10. \A b \in Attempts, j \in LoginKeys :
           /\ <<"shared", j>> \in charged'[b] <=> <<"shared", j>> \in charged[b]
           /\ <<"local", j>> \in charged'[b] <=> <<"local", j>> \in charged[b] /\ j \notin dropped
    BY <2>9
  <2> DEFINE n == [j \in LoginKeys |-> IF j \in dropped THEN Cardinality(HeldIn("local", j))
                                       ELSE IF j = k THEN excess ELSE 0]
  <2>11. loosened' = Loosen("local", n)
    BY <1>7 DEF Evicted
  <2>12. n \in [LoginKeys -> Nat] /\ "local" \in Tables /\ "shared" \in Tables
    BY <2>2, HeldType, Sizes DEF Tables
  <2>13. \A j \in LoginKeys : n[j] = IF j \in dropped THEN Cardinality(HeldIn("local", j)) ELSE IF j = k THEN excess ELSE 0
    OBVIOUS
  <2> HIDE DEF n
  <2>14. /\ Loosen("local", n) \in [Tables \X LoginKeys -> Nat]
         /\ \A j \in LoginKeys, t \in Tables :
               Loosen("local", n)[<<t, j>>] = loosened[<<t, j>>] + (IF t = "local" THEN n[j] ELSE 0)
    BY <1>2, <2>12, Loosened
  <2>15. /\ loosened' \in [Tables \X LoginKeys -> Nat]
         /\ \A j \in LoginKeys, t \in Tables : loosened'[<<t, j>>] = loosened[<<t, j>>] + (IF t = "local" THEN n[j] ELSE 0)
    BY <2>11, <2>14
  <2>16. LoginTypeOK'
    BY <1>1, <1>2, <1>4, <2>6, <2>8, <2>9, <2>15 DEF LoginTypeOK
  <2>17. charged'[a] = {} /\ Charged(a)'
    BY <1>2, <1>4, <2>9, NothingCharged
  <2>18. \A b \in Attempts : Charged(b)'
    BY <1>1, <1>4, <2>9, <2>17, OthersCharged
  <2>19. ASSUME NEW j \in LoginKeys
         PROVE  /\ Numbers(j) /\ Numbers(j)' /\ Sized(j) /\ Sized(j)' /\ LoginLimit(j) \in Nat
                /\ loosened'[<<"shared", j>>] = loosened[<<"shared", j>>]
                /\ loosened'[<<"local", j>>] = loosened[<<"local", j>>] + n[j]
                /\ HeldIn("shared", j)' = HeldIn("shared", j)
                /\ a \notin HeldIn("shared", j) /\ a \notin HeldIn("local", j)
    <3>1. Numbers(j) /\ Numbers(j)' /\ Sized(j) /\ Sized(j)' /\ LoginLimit(j) \in Nat
      BY <1>2, <2>16, CounterNumbers
    <3>2. /\ loosened'[<<"shared", j>>] = loosened[<<"shared", j>>]
          /\ loosened'[<<"local", j>>] = loosened[<<"local", j>>] + n[j]
      BY <2>12, <2>15, <3>1 DEF Numbers
    <3>3. /\ HeldIn("shared", j)' = HeldIn("shared", j)
          /\ a \notin HeldIn("shared", j) /\ a \notin HeldIn("local", j)
      BY <1>2, <2>10 DEF HeldIn
    <3>4. QED
      BY <3>1, <3>2, <3>3
  <2>20. ASSUME NEW j \in LoginKeys \ dropped
         PROVE  /\ HeldIn("local", j)' = HeldIn("local", j)
                /\ Unmirrored(j)' = Unmirrored(j) /\ OnlyLocal(j)' = OnlyLocal(j)
                /\ OnTable(j)' = OnTable(j) /\ InForce(j)' = InForce(j)
    <3>1. \A b \in Attempts, t \in Tables : <<t, j>> \in charged'[b] <=> <<t, j>> \in charged[b]
      BY <2>10, <2>20 DEF Tables
    <3>2. \A b \in Attempts : (\E t \in Tables : <<t, j>> \in charged[b]) => attempt'[b] = attempt[b]
      BY <1>2, <1>4
    <3>3. QED
      BY <3>1, <3>2, SameHolders
  <2>21. Counts(k)' /\ Exact(k)' /\ (Limited(k) => Limited(k)')
    <3>1. k \notin dropped /\ Counts(k)
      BY <1>3, <2>5 DEF LoginInv
    <3>2. loosened'[<<"local", k>>] = loosened[<<"local", k>>] + excess
      BY <1>3, <2>13, <2>19, <3>1
    <3>3. Cardinality(OnTable(k)) <= local'[k].count + loosened'[<<"local", k>>]
      BY <1>3, <2>1, <2>2, <2>6, <2>19, <3>1, <3>2 DEF Counts, Numbers, Sized
    <3>4. Cardinality(Unmirrored(k)) <= loosened'[<<"local", k>>]
      BY <1>3, <2>2, <2>19, <3>1, <3>2 DEF Counts, Numbers, Sized
    <3>5. Cardinality(OnlyLocal(k)) <= local'[k].unshared + loosened'[<<"local", k>>]
      BY <1>3, <1>7, <2>2, <2>6, <2>19, <3>1, <3>2, SMTT(30) DEF Counts, Numbers, Sized
    <3>6. Counts(k)'
      BY <1>1, <1>3, <2>19, <2>20, <3>1, <3>3, <3>4, <3>5 DEF Counts
    <3>7. Exact(k)'
      BY <1>1, <1>2, <1>3, <2>19 DEF LoginInv, Exact
    <3>8. Limited(k) => Limited(k)'
      BY <1>3, <2>2, <2>19, <2>20, <3>1, <3>2 DEF Limited, Numbers, Sized
    <3>9. QED
      BY <3>6, <3>7, <3>8
  <2>22. ASSUME NEW j \in LoginKeys \ {k} PROVE Counts(j)' /\ Exact(j)' /\ (Limited(j) => Limited(j)')
    <3>1. CASE j \in dropped
      <4>1. HeldIn("local", j)' = {}
        BY <2>10, <3>1 DEF HeldIn
      <4>2. Unmirrored(j)' \subseteq OnTable(j)
        BY <1>4, <2>19, <4>1 DEF Unmirrored, OnTable, HeldIn
      <4>3. loosened'[<<"local", j>>] = loosened[<<"local", j>>] + Cardinality(HeldIn("local", j))
        BY <2>13, <2>19, <3>1
      <4>4. QED
        BY <1>1, <2>6, <2>16, <2>19, <3>1, <4>1, <4>2, <4>3, DroppedCounter
    <3>2. CASE j \notin dropped
      <4>1. local'[j] = local[j] /\ loosened'[<<"local", j>>] = loosened[<<"local", j>>]
        <5>1. n[j] = 0 /\ loosened[<<"local", j>>] \in Nat
          BY <2>13, <2>19, <2>22, <3>2 DEF Numbers
        <5>2. loosened'[<<"local", j>>] = loosened[<<"local", j>>] + 0
          BY <2>19, <5>1
        <5>3. local'[j] = local[j]
          BY <2>6, <2>22, <3>2
        <5>4. QED
          BY <5>1, <5>2, <5>3
      <4>2. QED
        BY <1>1, <2>19, <2>20, <3>2, <4>1, SameCounter
    <3>3. QED
      BY <3>1, <3>2
  <2>23. ASSUME ~overlapped' PROVE Decided' /\ \A j \in LoginKeys : Limited(j)'
    <3>1. Decided /\ \A j \in LoginKeys : Limited(j)
      BY <1>1, <2>23 DEF LoginInv
    <3>2. ASSUME NEW b \in Attempts, attempt'[b].pc \in {"redis", "charge"}, NEW j \in Keys(b)' PROVE local'[j].unshared = 0
      <4>1. b # a /\ attempt[b].pc \in {"redis", "charge"} /\ j \in Keys(b) /\ local[j].unshared = 0 /\ j \in LoginKeys
        BY <1>4, <3>1, <3>2, KeysType DEF Decided
      <4>2. QED
        BY <2>6, <4>1 DEF NoCounter
    <3>3. QED
      BY <2>21, <2>22, <3>1, <3>2 DEF Decided
  <2>24. QED
    BY <1>3, <1>5, <2>8, <2>16, <2>18, <2>21, <2>22, <2>23 DEF LoginInv
<1>8. QED
  BY <1>3, <1>6, <1>7 DEF exhaust

-----------------------------------------------------------------------------
\* What a release clears and what it gives back are counters of the attempt.
LEMMA ReleasedKeys ==
  ASSUME LoginInv, NEW a \in Attempts
  PROVE  /\ Cleared(a) \subseteq Keys(a) /\ Refunded(a) \subseteq Keys(a) /\ Keys(a) \subseteq LoginKeys
         /\ \A k \in Keys(a) : k \in Refunded(a) <=> k \notin Cleared(a)
         /\ \A k \in LoginKeys \ Keys(a) : a \notin HeldIn("shared", k) /\ a \notin HeldIn("local", k)
         /\ \A k \in LoginKeys : a \in HeldIn("shared", k) => attempt[a].shared
<1>1. /\ Cleared(a) \subseteq Keys(a) /\ Refunded(a) \subseteq Keys(a) /\ Keys(a) \subseteq LoginKeys
      /\ \A k \in Keys(a) : k \in Refunded(a) <=> k \notin Cleared(a)
  BY KeysType DEF Cleared, Refunded
<1>2. /\ \A k \in LoginKeys \ Keys(a) : a \notin HeldIn("shared", k) /\ a \notin HeldIn("local", k)
      /\ \A k \in LoginKeys : a \in HeldIn("shared", k) => attempt[a].shared
  BY KeysType DEF Charged, HeldIn, Tables
<1>3. QED
  BY <1>1, <1>2

\* loginReleaseScript: what it leaves of a counter.
LEMMA ScriptReleases ==
  ASSUME LoginInv, NEW a \in Attempts
  PROVE  /\ releaseScript(a) \in [LoginKeys -> Nat]
         /\ \A k \in Cleared(a) : releaseScript(a)[k] = 0
         /\ \A k \in Refunded(a) : releaseScript(a)[k] = IF attempt[a].shared /\ shared[k] > 0 THEN shared[k] - 1 ELSE shared[k]
         /\ \A k \in LoginKeys \ Keys(a) : releaseScript(a)[k] = shared[k]
<1>1. \A k \in LoginKeys : shared[k] \in Nat
  BY DEF LoginInv, LoginTypeOK
<1>2. /\ Cleared(a) \subseteq Keys(a) /\ Refunded(a) \subseteq Keys(a) /\ Keys(a) \subseteq LoginKeys
      /\ \A k \in Keys(a) : k \in Refunded(a) <=> k \notin Cleared(a)
  BY ReleasedKeys
<1>3. ASSUME NEW k \in LoginKeys
      PROVE  /\ releaseScript(a)[k] = IF k \in Cleared(a) THEN 0
                         ELSE IF k \in Refunded(a) /\ attempt[a].shared /\ shared[k] > 0 THEN shared[k] - 1
                         ELSE shared[k]
             /\ releaseScript(a)[k] \in Nat
  BY <1>1 DEF releaseScript
<1>4. releaseScript(a) \in [LoginKeys -> Nat]
  <2>1. releaseScript(a) = [k \in LoginKeys |-> releaseScript(a)[k]]
    BY DEF releaseScript
  <2>2. QED
    BY <1>3, <2>1
<1>5. QED
  BY <1>2, <1>3, <1>4

LEMMA ReleaseRedisInv ==
  ASSUME LoginInv, NEW a \in Attempts, releaseRedis(a)
  PROVE  LoginInv'
<1>1. /\ attempt[a].pc = "release" /\ rdb /\ LoginAt(a, "releaseLocal")
      /\ UNCHANGED <<rdb, userStore, local, slotQueue, overlapped, lockoutLost>>
      /\ charged' = [Uncharge("shared", Cleared(a)) EXCEPT ![a] = @ \ ({"shared"} \X LoginKeys)]
      /\ loosened' = IF attempt[a].shared THEN Loosen("shared", StaleRefund(a, "shared", shared)) ELSE loosened
  BY DEF releaseRedis
<1>2. /\ Cleared(a) \subseteq Keys(a) /\ Refunded(a) \subseteq Keys(a) /\ Keys(a) \subseteq LoginKeys
      /\ \A k \in Keys(a) : k \in Refunded(a) <=> k \notin Cleared(a)
      /\ \A k \in LoginKeys \ Keys(a) : a \notin HeldIn("shared", k) /\ a \notin HeldIn("local", k)
      /\ \A k \in LoginKeys : a \in HeldIn("shared", k) => attempt[a].shared
  BY ReleasedKeys
<1>3. LoginTypeOK /\ Charged(a) /\ charged[a] \subseteq Tables \X LoginKeys
  BY KeysType DEF LoginInv
<1>4. /\ attempt' \in [Attempts -> AttemptType] /\ attempt'[a].pc = "releaseLocal"
      /\ attempt'[a].counters = attempt[a].counters /\ attempt'[a].shared = attempt[a].shared
      /\ \A b \in Attempts \ {a} : attempt'[b] = attempt[b]
      /\ \A b \in Attempts : Keys(b)' = Keys(b)
  BY <1>1, GoesOn DEF LoginAt, LoginPCs
<1>5. \/ shared' = releaseScript(a) /\ redisFails' = redisFails
      \/ redisFails' = redisFails + 1 /\ shared' \in {shared, releaseScript(a)}
  BY DEF releaseRedis
<1>6. redisFails \in Nat /\ redisFails' \in Nat /\ shared \in [LoginKeys -> Nat] /\ (redisFails' = 0 => redisFails = 0 /\ shared' = releaseScript(a))
  <2>1. redisFails \in Nat /\ shared \in [LoginKeys -> Nat]
    BY <1>3 DEF LoginTypeOK
  <2>2. QED
    BY <1>5, <2>1
<1>7. shared' \in [LoginKeys -> Nat] /\ shared' \in {shared, releaseScript(a)}
  BY <1>5, <1>6, ScriptReleases
<1>8. /\ charged' \in [Attempts -> SUBSET (Tables \X LoginKeys)]
      /\ charged'[a] = (charged[a] \ ({"shared"} \X Cleared(a))) \ ({"shared"} \X LoginKeys)
      /\ \A b \in Attempts \ {a} : charged'[b] = charged[b] \ ({"shared"} \X Cleared(a))
  <2>1. charged \in [Attempts -> SUBSET (Tables \X LoginKeys)]
    BY <1>3 DEF LoginTypeOK
  <2>2. QED
    BY <1>1, <2>1 DEF Uncharge
<1>9. \A b \in Attempts, k \in LoginKeys :
         /\ <<"local", k>> \in charged'[b] <=> <<"local", k>> \in charged[b]
         /\ <<"shared", k>> \in charged'[b] <=> <<"shared", k>> \in charged[b] /\ b # a /\ k \notin Cleared(a)
  BY <1>8
<1> DEFINE n == IF attempt[a].shared THEN StaleRefund(a, "shared", shared) ELSE [k \in LoginKeys |-> 0]
<1>10. n \in [LoginKeys -> Nat] /\ "local" \in Tables /\ "shared" \in Tables
  BY DEF StaleRefund, Tables
<1>11. \A k \in LoginKeys : n[k] = IF attempt[a].shared /\ k \in Refunded(a) /\ a \notin HeldIn("shared", k) /\ shared[k] > 0
                                   THEN 1 ELSE 0
  BY DEF StaleRefund, HeldIn
<1>12. attempt[a].shared => loosened' = Loosen("shared", n)
  BY <1>1
<1>13. ~attempt[a].shared => loosened' = loosened /\ \A k \in LoginKeys : n[k] = 0
  BY <1>1
<1> HIDE DEF n
<1>14. /\ Loosen("shared", n) \in [Tables \X LoginKeys -> Nat]
       /\ \A k \in LoginKeys, t \in Tables :
             Loosen("shared", n)[<<t, k>>] = loosened[<<t, k>>] + (IF t = "shared" THEN n[k] ELSE 0)
  BY <1>3, <1>10, Loosened
<1>15. loosened' \in [Tables \X LoginKeys -> Nat]
  BY <1>3, <1>12, <1>13, <1>14 DEF LoginTypeOK
<1>16. LoginTypeOK'
  BY <1>1, <1>3, <1>4, <1>6, <1>7, <1>8, <1>15 DEF LoginTypeOK
<1>17. Charged(a)'
  BY <1>1, <1>3, <1>4, <1>9 DEF Charged, Tables
<1>18. \A b \in Attempts : Charged(b)'
  BY <1>1, <1>4, <1>8, <1>17, OthersCharged
<1>19. Slotted'
  BY <1>1, <1>4, SameSlots
<1>20. Roomy'
  <2>1. Present' = Present
    BY <1>1 DEF Present
  <2>2. QED
    BY <1>1, <2>1 DEF LoginInv, Roomy
<1>21. ASSUME NEW k \in LoginKeys PROVE Counts(k)' /\ Exact(k)' /\ (Limited(k) => Limited(k)')
  <2>1. LoginLimit(k) \in Nat /\ Numbers(k) /\ Numbers(k)' /\ Sized(k) /\ Sized(k)' /\ Counts(k) /\ Exact(k)
    BY <1>3, <1>16, CounterNumbers DEF LoginInv
  <2>2. loosened'[<<"local", k>>] = loosened[<<"local", k>>] /\ loosened'[<<"shared", k>>] = loosened[<<"shared", k>>] + n[k]
    <3>1. CASE attempt[a].shared
      BY <1>10, <1>12, <1>14, <2>1, <3>1 DEF Numbers
    <3>2. CASE ~attempt[a].shared
      <4>1. loosened' = loosened /\ n[k] = 0
        BY <1>13, <3>2
      <4>2. QED
        BY <2>1, <4>1 DEF Numbers
    <3>3. QED
      BY <3>1, <3>2
  <2>3. n[k] \in Nat
    BY <1>10
  <2>4. HeldIn("local", k)' = HeldIn("local", k)
    BY <1>9 DEF HeldIn
  <2>5. OnlyLocal(k)' = OnlyLocal(k)
    <3>1. ASSUME NEW b \in Attempts PROVE b \in OnlyLocal(k)' <=> b \in OnlyLocal(k)
      BY <1>4, <2>4 DEF OnlyLocal
    <3>2. OnlyLocal(k)' \subseteq Attempts /\ OnlyLocal(k) \subseteq Attempts
      BY HeldType
    <3>3. QED
      BY <3>1, <3>2
  <2>6. HeldIn("shared", k)' = IF k \in Cleared(a) THEN {} ELSE HeldIn("shared", k) \ {a}
    BY <1>9 DEF HeldIn
  <2>7. Unmirrored(k)' \subseteq Unmirrored(k)
    BY <1>1, <1>4, <2>4, <2>6, HeldType DEF Unmirrored
  <2>8. OnTable(k)' \subseteq OnTable(k) /\ InForce(k)' \subseteq InForce(k)
    BY <2>4, <2>5, <2>6, <2>7 DEF OnTable, InForce
  <2>9. /\ Cardinality(Unmirrored(k)') <= Cardinality(Unmirrored(k))
        /\ Cardinality(OnTable(k)') <= Cardinality(OnTable(k))
        /\ Cardinality(InForce(k)') <= Cardinality(InForce(k))
    BY <2>7, <2>8, HeldType, Sizes
  <2>10. /\ Cardinality(HeldIn("shared", k)') <= shared'[k] + loosened'[<<"shared", k>>]
         /\ redisFails' = 0 /\ loosened'[<<"shared", k>>] = 0 => shared'[k] = Cardinality(HeldIn("shared", k)')
    <3>1. /\ Cardinality(HeldIn("shared", k)) <= shared[k] + loosened[<<"shared", k>>]
          /\ redisFails = 0 /\ loosened[<<"shared", k>>] = 0 => shared[k] = Cardinality(HeldIn("shared", k))
      BY <1>1, <2>1 DEF Counts, Exact
    <3>2. CASE k \in Cleared(a)
      <4>1. Cardinality(HeldIn("shared", k)') = 0
        BY <2>6, <3>2, FS_EmptySet
      <4>2. redisFails' = 0 => shared'[k] = 0
        BY <1>6, <3>2, ScriptReleases
      <4>3. QED
        BY <2>1, <4>1, <4>2 DEF Numbers
    <3>3. CASE k \in LoginKeys \ Keys(a)
      <4>1. HeldIn("shared", k)' = HeldIn("shared", k) /\ shared'[k] = shared[k]
        BY <1>2, <1>7, <2>6, <3>3, ScriptReleases
      <4>2. n[k] = 0
        BY <1>2, <1>11, <3>3
      <4>3. QED
        BY <1>6, <2>1, <2>2, <3>1, <4>1, <4>2 DEF Numbers
    <3>4. CASE k \in Refunded(a)
      <4>1. HeldIn("shared", k)' = HeldIn("shared", k) \ {a}
        BY <1>2, <2>6, <3>4
      <4>2. Cardinality(HeldIn("shared", k)') = IF a \in HeldIn("shared", k) THEN Cardinality(HeldIn("shared", k)) - 1
                                                ELSE Cardinality(HeldIn("shared", k))
        <5>1. Cardinality(HeldIn("shared", k) \ {a}) = IF a \in HeldIn("shared", k) THEN Cardinality(HeldIn("shared", k)) - 1
                                                       ELSE Cardinality(HeldIn("shared", k))
          BY HeldType, OneAttempt
        <5>2. QED
          BY <4>1, <5>1
      <4>3. /\ shared'[k] \in {shared[k], releaseScript(a)[k]} /\ (redisFails' = 0 => redisFails = 0 /\ shared'[k] = releaseScript(a)[k])
            /\ releaseScript(a)[k] = IF attempt[a].shared /\ shared[k] > 0 THEN shared[k] - 1 ELSE shared[k]
        BY <1>6, <1>7, <3>4, ScriptReleases
      <4>4. CASE a \in HeldIn("shared", k)
        <5>1. attempt[a].shared /\ n[k] = 0
          BY <1>2, <1>11, <4>4
        <5>2. Cardinality(HeldIn("shared", k)) > 0
          BY <4>4, HeldType, OneAttempt
        <5>3. /\ loosened'[<<"shared", k>>] = loosened[<<"shared", k>>]
              /\ Cardinality(HeldIn("shared", k)') = Cardinality(HeldIn("shared", k)) - 1
              /\ releaseScript(a)[k] = IF shared[k] > 0 THEN shared[k] - 1 ELSE shared[k]
          BY <2>1, <2>2, <4>2, <4>3, <4>4, <5>1 DEF Numbers
        <5>4. Cardinality(HeldIn("shared", k)') <= shared'[k] + loosened'[<<"shared", k>>]
          BY <2>1, <3>1, <4>3, <5>3 DEF Numbers, Sized
        <5>5. redisFails' = 0 /\ loosened'[<<"shared", k>>] = 0 => shared'[k] = Cardinality(HeldIn("shared", k)')
          BY <2>1, <3>1, <4>3, <5>2, <5>3 DEF Numbers, Sized
        <5>6. QED
          BY <5>4, <5>5
      <4>5. CASE a \notin HeldIn("shared", k) /\ attempt[a].shared /\ shared[k] > 0
        <5>1. n[k] = 1
          BY <1>11, <3>4, <4>5
        <5>2. QED
          BY <2>1, <2>2, <3>1, <4>2, <4>3, <4>5, <5>1 DEF Numbers, Sized
      <4>6. CASE a \notin HeldIn("shared", k) /\ ~(attempt[a].shared /\ shared[k] > 0)
        <5>1. n[k] = 0 /\ shared'[k] = shared[k]
          BY <1>11, <4>3, <4>6
        <5>2. QED
          BY <2>1, <2>2, <3>1, <4>2, <4>3, <4>6, <5>1 DEF Numbers, Sized
      <4>7. QED
        BY <4>4, <4>5, <4>6
    <3>5. QED
      BY <1>2, <3>2, <3>3, <3>4
  <2>11. Cardinality(OnTable(k)') <= local'[k].count + loosened'[<<"local", k>>]
    BY <1>1, <2>1, <2>2, <2>9 DEF Counts, Numbers, Sized
  <2>12. Cardinality(Unmirrored(k)') <= loosened'[<<"local", k>>]
    BY <2>1, <2>2, <2>9 DEF Counts, Numbers, Sized
  <2>13. Cardinality(OnlyLocal(k)') <= local'[k].unshared + loosened'[<<"local", k>>]
    BY <1>1, <2>1, <2>2, <2>5 DEF Counts
  <2>14. Counts(k)'
    BY <2>10, <2>11, <2>12, <2>13 DEF Counts
  <2>15. Exact(k)'
    BY <1>1, <2>10 DEF Exact
  <2>16. Limited(k) => Limited(k)'
    BY <2>1, <2>2, <2>3, <2>9 DEF Limited, Numbers, Sized
  <2>17. QED
    BY <2>14, <2>15, <2>16
<1>22. ASSUME ~overlapped' PROVE Decided' /\ \A k \in LoginKeys : Limited(k)'
  <2>1. Decided /\ \A k \in LoginKeys : Limited(k)
    BY <1>1, <1>22 DEF LoginInv
  <2>2. Decided'
    BY <1>1, <1>4, <2>1 DEF Decided
  <2>3. QED
    BY <1>21, <2>1, <2>2
<1>23. QED
  BY <1>16, <1>18, <1>19, <1>20, <1>21, <1>22 DEF LoginInv

\* One charge given back to a counter of the table.
LEMMA OneRefund ==
  ASSUME LoginInv, LoginTypeOK', NEW k \in LoginKeys, NEW a \in Attempts, rdb' = rdb, redisFails' = redisFails,
         shared'[k] = shared[k], rdb => a \notin HeldIn("shared", k),
         loosened'[<<"shared", k>>] = loosened[<<"shared", k>>],
         loosened'[<<"local", k>>] = loosened[<<"local", k>>] +
            (IF a \notin HeldIn("local", k) /\ local[k].count > 0 THEN 1 ELSE 0),
         HeldIn("shared", k)' = HeldIn("shared", k) \ {a}, HeldIn("local", k)' = HeldIn("local", k) \ {a},
         Unmirrored(k)' \subseteq Unmirrored(k) \ {a}, OnlyLocal(k)' = OnlyLocal(k) \ {a},
         a \in OnlyLocal(k) <=> a \in HeldIn("local", k) /\ ~attempt[a].shared,
         local'[k] = IF local[k].count = 0 THEN local[k]
                     ELSE IF local[k].count <= 1 THEN NoCounter
                     ELSE [count |-> local[k].count - 1,
                           unshared |-> IF ~attempt[a].shared /\ local[k].unshared > 0 THEN local[k].unshared - 1
                                        ELSE local[k].unshared]
  PROVE  Counts(k)' /\ Exact(k)' /\ (Limited(k) => Limited(k)')
<1>1. Counts(k) /\ Exact(k) /\ LoginTypeOK
  BY DEF LoginInv
<1> LoginLimit(k) \in Nat /\ Numbers(k) /\ Numbers(k)' /\ Sized(k) /\ Sized(k)'
  BY <1>1, CounterNumbers
<1>2. Cardinality(HeldIn("local", k)') = IF a \in HeldIn("local", k) THEN Cardinality(HeldIn("local", k)) - 1
                                         ELSE Cardinality(HeldIn("local", k))
  <2>1. Cardinality(HeldIn("local", k) \ {a}) = IF a \in HeldIn("local", k) THEN Cardinality(HeldIn("local", k)) - 1
                                                ELSE Cardinality(HeldIn("local", k))
    BY HeldType, OneAttempt
  <2>2. QED
    BY <2>1
<1>3. Cardinality(OnlyLocal(k)') = IF a \in OnlyLocal(k) THEN Cardinality(OnlyLocal(k)) - 1 ELSE Cardinality(OnlyLocal(k))
  <2>1. Cardinality(OnlyLocal(k) \ {a}) = IF a \in OnlyLocal(k) THEN Cardinality(OnlyLocal(k)) - 1 ELSE Cardinality(OnlyLocal(k))
    BY HeldType, OneAttempt
  <2>2. QED
    BY <2>1
<1>4. OnTable(k)' \subseteq OnTable(k) \ {a} /\ (a \in HeldIn("local", k) => a \in OnTable(k))
  BY DEF OnTable
<1>5. /\ Cardinality(OnTable(k)') <= Cardinality(OnTable(k))
      /\ a \in HeldIn("local", k) => Cardinality(OnTable(k)') <= Cardinality(OnTable(k)) - 1
  <2>1. OnTable(k) \ {a} \in SUBSET Attempts
    BY HeldType
  <2>2. Cardinality(OnTable(k)') <= Cardinality(OnTable(k) \ {a}) /\ Cardinality(OnTable(k) \ {a}) \in Nat
    BY <1>4, <2>1, HeldType, Sizes
  <2>3. Cardinality(OnTable(k) \ {a}) = IF a \in OnTable(k) THEN Cardinality(OnTable(k)) - 1 ELSE Cardinality(OnTable(k))
    BY HeldType, OneAttempt
  <2>4. QED
    BY <1>4, <2>2, <2>3 DEF Sized
<1>6. Cardinality(HeldIn("shared", k)') <= Cardinality(HeldIn("shared", k))
  BY HeldType, Sizes
<1>7. Cardinality(Unmirrored(k)') <= Cardinality(Unmirrored(k))
  BY HeldType, Sizes
<1>8. InForce(k)' \subseteq InForce(k)
  BY DEF InForce
<1>9. Cardinality(InForce(k)') <= Cardinality(InForce(k))
  BY <1>8, HeldType, Sizes
<1>10. /\ local'[k].count = IF local[k].count = 0 THEN 0 ELSE local[k].count - 1
       /\ local[k].count = 1 => local'[k].unshared = 0
       /\ local[k].count # 1 => local'[k].unshared >= local[k].unshared - 1
       /\ local[k].count # 1 /\ attempt[a].shared => local'[k].unshared = local[k].unshared
       /\ local[k].count = 0 \/ local[k].unshared = 0 => local'[k].unshared = local[k].unshared
  <2>1. CASE local[k].count = 0
    BY <2>1 DEF Numbers
  <2>2. CASE local[k].count = 1
    BY <2>2 DEF NoCounter, Numbers
  <2>3. CASE local[k].count > 1
    BY <2>3 DEF Numbers
  <2>4. QED
    BY <2>1, <2>2, <2>3 DEF Numbers
<1>11. Cardinality(HeldIn("shared", k)') <= shared'[k] + loosened'[<<"shared", k>>]
  BY <1>1, <1>6 DEF Counts, Numbers, Sized
<1>12. loosened'[<<"local", k>>] >= loosened[<<"local", k>>]
  BY DEF Numbers
<1>13. Cardinality(Unmirrored(k)') <= loosened'[<<"local", k>>]
  BY <1>1, <1>7, <1>12 DEF Counts, Numbers, Sized
<1>14. Cardinality(OnTable(k)') <= local'[k].count + loosened'[<<"local", k>>]
  <2>1. Cardinality(OnTable(k)) <= local[k].count + loosened[<<"local", k>>]
    BY <1>1 DEF Counts
  <2>2. CASE local[k].count = 0
    BY <1>5, <1>10, <1>12, <2>1, <2>2 DEF Numbers, Sized
  <2>3. CASE local[k].count # 0 /\ a \in HeldIn("local", k)
    BY <1>5, <1>10, <1>12, <2>1, <2>3 DEF Numbers, Sized
  <2>4. CASE local[k].count # 0 /\ a \notin HeldIn("local", k)
    <3>1. loosened'[<<"local", k>>] = loosened[<<"local", k>>] + 1
      BY <2>4 DEF Numbers
    <3>2. QED
      BY <1>5, <1>10, <2>1, <2>4, <3>1 DEF Numbers, Sized
  <2>5. QED
    BY <2>2, <2>3, <2>4
<1>15. Cardinality(OnlyLocal(k)') <= local'[k].unshared + loosened'[<<"local", k>>]
  <2>1. Cardinality(OnlyLocal(k)) <= local[k].unshared + loosened[<<"local", k>>]
    BY <1>1 DEF Counts
  <2>2. CASE local[k].count = 1
    <3>1. OnlyLocal(k)' \subseteq OnTable(k)'
      BY DEF OnlyLocal, OnTable
    <3>2. Cardinality(OnlyLocal(k)') <= Cardinality(OnTable(k)')
      BY <3>1, HeldType, Sizes
    <3>3. local'[k].count = 0 /\ local'[k].unshared = 0
      BY <1>10, <2>2
    <3>4. QED
      BY <1>14, <3>2, <3>3 DEF Numbers, Sized
  <2>3. CASE local[k].count = 0
    BY <1>3, <1>10, <1>12, <2>1, <2>3 DEF Numbers, Sized
  <2>4. CASE local[k].count # 0 /\ local[k].count # 1 /\ a \in HeldIn("local", k)
    <3>1. CASE attempt[a].shared
      BY <1>3, <1>10, <1>12, <2>1, <2>4, <3>1 DEF Numbers, Sized
    <3>2. CASE ~attempt[a].shared
      <4>1. Cardinality(OnlyLocal(k)') = Cardinality(OnlyLocal(k)) - 1
        BY <1>3, <2>4, <3>2
      <4>2. QED
        BY <1>10, <1>12, <2>1, <2>4, <4>1 DEF Numbers, Sized
    <3>3. QED
      BY <3>1, <3>2
  <2>5. CASE local[k].count # 0 /\ local[k].count # 1 /\ a \notin HeldIn("local", k)
    <3>1. loosened'[<<"local", k>>] = loosened[<<"local", k>>] + 1 /\ Cardinality(OnlyLocal(k)') = Cardinality(OnlyLocal(k))
      BY <1>3, <2>5 DEF Numbers
    <3>2. QED
      BY <1>10, <2>1, <2>5, <3>1 DEF Numbers, Sized
  <2>6. QED
    BY <2>2, <2>3, <2>4, <2>5
<1>16. Counts(k)'
  BY <1>11, <1>13, <1>14, <1>15 DEF Counts
<1>17. rdb => HeldIn("shared", k)' = HeldIn("shared", k)
  OBVIOUS
<1>18. ~rdb /\ loosened'[<<"local", k>>] = 0 => local'[k].count = Cardinality(HeldIn("local", k)')
  <2>1. SUFFICES ASSUME ~rdb, loosened'[<<"local", k>>] = 0 PROVE local'[k].count = Cardinality(HeldIn("local", k)')
    OBVIOUS
  <2>2. loosened[<<"local", k>>] = 0 /\ (a \in HeldIn("local", k) \/ local[k].count = 0)
    BY <2>1 DEF Numbers
  <2>3. local[k].count = Cardinality(HeldIn("local", k))
    BY <1>1, <2>1, <2>2 DEF Exact
  <2>4. a \in HeldIn("local", k) => Cardinality(HeldIn("local", k)) > 0
    BY HeldType, OneAttempt
  <2>5. QED
    BY <1>2, <1>10, <2>2, <2>3, <2>4 DEF Numbers, Sized
<1>19. Exact(k)'
  BY <1>1, <1>17, <1>18 DEF Exact
<1>20. Limited(k) => Limited(k)'
  BY <1>9, <1>12 DEF Limited, Numbers, Sized
<1>21. QED
  BY <1>16, <1>19, <1>20

\* A counter that is cleared in the table, or whose window ends there.
LEMMA ClearedCounter ==
  ASSUME LoginInv, LoginTypeOK', NEW k \in LoginKeys, rdb' = rdb, redisFails' = redisFails,
         shared'[k] = shared[k], local'[k] = NoCounter, HeldIn("local", k)' = {},
         HeldIn("shared", k)' \subseteq HeldIn("shared", k),
         rdb => HeldIn("shared", k)' = HeldIn("shared", k),
         loosened'[<<"shared", k>>] = loosened[<<"shared", k>>],
         loosened'[<<"local", k>>] = loosened[<<"local", k>>] + Cardinality(HeldIn("shared", k))
  PROVE  Counts(k)' /\ Exact(k)' /\ (Limited(k) => Limited(k)')
<1>1. Numbers(k) /\ Numbers(k)' /\ Sized(k) /\ Sized(k)'
  BY CounterNumbers DEF LoginInv
<1>2. Unmirrored(k)' \subseteq HeldIn("shared", k)
  BY DEF Unmirrored
<1>3. Cardinality(Unmirrored(k)') <= Cardinality(HeldIn("shared", k))
  BY <1>2, HeldType, Sizes
<1>4. Cardinality(Unmirrored(k)') <= loosened'[<<"local", k>>] /\ loosened'[<<"local", k>>] >= loosened[<<"local", k>>]
  BY <1>1, <1>3 DEF Numbers, Sized
<1>5. QED
  BY <1>4, Emptied

LEMMA ReleaseLocalInv ==
  ASSUME LoginInv, NEW a \in Attempts, releaseLocal(a)
  PROVE  LoginInv'
<1>1. /\ attempt[a].pc = "releaseLocal" \/ (attempt[a].pc = "release" /\ ~rdb)
      /\ local' = [k \in LoginKeys |-> releasedLocal(a, k)]
      /\ charged' = [Uncharge("local", Cleared(a)) EXCEPT ![a] = {}]
      /\ attempt' = Answered(a)
      /\ UNCHANGED <<rdb, userStore, shared, slotQueue, redisFails, overlapped, lockoutLost>>
  BY DEF releaseLocal
<1>2. /\ Cleared(a) \subseteq Keys(a) /\ Refunded(a) \subseteq Keys(a) /\ Keys(a) \subseteq LoginKeys
      /\ \A k \in Keys(a) : k \in Refunded(a) <=> k \notin Cleared(a)
      /\ \A k \in LoginKeys \ Keys(a) : a \notin HeldIn("shared", k) /\ a \notin HeldIn("local", k)
  BY ReleasedKeys
<1>3. LoginTypeOK /\ Charged(a)
  BY KeysType DEF LoginInv
<1>4. /\ attempt' \in [Attempts -> AttemptType] /\ attempt'[a].pc = "answered" /\ attempt'[a].counters = <<>>
      /\ \A b \in Attempts \ {a} : attempt'[b] = attempt[b] /\ Keys(b)' = Keys(b)
  BY <1>1, IsOver
<1>5. \A k \in LoginKeys : local[k] \in [count : Nat, unshared : Nat] /\ local[k].count \in Nat /\ local[k].unshared \in Nat
  BY <1>3 DEF LoginTypeOK
<1>6. \A k \in LoginKeys : local'[k] = releasedLocal(a, k)
  BY <1>1
<1>7. /\ \A k \in Cleared(a) : local'[k] = NoCounter
      /\ \A k \in Refunded(a) :
            local'[k] = IF local[k].count = 0 THEN local[k]
                        ELSE IF local[k].count <= 1 THEN NoCounter
                        ELSE [count |-> local[k].count - 1,
                              unshared |-> IF ~attempt[a].shared /\ local[k].unshared > 0 THEN local[k].unshared - 1
                                           ELSE local[k].unshared]
      /\ \A k \in LoginKeys \ Keys(a) : local'[k] = local[k]
  <2>1. \A k \in Cleared(a) : local'[k] = NoCounter
    BY <1>2, <1>6 DEF releasedLocal
  <2>2. ASSUME NEW k \in Refunded(a)
        PROVE  local'[k] = IF local[k].count = 0 THEN local[k]
                        ELSE IF local[k].count <= 1 THEN NoCounter
                        ELSE [count |-> local[k].count - 1,
                              unshared |-> IF ~attempt[a].shared /\ local[k].unshared > 0 THEN local[k].unshared - 1
                                           ELSE local[k].unshared]
    <3>1. k \in LoginKeys /\ k \notin Cleared(a) /\ (k \notin Present <=> local[k].count = 0)
      BY <1>2, <1>5 DEF Present
    <3>2. QED
      BY <1>6, <3>1 DEF releasedLocal
  <2>3. \A k \in LoginKeys \ Keys(a) : local'[k] = local[k]
    BY <1>2, <1>6 DEF releasedLocal
  <2>4. QED
    BY <2>1, <2>2, <2>3
<1>8. ASSUME NEW k \in LoginKeys
      PROVE  /\ local'[k] \in [count : Nat, unshared : Nat] /\ local'[k].count <= local[k].count
             /\ local[k].unshared = 0 => local'[k].unshared = 0
  <2>1. NoCounter \in [count : Nat, unshared : Nat] /\ NoCounter.count = 0 /\ NoCounter.unshared = 0
    BY DEF NoCounter
  <2>2. CASE local'[k] = local[k] \/ local'[k] = NoCounter
    BY <1>5, <2>1, <2>2
  <2>3. CASE /\ local[k].count > 1
             /\ local'[k] = [count |-> local[k].count - 1,
                             unshared |-> IF ~attempt[a].shared /\ local[k].unshared > 0 THEN local[k].unshared - 1
                                          ELSE local[k].unshared]
    BY <1>5, <2>3
  <2>4. QED
    BY <1>2, <1>5, <1>7, <2>2, <2>3
<1>9. local' \in [LoginKeys -> [count : Nat, unshared : Nat]]
  <2>1. local' = [k \in LoginKeys |-> local'[k]]
    BY <1>1
  <2>2. QED
    BY <1>8, <2>1
<1>10. /\ charged' \in [Attempts -> SUBSET (Tables \X LoginKeys)] /\ charged'[a] = {}
       /\ \A b \in Attempts \ {a} : charged'[b] = charged[b] \ ({"local"} \X Cleared(a))
  <2>1. charged \in [Attempts -> SUBSET (Tables \X LoginKeys)]
    BY <1>3 DEF LoginTypeOK
  <2>2. QED
    BY <1>1, <2>1 DEF Uncharge
<1>11. \A b \in Attempts, k \in LoginKeys :
         /\ <<"shared", k>> \in charged'[b] <=> <<"shared", k>> \in charged[b] /\ b # a
         /\ <<"local", k>> \in charged'[b] <=> <<"local", k>> \in charged[b] /\ b # a /\ k \notin Cleared(a)
  BY <1>10
<1> DEFINE n == [k \in LoginKeys |->
                    IF k \in Cleared(a) THEN Cardinality(HeldIn("shared", k))
                    ELSE StaleRefund(a, "local", [j \in LoginKeys |-> local[j].count])[k]]
<1>12. loosened' = Loosen("local", n)
  BY DEF releaseLocal
<1>13. \A k \in LoginKeys : n[k] = IF k \in Cleared(a) THEN Cardinality(HeldIn("shared", k))
                                   ELSE IF k \in Refunded(a) /\ a \notin HeldIn("local", k) /\ local[k].count > 0 THEN 1 ELSE 0
  BY DEF StaleRefund, HeldIn
<1>14. n \in [LoginKeys -> Nat] /\ "local" \in Tables /\ "shared" \in Tables
  <2>1. \A k \in LoginKeys : Cardinality(HeldIn("shared", k)) \in Nat
    BY HeldType, Sizes
  <2>2. \A k \in LoginKeys : n[k] \in Nat
    BY <1>13, <2>1
  <2>3. QED
    BY <2>2 DEF Tables
<1> HIDE DEF n
<1>15. /\ Loosen("local", n) \in [Tables \X LoginKeys -> Nat]
       /\ \A k \in LoginKeys, t \in Tables :
             Loosen("local", n)[<<t, k>>] = loosened[<<t, k>>] + (IF t = "local" THEN n[k] ELSE 0)
  BY <1>3, <1>14, Loosened
<1>16. /\ loosened' \in [Tables \X LoginKeys -> Nat]
       /\ \A k \in LoginKeys, t \in Tables : loosened'[<<t, k>>] = loosened[<<t, k>>] + (IF t = "local" THEN n[k] ELSE 0)
  BY <1>12, <1>15
<1>17. LoginTypeOK'
  BY <1>1, <1>3, <1>4, <1>9, <1>10, <1>16 DEF LoginTypeOK
<1>18. Charged(a)'
  BY <1>4, <1>10, NothingCharged
<1>19. \A b \in Attempts : Charged(b)'
  BY <1>1, <1>4, <1>10, <1>18, OthersCharged
<1>20. Slotted'
  BY <1>1, <1>4, SameSlots
<1>21. Roomy'
  <2>1. Present' \subseteq Present
    <3>1. \A k \in LoginKeys : local'[k].count \in Nat
      BY <1>8
    <3>2. QED
      BY <1>5, <1>8, <3>1 DEF Present
  <2>2. IsFiniteSet(Present) /\ ~lockoutLost' /\ MaxEntries \in Nat /\ Cardinality(Present) <= MaxEntries
    BY <1>1, LoginAssumption DEF LoginInv, Roomy
  <2>3. IsFiniteSet(Present') /\ Cardinality(Present') <= Cardinality(Present)
    BY <2>1, <2>2, FS_Subset
  <2>4. Cardinality(Present') \in Nat /\ Cardinality(Present) \in Nat
    BY <2>2, <2>3, FS_CardinalityType
  <2>5. Cardinality(Present') <= MaxEntries
    BY <2>2, <2>3, <2>4
  <2>6. QED
    BY <2>2, <2>3, <2>5 DEF Roomy
<1>22. ASSUME NEW k \in LoginKeys PROVE Counts(k)' /\ Exact(k)' /\ (Limited(k) => Limited(k)')
  <2>1. loosened[<<"shared", k>>] \in Nat /\ loosened[<<"local", k>>] \in Nat
    BY <1>3, <1>17, CounterNumbers DEF Numbers
  <2>2. loosened'[<<"shared", k>>] = loosened[<<"shared", k>>] /\ loosened'[<<"local", k>>] = loosened[<<"local", k>>] + n[k]
    BY <1>14, <1>16, <2>1
  <2>3. HeldIn("shared", k)' = HeldIn("shared", k) \ {a}
    BY <1>11 DEF HeldIn
  <2>4. HeldIn("local", k)' = IF k \in Cleared(a) THEN {} ELSE HeldIn("local", k) \ {a}
    BY <1>11 DEF HeldIn
  <2>5. rdb => a \notin HeldIn("shared", k)
    BY <1>1, <1>3 DEF Charged, HeldIn
  <2>6. CASE k \in Cleared(a)
    <3>1. /\ HeldIn("shared", k)' \subseteq HeldIn("shared", k) /\ HeldIn("local", k)' = {}
          /\ rdb => HeldIn("shared", k)' = HeldIn("shared", k)
      BY <2>3, <2>4, <2>5, <2>6
    <3>2. loosened'[<<"local", k>>] = loosened[<<"local", k>>] + Cardinality(HeldIn("shared", k))
      BY <1>13, <2>2, <2>6
    <3>3. QED
      BY <1>1, <1>7, <1>17, <2>2, <2>6, <3>1, <3>2, ClearedCounter
  <2>7. CASE k \in Refunded(a)
    <3>1. HeldIn("local", k)' = HeldIn("local", k) \ {a}
      BY <1>2, <2>4, <2>7
    <3>2. Unmirrored(k)' \subseteq Unmirrored(k) \ {a}
      <4>1. ASSUME NEW b \in Attempts, b \in Unmirrored(k)' PROVE b # a /\ b \in Unmirrored(k)
        <5>1. b # a /\ attempt'[b] = attempt[b]
          BY <1>4, <2>3, <4>1 DEF Unmirrored
        <5>2. QED
          BY <2>3, <3>1, <4>1, <5>1 DEF Unmirrored
      <4>2. QED
        BY <4>1, HeldType
    <3>3. OnlyLocal(k)' = OnlyLocal(k) \ {a}
      <4>1. ASSUME NEW b \in Attempts \ {a} PROVE b \in OnlyLocal(k)' <=> b \in OnlyLocal(k)
        BY <1>4, <3>1 DEF OnlyLocal
      <4>2. a \notin OnlyLocal(k)' /\ OnlyLocal(k)' \subseteq Attempts /\ OnlyLocal(k) \subseteq Attempts
        BY <3>1, HeldType DEF OnlyLocal
      <4>3. QED
        BY <4>1, <4>2
    <3>4. a \in OnlyLocal(k) <=> a \in HeldIn("local", k) /\ ~attempt[a].shared
      BY DEF OnlyLocal
    <3>5. n[k] = IF a \notin HeldIn("local", k) /\ local[k].count > 0 THEN 1 ELSE 0
      BY <1>2, <1>13, <2>7
    <3>6. loosened'[<<"local", k>>] = loosened[<<"local", k>>] +
            (IF a \notin HeldIn("local", k) /\ local[k].count > 0 THEN 1 ELSE 0)
      BY <2>2, <3>5
    <3>7. shared'[k] = shared[k] /\ rdb' = rdb /\ redisFails' = redisFails
      BY <1>1
    <3>8. local'[k] = IF local[k].count = 0 THEN local[k]
                        ELSE IF local[k].count <= 1 THEN NoCounter
                        ELSE [count |-> local[k].count - 1,
                              unshared |-> IF ~attempt[a].shared /\ local[k].unshared > 0 THEN local[k].unshared - 1
                                           ELSE local[k].unshared]
      BY <1>7, <2>7
    <3>9. QED
      BY <1>17, <2>2, <2>3, <2>5, <3>1, <3>2, <3>3, <3>4, <3>6, <3>7, <3>8, OneRefund
  <2>8. CASE k \in LoginKeys \ Keys(a)
    <3>1. n[k] = 0 /\ k \notin Cleared(a)
      BY <1>2, <1>13, <2>8
    <3>2. loosened'[<<"local", k>>] = loosened[<<"local", k>>]
      BY <2>1, <2>2, <3>1
    <3>3. \A b \in Attempts, t \in Tables : <<t, k>> \in charged'[b] <=> <<t, k>> \in charged[b]
      BY <1>2, <1>11, <2>8, <3>1 DEF Tables, HeldIn
    <3>4. \A b \in Attempts : (\E t \in Tables : <<t, k>> \in charged[b]) => attempt'[b] = attempt[b]
      BY <1>2, <1>4, <2>8 DEF Tables, HeldIn
    <3>5. /\ HeldIn("shared", k)' = HeldIn("shared", k) /\ HeldIn("local", k)' = HeldIn("local", k)
          /\ Unmirrored(k)' = Unmirrored(k) /\ OnlyLocal(k)' = OnlyLocal(k)
          /\ OnTable(k)' = OnTable(k) /\ InForce(k)' = InForce(k)
      BY <3>3, <3>4, SameHolders
    <3>6. QED
      BY <1>1, <1>7, <2>2, <2>8, <3>2, <3>5, SameCounter
  <2>9. QED
    BY <1>2, <2>6, <2>7, <2>8
<1>23. ASSUME ~overlapped' PROVE Decided' /\ \A k \in LoginKeys : Limited(k)'
  <2>1. Decided /\ \A k \in LoginKeys : Limited(k)
    BY <1>1, <1>23 DEF LoginInv
  <2>2. ASSUME NEW b \in Attempts, attempt'[b].pc \in {"redis", "charge"}, NEW k \in Keys(b)' PROVE local'[k].unshared = 0
    <3>1. b # a /\ k \in LoginKeys /\ local[k].unshared = 0
      BY <1>4, <2>1, <2>2, KeysType DEF Decided
    <3>2. QED
      BY <1>8, <3>1
  <2>3. QED
    BY <1>22, <2>1, <2>2 DEF Decided
<1>24. QED
  BY <1>17, <1>19, <1>20, <1>21, <1>22, <1>23 DEF LoginInv

-----------------------------------------------------------------------------
\* The window of a counter ends, in Redis.
LEMMA ExpireSharedInv ==
  ASSUME LoginInv, NEW k \in LoginKeys, ExpireShared(k)
  PROVE  LoginInv'
<1>1. /\ shared' = [shared EXCEPT ![k] = 0] /\ charged' = Uncharge("shared", {k})
      /\ UNCHANGED <<rdb, userStore, local, attempt, slotQueue, redisFails, loosened, overlapped, lockoutLost>>
  BY DEF ExpireShared
<1>2. LoginTypeOK
  BY DEF LoginInv
<1>3. /\ charged' \in [Attempts -> SUBSET (Tables \X LoginKeys)]
      /\ \A b \in Attempts : charged'[b] = charged[b] \ ({"shared"} \X {k})
  BY <1>1, <1>2 DEF LoginTypeOK, Uncharge
<1>4. /\ shared' \in [LoginKeys -> Nat] /\ shared'[k] = 0 /\ \A j \in LoginKeys \ {k} : shared'[j] = shared[j]
  BY <1>1, <1>2 DEF LoginTypeOK
<1>5. LoginTypeOK'
  BY <1>1, <1>2, <1>3, <1>4 DEF LoginTypeOK
<1>6. \A b \in Attempts : Keys(b)' = Keys(b)
  BY <1>1 DEF Keys
<1>7. ASSUME NEW b \in Attempts PROVE Charged(b)'
  <2>1. Charged(b) /\ attempt'[b] = attempt[b] /\ charged'[b] \subseteq charged[b] /\ Keys(b)' = Keys(b) /\ rdb' = rdb
    BY <1>1, <1>3, <1>6 DEF LoginInv
  <2>2. QED
    BY <2>1 DEF Charged
<1>8. Slotted'
  BY <1>1, SameSlots
<1>9. Present' = Present
  BY <1>1 DEF Present
<1>10. Roomy'
  BY <1>1, <1>9 DEF LoginInv, Roomy
<1>11. Counts(k)' /\ Exact(k)' /\ (Limited(k) => Limited(k)')
  <2>1. LoginLimit(k) \in Nat /\ Numbers(k) /\ Numbers(k)' /\ Sized(k) /\ Sized(k)' /\ Counts(k) /\ Exact(k)
    BY <1>2, <1>5, CounterNumbers DEF LoginInv
  <2>2. HeldIn("shared", k)' = {} /\ HeldIn("local", k)' = HeldIn("local", k)
    BY <1>3 DEF HeldIn
  <2>3. OnlyLocal(k)' = OnlyLocal(k) /\ Unmirrored(k)' = {}
    BY <1>1, <2>2 DEF OnlyLocal, Unmirrored
  <2>4. OnTable(k)' \subseteq OnTable(k) /\ InForce(k)' \subseteq InForce(k)
    BY <2>2, <2>3 DEF OnTable, InForce
  <2>5. Cardinality(OnTable(k)') <= Cardinality(OnTable(k)) /\ Cardinality(InForce(k)') <= Cardinality(InForce(k))
    BY <2>4, HeldType, Sizes
  <2>6. Cardinality(HeldIn("shared", k)') = 0 /\ Cardinality(Unmirrored(k)') = 0
    BY <2>2, <2>3, FS_EmptySet
  <2>7. /\ Cardinality(HeldIn("shared", k)') <= shared'[k] + loosened'[<<"shared", k>>]
        /\ Cardinality(Unmirrored(k)') <= loosened'[<<"local", k>>]
    BY <2>1, <2>6 DEF Numbers
  <2>8. Cardinality(OnTable(k)') <= local'[k].count + loosened'[<<"local", k>>]
    BY <1>1, <2>1, <2>5 DEF Counts, Numbers, Sized
  <2>9. Cardinality(OnlyLocal(k)') <= local'[k].unshared + loosened'[<<"local", k>>]
    BY <1>1, <2>1, <2>3 DEF Counts
  <2>10. Counts(k)'
    BY <2>7, <2>8, <2>9 DEF Counts
  <2>11. Exact(k)'
    BY <1>1, <1>4, <2>1, <2>2, <2>6 DEF Exact
  <2>12. Limited(k) => Limited(k)'
    BY <1>1, <2>1, <2>5 DEF Limited, Numbers, Sized
  <2>13. QED
    BY <2>10, <2>11, <2>12
<1>12. ASSUME NEW j \in LoginKeys \ {k} PROVE Counts(j)' /\ Exact(j)' /\ (Limited(j) => Limited(j)')
  <2>1. \A b \in Attempts, t \in Tables : <<t, j>> \in charged'[b] <=> <<t, j>> \in charged[b]
    BY <1>3
  <2>2. /\ HeldIn("shared", j)' = HeldIn("shared", j) /\ HeldIn("local", j)' = HeldIn("local", j)
        /\ Unmirrored(j)' = Unmirrored(j) /\ OnlyLocal(j)' = OnlyLocal(j)
        /\ OnTable(j)' = OnTable(j) /\ InForce(j)' = InForce(j)
    BY <1>1, <2>1, SameHolders
  <2>3. QED
    BY <1>1, <1>4, <2>2, SameCounter
<1>13. ASSUME ~overlapped' PROVE Decided' /\ \A j \in LoginKeys : Limited(j)'
  <2>1. Decided /\ \A j \in LoginKeys : Limited(j)
    BY <1>1, <1>13 DEF LoginInv
  <2>2. Decided'
    BY <1>1, <1>6, <2>1 DEF Decided
  <2>3. QED
    BY <1>11, <1>12, <2>1, <2>2
<1>14. QED
  BY <1>5, <1>7, <1>8, <1>10, <1>11, <1>12, <1>13 DEF LoginInv

\* The window of a counter ends, in the table.
LEMMA ExpireLocalInv ==
  ASSUME LoginInv, NEW k \in LoginKeys, ExpireLocal(k)
  PROVE  LoginInv'
<1>1. /\ local' = [local EXCEPT ![k] = NoCounter] /\ charged' = Uncharge("local", {k})
      /\ loosened' = [loosened EXCEPT ![<<"local", k>>] = @ + Cardinality(HeldIn("shared", k))]
      /\ UNCHANGED <<rdb, userStore, shared, attempt, slotQueue, redisFails, overlapped, lockoutLost>>
  BY DEF ExpireLocal
<1>2. LoginTypeOK
  BY DEF LoginInv
<1>3. /\ charged' \in [Attempts -> SUBSET (Tables \X LoginKeys)]
      /\ \A b \in Attempts : charged'[b] = charged[b] \ ({"local"} \X {k})
  BY <1>1, <1>2 DEF LoginTypeOK, Uncharge
<1>4. NoCounter \in [count : Nat, unshared : Nat] /\ NoCounter.count = 0 /\ NoCounter.unshared = 0
  BY DEF NoCounter
<1>5. /\ local' \in [LoginKeys -> [count : Nat, unshared : Nat]] /\ local'[k] = NoCounter
      /\ \A j \in LoginKeys \ {k} : local'[j] = local[j]
  BY <1>1, <1>2, <1>4 DEF LoginTypeOK
<1>6. Cardinality(HeldIn("shared", k)) \in Nat
  BY HeldType, Sizes
<1>7. /\ loosened' \in [Tables \X LoginKeys -> Nat]
      /\ loosened'[<<"local", k>>] = loosened[<<"local", k>>] + Cardinality(HeldIn("shared", k))
      /\ \A tk \in Tables \X LoginKeys : tk # <<"local", k>> => loosened'[tk] = loosened[tk]
  <2>1. <<"local", k>> \in Tables \X LoginKeys /\ loosened \in [Tables \X LoginKeys -> Nat]
    BY <1>2 DEF LoginTypeOK, Tables
  <2>2. QED
    BY <1>1, <1>6, <2>1
<1>8. LoginTypeOK'
  BY <1>1, <1>2, <1>3, <1>5, <1>7 DEF LoginTypeOK
<1>9. \A b \in Attempts : Keys(b)' = Keys(b)
  BY <1>1 DEF Keys
<1>10. ASSUME NEW b \in Attempts PROVE Charged(b)'
  <2>1. Charged(b) /\ attempt'[b] = attempt[b] /\ charged'[b] \subseteq charged[b] /\ Keys(b)' = Keys(b) /\ rdb' = rdb
    BY <1>1, <1>3, <1>9 DEF LoginInv
  <2>2. QED
    BY <2>1 DEF Charged
<1>11. Slotted'
  BY <1>1, SameSlots
<1>12. Roomy'
  <2>1. Present' \subseteq Present
    BY <1>4, <1>5 DEF Present
  <2>2. IsFiniteSet(Present) /\ ~lockoutLost' /\ MaxEntries \in Nat /\ Cardinality(Present) <= MaxEntries
    BY <1>1, LoginAssumption DEF LoginInv, Roomy
  <2>3. IsFiniteSet(Present') /\ Cardinality(Present') <= Cardinality(Present)
    BY <2>1, <2>2, FS_Subset
  <2>4. Cardinality(Present') \in Nat /\ Cardinality(Present) \in Nat
    BY <2>2, <2>3, FS_CardinalityType
  <2>5. Cardinality(Present') <= MaxEntries
    BY <2>2, <2>3, <2>4
  <2>6. QED
    BY <2>2, <2>3, <2>5 DEF Roomy
<1>13. Counts(k)' /\ Exact(k)' /\ (Limited(k) => Limited(k)')
  <2>1. HeldIn("shared", k)' = HeldIn("shared", k) /\ HeldIn("local", k)' = {}
    BY <1>3 DEF HeldIn
  <2>2. loosened'[<<"shared", k>>] = loosened[<<"shared", k>>]
    BY <1>7 DEF Tables
  <2>3. QED
    BY <1>1, <1>5, <1>7, <1>8, <2>1, <2>2, ClearedCounter
<1>14. ASSUME NEW j \in LoginKeys \ {k} PROVE Counts(j)' /\ Exact(j)' /\ (Limited(j) => Limited(j)')
  <2>1. \A b \in Attempts, t \in Tables : <<t, j>> \in charged'[b] <=> <<t, j>> \in charged[b]
    BY <1>3
  <2>2. /\ HeldIn("shared", j)' = HeldIn("shared", j) /\ HeldIn("local", j)' = HeldIn("local", j)
        /\ Unmirrored(j)' = Unmirrored(j) /\ OnlyLocal(j)' = OnlyLocal(j)
        /\ OnTable(j)' = OnTable(j) /\ InForce(j)' = InForce(j)
    BY <1>1, <2>1, SameHolders
  <2>3. loosened'[<<"shared", j>>] = loosened[<<"shared", j>>] /\ loosened'[<<"local", j>>] = loosened[<<"local", j>>]
    BY <1>7 DEF Tables
  <2>4. QED
    BY <1>1, <1>5, <2>2, <2>3, SameCounter
<1>15. ASSUME ~overlapped' PROVE Decided' /\ \A j \in LoginKeys : Limited(j)'
  <2>1. Decided /\ \A j \in LoginKeys : Limited(j)
    BY <1>1, <1>15 DEF LoginInv
  <2>2. ASSUME NEW b \in Attempts, attempt'[b].pc \in {"redis", "charge"}, NEW j \in Keys(b)' PROVE local'[j].unshared = 0
    <3>1. j \in LoginKeys /\ local[j].unshared = 0
      BY <1>1, <1>9, <2>1, <2>2, KeysType DEF Decided
    <3>2. QED
      BY <1>4, <1>5, <3>1
  <2>3. QED
    BY <1>13, <1>14, <2>1, <2>2 DEF Decided
<1>16. QED
  BY <1>8, <1>10, <1>11, <1>12, <1>13, <1>14, <1>15 DEF LoginInv

\* Every step preserves the invariant.
LEMMA LoginStepInv == LoginInv /\ [LoginNext]_loginVars => LoginInv'
<1> SUFFICES ASSUME LoginInv, [LoginNext]_loginVars PROVE LoginInv'
  OBVIOUS
<1>1. ASSUME NEW a \in Attempts,
             \/ Reject(a) \/ Acquire(a) \/ acquireRedis(a) \/ mirrorCharge(a) \/ exhaust(a) \/ acquireLocal(a)
             \/ acquireSlot(a) \/ GiveUpWaiting(a) \/ Compared(a) \/ SinglePassword(a)
             \/ releaseRedis(a) \/ releaseLocal(a)
      PROVE  LoginInv'
  BY <1>1, RejectInv, AcquireInv, AcquireRedisInv, MirrorChargeInv, ExhaustInv, AcquireLocalInv, AcquireSlotInv,
     GiveUpWaitingInv, ComparedInv, SinglePasswordInv, ReleaseRedisInv, ReleaseLocalInv
<1>2. ASSUME NEW k \in LoginKeys, ExpireShared(k) \/ ExpireLocal(k) PROVE LoginInv'
  BY <1>2, ExpireSharedInv, ExpireLocalInv
<1>3. CASE UNCHANGED loginVars
  <2>1. /\ UNCHANGED <<rdb, userStore, shared, local, attempt, slotQueue, redisFails>>
        /\ UNCHANGED <<charged, loosened, overlapped, lockoutLost>>
    BY <1>3 DEF loginVars
  <2>2. LoginTypeOK'
    BY <2>1 DEF LoginInv, LoginTypeOK
  <2>3. \A b \in Attempts : Keys(b)' = Keys(b)
    BY <2>1 DEF Keys
  <2>4. \A b \in Attempts : Charged(b)'
    BY <2>1, <2>3 DEF LoginInv, Charged
  <2>5. Slotted'
    BY <2>1, SameSlots
  <2>6. /\ Roomy' /\ \A k \in LoginKeys : Counts(k)' /\ Exact(k)'
        /\ ~overlapped' => Decided' /\ \A k \in LoginKeys : Limited(k)'
    BY <2>1, <2>2, <2>3, QuietAttempt
  <2>7. QED
    BY <2>2, <2>4, <2>5, <2>6 DEF LoginInv
<1>4. QED
  BY <1>1, <1>2, <1>3 DEF LoginNext

LEMMA LoginInvHolds == LoginSpec => []LoginInv
  BY LoginInitInv, LoginStepInv, PTL DEF LoginSpec

\* LoginThrottle, CompareLimiter: a failing Redis never lifts the limits and
\* concurrent attempts do not slip past them, but for the charges the code
\* loses; the table and the queue for a comparison stay within their bounds.
THEOREM LoginLimitAlwaysHolds == LoginSpec => []LoginLimitHolds
<1>1. LoginInv => LoginLimitHolds
  <2> SUFFICES ASSUME LoginInv PROVE LoginLimitHolds
    OBVIOUS
  <2>1. LoginBoundsKept
    BY DEF LoginInv, Slotted, Roomy, LoginBoundsKept
  <2>2. ASSUME ~overlapped, NEW k \in LoginKeys
        PROVE  Cardinality(HeldIn("shared", k) \cup {a \in HeldIn("local", k) : ~attempt[a].shared})
                   <= LoginLimit(k) + loosened[<<"shared", k>>] + loosened[<<"local", k>>]
    BY <2>2 DEF LoginInv, Limited, InForce, OnlyLocal
  <2>3. QED
    BY <2>1, <2>2 DEF LoginLimitHolds
<1>2. QED
  BY <1>1, LoginInvHolds, PTL

\* Acquire, Success, Cancel: with nothing in flight, no failed command and no
\* charge lost, a counter is the number of the wrong passwords.
THEOREM LoginCountsAlwaysExact == LoginSpec => []LoginCountsExact
<1>1. LoginInv => LoginCountsExact
  <2>1. SUFFICES ASSUME LoginInv, InFlight = {}, redisFails = 0, \A tk \in Tables \X LoginKeys : loosened[tk] = 0,
                        NEW k \in LoginKeys
                 PROVE  LET failed(table) == Cardinality({a \in HeldIn(table, k) : attempt[a].pc = "failed"})
                        IN IF rdb THEN shared[k] = failed("shared") ELSE local[k].count = failed("local")
    BY DEF LoginCountsExact
  <2>2. ASSUME NEW a \in Attempts, charged[a] # {} PROVE attempt[a].pc = "failed"
    BY <2>1, <2>2, KeysType DEF InFlight, Charged
  <2>3. ASSUME NEW table PROVE {a \in HeldIn(table, k) : attempt[a].pc = "failed"} = HeldIn(table, k)
    BY <2>2 DEF HeldIn
  <2>4. loosened[<<"shared", k>>] = 0 /\ loosened[<<"local", k>>] = 0
    BY <2>1 DEF Tables
  <2>5. QED
    BY <2>1, <2>3, <2>4 DEF LoginInv, Exact
<1>2. QED
  BY <1>1, LoginInvHolds, PTL
=============================================================================
