----------------------------- MODULE AuthzChecks -----------------------------
(***************************************************************************)
(* Checks of callers (Service.HeldKits, Embedded.Check, Embedded.CheckBatch *)
(* and the epochCache) that run while Authz changes the rules under them.  *)
(*                                                                         *)
(* A check reads the kits twice (which grants cover the whole kit now, then *)
(* what the entries of a part stand for) and the stored tuples of each     *)
(* object with a read of its own, from the cache or, on a miss, from the   *)
(* store; what it read it puts into the cache afterwards.  OpenFGA's reads *)
(* and its use of the cache are external and modelled from that interface. *)
(***************************************************************************)
EXTENDS Authz

CONSTANTS
    Checks,             \* checks that may be in flight at a time
    HeldGrants,         \* kit grants callers may hold: [kit, part], part {}
                        \* for a grant of the whole kit
    ChecksDuringApply,  \* checks may overlap with an apply
    Miss                \* no cache entry

Held == [kit : KitNames, part : SUBSET Objects]
Key  == [rel : {"executor", "blocked"}, object : Objects]

ASSUME ChecksAssumption ==
    /\ HeldGrants \subseteq Held
    /\ ChecksDuringApply \in BOOLEAN

VARIABLES
    cache,  \* the entries of the current epoch: who has the relation
    chk     \* checks in flight

checkVars == <<cache, chk>>
allVars == <<authzVars, checkVars>>

NoCheck == [pc |-> "idle", caller |-> CHOOSE c \in Callers : TRUE,
            tool |-> CHOOSE t \in Tools : TRUE, held |-> {}, whole |-> {},
            parts |-> {}, extra |-> {}, view |-> [k \in {} |-> {}],
            unset |-> {}, quiet |-> FALSE]

EmptyCache == [k \in Key |-> Miss]

-----------------------------------------------------------------------------
KeysOf(tool) == {k \in Key : k.object \in PlacesOf[tool] \cup {tool}}

\* Who has the relation on the object, of these tuples.
Read(tuples, key) ==
    {t.user : t \in {u \in tuples : u.rel = key.rel /\ u.object = key.object}}

\* IsWhole: a grant without a part, or whose part has every entry of the kit.
IsWhole(g) == g.part = {} \/ kits[g.kit] \subseteq g.part

\* activeFor leaves out kits that are no longer defined.
Defined(held) == {g \in held : kits[g.kit] # {}}

\* The objects the entries of parts stand for that the kits still list.
partObjects(parts) == UNION {g.part \cap kits[g.kit] : g \in parts}

ChecksInit ==
    /\ AuthzInit
    /\ cache = EmptyCache
    /\ chk = [x \in Checks |-> NoCheck]

\* The server answers once the start is over.
Serving == pc # "open" /\ ~startup

\* As StartCheck, with every grant of a kit taken for the whole kit.
StartCheckAllWhole(x, c, t, held) ==
    /\ Serving
    /\ chk[x].pc = "idle"
    /\ ChecksDuringApply \/ pc = "idle"
    /\ chk' = [chk EXCEPT ![x] = [NoCheck EXCEPT !.pc = "parts", !.caller = c, !.tool = t,
                  !.held = held, !.whole = {g.kit : g \in Defined(held)},
                  !.quiet = (pc = "idle")]]
    /\ UNCHANGED <<authzVars, cache>>

\* HeldKits: kits held whole and in part, by what the kits list now.
StartCheck(x, c, t, held) ==
    /\ Serving
    /\ chk[x].pc = "idle"
    /\ ChecksDuringApply \/ pc = "idle"
    /\ chk' = [chk EXCEPT ![x] = [NoCheck EXCEPT !.pc = "parts", !.caller = c, !.tool = t,
                  !.held = held,
                  !.whole = {g.kit : g \in {h \in Defined(held) : IsWhole(h)}},
                  !.parts = {g \in Defined(held) : ~IsWhole(g)},
                  !.quiet = (pc = "idle")]]
    /\ UNCHANGED <<authzVars, cache>>

\* Check turns the parts into objects, with the kits as they are by then.
LoadParts(x) ==
    /\ chk[x].pc = "parts"
    /\ chk' = [chk EXCEPT ![x].pc = "read", ![x].extra = partObjects(chk[x].parts)]
    /\ UNCHANGED <<authzVars, cache>>

\* One read of the check: from the cache, or from the store on a miss.
ReadKey(x, key) ==
    /\ chk[x].pc = "read"
    /\ key \in KeysOf(chk[x].tool) \ DOMAIN chk[x].view
    /\ LET hit == cache[key] # Miss
           got == IF hit THEN cache[key] ELSE Read(stored, key)
       IN  chk' = [chk EXCEPT
              ![x].view = [k \in DOMAIN @ \cup {key} |-> IF k = key THEN got ELSE @[k]],
              ![x].unset = IF hit THEN @ ELSE @ \cup {key}]
    /\ UNCHANGED <<authzVars, cache>>

\* epochCache.Set: the entry belongs to the epoch of now.
SetCache(x, key) ==
    /\ key \in chk[x].unset
    /\ cache' = [cache EXCEPT ![key] = chk[x].view[key]]
    /\ chk' = [chk EXCEPT ![x].unset = @ \ {key}]
    /\ UNCHANGED authzVars

\* What the check read, as tuples.
Seen(x) ==
    {t \in Tuple : \E k \in DOMAIN chk[x].view :
        t.rel = k.rel /\ t.object = k.object /\ t.user \in chk[x].view[k]}

Who(x) == {chk[x].caller} \cup chk[x].whole

Answer(x) ==
    /\ chk[x].pc = "read"
    /\ DOMAIN chk[x].view = KeysOf(chk[x].tool)
    /\ chk' = [chk EXCEPT ![x].pc = "answered"]
    /\ UNCHANGED <<authzVars, cache>>

Allowed(x) == CanExecute(Seen(x), Who(x), chk[x].extra, chk[x].tool)

EndCheck(x) ==
    /\ chk[x].pc = "answered"
    /\ chk' = [chk EXCEPT ![x] = NoCheck]
    /\ UNCHANGED <<authzVars, cache>>

\* A check in flight when an apply starts is no longer quiet.
Disturbed == [x \in Checks |-> [chk[x] EXCEPT !.quiet = FALSE]]

NoneInFlight == \A x \in Checks : chk[x].pc = "idle"

\* A step of the thread that applies policies.
ApplyAlong ==
    /\ ApplyStep
    /\ ChecksDuringApply \/ NoneInFlight
    /\ chk' = Disturbed
    /\ UNCHANGED cache

\* As Invalidate, with the epoch left as it is.
InvalidateForgotten == cache' = cache

\* epochCache.invalidate: no entry of an earlier epoch is read again.
Invalidate == cache' = EmptyCache

ReturnAlong ==
    /\ ApplyReturns
    /\ chk' = Disturbed
    /\ Invalidate

CrashAll ==
    /\ Crash
    /\ chk' = [x \in Checks |-> NoCheck]
    /\ cache' = EmptyCache

EditAlong(p) == Edit(p) /\ UNCHANGED checkVars

ChecksNext ==
    \/ \E p \in Policies \cup {Invalid} : EditAlong(p)
    \/ ApplyAlong \/ ReturnAlong \/ CrashAll
    \/ \E x \in Checks :
          \/ \E c \in Callers, t \in Tools, held \in SUBSET HeldGrants : StartCheck(x, c, t, held)
          \/ LoadParts(x) \/ Answer(x) \/ EndCheck(x)
          \/ \E key \in Key : ReadKey(x, key) \/ SetCache(x, key)

ChecksSpec == ChecksInit /\ [][ChecksNext]_allVars

-----------------------------------------------------------------------------
(* Properties.                                                             *)

\* A check that started after the last apply returned is answered by the
\* rules that apply stored (Apply: "Checks started after Apply returns see
\* the new rules"; the cache's TTL "bounds memory, not staleness").
FreshAfterApply ==
    \A x \in Checks :
        chk[x].pc = "answered" /\ chk[x].quiet =>
            (Allowed(x) <=> CanExecute(stored, Who(x), chk[x].extra, chk[x].tool))

\* While the stored rules and the kits are those of one policy, what a caller
\* who holds parts of kits may execute is within its rights without the kits
\* and the entries of the parts, whatever the kits list by now (KitPart: "a
\* change of the kit can only narrow what a part allows").
PartOnlyNarrows ==
    \A x \in Checks :
        /\ stored = desired(target) /\ kits = target.kits
        /\ chk[x].pc = "answered" /\ Allowed(x)
        /\ \A g \in chk[x].held : g.part # {}
        => \/ CanExecute(Seen(x), {chk[x].caller}, {}, chk[x].tool)
           \/ \E g \in chk[x].held : g.part \cap (PlacesOf[chk[x].tool] \cup {chk[x].tool}) # {}

\* Two tools of the same places without rules of their own get the same
\* answer for every caller and every kit it may hold, also halfway through an
\* apply and after a failed one, so CheckBatch may answer for one with the
\* check of the other.  This is so for kits held whole only, between the last
\* two assignments of apply and from an apply that failed to the next that
\* succeeds: toolGrants need not name the tools of kits whose rules are gone.
BatchMayShare ==
    Serving =>
        \A who \in SUBSET Subjects, held \in SUBSET HeldGrants, t, w \in Tools \ toolGrants :
            LET extra == IF pc = "kits" \/ result = "error" THEN {}
                         ELSE partObjects({g \in Defined(held) : ~IsWhole(g)})
            IN  PlacesOf[t] = PlacesOf[w] =>
                    (CanExecute(stored, who, extra, t) <=> CanExecute(stored, who, extra, w))
=============================================================================
