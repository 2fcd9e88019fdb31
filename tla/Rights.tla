-------------------------------- MODULE Rights --------------------------------
(***************************************************************************)
(* tell_me_my_rights and discovery (internal/executor/rights.go,           *)
(* internal/mcp/rights.go): what a caller is told about its tools and the  *)
(* kits that would add more, against what ExecuteTool decides when it      *)
(* calls.  The configuration is any; the answer is put together from the   *)
(* checks, the kits' definitions and preflights of the gate.               *)
(*                                                                         *)
(* Data: kits are numbers in the order of their names.  A policy lets a    *)
(* tool pass, refuses it, or refuses it with a kit too (enforce-with-kit). *)
(***************************************************************************)
EXTENDS Naturals, FiniteSets

CONSTANTS
    RightsTools,   \* the tools asked about
    RightsKits     \* the catalog, as numbers

ASSUME RightsAssumption == RightsKits \subseteq Nat

VARIABLES
    rules,     \* [granted, blocked, refused, enforced]: sets of tools
    covers,    \* the tools each kit covers
    held,      \* [kits, part]: kits held whole, tools covered by a kit held in part
    failing,   \* tools whose check fails with an error
    answer,    \* the preflight: [phase, rights, bundle, remaining]
    listed     \* what discovery shows
rightsVars == <<rules, covers, held, failing, answer, listed>>

NoRight == [verdict |-> "unasked", kits |-> {}, blocked |-> FALSE, refusal |-> FALSE]
Unasked == [phase |-> "idle", rights |-> [t \in RightsTools |-> NoRight], bundle |-> {}, remaining |-> {}]

RightsInit ==
    /\ rules \in [granted : SUBSET RightsTools, blocked : SUBSET RightsTools,
                  refused : SUBSET RightsTools, enforced : SUBSET RightsTools]
    /\ rules.enforced \subseteq rules.refused
    /\ covers \in [RightsKits -> SUBSET RightsTools]
    /\ held \in [kits : SUBSET RightsKits, part : SUBSET UNION {covers[k] : k \in RightsKits}]
    /\ failing \in {{}, RightsTools}
    /\ answer = Unasked /\ listed = {}

-----------------------------------------------------------------------------
(* A request is a tool and the kits the caller holds whole.                *)

\* appliedKit: a held kit covers the tool.
appliedKit(t, kits) == t \in held.part \/ \E k \in kits : t \in covers[k]

\* The authorizer: grants and kits allow, a deny wins.
Check(t, kits) == t \notin rules.blocked /\ (t \in rules.granted \/ appliedKit(t, kits))

\* checkAll: a check that fails counts as not allowed.
checkAll(t, kits) == t \notin failing /\ Check(t, kits)

\* EvaluatePre, with the kit in place of the policies that do not enforce.
gatePreflight(t, kits) ==
    t \notin rules.refused \/ (t \notin rules.enforced /\ appliedKit(t, kits))

\* ExecuteTool, steps 1 and 3.
callPasses(t, kits) == Check(t, kits) /\ gatePreflight(t, kits)

Covering(t) == {k \in RightsKits : t \in covers[k]}
withKit(k) == held.kits \cup {k}

-----------------------------------------------------------------------------
\* assess: with verify a kit counts when a check with it passes.
assess(t, verify) ==
    LET allowed == checkAll(t, held.kits)
        kits == IF allowed THEN {}
                ELSE {k \in Covering(t) : verify => checkAll(t, withKit(k))} IN
    [verdict |-> CASE allowed -> "allowed" [] kits # {} -> "escalatable" [] OTHER -> "denied",
     kits |-> kits,
     blocked |-> ~allowed /\ Covering(t) # {} /\ kits = {},
     refusal |-> FALSE]

\* liftingKits: the kits with which the gate passes.
liftingKits(t) == {k \in Covering(t) : gatePreflight(t, withKit(k))}

\* As gateRights, with the kits of an escalatable tool kept unasked.
gateRightsUnasked(t, r) ==
    IF r.verdict = "allowed" /\ ~gatePreflight(t, held.kits)
    THEN [r EXCEPT !.refusal = TRUE, !.kits = liftingKits(t),
                   !.verdict = IF liftingKits(t) # {} THEN "escalatable" ELSE "denied"]
    ELSE r

\* gateRights: the gate is asked about what the caller may call or get.
gateRights(t, r) ==
    LET passing == {k \in r.kits : gatePreflight(t, withKit(k))} IN
    CASE r.verdict = "allowed" /\ ~gatePreflight(t, held.kits) ->
           [r EXCEPT !.refusal = TRUE, !.kits = liftingKits(t),
                     !.verdict = IF liftingKits(t) # {} THEN "escalatable" ELSE "denied"]
      [] r.verdict = "escalatable" ->
           [r EXCEPT !.kits = passing, !.refusal = passing = {},
                     !.verdict = IF passing = {} THEN "denied" ELSE "escalatable"]
      [] OTHER -> r

AssessTools(t, verify) == IF verify THEN gateRights(t, assess(t, TRUE)) ELSE assess(t, FALSE)

\* visible: what may be called, what a kit covers, what only a policy refuses.
visible(r) == r.verdict # "denied" \/ r.blocked \/ r.refusal

\* preflight: the verdicts, and the escalatable tools the bundle must cover.
preflight(asked) ==
    /\ answer.phase = "idle"
    /\ LET rights == [t \in RightsTools |-> IF t \in asked THEN AssessTools(t, TRUE) ELSE NoRight] IN
       answer' = [answer EXCEPT !.phase = "bundle", !.rights = rights,
                    !.remaining = {t \in asked : rights[t].verdict = "escalatable"}]
    /\ UNCHANGED <<rules, covers, held, failing, listed>>

\* smallestBundle, one turn of its loop: most of the remaining tools, and the
\* first name on a tie.
gain(k) == Cardinality({t \in answer.remaining : k \in answer.rights[t].kits})
pickKit ==
    /\ answer.phase = "bundle" /\ answer.remaining # {}
    /\ \E best \in {k \in RightsKits : gain(k) > 0} :
         /\ \A k \in RightsKits : gain(k) < gain(best) \/ (gain(k) = gain(best) /\ best <= k)
         /\ answer' = [answer EXCEPT !.bundle = @ \cup {best},
                         !.remaining = {t \in @ : best \notin answer.rights[t].kits}]
    /\ UNCHANGED <<rules, covers, held, failing, listed>>

bundleDone ==
    /\ answer.phase = "bundle" /\ answer.remaining = {}
    /\ answer' = [answer EXCEPT !.phase = "answered"]
    /\ UNCHANGED <<rules, covers, held, failing, listed>>

\* visibleTools, for discover_tools and toolmesh.discover: definitions only.
discover ==
    /\ answer.phase = "answered"
    /\ answer' = [answer EXCEPT !.phase = "listed"]
    /\ listed' = {t \in RightsTools : visible(AssessTools(t, FALSE))}
    /\ UNCHANGED <<rules, covers, held, failing>>

\* KitCoverage: the covered tools an approver sees as new to the caller.
KitCoverage(k) ==
    {t \in covers[k] : ~checkAll(t, held.kits)
                       \/ (~gatePreflight(t, held.kits) /\ gatePreflight(t, withKit(k)))}

RightsNext == (\E asked \in SUBSET RightsTools : preflight(asked)) \/ pickKit \/ bundleDone \/ discover

RightsSpec == RightsInit /\ [][RightsNext]_rightsVars

-----------------------------------------------------------------------------
\* The answer promises what ExecuteTool keeps: a tool said to be allowed passes
\* the check and the gate, each kit named for another is one with which the call
\* passes and without which it does not, the bundle makes every escalatable tool
\* callable (and its loop never runs out of kits); no kit that helps is left
\* out unless a check failed, what discovery hides no kit can make callable, and
\* an approver sees as new every tool that a kit adds.
RightsHonest ==
    /\ answer.phase = "answered" => \A t \in RightsTools :
         LET r == answer.rights[t] IN
         /\ r.verdict = "allowed" => callPasses(t, held.kits)
         /\ r.verdict = "escalatable" =>
              /\ ~callPasses(t, held.kits)
              /\ \A k \in r.kits : callPasses(t, withKit(k))
              /\ callPasses(t, held.kits \cup answer.bundle)
         /\ r.verdict = "denied" /\ failing = {} =>
              \A kits \in SUBSET RightsKits : ~callPasses(t, held.kits \cup kits)
    /\ answer.phase = "bundle" => \A t \in answer.remaining : answer.rights[t].kits # {}
    /\ answer.phase = "listed" => \A t \in RightsTools \ (listed \cup failing) :
         \A kits \in SUBSET RightsKits : ~callPasses(t, held.kits \cup kits)
    /\ answer.phase = "answered" => \A k \in RightsKits, t \in RightsTools :
         ~callPasses(t, held.kits) /\ callPasses(t, withKit(k)) => t \in KitCoverage(k)
===============================================================================
