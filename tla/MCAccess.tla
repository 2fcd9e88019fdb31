------------------------------ MODULE MCAccess ------------------------------
(***************************************************************************)
(* How callers get in, for TLC: approvals with a key or a signature while  *)
(* kits change (Grants), the login form and the bearer keys.  The          *)
(* components share no state.  A behaviour is one of one component; the    *)
(* others stay in one of their initial states, so the states add up and do *)
(* not multiply.                                                           *)
(***************************************************************************)
EXTENDS MCGrants, LoginThrottle, ApiKeys

VARIABLE part
accessVars == <<part, vars, loginVars, apiKeyVars>>

\* The initial states of a component that does not run are cut to one.
Only(p, cond) == part = p \/ cond

AccessInit ==
    /\ part \in {"grants", "login", "keys"}
    /\ Init
    /\ LoginInit /\ Only("login", rdb /\ userStore)
    /\ ApiKeysInit /\ Only("keys", keyFile /\ loginSet)

AccessNext ==
    \/ part = "grants" /\ Next /\ UNCHANGED <<part, loginVars, apiKeyVars>>
    \/ part = "login" /\ LoginNext /\ UNCHANGED <<part, vars, apiKeyVars>>
    \/ part = "keys" /\ ApiKeysNext /\ UNCHANGED <<part, vars, loginVars>>

AccessSpec == AccessInit /\ [][AccessNext]_accessVars

-----------------------------------------------------------------------------
\* ApiKeys: bcrypt reads 72 bytes, so "long" matches the entry of "k" as well.
MCHashEntries == <<"e1", "e2">>
MCMatches == {<<"k", "e1">>, <<"long", "e1">>, <<"k", "e2">>, <<"m", "e2">>, <<"d", "e3">>}
MCTokenOf == [v \in Values |-> IF v = "t" THEN "valid" ELSE IF v = "x" THEN "expired" ELSE "unknown"]

\* Attempts and BearerReqs share their model values, which keeps the number of
\* permutations small.
AccessSymmetry == Permutations(Ids) \cup Permutations(Attempts)
=============================================================================
