----------------------------- MODULE MCServices -----------------------------
(***************************************************************************)
(* What runs beside and around calls, for TLC: the start of the embedded   *)
(* authorization, the refresh of credentials, hot reloads with the health  *)
(* checks, the sessions of the MCP adapter and the requests of the MCP     *)
(* server.  The components share no state.  A behaviour is one of one      *)
(* component; the others stay in one of their initial states, so the       *)
(* states add up and do not multiply.                                      *)
(***************************************************************************)
EXTENDS AuthzBootstrap, CredRefresh, Reload, McpSessions, McpServer, TLC

VARIABLE part
serviceVars == <<part, vars, credVars, reloadVars, mcpVars, srvVars>>

\* The initial states of a component that does not run are cut to one.
Only(p, cond) == part = p \/ cond

ServicesInit ==
    /\ part \in {"bootstrap", "credentials", "reload", "sessions", "server"}
    /\ Init /\ Only("bootstrap", history = "fresh" /\ source = "default")
    /\ CredInit /\ Only("credentials", printed.reloadIn = -1)
    /\ ReloadInit /\ Only("reload", inService.names = {"a"})
    /\ McpInit /\ Only("sessions", tools = 1)
    /\ SrvInit

ServicesNext ==
    \/ part = "bootstrap" /\ Next /\ UNCHANGED <<part, credVars, reloadVars, mcpVars, srvVars>>
    \/ part = "credentials" /\ CredNext /\ UNCHANGED <<part, vars, reloadVars, mcpVars, srvVars>>
    \/ part = "reload" /\ ReloadNext /\ UNCHANGED <<part, vars, credVars, mcpVars, srvVars>>
    \/ part = "sessions" /\ McpNext /\ UNCHANGED <<part, vars, credVars, reloadVars, srvVars>>
    \/ part = "server" /\ SrvNext /\ UNCHANGED <<part, vars, credVars, reloadVars, mcpVars>>

\* Fairness asks nothing of a component in its initial state.
ServicesSpec ==
    /\ ServicesInit /\ [][ServicesNext]_serviceVars
    /\ CredFair /\ ReloadFair /\ McpFair /\ SrvFair

-----------------------------------------------------------------------------
\* CredRefresh: a RELOAD_IN of 9 overflows.
MCReloadIns == {-1, 0, 2, 9}

\* Reload: a backend with health checks that comes and goes beside a broken or a
\* plain one, a file that does not parse, and none.
File(k, x, y) == [kind |-> k, entries |-> [n \in RestNames |-> IF n = "a" THEN x ELSE y]]
MCContents == {File("good", "checked", "broken"), File("bad", "absent", "absent"),
               File("missing", "absent", "absent"), File("good", "absent", "plain")}

\* McpServer: a script and a direct call of two callers.
MCPrincipal == "s" :> "u" @@ "d" :> "v"
=============================================================================
