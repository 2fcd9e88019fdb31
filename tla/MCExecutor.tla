----------------------------- MODULE MCExecutor -----------------------------
(***************************************************************************)
(* Instances of Executor: backends a and a_b whose names overlap, each     *)
(* with a composite, an MCP server m, and a unit u.                        *)
(***************************************************************************)
EXTENDS Executor, TLC

CONSTANTS c1, c2, c3

A == <<"a">>
AB == <<"a", "b">>
M == <<"m">>
U == <<"u">>

Tool(backend, name) == backend \o <<name>>

\* a_get, a_all (composite), a_b_get, a_b_all (composite), m_q, u_do.
RestA == Tool(A, "get") :> "read" @@ Tool(A, "all") :> "read"
RestAB == Tool(AB, "get") :> "write" @@ Tool(AB, "all") :> "read"

Both == [rest |-> A :> RestA @@ AB :> RestAB, mcp |-> {M}]
OnlyA == [rest |-> A :> RestA, mcp |-> {M}]
MCComposites == {Tool(A, "all"), Tool(AB, "all")}
MCUnits == {U}
AllCalls == {Tool(A, "all"), Tool(AB, "all"), Tool(AB, "get"), Tool(M, "q")}
CompositeCalls == {Tool(AB, "all")}
MixedCalls == {Tool(A, "get"), Tool(AB, "all"), Tool(U, "do")}

\* a_b is granted for reading only: its composite may be called, what the
\* composite calls may not.  As a tool of a, a_b_get would be allowed.
MCGrants == {<<A, "read">>, <<A, "write">>, <<AB, "read">>, <<M, "">>, <<U, "">>}

MCConfigs == {Both, OnlyA}
OneConfig == {Both}

OneUser == [c \in Calls |-> "user"]
Symm == Permutations(Calls)
=============================================================================
