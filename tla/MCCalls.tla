------------------------------- MODULE MCCalls -------------------------------
(***************************************************************************)
(* The way of a call, for TLC: the pipeline (Executor) and, without shared *)
(* state, what a caller is told before it calls (Rights), the names and    *)
(* units it calls (Catalog), the upstream calls it makes (RestCalls) and   *)
(* the files it uses (Blobs).  A behaviour is one of one component; the    *)
(* others stay in one of their initial states, so the states add up and do *)
(* not multiply.                                                           *)
(***************************************************************************)
EXTENDS MCExecutor, RestCalls, Blobs, Rights, Catalog

CONSTANTS q1, q2, b1, b2, o1

VARIABLE part
callsVars == <<part, vars, restVars, blobVars, rightsVars, catalogVars>>

\* The initial states of a component that does not run are cut to one.
Only(p, cond) == part = p \/ cond

CallsInit ==
    /\ part \in {"executor", "rest", "blobs", "rights", "catalog"}
    /\ Init
    /\ RestInit /\ Only("rest", authKind = "static" /\ strategy = "next")
    /\ BlobsInit
    /\ IF part = "rights" THEN RightsInit
       ELSE /\ rules = [granted |-> {}, blocked |-> {}, refused |-> {}, enforced |-> {}]
            /\ covers = [k \in RightsKits |-> {}] /\ held = [kits |-> {}, part |-> {}]
            /\ failing = {} /\ answer = Unasked /\ listed = {}
    /\ CatalogInit /\ Only("catalog", configured = CHOOSE c \in CatalogConfigs : TRUE)

CallsNext ==
    \/ part = "executor" /\ Next /\ UNCHANGED <<part, restVars, blobVars, rightsVars, catalogVars>>
    \/ part = "rest" /\ RestNext /\ UNCHANGED <<part, vars, blobVars, rightsVars, catalogVars>>
    \/ part = "blobs" /\ BlobsNext /\ UNCHANGED <<part, vars, restVars, rightsVars, catalogVars>>
    \/ part = "rights" /\ RightsNext /\ UNCHANGED <<part, vars, restVars, blobVars, catalogVars>>
    \/ part = "catalog" /\ CatalogNext /\ UNCHANGED <<part, vars, restVars, blobVars, rightsVars>>

CallsSpec == CallsInit /\ [][CallsNext]_callsVars

-----------------------------------------------------------------------------
\* RestCalls: one call of any kind of tool beside a plain one.
RestTool(k, e, s) == [kind |-> k, errors |-> e, shape |-> s]
MCTools ==
    q1 :> {RestTool("safe", "strategy", "list"), RestTool("keyed", "strategy", "list"), RestTool("unsafe", "strategy", "single"),
           RestTool("unsafeRetried", "noStrategy", "file"), RestTool("unsafe", "none", "stream")}
    @@ q2 :> {RestTool("safe", "noStrategy", "single")}

\* Blobs: an upload of a user and one without an owner.
MCOwner == b1 :> o1 @@ b2 :> NoOwner

\* Catalog: names that conflict, that are reserved, and that overlap: "b_x" of
\* "a" and "x" of "a_b" have one canonical name; two units of one name.
MCUnitDirs == <<"d1", "d2">>
MCUnitName == [d \in {"d1", "d2"} |-> "u"]
MCCanonical ==
    <<"a", "x">> :> "a_x" @@ <<"a", "b_x">> :> "a_b_x" @@ <<"a_b", "x">> :> "a_b_x"
    @@ <<"a_b", "b_x">> :> "a_b_b_x" @@ <<"u", "x">> :> "u_x" @@ <<"u", "b_x">> :> "u_b_x"
Conf(a, ab, u) == "a" :> a @@ "a_b" :> ab @@ "u" :> u
MCCatalogs == {Conf({"x"}, {"x"}, NoTools), Conf({"x", "b_x"}, {"x"}, NoTools),
              Conf({"b_x"}, NoTools, NoTools), Conf(NoTools, {"x"}, {"x"})}

\* Calls of the pipeline and tools of Rights share their model values.
CallsSymmetry == Permutations(Calls)
=============================================================================
