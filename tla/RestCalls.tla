------------------------------ MODULE RestCalls ------------------------------
(***************************************************************************)
(* Calls of a REST backend (internal/backend: RESTAdapter.Execute) with    *)
(* retries, one renewal of the credential after a 401 and the automatic    *)
(* pages of a list; the credential is shared by all calls of the adapter   *)
(* (internal/dadl: RestAuth), an OAuth2 token fetched under the lock or a  *)
(* session whose login runs without it.                                    *)
(*                                                                         *)
(* Data: a token is the number of the login that issued it, 0 is none (the *)
(* header then carries the placeholder of its rule).  A session's cookie   *)
(* lives in a jar of its own.  A response is ok, retryable, terminal or    *)
(* 401, whatever the maps of the error configuration call it; a streamed   *)
(* one is checked for nothing else and never tried again.  A session is    *)
(* one that refreshes with re_login.  Parameters, bodies, transforms and   *)
(* redaction are left out.                                                 *)
(***************************************************************************)
EXTENDS Naturals, Sequences, FiniteSets

CONSTANTS
    RestReqs,    \* calls, each made once
    ToolsOf,     \* call -> the tools it may be of, records [kind, errors, shape]
    MaxRetries,  \* retry_strategy.max_retries, after its default
    MaxPages,    \* pagination.max_pages, after its default and hard limit
    ListPages,   \* pages the upstream list has
    MaxLogins,   \* bound on the tokens the upstream issues
    MaxRevoked,  \* bound on the tokens the upstream ends early
    MaxAgings    \* bound on the times a cached credential grows old

MethodKinds == {"safe", "keyed", "unsafe", "unsafeRetried"}  \* method, idempotency, retry_unsafe
ASSUME RestAssumption ==
    /\ ToolsOf \in [RestReqs -> SUBSET [kind   : MethodKinds,
                                        errors : {"none", "noStrategy", "strategy"},
                                        shape  : {"list", "single", "file", "stream"}]]
    /\ \A c \in RestReqs : \A t \in ToolsOf[c] : t.shape = "stream" => t.errors = "none"
    /\ {MaxRetries, MaxPages, ListPages} \subseteq Nat \ {0}
    /\ {MaxLogins, MaxRevoked, MaxAgings} \subseteq Nat

VARIABLES
    authKind,    \* static, oauth2 or session
    strategy,    \* of the automatic pagination of lists: next (cursor, offset, page) or link
    issued, revoked,  \* upstream: tokens issued, and those no longer valid
    cached,      \* cachedToken, or the session's tokens
    old,         \* the expiry of the cached credential has passed
    agings,
    jar,         \* the login the cookie in the jar is from
    restCall,    \* the calls
    restEffects, \* upstream: what each call had executed, per page
    \* History.
    refused,     \* the tokens a call was answered 401 with
    unstable     \* a session was cleared or replaced while others were using it

restVars == <<authKind, strategy, issued, revoked, cached, old, agings, jar, restCall, restEffects, refused, unstable>>
upstreamVars == <<authKind, strategy, revoked, agings>>

Pages == 1..MaxPages
NoCall == [pc |-> "new", tool |-> [kind |-> "safe", errors |-> "none", shape |-> "single"], phase |-> "first", tries |-> 0,
           token |-> 0, key |-> 0, page |-> 1, at |-> 1, got |-> <<>>, cut |-> FALSE]
Goes(c, pc) == [restCall EXCEPT ![c].pc = pc]
Valid(t) == t \in 1..issued /\ t \notin revoked

\* As CanAutoRetry, for every tool.
CanAutoRetryAll(tool) == TRUE

\* CanAutoRetry: not for a POST or PATCH with neither idempotency nor
\* retry_unsafe.
CanAutoRetry(tool) == tool.kind # "unsafe"

\* NewIdempotencyKey: the key of a request, drawn once for a logical call
\* and once for each further page.
DrawKey(rec) == IF rec.tool.kind = "keyed" THEN [rec EXCEPT !.key = @ + 1] ELSE rec

\* A request of the call begins, in a phase.
Request(c, phase) == [restCall EXCEPT ![c].pc = "inject", ![c].phase = phase, ![c].token = 0]

-----------------------------------------------------------------------------
RestInit ==
    /\ authKind \in {"static", "oauth2", "session"} /\ strategy \in {"next", "link"}
    /\ issued = 0 /\ revoked = {} /\ cached = 0 /\ old = FALSE /\ agings = 0 /\ jar = 0
    /\ restCall = [c \in RestReqs |-> NoCall]
    /\ restEffects = [c \in RestReqs |-> [p \in Pages |-> [runs |-> 0, keys |-> {}]]]
    /\ refused = [c \in RestReqs |-> {}] /\ unstable = FALSE

\* ExecuteRest, from an included tool with valid parameters on: the key is
\* generated before the first attempt.
ExecuteRest(c, tool) ==
    /\ restCall[c].pc = "new"
    /\ restCall' = [restCall EXCEPT ![c] = DrawKey([NoCall EXCEPT !.tool = tool, !.pc = "inject"])]
    /\ UNCHANGED <<upstreamVars, issued, cached, old, jar, restEffects, refused, unstable>>

\* The tool is hidden or unknown, a parameter is not as declared, or a blob
\* handle cannot be read: nothing is sent.
RejectCall(c) ==
    /\ restCall[c].pc = "new"
    /\ restCall' = Goes(c, "failed")
    /\ UNCHANGED <<upstreamVars, issued, cached, old, jar, restEffects, refused, unstable>>

-----------------------------------------------------------------------------
(* What a request's outcome means for its call.                            *)

\* NextPageParams: the page after the one that came.  The full URL of a Link
\* header is left out of the parameters, so the same page is asked again.
nextPage(rec) ==
    IF rec.at >= ListPages THEN 0 ELSE IF strategy = "link" THEN rec.at ELSE rec.at + 1

\* paginateResults: a page was collected, and the next one is asked for.
Collected(rec) ==
    LET kept == [rec EXCEPT !.got = Append(@, rec.at)]
        more == rec.tool.shape = "list" /\ rec.page < MaxPages /\ nextPage(rec) # 0
    IN IF more THEN DrawKey([kept EXCEPT !.pc = "inject", !.phase = "page", !.token = 0,
                                         !.page = @ + 1, !.at = nextPage(rec)])
       ELSE [kept EXCEPT !.pc = "done"]

\* The request failed before or without an answer, or with an answer that is
\* worth another try.  Inside Retryer.Do both are: one try, MaxRetries more.
TryAgain(rec) ==
    IF rec.tries < MaxRetries THEN [rec EXCEPT !.tries = @ + 1, !.pc = "inject", !.token = 0]
    ELSE [rec EXCEPT !.pc = "failed"]

NoAnswer(rec) ==
    CASE rec.phase \in {"first", "reauth"} -> [rec EXCEPT !.pc = "failed"]
      [] rec.phase = "retry" -> TryAgain(rec)
      [] rec.phase = "page" -> [rec EXCEPT !.pc = "done", !.cut = TRUE]

Retryable(rec) ==
    CASE rec.phase = "first" /\ CanAutoRetry(rec.tool) /\ rec.tool.errors = "strategy" ->
              [rec EXCEPT !.pc = "inject", !.phase = "retry", !.token = 0]
      [] rec.phase = "first" /\ ~(CanAutoRetry(rec.tool) /\ rec.tool.errors = "strategy") -> [rec EXCEPT !.pc = "failed"]
      [] rec.phase # "first" -> NoAnswer(rec)

Terminal(rec) == IF rec.phase = "page" THEN NoAnswer(rec) ELSE [rec EXCEPT !.pc = "failed"]

\* A 401 is met with one renewal of the credential, where errors are
\* configured; the answer to the request after it is final.
Unauthorized(rec) ==
    IF rec.phase \in {"first", "retry"} /\ rec.tool.errors # "none" THEN [rec EXCEPT !.pc = "unauthorized"]
    ELSE IF rec.phase = "page" THEN NoAnswer(rec) ELSE [rec EXCEPT !.pc = "refused"]

-----------------------------------------------------------------------------
(* The credential: InjectAuth and HandleUnauthorized.                      *)

\* A token from the token endpoint or a login, or none.
Issue == issued < MaxLogins /\ issued' = issued + 1

\* Credentials from the store: nothing is shared by the calls.
injectStatic(c) ==
    /\ restCall[c].pc = "inject" /\ authKind = "static"
    /\ restCall' \in {Goes(c, "send"), [restCall EXCEPT ![c] = NoAnswer(@)]}
    /\ UNCHANGED <<upstreamVars, issued, cached, old, jar, restEffects, refused, unstable>>

\* getOAuth2Token: from the cache, or fetched under the lock.  Without the
\* credentials of the flow the header is skipped.
injectOAuth2(c) ==
    /\ restCall[c].pc = "inject" /\ authKind = "oauth2"
    /\ \/ /\ cached # 0 /\ ~old
          /\ restCall' = [restCall EXCEPT ![c].token = cached, ![c].pc = "send"]
          /\ UNCHANGED <<issued, cached, old>>
       \/ /\ cached = 0 \/ old
          /\ Issue /\ cached' = issued' /\ old' = FALSE
          /\ restCall' = [restCall EXCEPT ![c].token = issued', ![c].pc = "send"]
       \/ /\ cached = 0 \/ old
          /\ restCall' \in {Goes(c, "send"), [restCall EXCEPT ![c] = NoAnswer(@)]}
          /\ UNCHANGED <<issued, cached, old>>
    /\ UNCHANGED <<upstreamVars, jar, restEffects, refused, unstable>>

\* Others that are between their look at the session and its use.
InUse(c) == \E d \in RestReqs \ {c} : restCall[d].pc \in {"login", "store", "use", "send"}

\* injectSession looks: is there a session, and is it too old?
injectSession(c) ==
    /\ restCall[c].pc = "inject" /\ authKind = "session"
    /\ restCall' = Goes(c, IF old THEN "expired" ELSE IF cached = 0 THEN "login" ELSE "use")
    /\ UNCHANGED <<upstreamVars, issued, cached, old, jar, restEffects, refused, unstable>>

\* The old session is dropped in a second section under the lock.
dropSession(c) ==
    /\ restCall[c].pc = "expired"
    /\ cached' = 0
    /\ unstable' = (unstable \/ InUse(c))
    /\ restCall' = Goes(c, "login")
    /\ UNCHANGED <<upstreamVars, issued, old, jar, restEffects, refused>>

\* doSessionLogin: the request; its answer puts the cookie into the jar.
sessionLogin(c) ==
    /\ restCall[c].pc = "login"
    /\ \/ /\ Issue /\ jar' = issued'
          /\ unstable' = (unstable \/ InUse(c))
          /\ restCall' = [restCall EXCEPT ![c].token = issued', ![c].pc = "store"]
       \/ /\ restCall' = IF restCall[c].phase = "renew" THEN Goes(c, "refused") ELSE [restCall EXCEPT ![c] = NoAnswer(@)]
          /\ UNCHANGED <<issued, jar, unstable>>
    /\ UNCHANGED <<upstreamVars, cached, old, restEffects, refused>>

\* The tokens of the answer, under the lock.
storeSession(c) ==
    /\ restCall[c].pc = "store"
    /\ cached' = restCall[c].token /\ old' = FALSE
    /\ unstable' = (unstable \/ InUse(c))
    /\ restCall' = IF restCall[c].phase = "renew" THEN Request(c, "reauth") ELSE Goes(c, "use")
    /\ UNCHANGED <<upstreamVars, issued, jar, restEffects, refused>>

\* The tokens of the session by now are put into the request.
useSession(c) ==
    /\ restCall[c].pc = "use"
    /\ restCall' = [restCall EXCEPT ![c].token = cached, ![c].pc = "send"]
    /\ UNCHANGED <<upstreamVars, issued, cached, old, jar, restEffects, refused, unstable>>

\* As HandleUnauthorized, with the cached token kept.
HandleUnauthorizedKept(c) ==
    /\ restCall[c].pc = "unauthorized"
    /\ restCall' = IF authKind = "session" THEN [restCall EXCEPT ![c].pc = "reset", ![c].phase = "renew"] ELSE Request(c, "reauth")
    /\ UNCHANGED <<upstreamVars, issued, cached, old, jar, restEffects, refused, unstable>>

\* HandleUnauthorized: whatever is cached is dropped, also what another call
\* has fetched since.  For static credentials nothing is renewed.
HandleUnauthorized(c) ==
    /\ restCall[c].pc = "unauthorized"
    /\ IF authKind = "static" THEN UNCHANGED cached ELSE cached' = 0
    /\ unstable' = (unstable \/ (authKind = "session" /\ InUse(c)))
    /\ restCall' = IF authKind = "session" THEN [restCall EXCEPT ![c].pc = "reset", ![c].phase = "renew"] ELSE Request(c, "reauth")
    /\ UNCHANGED <<upstreamVars, issued, old, jar, restEffects, refused>>

resetJar(c) ==
    /\ restCall[c].pc = "reset"
    /\ jar' = 0
    /\ unstable' = (unstable \/ InUse(c))
    /\ restCall' = Goes(c, "login")
    /\ UNCHANGED <<upstreamVars, issued, cached, old, restEffects, refused>>

-----------------------------------------------------------------------------
(* The upstream.                                                           *)

Accepted(c) ==
    CASE authKind = "static"  -> TRUE
      [] authKind = "oauth2"  -> Valid(restCall[c].token)
      [] authKind = "session" -> Valid(restCall[c].token) /\ jar = restCall[c].token

\* The operation runs; a request with a key it has seen is not run again.
Ran(c) ==
    LET rec == restCall[c] IN
    [restEffects EXCEPT ![c][rec.page] = [runs |-> @.runs + 1, keys |-> @.keys \cup {rec.key}]]

\* doRequest, doRequestRaw.  The client may lose the answer of an operation
\* that ran; a 401 and a refused request did not run it.  A credential from
\* the store may be refused at any time.
Send(c) ==
    /\ restCall[c].pc = "send"
    /\ \/ /\ Accepted(c)
          /\ restEffects' = Ran(c)
          /\ restCall' \in {[restCall EXCEPT ![c] = Collected(@)], [restCall EXCEPT ![c] = Retryable(@)], [restCall EXCEPT ![c] = NoAnswer(@)]}
          /\ UNCHANGED refused
       \/ /\ Accepted(c)
          /\ restCall' \in {[restCall EXCEPT ![c] = Terminal(@)], [restCall EXCEPT ![c] = Retryable(@)], [restCall EXCEPT ![c] = NoAnswer(@)]}
          /\ UNCHANGED <<restEffects, refused>>
       \/ /\ ~Accepted(c) \/ authKind = "static"
          /\ restCall' = [restCall EXCEPT ![c] = Unauthorized(@)]
          /\ refused' = [refused EXCEPT ![c] = @ \cup {restCall[c].token}]
          /\ UNCHANGED restEffects
    /\ UNCHANGED <<upstreamVars, issued, cached, old, jar, unstable>>

\* The body of a file could not be uploaded or stored.
StoreFails(c) ==
    /\ restCall[c].pc = "done" /\ restCall[c].tool.shape \in {"file", "stream"}
    /\ restCall' = Goes(c, "failed")
    /\ UNCHANGED <<upstreamVars, issued, cached, old, jar, restEffects, refused, unstable>>

\* The context ends while the retryer waits.
CancelWait(c) ==
    /\ restCall[c].pc = "inject" /\ restCall[c].phase = "retry" /\ restCall[c].tries > 0
    /\ restCall' = Goes(c, "failed")
    /\ UNCHANGED <<upstreamVars, issued, cached, old, jar, restEffects, refused, unstable>>

Revoke(t) ==
    /\ Valid(t) /\ Cardinality(revoked) < MaxRevoked
    /\ revoked' = revoked \cup {t}
    /\ UNCHANGED <<authKind, strategy, agings, issued, cached, old, jar, restCall, restEffects, refused, unstable>>

GrowOld ==
    /\ cached # 0 /\ ~old /\ agings < MaxAgings
    /\ old' = TRUE /\ agings' = agings + 1
    /\ UNCHANGED <<authKind, strategy, revoked, issued, cached, jar, restCall, restEffects, refused, unstable>>

RestNext ==
    \/ \E c \in RestReqs :
          \/ \E tool \in ToolsOf[c] : ExecuteRest(c, tool)
          \/ RejectCall(c) \/ injectStatic(c) \/ injectOAuth2(c)
          \/ injectSession(c) \/ dropSession(c) \/ sessionLogin(c) \/ storeSession(c) \/ useSession(c)
          \/ HandleUnauthorized(c) \/ resetJar(c)
          \/ Send(c) \/ StoreFails(c) \/ CancelWait(c)
    \/ \E t \in 1..MaxLogins : Revoke(t)
    \/ GrowOld

RestSpec == RestInit /\ [][RestNext]_restVars

-----------------------------------------------------------------------------
\* CanAutoRetry, NewIdempotencyKey: whatever fails and is tried again, a
\* write that is not safe to repeat runs at most once for a page, and one
\* with an idempotency key runs under one key for a page and under another
\* for the next.
NoDuplicateEffect ==
    \A c \in RestReqs :
        /\ restCall[c].tool.kind = "unsafe" => \A p \in Pages : restEffects[c][p].runs <= 1
        /\ restCall[c].tool.kind = "keyed" =>
              /\ \A p \in Pages : Cardinality(restEffects[c][p].keys) <= 1
              /\ \A p, q \in Pages : p # q => restEffects[c][p].keys \cap restEffects[c][q].keys = {}

\* HandleUnauthorized: a call that ends unauthorized was refused with two
\* credentials, not twice with the one that was refused before, and a session
\* is never left out of a request, unless the session was cleared or replaced
\* under a call that was using it.
RenewedBeforeGivingUp ==
    ~unstable /\ authKind # "static" =>
        \A c \in RestReqs :
            /\ authKind = "session" => 0 \notin refused[c]
            /\ restCall[c].pc = "refused" /\ restCall[c].phase = "reauth" /\ 0 \notin refused[c] => Cardinality(refused[c]) = 2

\* paginateResults: the answer is made of the pages of the list in order,
\* each once, and all of them up to the limit unless a page failed.  (Pages
\* by Link header are not: the first one is repeated.)
PagesInOrder ==
    \A c \in RestReqs :
        strategy # "link" =>
            /\ \A i \in DOMAIN restCall[c].got : restCall[c].got[i] = i
            /\ restCall[c].pc = "done" /\ ~restCall[c].cut /\ restCall[c].tool.shape = "list" =>
                  Len(restCall[c].got) = IF ListPages < MaxPages THEN ListPages ELSE MaxPages

\* ExecuteRest, paginateResults: repeating what failed neither does a write twice
\* nor loses, repeats or reorders a page of the answer.
RepeatedSafely == NoDuplicateEffect /\ PagesInOrder
=============================================================================
