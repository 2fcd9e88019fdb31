------------------------------- MODULE Tokens -------------------------------
(***************************************************************************)
(* Authorization codes and token pairs of the OAuth server (internal/mcp:  *)
(* handleAuthorize, handleToken, authenticate) over its store              *)
(* (internal/auth): the file store alone, or the hybrid of Redis, asked    *)
(* first, and the file store.  Requests run concurrently; each command of  *)
(* a store is a step.  Redis may fail a command, lose its data or be away  *)
(* at a start; the file may not be written; the process may die anywhere.  *)
(*                                                                         *)
(* Data: a member of Pairs is an access token with its refresh token.  The *)
(* identity a token carries is copied along and left out, and so are the   *)
(* registered clients.  A lifetime is a stage, not a time: what the code   *)
(* compares is only whether it is over.                                    *)
(***************************************************************************)
EXTENDS Naturals, FiniteSets

CONSTANTS
    Codes, Pairs,  \* what generateID can draw, each at most once
    Reqs,          \* token requests that may be in flight at a time
    MaxOver,       \* bound on the codes and pairs that come to an end
    MaxLapses,     \* bound on the kinds of failure in one behaviour
    MaxRestarts,   \* bound on the restarts of the process
    None

ASSUME TokensAssumption ==
    /\ Codes \cap Pairs = {} /\ None \notin Codes \cup Pairs
    /\ MaxOver \in Nat /\ MaxLapses \in Nat /\ MaxRestarts \in Nat

VARIABLES
    hybrid,    \* Redis was reachable at the start of the process
    primary,   \* Redis
    file,      \* FileTokenStore, in memory
    disk,      \* oauth-state.json
    stage,     \* 0: valid, 1: code or access token over, 2: refresh token too
    req,       \* token requests in flight
    drawn,     \* codes and pairs drawn so far
    given,     \* codes and pairs answered to a client
    lapses,    \* the kinds of failure so far
    restarts,  \* restarts so far
    \* History.
    from,      \* what each pair was exchanged for
    spent,     \* codes and refresh tokens some request consumed
    raced      \* a request fell back between another's two consumes

history == <<from, spent, raced>>
vars == <<hybrid, primary, file, disk, stage, req, drawn, given, lapses, restarts, history>>

Empty == [codes |-> {}, access |-> {}, refresh |-> {}]
NoReq == [pc |-> "idle", src |-> None, pair |-> None]

-----------------------------------------------------------------------------
Init ==
    /\ hybrid \in BOOLEAN
    /\ primary = Empty /\ file = Empty /\ disk = Empty
    /\ stage = [x \in Codes \cup Pairs |-> 0]
    /\ req = [r \in Reqs |-> NoReq]
    /\ drawn = {} /\ given = {}
    /\ from = [p \in Pairs |-> None] /\ spent = {} /\ raced = FALSE
    /\ lapses = {} /\ restarts = 0

\* Failures of these kinds, the first or others.
Lapse(kinds) ==
    /\ lapses' = lapses \cup kinds
    /\ Cardinality(lapses') <= MaxLapses

To(r, pc) == req' = [req EXCEPT ![r].pc = pc]
End(r) == req' = [req EXCEPT ![r] = NoReq]

\* The set a code or refresh token is kept in.
Kept(src) == IF src \in Codes THEN "codes" ELSE "refresh"

Without(store, src) == [store EXCEPT ![Kept(src)] = @ \ {src}]

\* As saveState, with the refresh tokens left out.
saveStateAccessOnly(f) ==
    \/ disk' = [Empty EXCEPT !.access = f.access] /\ UNCHANGED lapses
    \/ Lapse({"disk"}) /\ UNCHANGED disk

\* saveState: tokens and clients, no codes.  A failure is only logged.
saveState(f) ==
    \/ disk' = [f EXCEPT !.codes = {}] /\ UNCHANGED lapses
    \/ Lapse({"disk"}) /\ UNCHANGED disk

\* A method of the file store that changes what is persisted.
FileSet(f) == file' = f /\ saveState(f)

\* handleAuthorize after the password was right: the code is saved and
\* answered.  Nobody knows it before, so this is one step; when Redis fails
\* the code is never answered.
Authorize(c) ==
    /\ c \notin drawn
    /\ drawn' = drawn \cup {c}
    /\ given' = given \cup {c}
    /\ file' = [file EXCEPT !.codes = @ \cup {c}]
    /\ primary' = IF hybrid THEN [primary EXCEPT !.codes = @ \cup {c}] ELSE primary
    /\ UNCHANGED <<hybrid, disk, stage, req, lapses, restarts, history>>

\* handleToken: a client exchanges a code or a refresh token it was given,
\* perhaps not for the first time.
handleToken(r, src) ==
    /\ req[r].pc = "idle"
    /\ src \in given
    /\ req' = [req EXCEPT ![r] = [NoReq EXCEPT !.src = src,
                                     !.pc = IF hybrid THEN "consume" ELSE "fallback"]]
    /\ UNCHANGED <<hybrid, primary, file, disk, stage, drawn, given, lapses, restarts, history>>

\* Redis: GET and DEL in one script.  What is not found there, or could not
\* be asked for, is looked for in the file store.
ConsumePrimary(r) ==
    LET src == req[r].src IN
    /\ req[r].pc = "consume"
    /\ \/ /\ src \in primary[Kept(src)]
          /\ primary' = Without(primary, src)
          /\ spent' = spent \cup {src}
          /\ To(r, "sync") /\ UNCHANGED lapses
       \/ /\ src \notin primary[Kept(src)]
          /\ To(r, "fallback") /\ UNCHANGED <<primary, spent, lapses>>
       \/ /\ primary' \in {primary, Without(primary, src)}
          /\ To(r, "fallback") /\ Lapse({"consume"}) /\ UNCHANGED spent
    /\ UNCHANGED <<hybrid, file, disk, stage, drawn, given, restarts, from, raced>>

\* As SyncFile, with the copy in the file store left there.
SyncFileForgotten(r) ==
    /\ req[r].pc = "sync"
    /\ To(r, "check")
    /\ UNCHANGED <<hybrid, primary, file, disk, stage, drawn, given, lapses, restarts, history>>

\* Consumed from the file store as well, "to keep them in sync".
SyncFile(r) ==
    /\ req[r].pc = "sync"
    /\ IF req[r].src \in Pairs \cap file.refresh
         THEN FileSet(Without(file, req[r].src))
         ELSE file' = Without(file, req[r].src) /\ UNCHANGED <<disk, lapses>>
    /\ To(r, "check")
    /\ UNCHANGED <<hybrid, primary, stage, drawn, given, restarts, history>>

\* Another request has consumed this from Redis and not yet from the file.
InWindow(src) == \E r \in Reqs : req[r].pc = "sync" /\ req[r].src = src

\* Consumed from the file store alone: found there, or invalid_grant.
Fallback(r) ==
    LET src == req[r].src IN
    /\ req[r].pc = "fallback"
    /\ \/ /\ src \in file[Kept(src)]
          /\ file' = Without(file, src)
          /\ IF src \in Pairs THEN saveState(file') ELSE UNCHANGED <<disk, lapses>>
          /\ spent' = spent \cup {src}
          /\ raced' = (raced \/ InWindow(src))
          /\ To(r, "check")
       \/ /\ src \notin file[Kept(src)]
          /\ End(r)
          /\ UNCHANGED <<file, disk, lapses, spent, raced>>
    /\ UNCHANGED <<hybrid, primary, stage, drawn, given, restarts, from>>

\* Refused after it was consumed: the code is over, the client is not the
\* one it was issued to, or the verifier does not match.
Refuse(r) ==
    /\ req[r].pc = "check"
    /\ End(r)
    /\ UNCHANGED <<hybrid, primary, file, disk, stage, drawn, given, lapses, restarts, history>>

\* The client is the one the refresh token was issued to; the end of the
\* refresh token is not compared.  DeleteToken of the old access token: the
\* file store, then Redis; its error is ignored.
DeleteFile(r) ==
    /\ req[r].pc = "check" /\ req[r].src \in Pairs
    /\ FileSet([file EXCEPT !.access = @ \ {req[r].src}])
    /\ To(r, IF hybrid THEN "deletePrimary" ELSE "access")
    /\ UNCHANGED <<hybrid, primary, stage, drawn, given, restarts, history>>

\* As DeletePrimary, with the copy in Redis left there.
DeletePrimaryForgotten(r) ==
    /\ req[r].pc = "deletePrimary"
    /\ To(r, "access")
    /\ UNCHANGED <<hybrid, primary, file, disk, stage, drawn, given, lapses, restarts, history>>

DeletePrimary(r) ==
    /\ req[r].pc = "deletePrimary"
    /\ \/ primary' = [primary EXCEPT !.access = @ \ {req[r].src}] /\ UNCHANGED lapses
       \/ UNCHANGED primary /\ Lapse({"delete"})
    /\ To(r, "access")
    /\ UNCHANGED <<hybrid, file, disk, stage, drawn, given, restarts, history>>

\* SaveToken of the new pair, for a code that is not over or after the old
\* access token was deleted; first in the file store.
SaveTokenFile(r, p) ==
    /\ \/ req[r].pc = "check" /\ req[r].src \in Codes /\ stage[req[r].src] = 0
       \/ req[r].pc = "access"
    /\ p \notin drawn
    /\ drawn' = drawn \cup {p}
    /\ from' = [from EXCEPT ![p] = req[r].src]
    /\ FileSet([file EXCEPT !.access = @ \cup {p}])
    /\ req' = [req EXCEPT ![r].pair = p, ![r].pc = IF hybrid THEN "accessPrimary" ELSE "refresh"]
    /\ UNCHANGED <<hybrid, primary, stage, given, restarts, spent, raced>>

\* A command of Redis fails, done or not: the request ends with server_error.
SaveFails(r, saved) ==
    /\ primary' \in {primary, saved}
    /\ End(r)
    /\ Lapse({"save"})

SaveTokenPrimary(r) ==
    LET saved == [primary EXCEPT !.access = @ \cup {req[r].pair}] IN
    /\ req[r].pc = "accessPrimary"
    /\ \/ primary' = saved /\ To(r, "refresh") /\ UNCHANGED lapses
       \/ SaveFails(r, saved)
    /\ UNCHANGED <<hybrid, file, disk, stage, drawn, given, restarts, history>>

SaveRefreshTokenFile(r) ==
    /\ req[r].pc = "refresh"
    /\ FileSet([file EXCEPT !.refresh = @ \cup {req[r].pair}])
    /\ To(r, IF hybrid THEN "refreshPrimary" ELSE "answer")
    /\ UNCHANGED <<hybrid, primary, stage, drawn, given, restarts, history>>

SaveRefreshTokenPrimary(r) ==
    LET saved == [primary EXCEPT !.refresh = @ \cup {req[r].pair}] IN
    /\ req[r].pc = "refreshPrimary"
    /\ \/ primary' = saved /\ To(r, "answer") /\ UNCHANGED lapses
       \/ SaveFails(r, saved)
    /\ UNCHANGED <<hybrid, file, disk, stage, drawn, given, restarts, history>>

Answer(r) ==
    /\ req[r].pc = "answer"
    /\ given' = given \cup {req[r].pair}
    /\ End(r)
    /\ UNCHANGED <<hybrid, primary, file, disk, stage, drawn, lapses, restarts, history>>

-----------------------------------------------------------------------------
\* Time passes: a code or access token is over, and later its refresh token;
\* never before the same is over for what it was exchanged for.
Age(x) ==
    /\ x \in given
    /\ stage[x] < IF x \in Codes THEN 1 ELSE 2
    /\ x \in Pairs => stage[from[x]] > IF from[x] \in Codes THEN 0 ELSE stage[x]
    /\ Cardinality({y \in given \ {x} : stage[y] > 0}) < MaxOver
    /\ stage' = [stage EXCEPT ![x] = @ + 1]
    /\ UNCHANGED <<hybrid, primary, file, disk, req, drawn, given, lapses, restarts, history>>

\* What is left of a store without what is over.
Fresh(store) ==
    [codes   |-> {c \in store.codes : stage[c] = 0},
     access  |-> {p \in store.access : stage[p] = 0},
     refresh |-> {p \in store.refresh : stage[p] < 2}]

\* The clean-up of the file store, saved when a token went away.
removeExpired ==
    /\ Fresh(file) # file
    /\ file' = Fresh(file)
    /\ IF <<file'.access, file'.refresh>> # <<file.access, file.refresh>>
         THEN saveState(file')
         ELSE UNCHANGED <<disk, lapses>>
    /\ UNCHANGED <<hybrid, primary, stage, req, drawn, given, restarts, history>>

\* authenticate asks the file store for an access token that is over (Redis
\* has not got it, or fails): GetToken deletes it.
GetTokenOver(p) ==
    /\ p \in file.access /\ stage[p] > 0
    /\ FileSet([file EXCEPT !.access = @ \ {p}])
    /\ UNCHANGED <<hybrid, primary, stage, req, drawn, given, restarts, history>>

\* Redis drops the keys whose time to live is over.
ExpireKeys ==
    /\ hybrid /\ Fresh(primary) # primary
    /\ primary' = Fresh(primary)
    /\ UNCHANGED <<hybrid, file, disk, stage, req, drawn, given, lapses, restarts, history>>

\* loadState drops what is over.
loadState == Fresh(disk)

\* The process dies and starts: the file is read again and, when Redis is
\* reachable, copied to it (WarmUp; what fails to be copied is logged and
\* skipped).  When it is not, Redis keeps what it holds and is not used.
Restart(reachable) ==
    /\ restarts < MaxRestarts
    /\ restarts' = restarts + 1
    /\ hybrid' = reachable
    /\ req' = [r \in Reqs |-> NoReq]
    /\ file' = loadState
    /\ \E A \in SUBSET loadState.access, R \in SUBSET loadState.refresh :
          /\ primary' = IF reachable
                          THEN [primary EXCEPT !.access = @ \cup A, !.refresh = @ \cup R]
                          ELSE primary
          /\ Lapse((IF reachable # hybrid THEN {"away"} ELSE {}) \cup
                   (IF <<A, R>> # <<loadState.access, loadState.refresh>> THEN {"save"} ELSE {}))
    /\ UNCHANGED <<disk, stage, drawn, given, history>>

\* Redis restarts without its data.
RedisLosesData ==
    /\ hybrid /\ primary # Empty
    /\ primary' = Empty
    /\ Lapse({"lost"})
    /\ UNCHANGED <<hybrid, file, disk, stage, req, drawn, given, restarts, history>>

Next ==
    \/ \E c \in Codes : Authorize(c)
    \/ \E x \in Codes \cup Pairs : Age(x)
    \/ \E r \in Reqs :
          \/ \E src \in Codes \cup Pairs : handleToken(r, src)
          \/ ConsumePrimary(r) \/ SyncFile(r) \/ Fallback(r) \/ Refuse(r)
          \/ DeleteFile(r) \/ DeletePrimary(r)
          \/ \E p \in Pairs : SaveTokenFile(r, p)
          \/ SaveTokenPrimary(r) \/ SaveRefreshTokenFile(r) \/ SaveRefreshTokenPrimary(r)
          \/ Answer(r)
    \/ \E p \in Pairs : GetTokenOver(p)
    \/ removeExpired \/ ExpireKeys \/ RedisLosesData
    \/ \E reachable \in BOOLEAN : Restart(reachable)

Spec == Init /\ [][Next]_vars

-----------------------------------------------------------------------------
(* Properties.                                                             *)

\* authenticate: GetToken of Redis, or of the file store when Redis does not
\* have it or fails, and the end of the token is compared.
Accepts(p) ==
    /\ stage[p] = 0
    /\ p \in file.access \/ (hybrid /\ p \in primary.access)

Refreshable(p) == p \in file.refresh \/ (hybrid /\ p \in primary.refresh)

\* A code or refresh token is exchanged once: of all requests with it, before
\* and after restarts and losses of Redis, one at most is answered with a
\* pair (ConsumeAuthCode, ConsumeRefreshToken).  This does not outlive a
\* consume that failed in Redis, a file that was not written, Redis coming
\* or going at a start, and a request that falls back to the file store
\* between another's two consumes.
SingleUse ==
    ~raced /\ lapses \cap {"consume", "disk", "away"} = {} =>
        \A p, q \in given \cap Pairs : from[p] = from[q] => p = q

\* When a refresh was answered, the access token it replaces is no longer
\* accepted, not from either store and not after a restart, unless its
\* deletion failed in Redis, the file was not written or Redis came or went
\* at a start (handleRefreshTokenGrant).
OldAccessEnds ==
    lapses \cap {"delete", "disk", "away"} = {} =>
        \A p \in given \cap Pairs : from[p] \in Pairs => ~Accepts(from[p])

\* Tokens that were answered and not exchanged survive restarts of the
\* process and lost data of Redis, whatever commands of Redis failed, for as
\* long as they live and the file is written: the access token and, longer,
\* the refresh token
\* (HybridTokenStore: "ensures OAuth state survives restarts even when the
\* primary store loses its data").
SessionSurvives ==
    "disk" \notin lapses =>
        \A p \in (given \cap Pairs) \ spent :
            /\ stage[p] = 0 => Accepts(p)
            /\ stage[p] < 2 => Refreshable(p)
=============================================================================
