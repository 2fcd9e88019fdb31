------------------------------- MODULE ApiKeys -------------------------------
(***************************************************************************)
(* Bearer credentials (internal/mcp: authenticate) and the API keys of     *)
(* apikeys.yaml (internal/auth: APIKeyStore).  A key is found through an   *)
(* index; an entry with only a bcrypt hash joins the index when its key is *)
(* presented for the first time.  Requests run concurrently; each section  *)
(* under the lock and each comparison is a step.  The scans run one at a   *)
(* time, and a wait for a slot may fail.                                   *)
(*                                                                         *)
(* Data: which presented value an entry matches is a relation, since       *)
(* bcrypt reads 72 bytes and a key may be entered twice.  What the token   *)
(* store knows of a value is a constant; the store itself is in Tokens.    *)
(***************************************************************************)
EXTENDS Naturals, Sequences, FiniteSets

CONSTANTS
    BearerReqs,    \* requests, each made once
    Values,        \* presented bearer values
    HashEntries,   \* entries with only a key_hash, in file order
    DigestEntries, \* entries with a key_sha256
    Matches,       \* <<value, entry>>: the comparison succeeds
    TokenOf,       \* value -> "valid", "expired" or "unknown" in the token store
    SingleKey      \* TOOLMESH_API_KEY

HashSet == {HashEntries[i] : i \in DOMAIN HashEntries}
KeyEntries == DigestEntries \cup HashSet

ASSUME ApiKeysAssumption ==
    /\ Matches \subseteq Values \X KeyEntries /\ SingleKey \in Values
    /\ TokenOf \in [Values -> {"valid", "expired", "unknown"}]
    /\ HashEntries \in Seq(HashSet) /\ HashSet \cap DigestEntries = {}
    /\ \A i, j \in DOMAIN HashEntries : HashEntries[i] = HashEntries[j] => i = j
    \* No digest is entered twice, and none is the digest of two values.
    /\ \A v, w \in Values, d, e \in DigestEntries : {<<v, d>>, <<w, e>>} \subseteq Matches => (v = w <=> d = e)

VARIABLES
    keyFile,      \* apikeys.yaml exists; else the single key is compared
    loginSet,     \* a password login is configured, so tokens are honored
    index,        \* <<value, entry>>: the index of the keys
    unseen,       \* entries that no key was bound to yet, in file order
    bearerReq,    \* the requests
    lookedBefore  \* history: requests that looked before a scan and counted after it

apiKeyVars == <<keyFile, loginSet, index, unseen, bearerReq, lookedBefore>>

NoBearer == [pc |-> "new", value |-> SingleKey, scan |-> <<>>, unchecked |-> FALSE, expired |-> FALSE]
Indexed(v) == \E e \in KeyEntries : <<v, e>> \in index
BearerAt(r, pc) == bearerReq' = [bearerReq EXCEPT ![r].pc = pc]
Scanning == {r \in BearerReqs : bearerReq[r].pc = "scan"}

\* Nothing accepted the value: 503 when a method could not look at it, and
\* 401 otherwise.
Verdict401(unchecked) == IF unchecked THEN "unavailable" ELSE "unauthorized"
Refused(r, unchecked) ==
    bearerReq' = [bearerReq EXCEPT ![r].scan = <<>>, ![r].unchecked = unchecked, ![r].pc = Verdict401(unchecked)]

-----------------------------------------------------------------------------
\* NewAPIKeyStore: the entries with a digest are in the index.
ApiKeysInit ==
    /\ keyFile \in BOOLEAN /\ loginSet \in BOOLEAN
    /\ index = {m \in Matches : keyFile /\ m[2] \in DigestEntries}
    /\ unseen = IF keyFile THEN HashEntries ELSE <<>>
    /\ bearerReq = [r \in BearerReqs |-> NoBearer]
    /\ lookedBefore = {}

\* A request without a credential is not compared with anything.
Anonymous(r) ==
    /\ bearerReq[r].pc = "new"
    /\ BearerAt(r, "anonymous")
    /\ UNCHANGED <<keyFile, loginSet, index, unseen, lookedBefore>>

\* What is decided in memory: Find, or the single key.
PresentBearer(r, v) ==
    /\ bearerReq[r].pc = "new"
    /\ bearerReq' = [bearerReq EXCEPT ![r].value = v,
                         ![r].pc = IF (keyFile /\ Indexed(v)) \/ (~keyFile /\ v = SingleKey)
                                   THEN "accepted" ELSE "token"]
    /\ UNCHANGED <<keyFile, loginSet, index, unseen, lookedBefore>>

\* GetToken, where there is a password login.  A store that fails is no
\* verdict; a value known as an expired token is no key.
getToken(r) ==
    LET known == TokenOf[bearerReq[r].value]
        After(unchecked) == IF keyFile THEN "verify" ELSE Verdict401(unchecked)
    IN /\ bearerReq[r].pc = "token"
       /\ \/ ~loginSet /\ BearerAt(r, After(FALSE))
          \/ loginSet /\ known = "valid" /\ BearerAt(r, "accepted")
          \/ loginSet /\ known = "expired" /\ bearerReq' = [bearerReq EXCEPT ![r].pc = "unauthorized", ![r].expired = TRUE]
          \/ loginSet /\ known = "unknown" /\ BearerAt(r, After(FALSE))
          \/ loginSet /\ bearerReq' = [bearerReq EXCEPT ![r].unchecked = TRUE, ![r].pc = After(TRUE)]
       /\ UNCHANGED <<keyFile, loginSet, index, unseen, lookedBefore>>

\* Verify looks in the index once more.
verifyLookup(r) ==
    /\ bearerReq[r].pc = "verify"
    /\ BearerAt(r, IF Indexed(bearerReq[r].value) THEN "accepted" ELSE "count")
    /\ UNCHANGED <<keyFile, loginSet, index, unseen, lookedBefore>>

\* Nothing is compared once every entry has been seen.
countUnseen(r) ==
    /\ bearerReq[r].pc = "count"
    /\ IF unseen = <<>> THEN Refused(r, bearerReq[r].unchecked) ELSE BearerAt(r, "queue")
    /\ lookedBefore' = IF unseen = <<>> /\ Indexed(bearerReq[r].value) THEN lookedBefore \cup {r} ELSE lookedBefore
    /\ UNCHANGED <<keyFile, loginSet, index, unseen>>

\* scans.Do: one request at a time, with the entries unseen by then.
admit(r) ==
    /\ bearerReq[r].pc = "queue" /\ Scanning = {}
    /\ bearerReq' = [bearerReq EXCEPT ![r].pc = "scan", ![r].scan = unseen]
    /\ UNCHANGED <<keyFile, loginSet, index, unseen, lookedBefore>>

\* The queue is full, the wait too long or the client gone, before the scan
\* or before one of its comparisons.
compareDeferred(r) ==
    /\ \/ bearerReq[r].pc = "queue"
       \/ bearerReq[r].pc = "scan" /\ ~Indexed(bearerReq[r].value) /\ bearerReq[r].scan # <<>>
    /\ Refused(r, TRUE)
    /\ UNCHANGED <<keyFile, loginSet, index, unseen, lookedBefore>>

\* As known, with the index not asked again.
knownUnasked(r) == FALSE

\* The index is asked before every comparison.
known(r) == Indexed(bearerReq[r].value)

\* slices.Delete(s, pos, pos + 1).
Delete(s, pos) == SubSeq(s, 1, pos - 1) \o SubSeq(s, pos + 1, Len(s))

\* remember: the entry leaves the unseen ones and is bound to the value.
remember(r, e) ==
    IF Indexed(bearerReq[r].value)
    THEN bearerReq' = [bearerReq EXCEPT ![r].pc = "accepted", ![r].scan = <<>>] /\ UNCHANGED <<unseen, index>>
    ELSE IF \E pos \in DOMAIN unseen : unseen[pos] = e
    THEN /\ \E pos \in DOMAIN unseen : unseen[pos] = e /\ unseen' = Delete(unseen, pos)
         /\ index' = index \cup {<<bearerReq[r].value, e>>}
         /\ bearerReq' = [bearerReq EXCEPT ![r].pc = "accepted", ![r].scan = <<>>]
    ELSE Refused(r, bearerReq[r].unchecked) /\ UNCHANGED <<unseen, index>>

\* One round of scan: the index, the end of the list, or a comparison.
scan(r) ==
    LET rest == bearerReq[r].scan IN
    /\ bearerReq[r].pc = "scan"
    /\ \/ /\ known(r)
          /\ bearerReq' = [bearerReq EXCEPT ![r].pc = "accepted", ![r].scan = <<>>]
          /\ UNCHANGED <<unseen, index>>
       \/ /\ ~known(r) /\ rest = <<>>
          /\ Refused(r, bearerReq[r].unchecked)
          /\ UNCHANGED <<unseen, index>>
       \/ /\ ~known(r) /\ rest # <<>>
          /\ IF <<bearerReq[r].value, Head(rest)>> \in Matches
             THEN remember(r, Head(rest))
             ELSE bearerReq' = [bearerReq EXCEPT ![r].scan = Tail(rest)] /\ UNCHANGED <<unseen, index>>
    /\ UNCHANGED <<keyFile, loginSet, lookedBefore>>

ApiKeysNext ==
    \E r \in BearerReqs :
       \/ Anonymous(r) \/ getToken(r) \/ verifyLookup(r) \/ countUnseen(r)
       \/ admit(r) \/ compareDeferred(r) \/ scan(r)
       \/ \E v \in Values : PresentBearer(r, v)

ApiKeysSpec == ApiKeysInit /\ [][ApiKeysNext]_apiKeyVars

-----------------------------------------------------------------------------
\* The value of a request that was answered 401: it is no credential, or
\* every entry it matches is bound to another value.
NoCredential(r) ==
    LET v == bearerReq[r].value IN
    /\ keyFile => \A e \in KeyEntries : <<v, e>> \in Matches => \E w \in Values \ {v} : <<w, e>> \in index
    /\ ~keyFile => v # SingleKey
    /\ loginSet => TokenOf[v] # "valid"

\* Verify, scan, remember: whichever requests present a key first at the same
\* time, a key is answered 401 only when it could not be accepted (or when its
\* request looked in the index before another's scan bound the last entry and
\* counted the unseen entries after it); an entry stays with one value, a value
\* with one entry, and the unseen entries are those without a value.
KeysBoundOnce ==
    /\ \A r \in BearerReqs \ lookedBefore :
          bearerReq[r].pc = "unauthorized" /\ ~bearerReq[r].expired => NoCredential(r)
    /\ index \subseteq Matches
    /\ \A m, n \in index : m[1] = n[1] <=> m[2] = n[2]
    /\ keyFile => \A i \in DOMAIN HashEntries :
          (\E j \in DOMAIN unseen : unseen[j] = HashEntries[i]) <=> ~(\E v \in Values : <<v, HashEntries[i]>> \in index)
=============================================================================
