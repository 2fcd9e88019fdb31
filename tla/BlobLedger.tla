----------------------------- MODULE BlobLedger -----------------------------
(***************************************************************************)
(* What the file broker promises about its quota (internal/blob: Quota): a *)
(* ledger of the bytes each blob is charged for.  A blob is charged while  *)
(* it is written and only as far as the quotas allow, shown once, dropped  *)
(* with all its bytes, and never comes back; the totals are always the     *)
(* sums of the entries.                                                    *)
(***************************************************************************)
EXTENDS Integers, FiniteSetsExt

CONSTANTS
    Blobs, OwnerOf,            \* the blobs and the user each one counts for
    MaxTotalBytes, MaxBytesPerUser,
    NoOwner

VARIABLES
    held,    \* the bytes each blob is charged for
    shown,   \* the blobs that can be fetched
    gone,    \* the blobs that were dropped
    total,   \* the bytes in use
    ofUser   \* the bytes in use by each user

ledgerVars == <<held, shown, gone, total, ofUser>>

Users == {OwnerOf[b] : b \in Blobs} \ {NoOwner}
BytesOf(h, S) == FoldSet(LAMBDA b, sum : h[b] + sum, 0, S)
Totalled == total = BytesOf(held, Blobs)
            /\ ofUser = [u \in Users |-> BytesOf(held, {b \in Blobs : OwnerOf[b] = u})]

WithinQuota ==
    /\ MaxTotalBytes > 0 => total <= MaxTotalBytes
    /\ MaxBytesPerUser > 0 => \A u \in Users : ofUser[u] <= MaxBytesPerUser

LedgerInit == held = [b \in Blobs |-> 0] /\ shown = {} /\ gone = {} /\ Totalled

Charge(b) ==
    /\ b \notin shown \cup gone
    /\ held'[b] > held[b] /\ \A c \in Blobs \ {b} : held'[c] = held[c]
    /\ WithinQuota'
    /\ UNCHANGED <<shown, gone>>

Refund(b) ==
    /\ b \notin shown /\ \E n \in 0..held[b] : held' = [held EXCEPT ![b] = n]
    /\ UNCHANGED <<shown, gone>>

Show(b) ==
    /\ b \notin shown \cup gone /\ shown' = shown \cup {b}
    /\ UNCHANGED <<held, gone>>

Drop(S) ==
    /\ held' = [b \in Blobs |-> IF b \in S THEN 0 ELSE held[b]]
    /\ shown' = shown \ S /\ gone' = gone \cup S

LedgerNext ==
    /\ \/ \E b \in Blobs : Charge(b) \/ Refund(b) \/ Show(b)
       \/ \E S \in SUBSET Blobs : Drop(S)
    /\ Totalled'

LedgerSpec == LedgerInit /\ [][LedgerNext]_ledgerVars
=============================================================================
