-------------------------------- MODULE Blobs --------------------------------
(***************************************************************************)
(* The file broker (internal/blob: Store, quotaWriter, HandleUpload;       *)
(* internal/mcp: handleUploadFile; internal/backend: blob handles and file *)
(* URLs).  Uploads are copied chunk by chunk while other uploads, readers, *)
(* deletions, the removal of expired blobs and a restart happen.  Shown to *)
(* implement BlobLedger.                                                   *)
(*                                                                         *)
(* Data: sizes are counted in small units; a blob is named by the upload   *)
(* that generated its id, since an id is never used twice.                 *)
(***************************************************************************)
EXTENDS Integers, FiniteSetsExt

CONSTANTS
    Puts,                            \* the uploads
    BlobOwner,                       \* the user each one counts for
    Readers,                         \* GETs and tool calls that read a blob
    MaxTotalBytes, MaxBytesPerUser,  \* Quota
    UploadMaxBytes,                  \* UploadLimits.MaxBytes
    ReadMaxBytes,                    \* maxBody of a tool, maxInlineBlobBytes
    NoOwner,
    MaxRemoveFails                   \* bound on os.Remove failing

ASSUME BlobsAssumption ==
    /\ IsFiniteSet(Puts)
    /\ MaxTotalBytes \in Nat /\ MaxBytesPerUser \in Nat
    /\ UploadMaxBytes \in Nat /\ ReadMaxBytes \in Nat /\ MaxRemoveFails \in Nat

BlobUsers == {BlobOwner[p] : p \in Puts} \ {NoOwner}

VARIABLES
    put,          \* each upload: [step, fetched, size, reserved, chunk]
    onDisk,       \* the bytes of each file, -1 if there is none
    blobIndex,    \* Store.blobs: the ids in the index
    expired,      \* the ids whose TTL has run out
    used, usedBy, \* Store.used, Store.usedBy
    doomed,       \* deleted ids whose file is still to be removed
    read,         \* each reader: [step, use, id, size, got]
    leftover      \* the files whose removal failed
blobVars == <<put, onDisk, blobIndex, expired, used, usedBy, doomed, read, leftover>>

NoFile == -1
IdlePut == [step |-> "idle", fetched |-> FALSE, size |-> 0, reserved |-> 0, chunk |-> 0]
IdleRead == [step |-> "idle", use |-> "get", id |-> CHOOSE p \in Puts : TRUE, size |-> 0, got |-> 0]

BlobsInit ==
    /\ put = [p \in Puts |-> IdlePut]
    /\ onDisk = [p \in Puts |-> NoFile]
    /\ blobIndex = {} /\ expired = {} /\ doomed = {}
    /\ used = 0 /\ usedBy = [u \in BlobUsers |-> 0]
    /\ read = [r \in Readers |-> IdleRead]
    /\ leftover = {}

fitsLocked(o, n) ==
    /\ MaxTotalBytes > 0 => used + n <= MaxTotalBytes
    /\ MaxBytesPerUser > 0 /\ o # NoOwner => usedBy[o] + n <= MaxBytesPerUser

\* An owner's entry ends when it reaches zero.
kept(n) == IF n > 0 THEN n ELSE 0

addLocked(o, n) ==
    /\ used' = used + n
    /\ usedBy' = [u \in BlobUsers |-> IF u # o THEN usedBy[u] ELSE kept(usedBy[u] + n)]

\* HandleUpload and handleUploadFile up to PutOwned: a size that is known is
\* tested against the limit and the quota; a fetched body of unknown length is
\* read up to one byte past the limit.
StartPut(p, fetched, sized, size) ==
    /\ put[p].step = "idle"
    /\ ~fetched => sized
    /\ sized => size <= UploadMaxBytes /\ (size > 0 => fitsLocked(BlobOwner[p], size))
    /\ put' = [put EXCEPT ![p] = [step |-> "copy", fetched |-> fetched, size |-> size, reserved |-> 0, chunk |-> 0]]
    /\ onDisk' = [onDisk EXCEPT ![p] = 0]
    /\ UNCHANGED <<blobIndex, expired, used, usedBy, doomed, read, leftover>>

\* reserve: the chunk is counted, or the copy ends.
reserve(p, n) ==
    IF fitsLocked(BlobOwner[p], n)
    THEN /\ put' = [put EXCEPT ![p].step = "write", ![p].chunk = n]
         /\ addLocked(BlobOwner[p], n)
    ELSE put' = [put EXCEPT ![p].step = "release"] /\ UNCHANGED <<used, usedBy>>

ReserveChunk(p, n) ==
    /\ put[p].step = "copy" /\ put[p].reserved + n <= put[p].size
    /\ reserve(p, n)
    /\ UNCHANGED <<onDisk, blobIndex, expired, doomed, read, leftover>>

\* quotaWriter.Write: k bytes reach the file, fewer than the chunk on an error.
WriteChunk(p, k) ==
    /\ put[p].step = "write" /\ k <= put[p].chunk
    /\ onDisk' = [onDisk EXCEPT ![p] = @ + k]
    /\ put' = [put EXCEPT ![p].step = IF k < put[p].chunk THEN "release" ELSE "copy",
                          ![p].reserved = @ + k, ![p].chunk = 0]
    /\ addLocked(BlobOwner[p], k - put[p].chunk)
    /\ UNCHANGED <<blobIndex, expired, doomed, read, leftover>>

BodyFails(p) ==
    /\ put[p].step = "copy"
    /\ put' = [put EXCEPT ![p].step = "release"]
    /\ UNCHANGED <<onDisk, blobIndex, expired, used, usedBy, doomed, read, leftover>>

releaseReserved(p) ==
    /\ put[p].step = "release"
    /\ addLocked(BlobOwner[p], -put[p].reserved)
    /\ put' = [put EXCEPT ![p].step = "remove", ![p].reserved = 0]
    /\ UNCHANGED <<onDisk, blobIndex, expired, doomed, read, leftover>>

\* os.Remove of the files of S; those of F stay.
RemoveFiles(S, F) ==
    /\ leftover' = (leftover \cup F) /\ Cardinality(leftover') <= MaxRemoveFails
    /\ onDisk' = [p \in Puts |-> IF p \in S \ F THEN NoFile ELSE onDisk[p]]

removeFile(p, F) ==
    /\ put[p].step = "remove"
    /\ RemoveFiles({p}, F)
    /\ put' = [put EXCEPT ![p].step = "failed"]
    /\ UNCHANGED <<blobIndex, expired, used, usedBy, doomed, read>>

\* The whole body has been copied.
copied(p) == put[p].step = "copy" /\ put[p].reserved = put[p].size

\* As indexBlob, with the entry written before the body is copied.
indexBlobEarly(p) ==
    /\ put[p].step = "copy"
    /\ blobIndex' = blobIndex \cup {p}
    /\ put' = [put EXCEPT ![p].step = IF put[p].fetched THEN "check" ELSE "stored"]
    /\ UNCHANGED <<onDisk, expired, used, usedBy, doomed, read, leftover>>

indexBlob(p) ==
    /\ copied(p)
    /\ blobIndex' = blobIndex \cup {p}
    /\ put' = [put EXCEPT ![p].step = IF put[p].fetched THEN "check" ELSE "stored"]
    /\ UNCHANGED <<onDisk, expired, used, usedBy, doomed, read, leftover>>

\* As Remove, with the bytes released whether or not the id is known.
RemoveTwice(p) ==
    /\ blobIndex' = blobIndex \ {p} /\ doomed' = doomed \cup {p}
    /\ addLocked(BlobOwner[p], -put[p].size)

\* Delete under the lock.
Remove(p) ==
    IF p \in blobIndex
    THEN /\ blobIndex' = blobIndex \ {p} /\ doomed' = doomed \cup {p}
         /\ addLocked(BlobOwner[p], -put[p].size)
    ELSE UNCHANGED <<blobIndex, doomed, used, usedBy>>

\* handleUploadFile: a fetched file past the limit is deleted again.
checkFetched(p) ==
    /\ put[p].step = "check"
    /\ put' = [put EXCEPT ![p].step = "stored"]
    /\ IF put[p].size > UploadMaxBytes THEN Remove(p) ELSE UNCHANGED <<blobIndex, doomed, used, usedBy>>
    /\ UNCHANGED <<onDisk, expired, read, leftover>>

\* DELETE /blobs/<id>: the counters at once, the file after the lock.
Delete(p) ==
    /\ put[p].step \in {"check", "stored"} /\ Remove(p)
    /\ UNCHANGED <<put, onDisk, expired, read, leftover>>

removeDeleted(p, F) ==
    /\ p \in doomed /\ doomed' = doomed \ {p}
    /\ RemoveFiles({p}, F)
    /\ UNCHANGED <<put, blobIndex, expired, used, usedBy, read>>

Expire(p) ==
    /\ p \in blobIndex \ expired /\ expired' = expired \cup {p}
    /\ UNCHANGED <<put, onDisk, blobIndex, used, usedBy, doomed, read, leftover>>

\* removeExpiredBlobs, under the lock: files and counters.
removeExpiredBlobs(F) ==
    LET S == blobIndex \cap expired
        sizes == [p \in Puts |-> put[p].size]
        freed(T) == MapThenSumSet(LAMBDA p : sizes[p], T) IN
    /\ S # {} /\ F \subseteq S
    /\ RemoveFiles(S, F)
    /\ blobIndex' = blobIndex \ S
    /\ used' = used - freed(S)
    /\ usedBy' = [u \in BlobUsers |-> kept(usedBy[u] - freed({q \in S : BlobOwner[q] = u}))]
    /\ UNCHANGED <<put, expired, doomed, read>>

\* The process ends; NewStore removes what it finds in the directory.
RestartStore(F) ==
    /\ \E p \in Puts : put[p].step # "idle" /\ onDisk[p] # NoFile
    /\ F \subseteq {p \in Puts : onDisk[p] # NoFile} /\ RemoveFiles(Puts, F)
    /\ blobIndex' = {} /\ doomed' = {} /\ used' = 0 /\ usedBy' = [u \in BlobUsers |-> 0]
    /\ put' = [p \in Puts |-> IF put[p].step = "idle" THEN put[p]
                              ELSE [put[p] EXCEPT !.step = "failed", !.reserved = 0, !.chunk = 0]]
    /\ read' = [r \in Readers |-> IdleRead]
    /\ UNCHANGED expired

-----------------------------------------------------------------------------
\* ServeHTTP (get), materializeBlobHandle (inline) and openBlobHandle (bare) look
\* the entry up, then open the file without the lock.
Lookup(r, p, use) ==
    /\ read[r].step = "idle" /\ p \in blobIndex \ expired
    /\ read' = [read EXCEPT ![r] = [step |-> "open", use |-> use, id |-> p, size |-> put[p].size, got |-> 0]]
    /\ UNCHANGED <<put, onDisk, blobIndex, expired, used, usedBy, doomed, leftover>>

\* The file may be gone by now; an open one stays readable when it is removed.
\* A blob past the limit of the reader is refused.
OpenFile(r) ==
    /\ read[r].step = "open"
    /\ LET p == read[r].id
           tooLarge == read[r].use # "get" /\ read[r].size > ReadMaxBytes IN
       read' = [read EXCEPT ![r].step = IF onDisk[p] = NoFile \/ tooLarge THEN "error" ELSE "done",
                            ![r].got = IF onDisk[p] = NoFile \/ tooLarge THEN 0 ELSE onDisk[p]]
    /\ UNCHANGED <<put, onDisk, blobIndex, expired, used, usedBy, doomed, leftover>>

\* cappedReadCloser: a body past the limit is an error.
capped(n) == IF n > ReadMaxBytes THEN [step |-> "error", got |-> ReadMaxBytes]
             ELSE [step |-> "done", got |-> n]

\* fetchHTTPFile: a file of another server, of a length it does not announce.
FetchFile(r, n) ==
    /\ read[r].step = "idle"
    /\ read' = [read EXCEPT ![r] = [step |-> capped(n).step, use |-> "web", id |-> read[r].id, size |-> n, got |-> capped(n).got]]
    /\ UNCHANGED <<put, onDisk, blobIndex, expired, used, usedBy, doomed, leftover>>

ReadAnswered(r) ==
    /\ read[r].step \in {"done", "error"}
    /\ read' = [read EXCEPT ![r] = IdleRead]
    /\ UNCHANGED <<put, onDisk, blobIndex, expired, used, usedBy, doomed, leftover>>

BlobsNext ==
    \/ \E p \in Puts :
         \/ \E fetched, sized \in BOOLEAN, n \in 0..(UploadMaxBytes + 1) : StartPut(p, fetched, sized, n)
         \/ \E n \in 1..(UploadMaxBytes + 1) : ReserveChunk(p, n)
         \/ \E k \in 0..(UploadMaxBytes + 1) : WriteChunk(p, k)
         \/ BodyFails(p) \/ releaseReserved(p) \/ indexBlob(p) \/ checkFetched(p)
         \/ Delete(p) \/ Expire(p)
         \/ \E F \in SUBSET {p} : removeFile(p, F) \/ removeDeleted(p, F)
    \/ \E F \in SUBSET Puts : removeExpiredBlobs(F) \/ RestartStore(F)
    \/ \E r \in Readers :
         \/ \E p \in Puts, use \in {"get", "inline", "bare"} : Lookup(r, p, use)
         \/ \E n \in 0..(ReadMaxBytes + 1) : FetchFile(r, n)
         \/ OpenFile(r) \/ ReadAnswered(r)

BlobsSpec == BlobsInit /\ [][BlobsNext]_blobVars

-----------------------------------------------------------------------------
\* What each blob is charged for, in the terms of BlobLedger.
chargedFor == [p \in Puts |->
    IF put[p].step \in {"copy", "write", "release"} THEN put[p].reserved + put[p].chunk
    ELSE IF p \in blobIndex THEN put[p].size ELSE 0]
droppedIds == {p \in Puts : put[p].step \in {"remove", "failed"}
                            \/ (put[p].step \in {"check", "stored"} /\ p \notin blobIndex)}

Ledger == INSTANCE BlobLedger WITH
    Blobs <- Puts, OwnerOf <- BlobOwner,
    held <- chargedFor, shown <- blobIndex, gone <- droppedIds, total <- used, ofUser <- usedBy

\* The store implements the ledger: whatever fails and in whatever order, the
\* counters are the sums of what the blobs hold, no chunk is accepted past a
\* quota, and every byte is given back exactly once.
StoreKeepsLedger == Ledger!LedgerSpec

\* quotaWriter, PutOwned, Open, cappedReadCloser: the bytes on disk are never
\* more than the quota counts, leaving aside files on their way out and those
\* whose removal failed; and whoever reads a blob or a file URL gets all of
\* it or an error.
ReadsWholeAndDiskBounded ==
    /\ \A r \in Readers : read[r].step = "done" => read[r].got = read[r].size
    /\ \A p \in Puts : onDisk[p] > 0 =>
         onDisk[p] <= chargedFor[p] \/ p \in doomed \/ put[p].step = "remove" \/ p \in leftover
=============================================================================
