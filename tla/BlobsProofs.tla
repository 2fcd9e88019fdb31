----------------------------- MODULE BlobsProofs -----------------------------
(***************************************************************************)
(* The file broker keeps its ledger (BlobLedger) and serves whole files,   *)
(* for any set of uploads, sizes, quotas, readers, deletions, failures and *)
(* restarts.  The counters are compared with sums over sets of blobs, so   *)
(* the first half of the module proves what a sum is: by the smallest set  *)
(* for which a law would fail, as the subsets of a finite set are well     *)
(* ordered.                                                                *)
(***************************************************************************)
EXTENDS Blobs, FiniteSetTheorems, TLAPS

\* The least element: every family of subsets of a finite set has one.
LEMMA SmallestSubset ==
    ASSUME NEW S, IsFiniteSet(S), NEW Bad \in SUBSET SUBSET S, Bad # {}
    PROVE \E X \in Bad : \A Y \in SUBSET X : Y # X => Y \notin Bad
<1>1. IsWellFoundedOn(StrictSubsetOrdering(S), SUBSET S)
  BY FS_StrictSubsetOrderingWellFounded, FS_FiniteSubsetsOfFinite
<1>2. PICK X \in Bad : \A Y \in Bad : ~(<<Y, X>> \in StrictSubsetOrdering(S))
  BY <1>1, WFMin, Zenon
<1>3. QED
  BY <1>2 DEF StrictSubsetOrdering

Pick(s) == CHOOSE x \in s : TRUE
IsSum(g, h, S) == g = [s \in SUBSET S |-> IF s = {} THEN 0 ELSE h[Pick(s)] + g[s \ {Pick(s)}]]
SumOf(h, S) == MapThenFoldSet(LAMBDA a, b : h[a] + b, 0, LAMBDA x : x, LAMBDA s : CHOOSE x \in s : TRUE, S)

LEMMA SumUnfold ==
    ASSUME NEW h, NEW S, \E g : IsSum(g, h, S)
    PROVE \E g : IsSum(g, h, S) /\ SumOf(h, S) = g[S]
<1> DEFINE G == CHOOSE g : g = [s \in SUBSET S |-> IF s = {} THEN 0 ELSE h[Pick(s)] + g[s \ {Pick(s)}]]
<1>1. IsSum(G, h, S)
  BY DEF IsSum
<1>2. SumOf(h, S) = G[S]
  BY DEF SumOf, MapThenFoldSet, Pick
<1> QED BY <1>1, <1>2

LEMMA SumFcnRestricts ==
    ASSUME NEW h, NEW S, NEW g, IsSum(g, h, S), NEW T \in SUBSET S
    PROVE IsSum([s \in SUBSET T |-> g[s]], h, T)
BY DEF IsSum

LEMMA PickIn == ASSUME NEW s, s # {} PROVE Pick(s) \in s
BY DEF Pick

LEMMA SumFcnUnique ==
    ASSUME NEW h, NEW S, IsFiniteSet(S), NEW f, IsSum(f, h, S), NEW g, IsSum(g, h, S)
    PROVE \A T \in SUBSET S : f[T] = g[T]
<1> DEFINE Bad == {T \in SUBSET S : f[T] # g[T]}
<1> SUFFICES ASSUME Bad # {} PROVE FALSE
  OBVIOUS
<1>1. PICK X \in Bad : \A Y \in SUBSET X : Y # X => Y \notin Bad
  <2> HIDE DEF Bad
  <2>1. Bad \in SUBSET SUBSET S BY DEF Bad
  <2> QED BY <2>1, SmallestSubset
<1>2. X # {}
  BY <1>1 DEF IsSum
<1>3. Pick(X) \in X
  BY <1>2, PickIn
<1>4. f[X \ {Pick(X)}] = g[X \ {Pick(X)}]
  BY <1>1, <1>3
<1> QED BY <1>1, <1>2, <1>4, ZenonT(40) DEF IsSum

LEMMA SumFcnAt ==
    ASSUME NEW h, NEW S, NEW g, IsSum(g, h, S), NEW T \in SUBSET S
    PROVE T # {} => g[T] = h[Pick(T)] + g[T \ {Pick(T)}]
BY DEF IsSum

LEMMA SumFcnEmpty ==
    ASSUME NEW h, NEW S, NEW g, IsSum(g, h, S)
    PROVE g[{}] = 0
<1>1. {} \in SUBSET S
  OBVIOUS
<1> QED BY <1>1 DEF IsSum

LEMMA SumFcnExtends ==
    ASSUME NEW h, NEW X, IsFiniteSet(X), NEW F,
           \A Y \in SUBSET X : Y # X => IsSum(F[Y], h, Y)
    PROVE \E g : IsSum(g, h, X)
<1> DEFINE V(s) == IF s = {} THEN 0 ELSE h[Pick(s)] + F[s \ {Pick(s)}][s \ {Pick(s)}]
           G == [s \in SUBSET X |-> V(s)]
<1>1. ASSUME NEW Y \in SUBSET X, Y # X PROVE G[Y] = F[Y][Y]
  <2> DEFINE Z == Y \ {Pick(Y)}
  <2>0. G[Y] = V(Y)
    OBVIOUS
  <2> HIDE DEF G
  <2>1. IsSum(F[Y], h, Y)
    BY <1>1
  <2>2. CASE Y = {}
    <3>1. F[Y][{}] = 0
      BY <2>1, SumFcnEmpty
    <3> QED BY <2>0, <2>2, <3>1
  <2>3. CASE Y # {}
    <3>1. Pick(Y) \in Y
      BY <2>3, PickIn
    <3>2. F[Y][Y] = h[Pick(Y)] + F[Y][Z]
      BY <2>1, <2>3, SumFcnAt
    <3>3. Z \in SUBSET Y /\ Z \in SUBSET X /\ Z # X /\ IsFiniteSet(Z)
      BY <1>1, <3>1, FS_Subset
    <3> HIDE DEF Z
    <3>4. IsSum([s \in SUBSET Z |-> F[Y][s]], h, Z)
      BY <2>1, <3>3, SumFcnRestricts
    <3>5. IsSum(F[Z], h, Z)
      BY <3>3
    <3>6. [s \in SUBSET Z |-> F[Y][s]][Z] = F[Z][Z]
      BY <3>3, <3>4, <3>5, SumFcnUnique
    <3>7. F[Y][Z] = F[Z][Z]
      BY <3>6
    <3> QED BY <2>0, <2>3, <3>2, <3>7 DEF Z
  <2> QED BY <2>2, <2>3
<1>2. ASSUME NEW s \in SUBSET X
      PROVE V(s) = IF s = {} THEN 0 ELSE h[Pick(s)] + G[s \ {Pick(s)}]
  <2>1. CASE s = {}
    BY <2>1
  <2>2. CASE s # {}
    <3> DEFINE Z == s \ {Pick(s)}
    <3>1. Z \in SUBSET X /\ Z # X
      BY <2>2, PickIn
    <3>2. G[Z] = F[Z][Z]
      <4> HIDE DEF G, Z
      <4> QED BY <1>1, <3>1
    <3> HIDE DEF G
    <3> QED BY <2>2, <3>2
  <2> QED BY <2>1, <2>2
<1>3. G = [s \in SUBSET X |-> IF s = {} THEN 0 ELSE h[Pick(s)] + G[s \ {Pick(s)}]]
  <2> DEFINE W(s) == IF s = {} THEN 0 ELSE h[Pick(s)] + G[s \ {Pick(s)}]
  <2>1. \A s \in SUBSET X : V(s) = W(s)
    BY <1>2
  <2> HIDE DEF W, V
  <2>2. G = [s \in SUBSET X |-> W(s)]
    BY <2>1
  <2> QED BY <2>2 DEF W
<1> HIDE DEF G
<1> QED BY <1>3 DEF IsSum

LEMMA SumFcnExists ==
    ASSUME NEW h, NEW S, IsFiniteSet(S)
    PROVE \E g : IsSum(g, h, S)
<1> DEFINE Bad == {T \in SUBSET S : ~\E g : IsSum(g, h, T)}
<1> SUFFICES ASSUME Bad # {} PROVE FALSE
  OBVIOUS
<1>1. PICK X \in Bad : \A Y \in SUBSET X : Y # X => Y \notin Bad
  <2> HIDE DEF Bad
  <2>1. Bad \in SUBSET SUBSET S BY DEF Bad
  <2> QED BY <2>1, SmallestSubset
<1> DEFINE F == [Y \in SUBSET X |-> CHOOSE g : IsSum(g, h, Y)]
<1>2. \A Y \in SUBSET X : Y # X => IsSum(F[Y], h, Y)
  <2> SUFFICES ASSUME NEW Y \in SUBSET X, Y # X PROVE IsSum(F[Y], h, Y)
    OBVIOUS
  <2>1. \E g : IsSum(g, h, Y)
    BY <1>1
  <2>2. IsSum(CHOOSE g : IsSum(g, h, Y), h, Y)
    BY <2>1, Zenon
  <2> QED BY <2>2
<1>3. IsFiniteSet(X)
  BY <1>1, FS_Subset
<1> HIDE DEF F
<1>4. \E g : IsSum(g, h, X)
  BY <1>2, <1>3, SumFcnExtends
<1> QED BY <1>1, <1>4

LEMMA SumAt ==
    ASSUME NEW h, NEW S, IsFiniteSet(S)
    PROVE S # {} => SumOf(h, S) = h[Pick(S)] + SumOf(h, S \ {Pick(S)})
<1>1. PICK g : IsSum(g, h, S) /\ SumOf(h, S) = g[S]
  BY SumFcnExists, SumUnfold
<1>3. ASSUME S # {} PROVE SumOf(h, S) = h[Pick(S)] + SumOf(h, S \ {Pick(S)})
  <2> DEFINE Z == S \ {Pick(S)}
  <2>1. g[S] = h[Pick(S)] + g[Z]
    BY <1>1, <1>3, SumFcnAt
  <2>2. Z \in SUBSET S /\ IsFiniteSet(Z)
    BY FS_Subset
  <2> HIDE DEF Z
  <2>3. PICK f : IsSum(f, h, Z) /\ SumOf(h, Z) = f[Z]
    BY <2>2, SumFcnExists, SumUnfold
  <2>4. IsSum([s \in SUBSET Z |-> g[s]], h, Z)
    BY <1>1, <2>2, SumFcnRestricts
  <2>5. [s \in SUBSET Z |-> g[s]][Z] = f[Z]
    BY <2>2, <2>3, <2>4, SumFcnUnique
  <2>6. g[Z] = f[Z]
    BY <2>5
  <2> QED BY <1>1, <2>1, <2>3, <2>6 DEF Z
<1> QED BY <1>3

LEMMA SumEmpty == ASSUME NEW h PROVE SumOf(h, {}) = 0
<1>1. PICK g : IsSum(g, h, {}) /\ SumOf(h, {}) = g[{}]
  BY SumFcnExists, SumUnfold, FS_EmptySet
<1> QED BY <1>1, SumFcnEmpty

LEMMA SumInt ==
    ASSUME NEW h, NEW S, IsFiniteSet(S), \A x \in S : h[x] \in Int
    PROVE SumOf(h, S) \in Int
<1> DEFINE Bad == {T \in SUBSET S : SumOf(h, T) \notin Int}
<1> SUFFICES ASSUME Bad # {} PROVE FALSE
  OBVIOUS
<1>1. PICK X \in Bad : \A Y \in SUBSET X : Y # X => Y \notin Bad
  <2> HIDE DEF Bad
  <2>1. Bad \in SUBSET SUBSET S BY DEF Bad
  <2> QED BY <2>1, SmallestSubset
<1>2. IsFiniteSet(X)
  BY FS_Subset
<1>3. X # {}
  <2>1. SumOf(h, {}) \in Int
    BY SumEmpty
  <2> QED BY <1>1, <2>1
<1>4. Pick(X) \in X
  BY <1>3, PickIn
<1>5. SumOf(h, X \ {Pick(X)}) \in Int
  BY <1>1, <1>4
<1>6. SumOf(h, X) = h[Pick(X)] + SumOf(h, X \ {Pick(X)})
  BY <1>2, <1>3, SumAt
<1> QED BY <1>4, <1>5, <1>6

LEMMA SumMember ==
    ASSUME NEW h, NEW S, IsFiniteSet(S), \A x \in S : h[x] \in Int, NEW x \in S
    PROVE SumOf(h, S) = h[x] + SumOf(h, S \ {x})
<1> DEFINE Bad == {T \in SUBSET S : \E y \in T : SumOf(h, T) # h[y] + SumOf(h, T \ {y})}
<1> SUFFICES ASSUME Bad # {} PROVE FALSE
  OBVIOUS
<1>1. PICK X \in Bad : \A Y \in SUBSET X : Y # X => Y \notin Bad
  <2> HIDE DEF Bad
  <2>1. Bad \in SUBSET SUBSET S BY DEF Bad
  <2> QED BY <2>1, SmallestSubset
<1>2. PICK y \in X : SumOf(h, X) # h[y] + SumOf(h, X \ {y})
  BY <1>1
<1> DEFINE P == Pick(X)
<1>3. IsFiniteSet(X) /\ X # {} /\ P \in X /\ y # P
  BY <1>2, FS_Subset, PickIn, SumAt
<1>4. SumOf(h, X) = h[P] + SumOf(h, X \ {P})
  BY <1>3, SumAt
<1> HIDE DEF P
<1>5. SumOf(h, X \ {P}) = h[y] + SumOf(h, (X \ {P}) \ {y})
  BY <1>1, <1>3
<1>6. SumOf(h, X \ {y}) = h[P] + SumOf(h, (X \ {y}) \ {P})
  BY <1>1, <1>3
<1>7. (X \ {y}) \ {P} = (X \ {P}) \ {y}
  OBVIOUS
<1>8. SumOf(h, (X \ {P}) \ {y}) \in Int
  <2>1. IsFiniteSet((X \ {P}) \ {y}) /\ \A z \in (X \ {P}) \ {y} : h[z] \in Int
    BY <1>3, FS_Subset
  <2> QED BY <2>1, SumInt
<1>9. h[y] \in Int /\ h[P] \in Int
  BY <1>3
<1> DEFINE c == SumOf(h, (X \ {P}) \ {y})
<1>10. SumOf(h, X) = h[P] + (h[y] + c) /\ h[y] + SumOf(h, X \ {y}) = h[y] + (h[P] + c) /\ c \in Int
  BY <1>4, <1>5, <1>6, <1>7, <1>8
<1> HIDE DEF c
<1>11. SumOf(h, X) = h[y] + SumOf(h, X \ {y})
  BY <1>9, <1>10
<1> QED BY <1>2, <1>11

LEMMA SumSame ==
    ASSUME NEW h, NEW k, NEW S, IsFiniteSet(S), \A x \in S : h[x] = k[x]
    PROVE SumOf(h, S) = SumOf(k, S)
<1> DEFINE Bad == {T \in SUBSET S : SumOf(h, T) # SumOf(k, T)}
<1> SUFFICES ASSUME Bad # {} PROVE FALSE
  OBVIOUS
<1>1. PICK X \in Bad : \A Y \in SUBSET X : Y # X => Y \notin Bad
  <2> HIDE DEF Bad
  <2>1. Bad \in SUBSET SUBSET S BY DEF Bad
  <2> QED BY <2>1, SmallestSubset
<1>2. IsFiniteSet(X)
  BY FS_Subset
<1>3. X # {}
  BY <1>1, SumEmpty
<1>4. Pick(X) \in X
  BY <1>3, PickIn
<1>5. SumOf(h, X \ {Pick(X)}) = SumOf(k, X \ {Pick(X)})
  BY <1>1, <1>4
<1>6. /\ SumOf(h, X) = h[Pick(X)] + SumOf(h, X \ {Pick(X)})
      /\ SumOf(k, X) = k[Pick(X)] + SumOf(k, X \ {Pick(X)})
  BY <1>2, <1>3, SumAt
<1> QED BY <1>1, <1>4, <1>5, <1>6

LEMMA SumNat ==
    ASSUME NEW h, NEW S, IsFiniteSet(S), \A x \in S : h[x] \in Nat
    PROVE SumOf(h, S) \in Nat
<1> DEFINE Bad == {T \in SUBSET S : SumOf(h, T) \notin Nat}
<1> SUFFICES ASSUME Bad # {} PROVE FALSE
  OBVIOUS
<1>1. PICK X \in Bad : \A Y \in SUBSET X : Y # X => Y \notin Bad
  <2> HIDE DEF Bad
  <2>1. Bad \in SUBSET SUBSET S BY DEF Bad
  <2> QED BY <2>1, SmallestSubset
<1>2. IsFiniteSet(X)
  BY FS_Subset
<1>3. X # {}
  <2>1. SumOf(h, {}) \in Nat
    BY SumEmpty
  <2> QED BY <1>1, <2>1
<1>4. Pick(X) \in X
  BY <1>3, PickIn
<1>5. SumOf(h, X \ {Pick(X)}) \in Nat
  BY <1>1, <1>4
<1>6. SumOf(h, X) = h[Pick(X)] + SumOf(h, X \ {Pick(X)})
  BY <1>2, <1>3, SumAt
<1> QED BY <1>4, <1>5, <1>6

\* One entry changes.
LEMMA SumChange ==
    ASSUME NEW h, NEW k, NEW S, IsFiniteSet(S), NEW x \in S,
           \A y \in S : h[y] \in Int /\ k[y] \in Int,
           \A y \in S \ {x} : k[y] = h[y]
    PROVE SumOf(k, S) = SumOf(h, S) + (k[x] - h[x])
<1>1. IsFiniteSet(S \ {x})
  BY FS_Subset
<1>2. SumOf(h, S \ {x}) = SumOf(k, S \ {x})
  BY <1>1, SumSame
<1>3. SumOf(h, S) = h[x] + SumOf(h, S \ {x})
  BY SumMember
<1>4. SumOf(k, S) = k[x] + SumOf(k, S \ {x})
  BY SumMember
<1>5. SumOf(h, S \ {x}) \in Int
  BY <1>1, SumInt
<1> QED BY <1>2, <1>3, <1>4, <1>5

\* The entries of D become 0.
LEMMA SumClear ==
    ASSUME NEW h, NEW k, NEW S, IsFiniteSet(S), NEW D \in SUBSET S,
           \A y \in S : h[y] \in Int,
           \A y \in S : k[y] = IF y \in D THEN 0 ELSE h[y]
    PROVE SumOf(k, S) = SumOf(h, S) - SumOf(h, D)
<1> DEFINE Bad == {T \in SUBSET S : SumOf(k, T) # SumOf(h, T) - SumOf(h, T \cap D)}
<1> SUFFICES ASSUME Bad # {} PROVE FALSE
  <2>1. S \cap D = D
    OBVIOUS
  <2> QED BY <2>1
<1>1. PICK X \in Bad : \A Y \in SUBSET X : Y # X => Y \notin Bad
  <2> HIDE DEF Bad
  <2>1. Bad \in SUBSET SUBSET S BY DEF Bad
  <2> QED BY <2>1, SmallestSubset
<1>2. IsFiniteSet(X) /\ IsFiniteSet(X \cap D)
  BY FS_Subset
<1>3. X # {}
  <2> SUFFICES ASSUME X = {} PROVE FALSE
    OBVIOUS
  <2>1. SumOf(k, X) = 0 /\ SumOf(h, X) = 0
    BY SumEmpty
  <2>2. X \cap D = X
    OBVIOUS
  <2> QED BY <1>1, <2>1, <2>2
<1> DEFINE p == Pick(X)
           Y == X \ {p}
<1>4. p \in X
  BY <1>3, PickIn
<1> HIDE DEF p
<1>5. Y \in SUBSET X /\ Y # X /\ IsFiniteSet(Y) /\ IsFiniteSet(Y \cap D)
  BY <1>2, <1>4, FS_Subset
<1>6. SumOf(k, Y) = SumOf(h, Y) - SumOf(h, Y \cap D)
  BY <1>1, <1>5
<1>7. SumOf(h, X) = h[p] + SumOf(h, Y) /\ SumOf(k, X) = k[p] + SumOf(k, Y)
  <2>1. \A y \in X : h[y] \in Int /\ k[y] \in Int
    OBVIOUS
  <2> QED BY <1>2, <1>4, <2>1, SumMember
<1>8. SumOf(h, Y) \in Int /\ SumOf(h, Y \cap D) \in Int
  <2>1. \A y \in Y : h[y] \in Int
    BY <1>5
  <2> QED BY <1>5, <2>1, SumInt
<1>9. SumOf(h, X \cap D) = (IF p \in D THEN h[p] ELSE 0) + SumOf(h, Y \cap D)
  <2>1. CASE p \in D
    <3>1. (X \cap D) \ {p} = Y \cap D /\ p \in X \cap D
      BY <1>4, <2>1
    <3>2. SumOf(h, X \cap D) = h[p] + SumOf(h, (X \cap D) \ {p})
      BY <1>2, <3>1, SumMember
    <3> QED BY <2>1, <3>1, <3>2
  <2>2. CASE p \notin D
    <3>1. X \cap D = Y \cap D
      BY <2>2
    <3> DEFINE c == SumOf(h, Y \cap D)
    <3>2. SumOf(h, X \cap D) = c /\ c \in Int
      BY <3>1, <1>8
    <3> HIDE DEF c
    <3>3. SumOf(h, X \cap D) = 0 + c
      BY <3>2
    <3> QED BY <2>2, <3>3 DEF c
  <2> QED BY <2>1, <2>2
<1>10. h[p] \in Int /\ k[p] = IF p \in D THEN 0 ELSE h[p]
  BY <1>4
<1>11. SumOf(k, X) # SumOf(h, X) - SumOf(h, X \cap D)
  BY <1>1
<1> HIDE DEF Y, Bad
<1> QED BY <1>6, <1>7, <1>8, <1>9, <1>10, <1>11

-----------------------------------------------------------------------------
PutSteps == {"idle", "copy", "write", "release", "remove", "failed", "check", "stored"}
PutRecord == [step : PutSteps, fetched : BOOLEAN, size : Nat, reserved : Nat, chunk : Nat]
ReadRecord == [step : {"idle", "open", "done", "error"}, use : {"get", "inline", "bare", "web"},
               id : Puts \cup {IdleRead.id}, size : Nat, got : Nat]

BlobsTypeOK ==
    /\ put \in [Puts -> PutRecord]
    /\ onDisk \in [Puts -> Nat \cup {NoFile}]
    /\ blobIndex \subseteq Puts /\ doomed \subseteq Puts
    /\ read \in [Readers -> ReadRecord]

\* What the step of an upload says of its bytes and its file.
PhaseOK(p) ==
    /\ put[p].step = "idle" => put[p] = IdlePut /\ onDisk[p] = NoFile
    /\ put[p].step # "write" => put[p].chunk = 0
    /\ put[p].step \in {"remove", "failed"} => put[p].reserved = 0
    /\ put[p].step \in {"copy", "write", "release"} => onDisk[p] = put[p].reserved
    /\ put[p].step \in {"copy", "write"} => put[p].reserved + put[p].chunk <= put[p].size
    /\ put[p].step \in {"check", "stored"} => onDisk[p] \in {NoFile, put[p].size}
    /\ put[p].step = "failed" => onDisk[p] = NoFile \/ p \in leftover

\* An indexed blob has its file; a blob that has left the index has none, or one
\* on its way out.
IndexOK(p) ==
    /\ p \in blobIndex \cup doomed => put[p].step \in {"check", "stored"}
    /\ p \in blobIndex => p \notin doomed /\ onDisk[p] = put[p].size
    /\ put[p].step \in {"check", "stored"} /\ p \notin blobIndex =>
         p \in doomed \cup leftover \/ onDisk[p] = NoFile

ReaderOK(r) ==
    /\ read[r].step = "open" =>
         /\ read[r].id \in Puts /\ put[read[r].id].step \in {"check", "stored"}
         /\ read[r].size = put[read[r].id].size
    /\ read[r].step = "done" => read[r].got = read[r].size

FilesInv ==
    /\ BlobsTypeOK
    /\ \A p \in Puts : PhaseOK(p) /\ IndexOK(p)
    /\ \A r \in Readers : ReaderOK(r)

BlobsInv == FilesInv /\ Ledger!Totalled /\ Ledger!WithinQuota

\* The actions of one upload, of all of them, and of the readers.
PutStep(p) ==
    \/ \E fetched, sized \in BOOLEAN, n \in 0..(UploadMaxBytes + 1) : StartPut(p, fetched, sized, n)
    \/ \E n \in 1..(UploadMaxBytes + 1) : ReserveChunk(p, n)
    \/ \E k \in 0..(UploadMaxBytes + 1) : WriteChunk(p, k)
    \/ BodyFails(p) \/ releaseReserved(p) \/ indexBlob(p) \/ checkFetched(p)
    \/ Delete(p) \/ Expire(p)
    \/ \E F \in SUBSET {p} : removeFile(p, F) \/ removeDeleted(p, F)
ReaderStep(r) ==
    \/ \E p \in Puts, use \in {"get", "inline", "bare"} : Lookup(r, p, use)
    \/ \E n \in 0..(ReadMaxBytes + 1) : FetchFile(r, n)
    \/ OpenFile(r) \/ ReadAnswered(r)

LEMMA BlobsNextSplit ==
    BlobsNext <=> \/ \E p \in Puts : PutStep(p)
                  \/ \E F \in SUBSET Puts : removeExpiredBlobs(F) \/ RestartStore(F)
                  \/ \E r \in Readers : ReaderStep(r)
BY DEF BlobsNext, PutStep, ReaderStep

LEMMA IdleTypes == IdlePut \in PutRecord /\ IdleRead \in ReadRecord
                   /\ IdleRead.step = "idle" /\ IdlePut.chunk = 0
BY DEF IdlePut, IdleRead, PutRecord, PutSteps, ReadRecord

LEMMA FilesInitial == BlobsInit => FilesInv
<1> SUFFICES ASSUME BlobsInit PROVE FilesInv
  OBVIOUS
<1>1. BlobsTypeOK
  BY IdleTypes DEF BlobsInit, BlobsTypeOK
<1>2. \A p \in Puts : PhaseOK(p) /\ IndexOK(p)
  BY DEF BlobsInit, PhaseOK, IndexOK, IdlePut
<1>3. \A r \in Readers : ReaderOK(r)
  BY DEF BlobsInit, ReaderOK, IdleRead
<1> QED BY <1>1, <1>2, <1>3 DEF FilesInv

\* An upload that changes only its own record and file, and not to another size
\* once it is stored, leaves the others and the readers alone.
LEMMA OthersKept ==
    ASSUME FilesInv, NEW p \in Puts,
           put' \in [Puts -> PutRecord], onDisk' \in [Puts -> Nat \cup {NoFile}],
           \A q \in Puts \ {p} : /\ put'[q] = put[q] /\ onDisk'[q] = onDisk[q]
                                 /\ q \in blobIndex' <=> q \in blobIndex
                                 /\ q \in doomed' <=> q \in doomed,
           blobIndex' \subseteq Puts, doomed' \subseteq Puts, leftover \subseteq leftover',
           put[p].step \in {"check", "stored"} =>
             put'[p].step \in {"check", "stored"} /\ put'[p].size = put[p].size,
           read' = read, PhaseOK(p)', IndexOK(p)'
    PROVE FilesInv'
<1>1. BlobsTypeOK'
  BY DEF FilesInv, BlobsTypeOK
<1>2. ASSUME NEW q \in Puts PROVE PhaseOK(q)' /\ IndexOK(q)'
  <2>1. CASE q = p
    BY <2>1
  <2>2. CASE q # p
    <3>1. PhaseOK(q) /\ IndexOK(q)
      BY DEF FilesInv
    <3> QED BY <2>2, <3>1 DEF PhaseOK, IndexOK
  <2> QED BY <2>1, <2>2
<1>3. ASSUME NEW r \in Readers PROVE ReaderOK(r)'
  <2>1. ReaderOK(r)
    BY DEF FilesInv
  <2> QED BY <2>1 DEF ReaderOK
<1> QED BY <1>1, <1>2, <1>3 DEF FilesInv

LEMMA PutStepFiles ==
    ASSUME FilesInv, NEW p \in Puts, PutStep(p)
    PROVE FilesInv'
<1> USE BlobsAssumption
<1>0. BlobsTypeOK /\ PhaseOK(p) /\ IndexOK(p)
  BY DEF FilesInv
<1>1. ASSUME NEW fetched \in BOOLEAN, NEW sized \in BOOLEAN, NEW n \in 0..(UploadMaxBytes + 1),
             StartPut(p, fetched, sized, n)
      PROVE FilesInv'
  <2>1. put' \in [Puts -> PutRecord] /\ onDisk' \in [Puts -> Nat \cup {NoFile}]
    <3>1. [step |-> "copy", fetched |-> fetched, size |-> n, reserved |-> 0, chunk |-> 0] \in PutRecord
      <4>1. n \in Nat /\ 0 \in Nat
        OBVIOUS
      <4> QED BY <4>1, Zenon DEF PutRecord, PutSteps
    <3> QED BY <1>0, <1>1, <3>1 DEF StartPut, BlobsTypeOK
  <2>2. PhaseOK(p)' /\ IndexOK(p)'
    BY <1>0, <1>1 DEF StartPut, BlobsTypeOK, IdlePut, PhaseOK, IndexOK, NoFile
  <2> QED BY <1>0, <1>1, <2>1, <2>2, OthersKept DEF StartPut, BlobsTypeOK
<1>2. ASSUME NEW n \in 1..(UploadMaxBytes + 1), ReserveChunk(p, n)
      PROVE FilesInv'
  <2>1. put' \in [Puts -> PutRecord] /\ onDisk' \in [Puts -> Nat \cup {NoFile}]
    BY <1>0, <1>2 DEF ReserveChunk, reserve, BlobsTypeOK, PutRecord, PutSteps
  <2>2. PhaseOK(p)' /\ IndexOK(p)'
    BY <1>0, <1>2 DEF ReserveChunk, reserve, BlobsTypeOK, PhaseOK, IndexOK, PutRecord, NoFile
  <2> QED BY <1>0, <1>2, <2>1, <2>2, OthersKept DEF ReserveChunk, reserve, BlobsTypeOK
<1>3. ASSUME NEW k \in 0..(UploadMaxBytes + 1), WriteChunk(p, k)
      PROVE FilesInv'
  <2>1. put' \in [Puts -> PutRecord] /\ onDisk' \in [Puts -> Nat \cup {NoFile}]
    <3>1. put[p].reserved \in Nat /\ onDisk[p] \in Nat /\ put[p] \in PutRecord
      BY <1>0, <1>3 DEF WriteChunk, BlobsTypeOK, PhaseOK, PutRecord
    <3>2. put[p].reserved + k \in Nat /\ onDisk[p] + k \in Nat
      BY <3>1
    <3>3. onDisk' \in [Puts -> Nat \cup {NoFile}]
      BY <1>0, <1>3, <3>2 DEF WriteChunk, BlobsTypeOK
    <3>4. put' \in [Puts -> PutRecord]
      BY <1>0, <1>3, <3>1, <3>2 DEF WriteChunk, BlobsTypeOK, PutRecord, PutSteps
    <3> QED BY <3>3, <3>4
  <2>2. PhaseOK(p)' /\ IndexOK(p)'
    BY <1>0, <1>3 DEF WriteChunk, BlobsTypeOK, PhaseOK, IndexOK, PutRecord, NoFile
  <2> QED BY <1>0, <1>3, <2>1, <2>2, OthersKept DEF WriteChunk, BlobsTypeOK
<1>4. ASSUME BodyFails(p) \/ releaseReserved(p) \/ indexBlob(p)
      PROVE FilesInv'
  <2>1. put' \in [Puts -> PutRecord] /\ onDisk' \in [Puts -> Nat \cup {NoFile}]
    BY <1>0, <1>4 DEF BodyFails, releaseReserved, indexBlob, copied, BlobsTypeOK, PutRecord, PutSteps
  <2>2. PhaseOK(p)' /\ IndexOK(p)'
    BY <1>0, <1>4 DEF BodyFails, releaseReserved, indexBlob, copied, BlobsTypeOK, PhaseOK, IndexOK, PutRecord, NoFile
  <2> QED BY <1>0, <1>4, <2>1, <2>2, OthersKept DEF BodyFails, releaseReserved, indexBlob, copied, BlobsTypeOK
<1>5. ASSUME checkFetched(p) \/ Delete(p)
      PROVE FilesInv'
  <2>1. put' \in [Puts -> PutRecord] /\ onDisk' \in [Puts -> Nat \cup {NoFile}]
    BY <1>0, <1>5 DEF checkFetched, Delete, BlobsTypeOK, PutRecord, PutSteps
  <2>2. PhaseOK(p)' /\ IndexOK(p)'
    BY <1>0, <1>5 DEF checkFetched, Delete, Remove, BlobsTypeOK, PhaseOK, IndexOK, PutRecord
  <2>3. CASE checkFetched(p)
    <3>1. \A q \in Puts \ {p} : /\ put'[q] = put[q] /\ onDisk'[q] = onDisk[q]
                                /\ q \in blobIndex' <=> q \in blobIndex
                                /\ q \in doomed' <=> q \in doomed
      BY <1>0, <2>3 DEF checkFetched, Remove, BlobsTypeOK
    <3>2. blobIndex' \subseteq Puts /\ doomed' \subseteq Puts
      BY <1>0, <2>3 DEF checkFetched, Remove, BlobsTypeOK
    <3>3. put'[p].step = "stored" /\ put'[p].size = put[p].size
      BY <1>0, <2>3 DEF checkFetched, BlobsTypeOK, PutRecord
    <3> QED BY <2>1, <2>2, <2>3, <3>1, <3>2, <3>3, OthersKept DEF checkFetched
  <2>4. CASE Delete(p)
    BY <1>0, <2>4, <2>1, <2>2, OthersKept DEF Delete, Remove, BlobsTypeOK
  <2> QED BY <1>5, <2>3, <2>4
<1>6. ASSUME Expire(p)
      PROVE FilesInv'
  BY <1>0, <1>6, OthersKept DEF Expire, BlobsTypeOK, PhaseOK, IndexOK
<1>7. ASSUME NEW F \in SUBSET {p}, removeFile(p, F) \/ removeDeleted(p, F)
      PROVE FilesInv'
  <2>1. put' \in [Puts -> PutRecord] /\ onDisk' \in [Puts -> Nat \cup {NoFile}]
    BY <1>0, <1>7 DEF removeFile, removeDeleted, RemoveFiles, BlobsTypeOK, PutRecord, PutSteps
  <2>2. PhaseOK(p)' /\ IndexOK(p)'
    BY <1>0, <1>7 DEF removeFile, removeDeleted, RemoveFiles, BlobsTypeOK, PhaseOK, IndexOK, PutRecord
  <2> QED BY <1>0, <1>7, <2>1, <2>2, OthersKept DEF removeFile, removeDeleted, RemoveFiles, BlobsTypeOK
<1> QED BY <1>1, <1>2, <1>3, <1>4, <1>5, <1>6, <1>7 DEF PutStep

LEMMA ExpiredFiles ==
    ASSUME FilesInv, NEW F \in SUBSET Puts, removeExpiredBlobs(F)
    PROVE FilesInv'
<1> DEFINE S == blobIndex \cap expired
<1>1. /\ put' = put /\ read' = read /\ doomed' = doomed /\ blobIndex' = blobIndex \ S
      /\ leftover' = leftover \cup F /\ F \subseteq S
      /\ onDisk' = [p \in Puts |-> IF p \in S \ F THEN NoFile ELSE onDisk[p]]
  BY DEF removeExpiredBlobs, RemoveFiles
<1> HIDE DEF S
<1>2. BlobsTypeOK'
  BY <1>1 DEF FilesInv, BlobsTypeOK
<1>3. ASSUME NEW p \in Puts PROVE PhaseOK(p)' /\ IndexOK(p)'
  <2>1. PhaseOK(p) /\ IndexOK(p)
    BY DEF FilesInv
  <2>2. p \in S => p \in blobIndex
    BY DEF S
  <2> QED BY <1>1, <2>1, <2>2 DEF PhaseOK, IndexOK
<1>4. ASSUME NEW r \in Readers PROVE ReaderOK(r)'
  BY <1>1 DEF FilesInv, ReaderOK
<1> QED BY <1>2, <1>3, <1>4 DEF FilesInv

LEMMA RestartFiles ==
    ASSUME FilesInv, NEW F \in SUBSET Puts, RestartStore(F)
    PROVE FilesInv'
<1>1. BlobsTypeOK'
  BY IdleTypes DEF FilesInv, BlobsTypeOK, RestartStore, RemoveFiles, PutRecord, PutSteps
<1>2. ASSUME NEW p \in Puts PROVE PhaseOK(p)' /\ IndexOK(p)'
  <2>1. PhaseOK(p) /\ IndexOK(p) /\ BlobsTypeOK
    BY DEF FilesInv
  <2>2. CASE put[p].step = "idle"
    <3>1. put'[p] = put[p] /\ onDisk'[p] = NoFile /\ blobIndex' = {} /\ doomed' = {}
      BY <2>1, <2>2 DEF RestartStore, RemoveFiles, PhaseOK
    <3> QED BY <2>1, <2>2, <3>1 DEF PhaseOK, IndexOK
  <2>3. CASE put[p].step # "idle"
    <3>1. /\ put'[p].step = "failed" /\ put'[p].chunk = 0 /\ put'[p].reserved = 0
          /\ blobIndex' = {} /\ doomed' = {} /\ (onDisk'[p] = NoFile \/ p \in leftover')
      BY <2>1, <2>3 DEF RestartStore, RemoveFiles, BlobsTypeOK, PutRecord
    <3> QED BY <3>1 DEF PhaseOK, IndexOK
  <2> QED BY <2>2, <2>3
<1>3. ASSUME NEW r \in Readers PROVE ReaderOK(r)'
  BY IdleTypes DEF RestartStore, ReaderOK
<1> QED BY <1>1, <1>2, <1>3 DEF FilesInv

LEMMA ReaderStepFiles ==
    ASSUME FilesInv, NEW r \in Readers, ReaderStep(r)
    PROVE FilesInv'
<1> USE BlobsAssumption
<1>0. UNCHANGED <<put, onDisk, blobIndex, doomed, leftover>> /\ BlobsTypeOK /\ ReaderOK(r)
  BY DEF FilesInv, ReaderStep, Lookup, FetchFile, OpenFile, ReadAnswered
<1>1. \A p \in Puts : PhaseOK(p)' /\ IndexOK(p)'
  BY <1>0 DEF FilesInv, PhaseOK, IndexOK
<1>2. read' \in [Readers -> ReadRecord] /\ ReaderOK(r)' /\ \A q \in Readers \ {r} : read'[q] = read[q]
  <2>1. ASSUME NEW p \in Puts, NEW use \in {"get", "inline", "bare"}, Lookup(r, p, use)
        PROVE  read' \in [Readers -> ReadRecord] /\ ReaderOK(r)' /\ \A q \in Readers \ {r} : read'[q] = read[q]
    <3>1. IndexOK(p)
      BY DEF FilesInv
    <3> QED BY <1>0, <2>1, <3>1 DEF Lookup, BlobsTypeOK, ReadRecord, PutRecord, ReaderOK, IndexOK
  <2>2. ASSUME NEW n \in 0..(ReadMaxBytes + 1), FetchFile(r, n)
        PROVE  read' \in [Readers -> ReadRecord] /\ ReaderOK(r)' /\ \A q \in Readers \ {r} : read'[q] = read[q]
    <3>1. read[r].id \in Puts \cup {IdleRead.id}
      BY <1>0 DEF BlobsTypeOK, ReadRecord
    <3>2. CASE n <= ReadMaxBytes
      <4>1. read' = [read EXCEPT ![r] = [step |-> "done", use |-> "web", id |-> read[r].id, size |-> n, got |-> n]]
        <5>1. capped(n).step = "done" /\ capped(n).got = n
          BY <3>2 DEF capped
        <5> QED BY <2>2, <5>1 DEF FetchFile
      <4> QED BY <1>0, <3>1, <4>1 DEF BlobsTypeOK, ReadRecord, ReaderOK
    <3>3. CASE ~(n <= ReadMaxBytes)
      <4>1. read' = [read EXCEPT ![r] = [step |-> "error", use |-> "web", id |-> read[r].id, size |-> n, got |-> ReadMaxBytes]]
        <5>1. capped(n).step = "error" /\ capped(n).got = ReadMaxBytes
          BY <3>3 DEF capped
        <5> QED BY <2>2, <5>1 DEF FetchFile
      <4> QED BY <1>0, <3>1, <4>1 DEF BlobsTypeOK, ReadRecord, ReaderOK
    <3> QED BY <3>2, <3>3
  <2>3. ASSUME OpenFile(r)
        PROVE  read' \in [Readers -> ReadRecord] /\ ReaderOK(r)' /\ \A q \in Readers \ {r} : read'[q] = read[q]
    <3>1. PhaseOK(read[r].id) /\ read[r].id \in Puts /\ put[read[r].id].step \in {"check", "stored"}
          /\ read[r].size = put[read[r].id].size
      BY <1>0, <2>3 DEF FilesInv, OpenFile, ReaderOK
    <3>2. onDisk[read[r].id] \in Nat \cup {NoFile}
      BY <1>0, <3>1 DEF BlobsTypeOK
    <3>3. onDisk[read[r].id] = NoFile \/ onDisk[read[r].id] = read[r].size
      BY <3>1 DEF PhaseOK
    <3> DEFINE d == onDisk[read[r].id]
    <3>4. PICK b \in BOOLEAN : /\ b => d # NoFile
                 /\ read' = [read EXCEPT ![r].step = IF ~b THEN "error" ELSE "done", ![r].got = IF ~b THEN 0 ELSE d]
      <4> DEFINE c == ~(d = NoFile \/ (read[r].use # "get" /\ read[r].size > ReadMaxBytes))
      <4> WITNESS c \in BOOLEAN
      <4> QED BY <2>3 DEF OpenFile
    <3> HIDE DEF d
    <3>5. d \in Nat \cup {NoFile} /\ (d # NoFile => d = read[r].size)
      BY <3>2, <3>3 DEF d
    <3>6. CASE b
      <4>1. d \in Nat /\ d = read[r].size /\ read' = [read EXCEPT ![r].step = "done", ![r].got = d]
        BY <3>4, <3>5, <3>6
      <4>2. read \in [Readers -> ReadRecord]
        BY <1>0 DEF BlobsTypeOK
      <4>3. read' \in [Readers -> ReadRecord]
        BY <4>1, <4>2, ZenonT(40) DEF ReadRecord
      <4>4. read'[r].step = "done" /\ read'[r].got = read'[r].size
        BY <4>1, <4>2 DEF ReadRecord
      <4> QED BY <4>1, <4>3, <4>4 DEF ReaderOK
    <3>7. CASE ~b
      <4>1. read' = [read EXCEPT ![r].step = "error", ![r].got = 0]
        BY <3>4, <3>7
      <4>2. read \in [Readers -> ReadRecord]
        BY <1>0 DEF BlobsTypeOK
      <4>3. read' \in [Readers -> ReadRecord]
        BY <4>1, <4>2, ZenonT(40) DEF ReadRecord
      <4>4. read'[r].step = "error"
        BY <4>1, <4>2 DEF ReadRecord
      <4> QED BY <4>1, <4>3, <4>4 DEF ReaderOK
    <3> QED BY <3>6, <3>7
  <2>4. ASSUME ReadAnswered(r)
        PROVE  read' \in [Readers -> ReadRecord] /\ ReaderOK(r)' /\ \A q \in Readers \ {r} : read'[q] = read[q]
    BY <1>0, <2>4, IdleTypes DEF ReadAnswered, BlobsTypeOK, ReaderOK
  <2> QED BY <2>1, <2>2, <2>3, <2>4 DEF ReaderStep
<1>3. ASSUME NEW q \in Readers PROVE ReaderOK(q)'
  <2>1. CASE q = r
    BY <1>2, <2>1
  <2>2. CASE q # r
    <3>1. ReaderOK(q) /\ read'[q] = read[q]
      BY <1>2, <2>2 DEF FilesInv
    <3> QED BY <1>0, <3>1 DEF ReaderOK
  <2> QED BY <2>1, <2>2
<1> QED BY <1>0, <1>1, <1>2, <1>3 DEF FilesInv, BlobsTypeOK

LEMMA FilesStep == FilesInv /\ [BlobsNext]_blobVars => FilesInv'
<1> SUFFICES ASSUME FilesInv, [BlobsNext]_blobVars PROVE FilesInv'
  OBVIOUS
<1>1. CASE BlobsNext
  BY <1>1, BlobsNextSplit, PutStepFiles, ExpiredFiles, RestartFiles, ReaderStepFiles
<1>2. CASE UNCHANGED blobVars
  BY <1>2 DEF blobVars, FilesInv, BlobsTypeOK, PhaseOK, IndexOK, ReaderOK
<1> QED BY <1>1, <1>2

\* ReadsWholeAndDiskBounded: for any uploads, readers and quotas, whoever reads a
\* blob or a file URL gets all of it or an error, and no file is larger than what
\* the quota counts for it unless it is being removed or could not be.
THEOREM ReadersGetWholeFiles == BlobsSpec => []ReadsWholeAndDiskBounded
<1>1. FilesInv => ReadsWholeAndDiskBounded
  <2> SUFFICES ASSUME FilesInv PROVE ReadsWholeAndDiskBounded
    OBVIOUS
  <2>1. \A r \in Readers : read[r].step = "done" => read[r].got = read[r].size
    BY DEF FilesInv, ReaderOK
  <2>2. ASSUME NEW p \in Puts, onDisk[p] > 0
        PROVE onDisk[p] <= chargedFor[p] \/ p \in doomed \/ put[p].step = "remove" \/ p \in leftover
    <3>1. PhaseOK(p) /\ IndexOK(p) /\ put[p] \in PutRecord /\ onDisk[p] \in Nat \cup {NoFile}
      BY DEF FilesInv, BlobsTypeOK
    <3>2. onDisk[p] # NoFile /\ onDisk[p] \in Nat
      BY <2>2, <3>1 DEF NoFile
    <3>3. put[p].step \in PutSteps /\ put[p].reserved \in Nat /\ put[p].chunk \in Nat
      BY <3>1 DEF PutRecord
    <3>4. CASE put[p].step \in {"copy", "write", "release"}
      BY <3>1, <3>3, <3>4 DEF PhaseOK, chargedFor
    <3>5. CASE put[p].step \in {"check", "stored"}
      BY <3>1, <3>2, <3>3, <3>5 DEF IndexOK, chargedFor
    <3>6. CASE put[p].step \in {"idle", "failed", "remove"}
      BY <3>1, <3>2, <3>6 DEF PhaseOK
    <3> QED BY <3>3, <3>4, <3>5, <3>6 DEF PutSteps
  <2> QED BY <2>1, <2>2 DEF ReadsWholeAndDiskBounded
<1> QED BY <1>1, FilesInitial, FilesStep, PTL DEF BlobsSpec

-----------------------------------------------------------------------------
\* The ledger: the blobs of a user, and the counters as sums.
Owned(u) == {b \in Puts : BlobOwner[b] = u}

LEMMA OwnedFinite == ASSUME NEW u PROVE IsFiniteSet(Owned(u)) /\ Owned(u) \subseteq Puts
BY BlobsAssumption, FS_Subset DEF Owned

LEMMA BytesOfIsSum == ASSUME NEW h, NEW S PROVE Ledger!BytesOf(h, S) = SumOf(h, S)
BY DEF Ledger!BytesOf, SumOf, Ledger!FoldSet, Ledger!MapThenFoldSet, MapThenFoldSet

LEMMA TotalledIsSum ==
    /\ Ledger!Totalled <=> /\ used = SumOf(chargedFor, Puts)
                           /\ usedBy = [u \in BlobUsers |-> SumOf(chargedFor, Owned(u))]
    /\ Ledger!Totalled' <=> /\ used' = SumOf(chargedFor', Puts)
                            /\ usedBy' = [u \in BlobUsers |-> SumOf(chargedFor', Owned(u))]
BY BytesOfIsSum DEF Ledger!Totalled, Ledger!Users, BlobUsers, Owned

LEMMA ChargedType ==
    /\ FilesInv => chargedFor \in [Puts -> Nat]
    /\ FilesInv' => chargedFor' \in [Puts -> Nat]
<1>1. FilesInv => chargedFor \in [Puts -> Nat]
  BY DEF FilesInv, BlobsTypeOK, chargedFor, PutRecord
<1>2. FilesInv' => chargedFor' \in [Puts -> Nat]
  BY DEF FilesInv, BlobsTypeOK, chargedFor, PutRecord
<1> QED BY <1>1, <1>2

\* The sums when one entry changes, as addLocked computes them.
LEMMA SumsAdd ==
    ASSUME NEW h \in [Puts -> Nat], NEW k \in [Puts -> Nat], NEW p \in Puts, NEW d \in Int,
           k[p] = h[p] + d, \A q \in Puts \ {p} : k[q] = h[q]
    PROVE /\ SumOf(k, Puts) = SumOf(h, Puts) + d
          /\ \A u \in BlobUsers : SumOf(k, Owned(u)) = IF u # BlobOwner[p] THEN SumOf(h, Owned(u))
                                                      ELSE kept(SumOf(h, Owned(u)) + d)
<1>0. k[p] - h[p] = d /\ \A q \in Puts \ {p} : k[q] = h[q]
  OBVIOUS
<1>1. SumOf(k, Puts) = SumOf(h, Puts) + (k[p] - h[p])
  <2>1. \A q \in Puts : h[q] \in Int /\ k[q] \in Int
    OBVIOUS
  <2>2. \A q \in Puts \ {p} : k[q] = h[q]
    BY <1>0
  <2> QED BY <2>1, <2>2, BlobsAssumption, SumChange
<1>2. ASSUME NEW u \in BlobUsers
      PROVE SumOf(k, Owned(u)) = IF u # BlobOwner[p] THEN SumOf(h, Owned(u)) ELSE kept(SumOf(h, Owned(u)) + d)
  <2>1. IsFiniteSet(Owned(u)) /\ Owned(u) \subseteq Puts
    BY OwnedFinite
  <2>2. CASE u # BlobOwner[p]
    <3>1. p \notin Owned(u)
      BY <2>2 DEF Owned
    <3>2. \A q \in Owned(u) : h[q] = k[q]
      BY <1>0, <2>1, <3>1
    <3> QED BY <2>1, <2>2, <3>2, SumSame
  <2>3. CASE u = BlobOwner[p]
    <3>1. p \in Owned(u)
      BY <2>3 DEF Owned
    <3>2. SumOf(k, Owned(u)) = SumOf(h, Owned(u)) + (k[p] - h[p])
      <4>1. \A q \in Owned(u) : h[q] \in Int /\ k[q] \in Int
        BY <2>1
      <4>2. \A q \in Owned(u) \ {p} : k[q] = h[q]
        BY <1>0, <2>1
      <4> DEFINE T == Owned(u)
      <4>3. /\ IsFiniteSet(T) /\ p \in T /\ \A q \in T : h[q] \in Int /\ k[q] \in Int
            /\ \A q \in T \ {p} : k[q] = h[q]
        BY <2>1, <3>1, <4>1, <4>2
      <4> HIDE DEF T
      <4>4. SumOf(k, T) = SumOf(h, T) + (k[p] - h[p])
        BY ONLY <4>3, SumChange
      <4> QED BY <4>4 DEF T
    <3>3. SumOf(k, Owned(u)) \in Nat
      BY <2>1, SumNat
    <3>4. SumOf(k, Owned(u)) = SumOf(h, Owned(u)) + d
      BY <1>0, <3>2
    <3>5. SumOf(h, Owned(u)) \in Nat
      BY <2>1, SumNat
    <3> QED BY <2>3, <3>3, <3>4, <3>5 DEF kept
  <2> QED BY <2>2, <2>3
<1> QED BY <1>0, <1>1, <1>2

\* The sums when the entries of D end, as removeExpired computes them.
LEMMA SumsClear ==
    ASSUME NEW h \in [Puts -> Nat], NEW k \in [Puts -> Nat], NEW D \in SUBSET Puts,
           \A q \in Puts : k[q] = IF q \in D THEN 0 ELSE h[q]
    PROVE /\ SumOf(k, Puts) = SumOf(h, Puts) - SumOf(h, D)
          /\ \A u \in BlobUsers : SumOf(k, Owned(u)) = kept(SumOf(h, Owned(u)) - SumOf(h, {q \in D : BlobOwner[q] = u}))
<1>1. SumOf(k, Puts) = SumOf(h, Puts) - SumOf(h, D)
  BY BlobsAssumption, SumClear
<1>2. ASSUME NEW u \in BlobUsers
      PROVE SumOf(k, Owned(u)) = kept(SumOf(h, Owned(u)) - SumOf(h, {q \in D : BlobOwner[q] = u}))
  <2> DEFINE E == {q \in D : BlobOwner[q] = u}
  <2>1. IsFiniteSet(Owned(u)) /\ Owned(u) \subseteq Puts
    BY OwnedFinite
  <2>2. E \in SUBSET Owned(u) /\ \A q \in Owned(u) : k[q] = IF q \in E THEN 0 ELSE h[q]
    BY DEF Owned
  <2> HIDE DEF E
  <2>3. SumOf(k, Owned(u)) = SumOf(h, Owned(u)) - SumOf(h, E)
    <3>1. \A q \in Owned(u) : h[q] \in Int
      BY <2>1
    <3> QED BY <2>1, <2>2, <3>1, SumClear
  <2>4. SumOf(k, Owned(u)) \in Nat
    BY <2>1, SumNat
  <2>5. SumOf(k, Owned(u)) = kept(SumOf(h, Owned(u)) - SumOf(h, E))
    BY <2>3, <2>4 DEF kept
  <2> QED BY <2>5 DEF E
<1> QED BY <1>1, <1>2

LEMMA CountersType ==
    ASSUME FilesInv, Ledger!Totalled
    PROVE used \in Nat /\ usedBy \in [BlobUsers -> Nat]
<1>1. chargedFor \in [Puts -> Nat]
  BY ChargedType
<1>2. SumOf(chargedFor, Puts) \in Nat
  BY <1>1, BlobsAssumption, SumNat
<1>3. \A u \in BlobUsers : SumOf(chargedFor, Owned(u)) \in Nat
  BY <1>1, OwnedFinite, SumNat
<1> QED BY <1>2, <1>3, TotalledIsSum

LEMMA OneEntry ==
    ASSUME BlobsInv, FilesInv', NEW p \in Puts, NEW d \in Int, addLocked(BlobOwner[p], d),
           chargedFor' = [chargedFor EXCEPT ![p] = chargedFor[p] + d]
    PROVE Ledger!Totalled' /\ (d <= 0 => Ledger!WithinQuota')
<1>1. chargedFor \in [Puts -> Nat] /\ chargedFor' \in [Puts -> Nat]
  BY ChargedType DEF BlobsInv
<1>2. used = SumOf(chargedFor, Puts) /\ usedBy = [u \in BlobUsers |-> SumOf(chargedFor, Owned(u))]
  BY TotalledIsSum DEF BlobsInv
<1>3. /\ SumOf(chargedFor', Puts) = SumOf(chargedFor, Puts) + d
      /\ \A u \in BlobUsers : SumOf(chargedFor', Owned(u)) =
             IF u # BlobOwner[p] THEN SumOf(chargedFor, Owned(u)) ELSE kept(SumOf(chargedFor, Owned(u)) + d)
  <2> DEFINE h == chargedFor
             k == chargedFor'
  <2>1. h \in [Puts -> Nat] /\ k \in [Puts -> Nat] /\ k[p] = h[p] + d /\ \A q \in Puts \ {p} : k[q] = h[q]
    BY <1>1
  <2> HIDE DEF h, k
  <2>2. /\ SumOf(k, Puts) = SumOf(h, Puts) + d
        /\ \A u \in BlobUsers : SumOf(k, Owned(u)) = IF u # BlobOwner[p] THEN SumOf(h, Owned(u))
                                                    ELSE kept(SumOf(h, Owned(u)) + d)
    BY ONLY <2>1, p \in Puts, d \in Int, SumsAdd
  <2> QED BY <2>2 DEF h, k
<1>4. Ledger!Totalled'
  <2>1. used' = SumOf(chargedFor', Puts)
    BY <1>2, <1>3 DEF addLocked
  <2>2. usedBy' = [u \in BlobUsers |-> SumOf(chargedFor', Owned(u))]
    BY <1>2, <1>3 DEF addLocked
  <2> QED BY <2>1, <2>2, TotalledIsSum
<1>5. ASSUME d <= 0 PROVE Ledger!WithinQuota'
  <2>1. used \in Nat /\ usedBy \in [BlobUsers -> Nat]
    BY CountersType DEF BlobsInv
  <2>2. used' <= used /\ used' \in Int /\ \A u \in BlobUsers : usedBy'[u] <= usedBy[u] /\ usedBy'[u] \in Int
    BY <1>5, <2>1 DEF addLocked, kept
  <2> QED BY <2>1, <2>2, BlobsAssumption DEF BlobsInv, Ledger!WithinQuota, Ledger!Users, BlobUsers
<1> QED BY <1>4, <1>5

\* Steps that the ledger does not see.
LEMMA Unseen ==
    ASSUME BlobsInv, chargedFor' = chargedFor, blobIndex' = blobIndex, droppedIds' = droppedIds,
           used' = used, usedBy' = usedBy
    PROVE UNCHANGED Ledger!ledgerVars /\ Ledger!Totalled' /\ Ledger!WithinQuota'
<1>1. UNCHANGED Ledger!ledgerVars
  BY DEF Ledger!ledgerVars
<1>2. Ledger!Totalled'
  BY TotalledIsSum DEF BlobsInv
<1>3. Ledger!WithinQuota'
  BY DEF BlobsInv, Ledger!WithinQuota
<1> QED BY <1>1, <1>2, <1>3

LedgerStep == [Ledger!LedgerNext]_(Ledger!ledgerVars) /\ Ledger!Totalled' /\ Ledger!WithinQuota'

LEMMA DropStep ==
    ASSUME NEW S \in SUBSET Puts, chargedFor' = [b \in Puts |-> IF b \in S THEN 0 ELSE chargedFor[b]],
           blobIndex' = blobIndex \ S, droppedIds' = droppedIds \cup S,
           Ledger!Totalled', Ledger!WithinQuota'
    PROVE LedgerStep
BY DEF LedgerStep, Ledger!LedgerNext, Ledger!Drop

\* An upload, or a blob of the index, that gives back all it is charged for.
LEMMA DropOne ==
    ASSUME BlobsInv, FilesInv', NEW p \in Puts, addLocked(BlobOwner[p], -chargedFor[p]),
           \A q \in Puts : chargedFor'[q] = IF q = p THEN 0 ELSE chargedFor[q],
           blobIndex' = blobIndex \ {p}, droppedIds' = droppedIds \cup {p}
    PROVE LedgerStep
<1> DEFINE d == -chargedFor[p]
<1>1. chargedFor \in [Puts -> Nat] /\ chargedFor' \in [Puts -> Nat]
  BY ChargedType DEF BlobsInv
<1>2. d \in Int /\ d <= 0 /\ addLocked(BlobOwner[p], d) /\ chargedFor[p] + d = 0
  BY <1>1
<1>3. chargedFor' = [chargedFor EXCEPT ![p] = 0]
  BY <1>1
<1> HIDE DEF d
<1>4. chargedFor' = [chargedFor EXCEPT ![p] = chargedFor[p] + d]
  BY <1>2, <1>3
<1>5. Ledger!Totalled' /\ Ledger!WithinQuota'
  BY <1>2, <1>4, OneEntry
<1>6. chargedFor' = [b \in Puts |-> IF b \in {p} THEN 0 ELSE chargedFor[b]]
  BY <1>1
<1> QED BY <1>5, <1>6, DropStep

LEMMA StartStep ==
    ASSUME BlobsInv, FilesInv', NEW p \in Puts, NEW fetched, NEW sized, NEW n, StartPut(p, fetched, sized, n)
    PROVE LedgerStep
<1>0. BlobsTypeOK /\ PhaseOK(p) /\ IndexOK(p)
  BY DEF BlobsInv, FilesInv
<1>1. /\ put[p] = IdlePut /\ p \notin blobIndex
      /\ put'[p].step = "copy" /\ put'[p].reserved = 0 /\ put'[p].chunk = 0
      /\ \A q \in Puts \ {p} : put'[q] = put[q]
      /\ UNCHANGED <<blobIndex, used, usedBy>>
  BY <1>0 DEF StartPut, BlobsTypeOK, PhaseOK, IndexOK
<1>2. chargedFor' = chargedFor
  BY <1>1 DEF chargedFor, IdlePut
<1>3. droppedIds' = droppedIds
  BY <1>1 DEF droppedIds, IdlePut
<1> QED BY <1>1, <1>2, <1>3, Unseen DEF LedgerStep

LEMMA ReserveStep ==
    ASSUME BlobsInv, FilesInv', NEW p \in Puts, NEW n \in 1..(UploadMaxBytes + 1), ReserveChunk(p, n)
    PROVE LedgerStep
<1> USE BlobsAssumption
<1>0. BlobsTypeOK /\ PhaseOK(p) /\ IndexOK(p)
  BY DEF BlobsInv, FilesInv
<1>1. /\ put[p].step = "copy" /\ put[p].chunk = 0 /\ put[p].reserved \in Nat /\ p \notin blobIndex
      /\ p \notin droppedIds /\ blobIndex' = blobIndex
      /\ \A q \in Puts \ {p} : put'[q] = put[q]
  BY <1>0 DEF ReserveChunk, reserve, BlobsTypeOK, PhaseOK, IndexOK, PutRecord, droppedIds
<1>2. CASE fitsLocked(BlobOwner[p], n)
  <2>1. put'[p].step = "write" /\ put'[p].chunk = n /\ put'[p].reserved = put[p].reserved
        /\ addLocked(BlobOwner[p], n)
    BY <1>0, <1>2 DEF ReserveChunk, reserve, BlobsTypeOK, PutRecord
  <2>2. chargedFor \in [Puts -> Nat] /\ chargedFor' \in [Puts -> Nat]
    BY ChargedType DEF BlobsInv
  <2>3. chargedFor[p] = put[p].reserved /\ chargedFor'[p] = put[p].reserved + n
        /\ \A q \in Puts \ {p} : chargedFor'[q] = chargedFor[q]
    BY <1>1, <2>1 DEF chargedFor
  <2>4. chargedFor' = [chargedFor EXCEPT ![p] = chargedFor[p] + n]
    BY <2>2, <2>3
  <2>5. Ledger!Totalled'
    <3>1. n \in Int
      OBVIOUS
    <3> QED BY <2>1, <2>4, <3>1, OneEntry
  <2>6. droppedIds' = droppedIds
    BY <1>1, <2>1 DEF droppedIds
  <2>7. Ledger!WithinQuota'
    <3>1. used \in Nat /\ usedBy \in [BlobUsers -> Nat]
      BY CountersType DEF BlobsInv
    <3>2. MaxTotalBytes > 0 => used' <= MaxTotalBytes
      BY <1>2, <2>1 DEF fitsLocked, addLocked
    <3>3. ASSUME MaxBytesPerUser > 0, NEW u \in BlobUsers PROVE usedBy'[u] <= MaxBytesPerUser
      <4>1. CASE u # BlobOwner[p]
        BY <2>1, <3>3, <4>1 DEF addLocked, BlobsInv, Ledger!WithinQuota, Ledger!Users, BlobUsers
      <4>2. CASE u = BlobOwner[p]
        <5>1. u # NoOwner
          BY DEF BlobUsers
        <5>2. usedBy[u] + n <= MaxBytesPerUser
          BY <1>2, <3>3, <4>2, <5>1 DEF fitsLocked
        <5>3. usedBy'[u] = kept(usedBy[u] + n)
          BY <2>1, <4>2 DEF addLocked
        <5> QED BY <3>3, <5>2, <5>3 DEF kept
      <4> QED BY <4>1, <4>2
    <3> QED BY <3>2, <3>3 DEF Ledger!WithinQuota, Ledger!Users, BlobUsers
  <2>8. Ledger!Charge(p)
    <3>1. chargedFor'[p] > chargedFor[p]
      BY <1>1, <2>3
    <3> QED BY <1>1, <2>3, <2>6, <2>7, <3>1 DEF Ledger!Charge
  <2> QED BY <2>5, <2>7, <2>8 DEF LedgerStep, Ledger!LedgerNext
<1>3. CASE ~fitsLocked(BlobOwner[p], n)
  <2>1. /\ put'[p].step = "release" /\ put'[p].chunk = put[p].chunk /\ put'[p].reserved = put[p].reserved
        /\ UNCHANGED <<used, usedBy>>
    BY <1>0, <1>3 DEF ReserveChunk, reserve, BlobsTypeOK, PutRecord
  <2>2. chargedFor' = chargedFor /\ droppedIds' = droppedIds
    BY <1>1, <2>1 DEF chargedFor, droppedIds
  <2> QED BY <1>1, <2>1, <2>2, Unseen DEF LedgerStep
<1> QED BY <1>2, <1>3

LEMMA WriteStep ==
    ASSUME BlobsInv, FilesInv', NEW p \in Puts, NEW k \in 0..(UploadMaxBytes + 1), WriteChunk(p, k)
    PROVE LedgerStep
<1> USE BlobsAssumption
<1>0. BlobsTypeOK /\ PhaseOK(p) /\ IndexOK(p)
  BY DEF BlobsInv, FilesInv
<1>1. /\ put[p].step = "write" /\ put[p].chunk \in Nat /\ put[p].reserved \in Nat /\ k <= put[p].chunk
      /\ p \notin blobIndex /\ blobIndex' = blobIndex
      /\ \A q \in Puts \ {p} : put'[q] = put[q]
      /\ put'[p].step \in {"release", "copy"} /\ put'[p].chunk = 0 /\ put'[p].reserved = put[p].reserved + k
      /\ addLocked(BlobOwner[p], k - put[p].chunk)
  BY <1>0 DEF WriteChunk, BlobsTypeOK, IndexOK, PutRecord
<1>2. chargedFor \in [Puts -> Nat] /\ chargedFor' \in [Puts -> Nat]
  BY ChargedType DEF BlobsInv
<1>3. chargedFor[p] = put[p].reserved + put[p].chunk /\ chargedFor'[p] = (put[p].reserved + k) + 0
      /\ \A q \in Puts \ {p} : chargedFor'[q] = chargedFor[q]
  BY <1>1 DEF chargedFor
<1>4. droppedIds' = droppedIds
  BY <1>1 DEF droppedIds
<1> DEFINE d == k - put[p].chunk
<1>5. d \in Int /\ d <= 0 /\ chargedFor'[p] = chargedFor[p] + d /\ addLocked(BlobOwner[p], d)
  BY <1>1, <1>3
<1> HIDE DEF d
<1>6. chargedFor' = [chargedFor EXCEPT ![p] = chargedFor[p] + d]
  BY <1>2, <1>3, <1>5
<1>7. Ledger!Totalled' /\ Ledger!WithinQuota'
  BY <1>5, <1>6, OneEntry
<1>8. Ledger!Refund(p)
  <2>1. chargedFor'[p] \in 0..chargedFor[p]
    BY <1>2, <1>5
  <2>2. chargedFor' = [chargedFor EXCEPT ![p] = chargedFor'[p]]
    BY <1>5, <1>6
  <2> QED BY <1>1, <1>4, <2>1, <2>2 DEF Ledger!Refund
<1> QED BY <1>7, <1>8 DEF LedgerStep, Ledger!LedgerNext

LEMMA BodyFailsStep ==
    ASSUME BlobsInv, FilesInv', NEW p \in Puts, BodyFails(p)
    PROVE LedgerStep
<1>0. BlobsTypeOK /\ PhaseOK(p) /\ IndexOK(p)
  BY DEF BlobsInv, FilesInv
<1>1. /\ put[p].step = "copy" /\ put'[p].step = "release" /\ UNCHANGED <<blobIndex, used, usedBy>>
      /\ put'[p].reserved = put[p].reserved /\ put'[p].chunk = put[p].chunk
      /\ \A q \in Puts \ {p} : put'[q] = put[q]
  BY <1>0 DEF BodyFails, BlobsTypeOK, PutRecord
<1>2. chargedFor' = chargedFor /\ droppedIds' = droppedIds
  BY <1>1 DEF chargedFor, droppedIds
<1> QED BY <1>1, <1>2, Unseen DEF LedgerStep

LEMMA ReleaseStep ==
    ASSUME BlobsInv, FilesInv', NEW p \in Puts, releaseReserved(p)
    PROVE LedgerStep
<1>0. BlobsTypeOK /\ PhaseOK(p) /\ IndexOK(p)
  BY DEF BlobsInv, FilesInv
<1>1. /\ put[p].step = "release" /\ put[p].chunk = 0 /\ put[p].reserved \in Nat /\ put'[p].step = "remove"
      /\ p \notin blobIndex /\ blobIndex' = blobIndex /\ \A q \in Puts \ {p} : put'[q] = put[q]
      /\ addLocked(BlobOwner[p], -put[p].reserved)
  BY <1>0 DEF releaseReserved, BlobsTypeOK, PhaseOK, IndexOK, PutRecord
<1>2. chargedFor[p] = put[p].reserved /\ \A q \in Puts : chargedFor'[q] = IF q = p THEN 0 ELSE chargedFor[q]
  BY <1>1 DEF chargedFor
<1>3. droppedIds' = droppedIds \cup {p}
  BY <1>1 DEF droppedIds
<1>4. addLocked(BlobOwner[p], -chargedFor[p])
  BY <1>1, <1>2
<1> QED BY <1>1, <1>2, <1>3, <1>4, DropOne

LEMMA IndexStep ==
    ASSUME BlobsInv, FilesInv', NEW p \in Puts, indexBlob(p)
    PROVE LedgerStep
<1>0. BlobsTypeOK /\ PhaseOK(p) /\ IndexOK(p)
  BY DEF BlobsInv, FilesInv
<1>1. /\ put[p].step = "copy" /\ put[p].chunk = 0 /\ put[p].reserved = put[p].size /\ put[p].size \in Nat
      /\ put'[p].step \in {"check", "stored"} /\ put'[p].size = put[p].size
      /\ p \notin blobIndex /\ blobIndex' = blobIndex \cup {p} /\ UNCHANGED <<used, usedBy>>
      /\ \A q \in Puts \ {p} : put'[q] = put[q]
  BY <1>0 DEF indexBlob, copied, BlobsTypeOK, PhaseOK, IndexOK, PutRecord
<1>2. chargedFor' = chargedFor
  BY <1>1 DEF chargedFor
<1>3. droppedIds' = droppedIds /\ p \notin droppedIds
  BY <1>1 DEF droppedIds
<1>4. Ledger!Totalled'
  BY <1>1, <1>2, TotalledIsSum DEF BlobsInv
<1>5. Ledger!WithinQuota'
  BY <1>1 DEF BlobsInv, Ledger!WithinQuota
<1>6. Ledger!Show(p)
  BY <1>1, <1>2, <1>3 DEF Ledger!Show
<1> QED BY <1>4, <1>5, <1>6 DEF LedgerStep, Ledger!LedgerNext

\* Delete, and the fetched file past the limit that is deleted again.
LEMMA RemoveStep ==
    ASSUME BlobsInv, FilesInv', NEW p \in Puts, Delete(p) \/ checkFetched(p)
    PROVE LedgerStep
<1>0. BlobsTypeOK /\ PhaseOK(p) /\ IndexOK(p)
  BY DEF BlobsInv, FilesInv
<1>1. /\ put[p].step \in {"check", "stored"} /\ put'[p].step \in {"check", "stored"} /\ put'[p].size = put[p].size
      /\ \A q \in Puts \ {p} : put'[q] = put[q]
      /\ Remove(p) \/ UNCHANGED <<blobIndex, used, usedBy>>
  BY <1>0 DEF Delete, checkFetched, BlobsTypeOK, PutRecord
<1>2. CASE Remove(p) /\ p \in blobIndex
  <2>1. blobIndex' = blobIndex \ {p} /\ addLocked(BlobOwner[p], -put[p].size)
    BY <1>2 DEF Remove
  <2>2. chargedFor[p] = put[p].size /\ \A q \in Puts : chargedFor'[q] = IF q = p THEN 0 ELSE chargedFor[q]
    BY <1>1, <1>2, <2>1 DEF chargedFor
  <2>3. droppedIds' = droppedIds \cup {p}
    BY <1>1, <2>1 DEF droppedIds
  <2>4. addLocked(BlobOwner[p], -chargedFor[p])
    BY <2>1, <2>2
  <2> QED BY <2>1, <2>2, <2>3, <2>4, DropOne
<1>3. CASE UNCHANGED <<blobIndex, used, usedBy>>
  <2>1. chargedFor' = chargedFor /\ droppedIds' = droppedIds
    BY <1>1, <1>3 DEF chargedFor, droppedIds
  <2> QED BY <1>3, <2>1, Unseen DEF LedgerStep
<1>4. CASE Remove(p) /\ p \notin blobIndex
  BY <1>3, <1>4 DEF Remove
<1> QED BY <1>1, <1>2, <1>3, <1>4

\* The file of a failed upload, of a deleted blob, and the end of a TTL.
LEMMA QuietStep ==
    ASSUME BlobsInv, FilesInv', NEW p \in Puts,
           Expire(p) \/ \E F \in SUBSET {p} : removeFile(p, F) \/ removeDeleted(p, F)
    PROVE LedgerStep
<1>0. BlobsTypeOK /\ PhaseOK(p) /\ IndexOK(p)
  BY DEF BlobsInv, FilesInv
<1>1. /\ UNCHANGED <<blobIndex, used, usedBy>> /\ \A q \in Puts \ {p} : put'[q] = put[q]
      /\ put'[p] = put[p] \/ (put[p].step = "remove" /\ put'[p].step = "failed")
  <2>1. CASE Expire(p)
    BY <2>1 DEF Expire
  <2>2. ASSUME NEW F \in SUBSET {p}, removeFile(p, F)
        PROVE /\ UNCHANGED <<blobIndex, used, usedBy>> /\ \A q \in Puts \ {p} : put'[q] = put[q]
              /\ put[p].step = "remove" /\ put'[p].step = "failed"
    BY <1>0, <2>2 DEF removeFile, BlobsTypeOK, PutRecord
  <2>3. ASSUME NEW F \in SUBSET {p}, removeDeleted(p, F)
        PROVE UNCHANGED <<put, blobIndex, used, usedBy>>
    BY <2>3 DEF removeDeleted
  <2> QED BY <2>1, <2>2, <2>3
<1>2. put'[p] # put[p] => p \notin blobIndex
  BY <1>0, <1>1 DEF IndexOK
<1>3. chargedFor' = chargedFor /\ droppedIds' = droppedIds
  BY <1>1, <1>2 DEF chargedFor, droppedIds
<1> QED BY <1>1, <1>3, Unseen DEF LedgerStep

LEMMA ReaderLedger ==
    ASSUME BlobsInv, NEW r \in Readers, ReaderStep(r)
    PROVE LedgerStep
<1>1. UNCHANGED <<put, blobIndex, used, usedBy>>
  BY DEF ReaderStep, Lookup, FetchFile, OpenFile, ReadAnswered
<1>2. chargedFor' = chargedFor /\ droppedIds' = droppedIds
  BY <1>1 DEF chargedFor, droppedIds
<1> QED BY <1>1, <1>2, Unseen DEF LedgerStep

LEMMA FreedIsSum ==
    ASSUME NEW sizes, NEW T PROVE MapThenSumSet(LAMBDA p : sizes[p], T) = SumOf(sizes, T)
BY DEF MapThenSumSet, SumOf, MapThenFoldSet

LEMMA ExpiredStep ==
    ASSUME BlobsInv, FilesInv', NEW F \in SUBSET Puts, removeExpiredBlobs(F)
    PROVE LedgerStep
<1> DEFINE S == blobIndex \cap expired
           sizes == [p \in Puts |-> put[p].size]
           Of(u) == {q \in S : BlobOwner[q] = u}
<1>0. BlobsTypeOK /\ \A p \in Puts : IndexOK(p)
  BY DEF BlobsInv, FilesInv
<1>1. put' = put /\ blobIndex' = blobIndex \ S
  BY DEF removeExpiredBlobs
<1>2. S \in SUBSET Puts /\ \A p \in S : put[p].step \in {"check", "stored"} /\ sizes[p] = chargedFor[p]
  BY <1>0 DEF BlobsTypeOK, IndexOK, chargedFor
<1>3. /\ used' = used - SumOf(sizes, S)
      /\ usedBy' = [u \in BlobUsers |-> kept(usedBy[u] - SumOf(sizes, Of(u)))]
  BY FreedIsSum DEF removeExpiredBlobs
<1>4. \A q \in Puts : chargedFor'[q] = IF q \in S THEN 0 ELSE chargedFor[q]
  BY <1>1, <1>2 DEF chargedFor
<1>5. droppedIds' = droppedIds \cup S
  BY <1>1, <1>2 DEF droppedIds
<1>6. chargedFor \in [Puts -> Nat] /\ chargedFor' \in [Puts -> Nat]
  BY ChargedType DEF BlobsInv
<1>7. IsFiniteSet(S) /\ \A u : IsFiniteSet(Of(u)) /\ Of(u) \subseteq S
  <2>1. IsFiniteSet(S)
    BY <1>2, BlobsAssumption, FS_Subset
  <2> HIDE DEF S
  <2>2. \A u : Of(u) \subseteq S
    OBVIOUS
  <2> HIDE DEF Of
  <2> QED BY <2>1, <2>2, FS_Subset
<1> HIDE DEF S, sizes, Of
<1>8. SumOf(sizes, S) = SumOf(chargedFor, S) /\ \A u : SumOf(sizes, Of(u)) = SumOf(chargedFor, Of(u))
  <2>1. SumOf(sizes, S) = SumOf(chargedFor, S)
    BY <1>2, <1>7, SumSame
  <2>2. ASSUME NEW u PROVE SumOf(sizes, Of(u)) = SumOf(chargedFor, Of(u))
    <3>1. IsFiniteSet(Of(u)) /\ \A p \in Of(u) : sizes[p] = chargedFor[p]
      BY <1>2, <1>7
    <3> QED BY <3>1, SumSame
  <2> QED BY <2>1, <2>2
<1>9. used = SumOf(chargedFor, Puts) /\ usedBy = [u \in BlobUsers |-> SumOf(chargedFor, Owned(u))]
  BY TotalledIsSum DEF BlobsInv
<1>10. /\ SumOf(chargedFor', Puts) = SumOf(chargedFor, Puts) - SumOf(chargedFor, S)
       /\ \A u \in BlobUsers : SumOf(chargedFor', Owned(u)) = kept(SumOf(chargedFor, Owned(u)) - SumOf(chargedFor, Of(u)))
  <2> DEFINE h == chargedFor
             k == chargedFor'
  <2>1. h \in [Puts -> Nat] /\ k \in [Puts -> Nat] /\ \A q \in Puts : k[q] = IF q \in S THEN 0 ELSE h[q]
    BY <1>4, <1>6
  <2> HIDE DEF h, k
  <2>2. /\ SumOf(k, Puts) = SumOf(h, Puts) - SumOf(h, S)
        /\ \A u \in BlobUsers : SumOf(k, Owned(u)) = kept(SumOf(h, Owned(u)) - SumOf(h, {q \in S : BlobOwner[q] = u}))
    BY ONLY <1>2, <2>1, SumsClear
  <2> QED BY <2>2 DEF h, k, Of
<1>11. Ledger!Totalled'
  <2>1. used' = SumOf(chargedFor', Puts)
    BY <1>3, <1>8, <1>9, <1>10
  <2>2. usedBy' = [u \in BlobUsers |-> SumOf(chargedFor', Owned(u))]
    BY <1>3, <1>8, <1>9, <1>10
  <2> QED BY <2>1, <2>2, TotalledIsSum
<1>12. Ledger!WithinQuota'
  <2>1. used \in Nat /\ usedBy \in [BlobUsers -> Nat]
    BY CountersType DEF BlobsInv
  <2>2. SumOf(sizes, S) \in Nat /\ \A u : SumOf(sizes, Of(u)) \in Nat
    <3>1. SumOf(chargedFor, S) \in Nat
      BY <1>2, <1>6, <1>7, SumNat
    <3>2. ASSUME NEW u PROVE SumOf(chargedFor, Of(u)) \in Nat
      <4>1. IsFiniteSet(Of(u)) /\ \A p \in Of(u) : chargedFor[p] \in Nat
        BY <1>2, <1>6, <1>7
      <4> QED BY <4>1, SumNat
    <3> QED BY <1>8, <3>1, <3>2
  <2>3. used' <= used /\ used' \in Int
    BY <1>3, <2>1, <2>2
  <2>4. ASSUME NEW u \in BlobUsers PROVE usedBy'[u] <= usedBy[u] /\ usedBy'[u] \in Int
    <3>1. usedBy'[u] = kept(usedBy[u] - SumOf(sizes, Of(u))) /\ usedBy[u] \in Nat /\ SumOf(sizes, Of(u)) \in Nat
      BY <1>3, <2>1, <2>2
    <3> QED BY <3>1 DEF kept
  <2> QED BY <2>1, <2>3, <2>4, BlobsAssumption DEF BlobsInv, Ledger!WithinQuota, Ledger!Users, BlobUsers
<1>13. chargedFor' = [b \in Puts |-> IF b \in S THEN 0 ELSE chargedFor[b]]
  BY <1>4, <1>6
<1> QED BY <1>1, <1>2, <1>5, <1>11, <1>12, <1>13, DropStep

\* Nothing is charged for.
LEMMA NothingCharged ==
    ASSUME NEW h, \A p \in Puts : h[p] = 0
    PROVE SumOf(h, Puts) = 0 /\ \A u \in BlobUsers : SumOf(h, Owned(u)) = 0
<1>1. ASSUME NEW T \in SUBSET Puts PROVE SumOf(h, T) = 0
  <2>1. IsFiniteSet(T)
    BY BlobsAssumption, FS_Subset
  <2>2. \A y \in T : h[y] \in Int /\ h[y] = IF y \in T THEN 0 ELSE h[y]
    OBVIOUS
  <2>3. SumOf(h, T) = SumOf(h, T) - SumOf(h, T)
    <3>1. T \in SUBSET T /\ (\A y \in T : h[y] \in Int) /\ (\A y \in T : h[y] = IF y \in T THEN 0 ELSE h[y])
      BY <2>2
    <3> QED BY ONLY <2>1, <3>1, SumClear
  <2>4. SumOf(h, T) \in Int
    BY <2>1, <2>2, SumInt
  <2> QED BY <2>3, <2>4
<1> QED BY <1>1, OwnedFinite

LEMMA RestartLedger ==
    ASSUME BlobsInv, FilesInv', NEW F \in SUBSET Puts, RestartStore(F)
    PROVE LedgerStep
<1> DEFINE S == {p \in Puts : put[p].step # "idle"}
<1>0. BlobsTypeOK /\ \A p \in Puts : PhaseOK(p) /\ IndexOK(p)
  BY DEF BlobsInv, FilesInv
<1>1. \A p \in Puts : put'[p].step = IF p \in S THEN "failed" ELSE "idle"
  BY <1>0 DEF RestartStore, BlobsTypeOK, PutRecord
<1>2. blobIndex' = {} /\ used' = 0 /\ usedBy' = [u \in BlobUsers |-> 0]
  BY DEF RestartStore
<1>3. \A p \in Puts : chargedFor'[p] = 0 /\ (p \notin S => chargedFor[p] = 0)
  BY <1>0, <1>1, <1>2 DEF chargedFor, PhaseOK, IndexOK
<1>4. droppedIds' = droppedIds \cup S
  BY <1>1, <1>2 DEF droppedIds
<1>5. blobIndex' = blobIndex \ S
  BY <1>0, <1>2 DEF IndexOK, BlobsTypeOK
<1>6. Ledger!Totalled'
  <2>1. SumOf(chargedFor', Puts) = 0 /\ \A u \in BlobUsers : SumOf(chargedFor', Owned(u)) = 0
    BY <1>3, NothingCharged
  <2> QED BY <1>2, <2>1, TotalledIsSum
<1>7. Ledger!WithinQuota'
  BY <1>2, BlobsAssumption DEF Ledger!WithinQuota, Ledger!Users, BlobUsers
<1>8. chargedFor' = [b \in Puts |-> IF b \in S THEN 0 ELSE chargedFor[b]]
  BY <1>3 DEF chargedFor
<1> QED BY <1>4, <1>5, <1>6, <1>7, <1>8, DropStep

LEMMA LedgerInitial == BlobsInit => Ledger!LedgerInit /\ BlobsInv
<1> SUFFICES ASSUME BlobsInit PROVE Ledger!LedgerInit /\ BlobsInv
  OBVIOUS
<1>1. chargedFor = [p \in Puts |-> 0] /\ droppedIds = {}
  BY DEF BlobsInit, chargedFor, droppedIds, IdlePut
<1>2. SumOf(chargedFor, Puts) = 0 /\ \A u \in BlobUsers : SumOf(chargedFor, Owned(u)) = 0
  BY <1>1, NothingCharged
<1>3. Ledger!Totalled
  BY <1>2, TotalledIsSum DEF BlobsInit
<1>4. Ledger!WithinQuota
  BY BlobsAssumption DEF BlobsInit, Ledger!WithinQuota, Ledger!Users, BlobUsers
<1>5. Ledger!LedgerInit
  BY <1>1, <1>3 DEF Ledger!LedgerInit, BlobsInit
<1> QED BY <1>3, <1>4, <1>5, FilesInitial DEF BlobsInv

LEMMA LedgerNextStep ==
    BlobsInv /\ [BlobsNext]_blobVars => BlobsInv' /\ [Ledger!LedgerNext]_(Ledger!ledgerVars)
<1> SUFFICES ASSUME BlobsInv, [BlobsNext]_blobVars PROVE BlobsInv' /\ LedgerStep
  BY DEF LedgerStep
<1>1. FilesInv'
  BY FilesStep DEF BlobsInv
<1>2. CASE UNCHANGED blobVars
  <2>1. chargedFor' = chargedFor /\ droppedIds' = droppedIds
    BY <1>2 DEF blobVars, chargedFor, droppedIds
  <2>2. LedgerStep
    BY <1>2, <2>1, Unseen DEF LedgerStep, blobVars
  <2> QED BY <1>1, <2>2 DEF BlobsInv, LedgerStep
<1>3. ASSUME NEW p \in Puts, PutStep(p) PROVE LedgerStep
  BY <1>1, <1>3, StartStep, ReserveStep, WriteStep, BodyFailsStep, ReleaseStep, IndexStep, RemoveStep, QuietStep
  DEF PutStep
<1>4. CASE BlobsNext
  <2>1. LedgerStep
    BY <1>1, <1>3, <1>4, BlobsNextSplit, ExpiredStep, RestartLedger, ReaderLedger
  <2> QED BY <1>1, <2>1 DEF BlobsInv, LedgerStep
<1> QED BY <1>2, <1>4

\* StoreKeepsLedger: for any uploads, owners, quotas and failures the store's
\* counters are the sums of what the blobs are charged for, a chunk is accepted
\* only within the quotas, and every byte is given back exactly once; the steps
\* of the store are steps of the ledger or are not seen by it.
THEOREM StoreImplementsLedger == BlobsSpec => StoreKeepsLedger
BY LedgerInitial, LedgerNextStep, PTL DEF BlobsSpec, StoreKeepsLedger, Ledger!LedgerSpec

\* The quotas of the file broker hold in every state.
THEOREM QuotasHold == BlobsSpec => []BlobsInv
BY LedgerInitial, LedgerNextStep, PTL DEF BlobsSpec
=============================================================================
