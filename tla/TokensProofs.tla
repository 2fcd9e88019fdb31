---------------------------- MODULE TokensProofs ----------------------------
(***************************************************************************)
(* Theorems about the OAuth store for any number of codes, pairs, requests *)
(* in flight, restarts and failures.  Base is what always holds, whatever  *)
(* fails; the three properties each hold under the failures they exclude,  *)
(* from what they need of the two stores: what a restart can bring back is *)
(* still in the file store (DiskFollows), the tokens that must be there    *)
(* (SurviveInv), the access tokens that were replaced (EndedInv) and the   *)
(* codes and refresh tokens that were used (UsedInv).                      *)
(***************************************************************************)
EXTENDS Tokens, TLAPS

Stores == [codes : SUBSET Codes, access : SUBSET Pairs, refresh : SUBSET Pairs]

\* A request has consumed its code or refresh token and has no pair yet.
Holding == {"sync", "check", "deletePrimary", "access"}
\* It has drawn its pair.
Pairing == {"accessPrimary", "refresh", "refreshPrimary", "answer"}
\* Its next command is one of Redis, or follows one.
OfRedis == {"consume", "sync", "deletePrimary", "accessPrimary", "refreshPrimary"}

ReqRecs == [pc : {"idle", "consume", "fallback"} \cup Holding \cup Pairing,
            src : Codes \cup Pairs \cup {None}, pair : Pairs \cup {None}]

Types ==
    /\ hybrid \in BOOLEAN /\ raced \in BOOLEAN
    /\ primary \in Stores /\ file \in Stores /\ disk \in Stores /\ disk.codes = {}
    /\ stage \in [Codes \cup Pairs -> Nat]
    /\ req \in [Reqs -> ReqRecs]
    /\ given \subseteq drawn /\ drawn \subseteq Codes \cup Pairs
    /\ from \in [Pairs -> Codes \cup Pairs \cup {None}]

Requests ==
    \A r \in Reqs :
        /\ req[r].pc # "idle" => req[r].src \in given
        /\ req[r].pc \in Holding \cup Pairing => req[r].src \in spent
        /\ req[r].pc \in {"deletePrimary", "access"} => req[r].src \in Pairs
        /\ req[r].pc \in Pairing => req[r].pair \in (Pairs \cap drawn) \ given /\ from[req[r].pair] = req[r].src
        /\ req[r].pc \in OfRedis => hybrid

PairsApart ==
    \A r, s \in Reqs : req[r].pc \in Pairing /\ req[s].pc \in Pairing /\ r # s => req[r].pair # req[s].pair

Base ==
    /\ Types /\ Requests /\ PairsApart
    /\ \A x \in (Codes \cup Pairs) \ given : stage[x] = 0
    /\ \A p \in drawn \cap Pairs : from[p] \in given

\* saveState, loadState: what a restart reads is in the file store now.
DiskFollows ==
    "disk" \notin lapses =>
        /\ \A p \in disk.access : stage[p] = 0 => p \in file.access
        /\ \A p \in disk.refresh : stage[p] < 2 => p \in file.refresh

\* The pairs whose tokens must be there: answered and not exchanged, or about
\* to be answered.
LiveAccess == ((given \cap Pairs) \ spent) \cup {req[r].pair : r \in {s \in Reqs : req[s].pc \in Pairing}}
LiveRefresh == ((given \cap Pairs) \ spent) \cup {req[r].pair : r \in {s \in Reqs : req[s].pc \in {"refreshPrimary", "answer"}}}

SurviveInv ==
    "disk" \notin lapses =>
        /\ \A p \in LiveAccess : stage[p] = 0 => p \in file.access /\ p \in disk.access
        /\ \A p \in LiveRefresh : stage[p] < 2 => p \in file.refresh /\ p \in disk.refresh

\* While Redis neither comes nor goes it is empty or in use.
RedisUsed == "away" \notin lapses /\ ~hybrid => primary = Empty

\* The pairs that were replaced: the access token is in neither store.
EndedInv ==
    lapses \cap {"delete", "disk", "away"} = {} =>
        /\ \A p \in drawn \cap Pairs : from[p] \in Pairs => from[p] \notin file.access /\ from[p] \notin primary.access
        /\ \A r \in Reqs :
              /\ req[r].pc \in {"deletePrimary", "access"} \cup Pairing => req[r].src \notin file.access
              /\ req[r].pc \in {"access"} \cup Pairing => req[r].src \notin primary.access

\* A store has a code or refresh token.
Has(store, x) == x \in store.codes \cup store.refresh

\* A code or refresh token was exchanged, or is about to be.
Used(x) ==
    \/ \E r \in Reqs : req[r].pc \in Holding /\ req[r].src = x
    \/ \E p \in drawn \cap Pairs : from[p] = x

UsedInv ==
    ~raced /\ lapses \cap {"consume", "disk", "away"} = {} =>
        /\ \A x \in given : Used(x) =>
              /\ ~Has(primary, x)
              /\ Has(file, x) => InWindow(x)
        /\ \A r, s \in Reqs : req[r].pc \in Holding /\ req[s].pc \in Holding /\ req[r].src = req[s].src => r = s
        /\ \A r \in Reqs, p \in drawn \cap Pairs : req[r].pc \in Holding => from[p] # req[r].src
        /\ \A p, q \in drawn \cap Pairs : from[p] = from[q] => p = q
        /\ \A r \in Reqs : req[r].pc = "fallback" => ~Has(primary, req[r].src)

-----------------------------------------------------------------------------
(* What the operators of the model do to a store.                          *)

LEMMA KeptFacts ==
    ASSUME TokensAssumption, NEW f \in Stores, NEW x \in Codes \cup Pairs
    PROVE  /\ x \in f[Kept(x)] <=> Has(f, x)
           /\ x \in Codes => Kept(x) = "codes" /\ f[Kept(x)] = f.codes /\ x \notin Pairs
           /\ x \in Pairs => Kept(x) = "refresh" /\ f[Kept(x)] = f.refresh /\ x \notin Codes
BY DEF TokensAssumption, Kept, Stores, Has

LEMMA WithoutFacts ==
    ASSUME TokensAssumption, NEW f \in Stores, NEW x \in Codes \cup Pairs
    PROVE  /\ Without(f, x) \in Stores /\ Without(f, x).access = f.access
           /\ Without(f, x).codes = f.codes \ {x} /\ Without(f, x).refresh = f.refresh \ {x}
<1>1. CASE x \in Codes
    <2>1. x \notin Pairs /\ Without(f, x) = [f EXCEPT !.codes = @ \ {x}]
        BY <1>1, KeptFacts DEF Without
    <2> QED BY <2>1 DEF Stores
<1>2. CASE x \in Pairs
    <2>1. x \notin Codes /\ Without(f, x) = [f EXCEPT !.refresh = @ \ {x}]
        BY <1>2, KeptFacts DEF Without
    <2> QED BY <2>1 DEF Stores
<1> QED BY <1>1, <1>2

LEMMA FreshFacts ==
    ASSUME NEW f \in Stores
    PROVE  /\ Fresh(f) \in Stores /\ Fresh(f).access = {p \in f.access : stage[p] = 0}
           /\ Fresh(f).codes = {c \in f.codes : stage[c] = 0} /\ Fresh(f).refresh = {p \in f.refresh : stage[p] < 2}
BY DEF Fresh, Stores

\* The file is written, or its failure is remembered.
LEMMA SaveFacts ==
    ASSUME NEW f \in Stores, saveState(f), disk \in Stores, disk.codes = {}
    PROVE  /\ disk' \in Stores /\ disk'.codes = {} /\ lapses \subseteq lapses'
           /\ "disk" \notin lapses' => disk'.access = f.access /\ disk'.refresh = f.refresh
BY DEF saveState, Lapse, Stores

LEMMA AddFacts ==
    ASSUME NEW f \in Stores
    PROVE  /\ \A p \in Pairs : LET g == [f EXCEPT !.access = @ \cup {p}] IN
                 g \in Stores /\ g.access = f.access \cup {p} /\ g.codes = f.codes /\ g.refresh = f.refresh
           /\ \A p \in Pairs : LET g == [f EXCEPT !.refresh = @ \cup {p}] IN
                 g \in Stores /\ g.refresh = f.refresh \cup {p} /\ g.codes = f.codes /\ g.access = f.access
           /\ \A c \in Codes : LET g == [f EXCEPT !.codes = @ \cup {c}] IN
                 g \in Stores /\ g.codes = f.codes \cup {c} /\ g.access = f.access /\ g.refresh = f.refresh
           /\ \A p : LET g == [f EXCEPT !.access = @ \ {p}] IN
                 g \in Stores /\ g.access = f.access \ {p} /\ g.codes = f.codes /\ g.refresh = f.refresh
BY DEF Stores

\* Empty has nothing.
LEMMA EmptyFacts == Empty \in Stores /\ Empty.codes = {} /\ Empty.access = {} /\ Empty.refresh = {}
BY DEF Empty, Stores

\* The next place of a request.
LEMMA MoveFacts ==
    ASSUME Types, NEW r \in Reqs
    PROVE  /\ \A pc \in {"idle", "consume", "fallback"} \cup Holding \cup Pairing : To(r, pc) =>
                 /\ req' \in [Reqs -> ReqRecs]
                 /\ req'[r].pc = pc /\ req'[r].src = req[r].src /\ req'[r].pair = req[r].pair
                 /\ \A s \in Reqs \ {r} : req'[s] = req[s]
           /\ End(r) =>
                 /\ req' \in [Reqs -> ReqRecs]
                 /\ req'[r].pc = "idle"
                 /\ \A s \in Reqs \ {r} : req'[s] = req[s]
BY DEF Types, To, End, NoReq, ReqRecs

-----------------------------------------------------------------------------
LEMMA BaseInit == TokensAssumption /\ Init => Base
<1> SUFFICES ASSUME TokensAssumption, Init PROVE Base
    OBVIOUS
<1>1. Types
    BY EmptyFacts DEF Init, Types, NoReq, ReqRecs
<1>2. \A r \in Reqs : req[r].pc = "idle"
    BY DEF Init, NoReq
<1>3. Requests /\ PairsApart
    BY <1>2 DEF Requests, PairsApart, Holding, Pairing, OfRedis
<1> QED BY <1>1, <1>3 DEF Base, Init

\* All of it: what every step keeps.
Full == Base /\ DiskFollows /\ SurviveInv /\ RedisUsed /\ EndedInv /\ UsedInv

LEMMA AuthorizeKeeps ==
    ASSUME TokensAssumption, Full, NEW c \in Codes, Authorize(c)
    PROVE  Full'
<1>0. Types /\ Requests /\ PairsApart /\ Base
    BY DEF Full, Base
<1>1. /\ c \notin drawn /\ drawn' = drawn \cup {c} /\ given' = given \cup {c} /\ c \notin Pairs /\ c \notin given
      /\ UNCHANGED <<hybrid, disk, stage, req, lapses, restarts, from, spent, raced>>
    BY <1>0 DEF Authorize, history, TokensAssumption, Types, ReqRecs
<1>2. /\ file' \in Stores /\ file'.codes = file.codes \cup {c} /\ file'.access = file.access /\ file'.refresh = file.refresh
      /\ primary' \in Stores /\ primary'.codes \subseteq primary.codes \cup {c} /\ primary'.access = primary.access
      /\ primary'.refresh = primary.refresh /\ (~hybrid => primary' = primary)
    BY <1>0, AddFacts DEF Authorize, Types, ReqRecs
<1>3. Base'
    <2>1. Types'
        BY <1>0, <1>1, <1>2 DEF Types, ReqRecs
    <2>2. Requests' /\ PairsApart'
        BY <1>0, <1>1 DEF Requests, PairsApart, Types, ReqRecs
    <2> QED BY <1>0, <1>1, <2>1, <2>2 DEF Base
<1>4. DiskFollows'
    BY <1>1, <1>2 DEF DiskFollows, Full
<1>5. SurviveInv'
    BY <1>1, <1>2 DEF SurviveInv, Full, LiveAccess, LiveRefresh
<1>6. RedisUsed'
    BY <1>1, <1>2 DEF RedisUsed, Full
<1>7. EndedInv'
    BY <1>1, <1>2 DEF EndedInv, Full
<1>8. UsedInv'
    <2>1. ~Used(c)
        BY <1>0, <1>1 DEF Used, Base, Requests, Types, Holding, ReqRecs
    <2>2. \A x : Used(x)' <=> Used(x)
        BY <1>0, <1>1 DEF Used
    <2>3. \A r \in Reqs : req[r].pc = "fallback" => req[r].src # c
        BY <1>0, <1>1 DEF Requests
    <2>4. \A x : x # c => (Has(primary, x)' => Has(primary, x)) /\ (Has(file, x)' => Has(file, x))
        BY <1>2 DEF Has
    <2>5. \A x : InWindow(x)' <=> InWindow(x)
        BY <1>1 DEF InWindow
    <2> QED BY <1>0, <1>1, <2>1, <2>2, <2>3, <2>4, <2>5 DEF UsedInv, Full
<1> QED BY <1>3, <1>4, <1>5, <1>6, <1>7, <1>8 DEF Full

\* No request and no pair comes to hold a code or refresh token.
LEMMA UsedKept ==
    ASSUME Full, lapses \subseteq lapses', raced => raced', UNCHANGED from, drawn' \cap Pairs = drawn \cap Pairs,
           \A r \in Reqs :
              /\ req'[r].pc \in Holding => req[r].pc \in Holding /\ req'[r].src = req[r].src
              /\ req'[r].pc = "sync" <=> req[r].pc = "sync"
              /\ req'[r].pc = "fallback" => req[r].pc = "fallback" /\ req'[r].src = req[r].src,
           \A x \in given : (Has(file, x)' => Has(file, x)) /\ (Has(primary, x)' => Has(primary, x))
    PROVE  UsedInv'
<1>1. Types /\ Requests /\ \A p \in drawn \cap Pairs : from[p] \in given
    BY DEF Full, Base
<1>2. \A x : Used(x)' => Used(x) /\ x \in given
    BY <1>1 DEF Used, Requests, Holding
<1>3. \A r \in Reqs : req'[r].pc = "sync" => req'[r].src = req[r].src
    BY DEF Holding
<1>4. \A x : InWindow(x) => InWindow(x)'
    BY <1>3 DEF InWindow
<1>5. \A r \in Reqs : req[r].pc = "fallback" => req[r].src \in given
    BY <1>1 DEF Requests
<1> SUFFICES ASSUME ~raced', lapses' \cap {"consume", "disk", "away"} = {}
             PROVE  /\ \A x \in given' : Used(x)' => ~Has(primary, x)' /\ (Has(file, x)' => InWindow(x)')
                    /\ \A r, s \in Reqs : req'[r].pc \in Holding /\ req'[s].pc \in Holding /\ req'[r].src = req'[s].src => r = s
                    /\ \A r \in Reqs, p \in drawn' \cap Pairs : req'[r].pc \in Holding => from'[p] # req'[r].src
                    /\ \A p, q \in drawn' \cap Pairs : from'[p] = from'[q] => p = q
                    /\ \A r \in Reqs : req'[r].pc = "fallback" => ~Has(primary, req[r].src)'
    BY DEF UsedInv
<1>6. /\ \A x \in given : Used(x) => ~Has(primary, x) /\ (Has(file, x) => InWindow(x))
      /\ \A r, s \in Reqs : req[r].pc \in Holding /\ req[s].pc \in Holding /\ req[r].src = req[s].src => r = s
      /\ \A r \in Reqs, p \in drawn \cap Pairs : req[r].pc \in Holding => from[p] # req[r].src
      /\ \A p, q \in drawn \cap Pairs : from[p] = from[q] => p = q
      /\ \A r \in Reqs : req[r].pc = "fallback" => ~Has(primary, req[r].src)
    BY DEF UsedInv, Full
<1>7. \A x \in given' : Used(x)' => ~Has(primary, x)' /\ (Has(file, x)' => InWindow(x)')
    BY <1>2, <1>4, <1>6
<1>8. /\ \A r, s \in Reqs : req'[r].pc \in Holding /\ req'[s].pc \in Holding /\ req'[r].src = req'[s].src => r = s
      /\ \A r \in Reqs, p \in drawn' \cap Pairs : req'[r].pc \in Holding => from'[p] # req'[r].src
      /\ \A p, q \in drawn' \cap Pairs : from'[p] = from'[q] => p = q
    BY <1>6
<1>9. \A r \in Reqs : req'[r].pc = "fallback" => ~Has(primary, req[r].src)'
    <2> SUFFICES ASSUME NEW r \in Reqs, req'[r].pc = "fallback" PROVE ~(Has(primary, req[r].src)')
        OBVIOUS
    <2>1. req[r].pc = "fallback" /\ req'[r].src = req[r].src /\ req[r].src \in given
        BY <1>5
    <2>2. ~Has(primary, req[r].src)
        BY <1>6, <2>1
    <2> QED BY <2>1, <2>2 DEF Has
<1> QED BY <1>7, <1>8, <1>9

\* No access token that was given comes back, and no request gets past the
\* deletion of one.
LEMMA EndedKept ==
    ASSUME Full, lapses \subseteq lapses', UNCHANGED from, drawn' \cap Pairs = drawn \cap Pairs,
           file'.access \cap given \subseteq file.access, primary'.access \cap given \subseteq primary.access,
           \A r \in Reqs : req'[r].pc \in {"deletePrimary", "access"} \cup Pairing =>
              /\ req[r].pc \in {"deletePrimary", "access"} \cup Pairing /\ req'[r].src = req[r].src
              /\ req'[r].pc # "deletePrimary" => req[r].pc # "deletePrimary"
    PROVE  EndedInv'
<1>1. Types /\ Requests /\ \A p \in drawn \cap Pairs : from[p] \in given
    BY DEF Full, Base
<1>2. \A r \in Reqs : req[r].pc \in {"deletePrimary", "access"} \cup Pairing => req[r].src \in given
    BY <1>1 DEF Requests, Pairing
<1> QED BY <1>1, <1>2 DEF EndedInv, Full, Pairing

LEMMA RefuseKeeps ==
    ASSUME TokensAssumption, Full, NEW r \in Reqs, Refuse(r)
    PROVE  Full'
<1>0. Types /\ Requests /\ PairsApart /\ Base
    BY DEF Full, Base
<1>1. UNCHANGED <<hybrid, primary, file, disk, stage, drawn, given, lapses, from, spent, raced>> /\ End(r) /\ req[r].pc = "check"
    BY DEF Refuse, history
<1>2. req'[r].pc = "idle" /\ \A s \in Reqs \ {r} : req'[s] = req[s]
    BY <1>0, <1>1, MoveFacts
<1>3. Base'
    <2>1. Types'
        BY <1>0, <1>1, MoveFacts DEF Types, ReqRecs
    <2>2. Requests'
        BY <1>0, <1>1, <1>2 DEF Requests, Holding, Pairing, OfRedis, Types, ReqRecs
    <2>3. PairsApart'
        BY <1>0, <1>1, <1>2 DEF PairsApart, Pairing, Holding, Requests, Types, ReqRecs
    <2>4. \A x \in (Codes \cup Pairs) \ given' : stage'[x] = 0
        BY <1>0, <1>1, <1>2 DEF Base, Types, ReqRecs
    <2>5. \A p \in drawn' \cap Pairs : from'[p] \in given'
        BY <1>0, <1>1, <1>2 DEF Base
    <2> QED BY <2>1, <2>2, <2>3, <2>4, <2>5 DEF Base
<1>4. DiskFollows'
    BY <1>0, <1>1, <1>2 DEF DiskFollows, Full, Types, ReqRecs
<1>5. SurviveInv'
    BY <1>0, <1>1, <1>2 DEF SurviveInv, Full, LiveAccess, LiveRefresh, Requests, Types, Pairing, Holding, ReqRecs
<1>6. RedisUsed'
    BY <1>0, <1>1, <1>2 DEF RedisUsed, Full, Requests, OfRedis
<1>7. EndedInv'
    BY <1>0, <1>1, <1>2, EndedKept DEF Pairing, Full
<1>8. UsedInv'
    BY <1>0, <1>1, <1>2, UsedKept DEF Has, Holding, Pairing
<1> QED BY <1>3, <1>4, <1>5, <1>6, <1>7, <1>8 DEF Full

LEMMA AnswerKeeps ==
    ASSUME TokensAssumption, Full, NEW r \in Reqs, Answer(r)
    PROVE  Full'
<1>0. Types /\ Requests /\ PairsApart /\ Base
    BY DEF Full, Base
<1>1. /\ UNCHANGED <<hybrid, primary, file, disk, stage, drawn, lapses, from, spent, raced>> /\ End(r)
      /\ req[r].pc = "answer" /\ given' = given \cup {req[r].pair}
    BY DEF Answer, history
<1>2. req'[r].pc = "idle" /\ \A s \in Reqs \ {r} : req'[s] = req[s]
    BY <1>0, <1>1, MoveFacts
<1>3. req[r].pair \in (Pairs \cap drawn) \ given /\ from[req[r].pair] = req[r].src
    BY <1>0, <1>1 DEF Requests, Pairing
<1>4. Base'
    <2>1. Types'
        BY <1>0, <1>1, <1>3, MoveFacts DEF Types, ReqRecs
    <2>2. Requests'
        BY <1>0, <1>1, <1>2, <1>3 DEF Requests, PairsApart, Holding, Pairing, OfRedis, Types, ReqRecs
    <2>3. PairsApart'
        BY <1>0, <1>1, <1>2, <1>3 DEF PairsApart, Pairing, Holding, Requests, Types, ReqRecs
    <2>4. \A x \in (Codes \cup Pairs) \ given' : stage'[x] = 0
        BY <1>0, <1>1, <1>2, <1>3 DEF Base, Types, ReqRecs
    <2>5. \A p \in drawn' \cap Pairs : from'[p] \in given'
        BY <1>0, <1>1, <1>2, <1>3 DEF Base
    <2> QED BY <2>1, <2>2, <2>3, <2>4, <2>5 DEF Base
<1>5. DiskFollows'
    BY <1>0, <1>1, <1>2, <1>3 DEF DiskFollows, Full, Types, ReqRecs
<1>6. SurviveInv'
    BY <1>0, <1>1, <1>2, <1>3 DEF SurviveInv, Full, LiveAccess, LiveRefresh, Requests, Types, Pairing, Holding, ReqRecs
<1>7. RedisUsed'
    BY <1>0, <1>1, <1>2, <1>3 DEF RedisUsed, Full, Requests, OfRedis
<1>8. EndedInv'
    BY <1>0, <1>1, <1>2, <1>3, EndedKept DEF Pairing, Full
<1>9. UsedInv'
    BY <1>0, <1>1, <1>2, <1>3, UsedKept DEF Has, Holding, Pairing
<1> QED BY <1>4, <1>5, <1>6, <1>7, <1>8, <1>9 DEF Full

LEMMA AgeKeeps ==
    ASSUME TokensAssumption, Full, NEW x \in Codes \cup Pairs, Age(x)
    PROVE  Full'
<1>0. Types /\ Requests /\ PairsApart /\ Base
    BY DEF Full, Base
<1>1. /\ UNCHANGED <<hybrid, primary, file, disk, req, drawn, given, lapses, from, spent, raced>>
      /\ x \in given /\ stage' = [stage EXCEPT ![x] = @ + 1]
    BY DEF Age, history
<1>2. stage' \in [Codes \cup Pairs -> Nat] /\ stage'[x] = stage[x] + 1 /\ \A y \in (Codes \cup Pairs) \ {x} : stage'[y] = stage[y]
    BY <1>0, <1>1 DEF Types, ReqRecs
<1>3. \A y \in Codes \cup Pairs : (stage'[y] = 0 => stage[y] = 0) /\ (stage'[y] < 2 => stage[y] < 2)
    BY <1>0, <1>2 DEF Types, ReqRecs
<1>4. \A p : p \in file.access \cup file.refresh \cup disk.access \cup disk.refresh \cup LiveAccess \cup LiveRefresh => p \in Codes \cup Pairs
    BY <1>0 DEF Types, Stores, LiveAccess, LiveRefresh, Requests, Pairing, ReqRecs
<1>5. Base'
    <2>1. Types'
        BY <1>0, <1>1, <1>2, <1>3, <1>4 DEF Types, Holding, Pairing, ReqRecs
    <2>2. Requests'
        BY <1>0, <1>1, <1>2, <1>3, <1>4 DEF Requests, Holding, Pairing, OfRedis, Types, ReqRecs
    <2>3. PairsApart'
        BY <1>0, <1>1, <1>2, <1>3, <1>4 DEF PairsApart, Pairing, Holding, Requests, Types, ReqRecs
    <2>4. \A y \in (Codes \cup Pairs) \ given' : stage'[y] = 0
        BY <1>0, <1>1, <1>2, <1>3, <1>4 DEF Base, Types, ReqRecs
    <2>5. \A p \in drawn' \cap Pairs : from'[p] \in given'
        BY <1>0, <1>1, <1>2, <1>3, <1>4 DEF Base
    <2> QED BY <2>1, <2>2, <2>3, <2>4, <2>5 DEF Base
<1>6. DiskFollows'
    BY <1>0, <1>1, <1>2, <1>3, <1>4 DEF DiskFollows, Full, Types, ReqRecs
<1>7. SurviveInv'
    BY <1>0, <1>1, <1>2, <1>3, <1>4 DEF SurviveInv, Full, LiveAccess, LiveRefresh, Requests, Types, Pairing, Holding, ReqRecs
<1>8. RedisUsed'
    BY <1>0, <1>1, <1>2, <1>3, <1>4 DEF RedisUsed, Full, Requests, OfRedis
<1>9. EndedInv'
    BY <1>0, <1>1, <1>2, <1>3, <1>4, EndedKept DEF Pairing, Full
<1>10. UsedInv'
    BY <1>0, <1>1, <1>2, <1>3, <1>4, UsedKept DEF Has, Holding, Pairing
<1> QED BY <1>5, <1>6, <1>7, <1>8, <1>9, <1>10 DEF Full

LEMMA GetTokenOverKeeps ==
    ASSUME TokensAssumption, Full, NEW p \in Pairs, GetTokenOver(p)
    PROVE  Full'
<1>0. Types /\ Requests /\ PairsApart /\ Base
    BY DEF Full, Base
<1>1. /\ UNCHANGED <<hybrid, primary, stage, req, drawn, given, from, spent, raced>>
      /\ p \in file.access /\ stage[p] > 0 /\ file' = [file EXCEPT !.access = @ \ {p}] /\ saveState(file')
    BY DEF GetTokenOver, FileSet, history
<1>2. file' \in Stores /\ file'.access = file.access \ {p} /\ file'.codes = file.codes /\ file'.refresh = file.refresh
    BY <1>0, <1>1, AddFacts DEF Types, ReqRecs
<1>3. /\ disk' \in Stores /\ disk'.codes = {} /\ lapses \subseteq lapses'
      /\ "disk" \notin lapses' => disk'.access = file'.access /\ disk'.refresh = file'.refresh
    BY <1>0, <1>1, <1>2, SaveFacts DEF Types, ReqRecs
<1>4. Base'
    <2>1. Types'
        BY <1>0, <1>1, <1>2, <1>3 DEF Types, Holding, Pairing, ReqRecs
    <2>2. Requests'
        BY <1>0, <1>1, <1>2, <1>3 DEF Requests, Holding, Pairing, OfRedis, Types, ReqRecs
    <2>3. PairsApart'
        BY <1>0, <1>1, <1>2, <1>3 DEF PairsApart, Pairing, Holding, Requests, Types, ReqRecs
    <2>4. \A x \in (Codes \cup Pairs) \ given' : stage'[x] = 0
        BY <1>0, <1>1, <1>2, <1>3 DEF Base, Types, ReqRecs
    <2>5. \A q \in drawn' \cap Pairs : from'[q] \in given'
        BY <1>0, <1>1, <1>2, <1>3 DEF Base
    <2> QED BY <2>1, <2>2, <2>3, <2>4, <2>5 DEF Base
<1>5. DiskFollows'
    BY <1>0, <1>1, <1>2, <1>3 DEF DiskFollows, Full, Types, ReqRecs
<1>6. SurviveInv'
    BY <1>0, <1>1, <1>2, <1>3 DEF SurviveInv, Full, LiveAccess, LiveRefresh, Requests, Types, Pairing, Holding, ReqRecs
<1>7. RedisUsed'
    BY <1>0, <1>1, <1>2, <1>3 DEF RedisUsed, Full, Requests, OfRedis
<1>8. EndedInv'
    BY <1>0, <1>1, <1>2, <1>3, EndedKept DEF Pairing, Full
<1>9. UsedInv'
    BY <1>0, <1>1, <1>2, <1>3, UsedKept DEF Has, Holding, Pairing
<1> QED BY <1>4, <1>5, <1>6, <1>7, <1>8, <1>9 DEF Full

LEMMA ExpireKeysKeeps ==
    ASSUME TokensAssumption, Full, ExpireKeys
    PROVE  Full'
<1>0. Types /\ Requests /\ PairsApart /\ Base
    BY DEF Full, Base
<1>1. /\ UNCHANGED <<hybrid, file, disk, stage, req, drawn, given, lapses, from, spent, raced>>
      /\ hybrid /\ primary' = Fresh(primary)
    BY DEF ExpireKeys, history
<1>2. /\ primary' \in Stores /\ primary'.access \subseteq primary.access /\ primary'.codes \subseteq primary.codes
      /\ primary'.refresh \subseteq primary.refresh
    BY <1>0, <1>1, FreshFacts DEF Types, ReqRecs
<1>3. Base'
    <2>1. Types'
        BY <1>0, <1>1, <1>2 DEF Types, Holding, Pairing, ReqRecs
    <2>2. Requests'
        BY <1>0, <1>1, <1>2 DEF Requests, Holding, Pairing, OfRedis, Types, ReqRecs
    <2>3. PairsApart'
        BY <1>0, <1>1, <1>2 DEF PairsApart, Pairing, Holding, Requests, Types, ReqRecs
    <2>4. \A x \in (Codes \cup Pairs) \ given' : stage'[x] = 0
        BY <1>0, <1>1, <1>2 DEF Base, Types, ReqRecs
    <2>5. \A p \in drawn' \cap Pairs : from'[p] \in given'
        BY <1>0, <1>1, <1>2 DEF Base
    <2> QED BY <2>1, <2>2, <2>3, <2>4, <2>5 DEF Base
<1>4. DiskFollows'
    BY <1>0, <1>1, <1>2 DEF DiskFollows, Full, Types, ReqRecs
<1>5. SurviveInv'
    BY <1>0, <1>1, <1>2 DEF SurviveInv, Full, LiveAccess, LiveRefresh, Requests, Types, Pairing, Holding, ReqRecs
<1>6. RedisUsed'
    BY <1>0, <1>1, <1>2 DEF RedisUsed, Full, Requests, OfRedis
<1>7. EndedInv'
    BY <1>0, <1>1, <1>2, EndedKept DEF Pairing, Full
<1>8. UsedInv'
    BY <1>0, <1>1, <1>2, UsedKept DEF Has, Holding, Pairing
<1> QED BY <1>3, <1>4, <1>5, <1>6, <1>7, <1>8 DEF Full

LEMMA RedisLosesDataKeeps ==
    ASSUME TokensAssumption, Full, RedisLosesData
    PROVE  Full'
<1>0. Types /\ Requests /\ PairsApart /\ Base
    BY DEF Full, Base
<1>1. /\ UNCHANGED <<hybrid, file, disk, stage, req, drawn, given, from, spent, raced>>
      /\ hybrid /\ primary' = Empty /\ lapses \subseteq lapses'
    BY DEF RedisLosesData, history, Lapse
<1>2. primary' \in Stores /\ primary'.access = {} /\ primary'.codes = {} /\ primary'.refresh = {}
    BY <1>1, EmptyFacts
<1>3. Base'
    <2>1. Types'
        BY <1>0, <1>1, <1>2 DEF Types, Holding, Pairing, ReqRecs
    <2>2. Requests'
        BY <1>0, <1>1, <1>2 DEF Requests, Holding, Pairing, OfRedis, Types, ReqRecs
    <2>3. PairsApart'
        BY <1>0, <1>1, <1>2 DEF PairsApart, Pairing, Holding, Requests, Types, ReqRecs
    <2>4. \A x \in (Codes \cup Pairs) \ given' : stage'[x] = 0
        BY <1>0, <1>1, <1>2 DEF Base, Types, ReqRecs
    <2>5. \A p \in drawn' \cap Pairs : from'[p] \in given'
        BY <1>0, <1>1, <1>2 DEF Base
    <2> QED BY <2>1, <2>2, <2>3, <2>4, <2>5 DEF Base
<1>4. DiskFollows'
    BY <1>0, <1>1, <1>2 DEF DiskFollows, Full, Types, ReqRecs
<1>5. SurviveInv'
    BY <1>0, <1>1, <1>2 DEF SurviveInv, Full, LiveAccess, LiveRefresh, Requests, Types, Pairing, Holding, ReqRecs
<1>6. RedisUsed'
    BY <1>0, <1>1, <1>2 DEF RedisUsed, Full, Requests, OfRedis
<1>7. EndedInv'
    BY <1>0, <1>1, <1>2, EndedKept DEF Pairing, Full
<1>8. UsedInv'
    BY <1>0, <1>1, <1>2, UsedKept DEF Has, Holding, Pairing
<1> QED BY <1>3, <1>4, <1>5, <1>6, <1>7, <1>8 DEF Full

LEMMA removeExpiredKeeps ==
    ASSUME TokensAssumption, Full, removeExpired
    PROVE  Full'
<1>0. Types /\ Requests /\ PairsApart /\ Base
    BY DEF Full, Base
<1>1. /\ UNCHANGED <<hybrid, primary, stage, req, drawn, given, from, spent, raced>> /\ file' = Fresh(file)
      /\ saveState(file') \/ (UNCHANGED <<disk, lapses>> /\ file'.access = file.access /\ file'.refresh = file.refresh)
    BY DEF removeExpired, history
<1>2. /\ file' \in Stores /\ file'.access = {p \in file.access : stage[p] = 0} /\ file'.codes \subseteq file.codes
      /\ file'.refresh = {p \in file.refresh : stage[p] < 2}
    BY <1>0, <1>1, FreshFacts DEF Types, ReqRecs
<1>3. /\ disk' \in Stores /\ disk'.codes = {} /\ lapses \subseteq lapses'
      /\ \/ "disk" \notin lapses' => disk'.access = file'.access /\ disk'.refresh = file'.refresh
         \/ disk' = disk /\ file'.access = file.access /\ file'.refresh = file.refresh
    BY <1>0, <1>1, <1>2, SaveFacts DEF Types, ReqRecs
<1>4. Base'
    <2>1. Types'
        BY <1>0, <1>1, <1>2, <1>3 DEF Types, Holding, Pairing, ReqRecs
    <2>2. Requests'
        BY <1>0, <1>1, <1>2, <1>3 DEF Requests, Holding, Pairing, OfRedis, Types, ReqRecs
    <2>3. PairsApart'
        BY <1>0, <1>1, <1>2, <1>3 DEF PairsApart, Pairing, Holding, Requests, Types, ReqRecs
    <2>4. \A x \in (Codes \cup Pairs) \ given' : stage'[x] = 0
        BY <1>0, <1>1, <1>2, <1>3 DEF Base, Types, ReqRecs
    <2>5. \A p \in drawn' \cap Pairs : from'[p] \in given'
        BY <1>0, <1>1, <1>2, <1>3 DEF Base
    <2> QED BY <2>1, <2>2, <2>3, <2>4, <2>5 DEF Base
<1>5. DiskFollows'
    BY <1>0, <1>1, <1>2, <1>3 DEF DiskFollows, Full, Types, ReqRecs
<1>6. SurviveInv'
    BY <1>0, <1>1, <1>2, <1>3 DEF SurviveInv, Full, LiveAccess, LiveRefresh, Requests, Types, Pairing, Holding, ReqRecs
<1>7. RedisUsed'
    BY <1>0, <1>1, <1>2, <1>3 DEF RedisUsed, Full, Requests, OfRedis
<1>8. EndedInv'
    BY <1>0, <1>1, <1>2, <1>3, EndedKept DEF Pairing, Full
<1>9. UsedInv'
    BY <1>0, <1>1, <1>2, <1>3, UsedKept DEF Has, Holding, Pairing
<1> QED BY <1>4, <1>5, <1>6, <1>7, <1>8, <1>9 DEF Full

LEMMA handleTokenKeeps ==
    ASSUME TokensAssumption, Full, NEW r \in Reqs, NEW src \in Codes \cup Pairs, handleToken(r, src)
    PROVE  Full'
<1>0. Types /\ Requests /\ PairsApart /\ Base
    BY DEF Full, Base
<1>1. /\ UNCHANGED <<hybrid, primary, file, disk, stage, drawn, given, lapses, from, spent, raced>>
      /\ req[r].pc = "idle" /\ src \in given
    BY DEF handleToken, history
<1>2. /\ req'[r].pc = (IF hybrid THEN "consume" ELSE "fallback") /\ req'[r].src = src
      /\ \A s \in Reqs \ {r} : req'[s] = req[s]
      /\ req' \in [Reqs -> ReqRecs]
    BY <1>0 DEF handleToken, Types, NoReq, ReqRecs
<1>3. Base'
    <2>1. Types'
        BY <1>0, <1>1, <1>2 DEF Types, Holding, Pairing, ReqRecs
    <2>2. Requests'
        BY <1>0, <1>1, <1>2 DEF Requests, Holding, Pairing, OfRedis, Types, ReqRecs
    <2>3. PairsApart'
        BY <1>0, <1>1, <1>2 DEF PairsApart, Pairing, Holding, Requests, Types, ReqRecs
    <2>4. \A x \in (Codes \cup Pairs) \ given' : stage'[x] = 0
        BY <1>0, <1>1, <1>2 DEF Base, Types, ReqRecs
    <2>5. \A p \in drawn' \cap Pairs : from'[p] \in given'
        BY <1>0, <1>1, <1>2 DEF Base
    <2> QED BY <2>1, <2>2, <2>3, <2>4, <2>5 DEF Base
<1>4. DiskFollows'
    BY <1>0, <1>1, <1>2 DEF DiskFollows, Full, Types, ReqRecs
<1>5. SurviveInv'
    BY <1>0, <1>1, <1>2 DEF SurviveInv, Full, LiveAccess, LiveRefresh, Requests, Types, Pairing, Holding, ReqRecs
<1>6. RedisUsed'
    BY <1>0, <1>1, <1>2 DEF RedisUsed, Full, Requests, OfRedis
<1>7. EndedInv'
    BY <1>0, <1>1, <1>2, EndedKept DEF Pairing, Full
<1>8. UsedInv'
    <2> SUFFICES ASSUME ~raced', lapses' \cap {"consume", "disk", "away"} = {}
                 PROVE  /\ \A x \in given' : Used(x)' => ~Has(primary, x)' /\ (Has(file, x)' => InWindow(x)')
                        /\ \A s, u \in Reqs : req'[s].pc \in Holding /\ req'[u].pc \in Holding /\ req'[s].src = req'[u].src => s = u
                        /\ \A s \in Reqs, q \in drawn' \cap Pairs : req'[s].pc \in Holding => from'[q] # req'[s].src
                        /\ \A q, u \in drawn' \cap Pairs : from'[q] = from'[u] => q = u
                        /\ \A s \in Reqs : req'[s].pc = "fallback" => ~Has(primary, req[s].src)'
        BY DEF UsedInv
    <2>1. /\ \A x \in given : Used(x) => ~Has(primary, x) /\ (Has(file, x) => InWindow(x))
          /\ \A s, u \in Reqs : req[s].pc \in Holding /\ req[u].pc \in Holding /\ req[s].src = req[u].src => s = u
          /\ \A s \in Reqs, q \in drawn \cap Pairs : req[s].pc \in Holding => from[q] # req[s].src
          /\ \A q, u \in drawn \cap Pairs : from[q] = from[u] => q = u
          /\ \A s \in Reqs : req[s].pc = "fallback" => ~Has(primary, req[s].src)
        BY <1>0, <1>1, <1>2 DEF UsedInv, Full
    <2>2. \A x : (Used(x)' <=> Used(x)) /\ (InWindow(x)' <=> InWindow(x))
        BY <1>0, <1>1, <1>2 DEF Used, InWindow, Holding
    <2>3. req'[r].pc = "fallback" => ~Has(primary, src)
        BY <1>1, <1>2, EmptyFacts DEF Full, RedisUsed, Has
    <2>4. \A s \in Reqs : req'[s].pc = "fallback" => ~Has(primary, req[s].src)'
        BY <1>1, <1>2, <2>1, <2>3 DEF Has
    <2>5. \A s \in Reqs : req'[s].pc \in Holding => req[s].pc \in Holding /\ req'[s].src = req[s].src
        BY <1>2 DEF Holding
    <2>6. \A x : (Has(primary, x)' <=> Has(primary, x)) /\ (Has(file, x)' <=> Has(file, x))
        BY <1>1 DEF Has
    <2> QED BY <1>1, <2>1, <2>2, <2>4, <2>5, <2>6
<1> QED BY <1>3, <1>4, <1>5, <1>6, <1>7, <1>8 DEF Full

LEMMA ConsumePrimaryKeeps ==
    ASSUME TokensAssumption, Full, NEW r \in Reqs, ConsumePrimary(r)
    PROVE  Full'
<1>0. Types /\ Requests /\ PairsApart /\ Base
    BY DEF Full, Base
<1>1. /\ UNCHANGED <<hybrid, file, disk, stage, drawn, given, from, raced>> /\ req[r].pc = "consume"
      /\ req[r].src \in given /\ req[r].src \in Codes \cup Pairs /\ hybrid
    BY <1>0 DEF ConsumePrimary, Requests, Types, OfRedis, ReqRecs
<1>2. req[r].src \in primary[Kept(req[r].src)] <=> Has(primary, req[r].src)
    BY <1>0, <1>1, KeptFacts DEF Types, ReqRecs
<1>3. \/ /\ Has(primary, req[r].src) /\ primary' = Without(primary, req[r].src) /\ spent' = spent \cup {req[r].src}
         /\ To(r, "sync") /\ UNCHANGED lapses
      \/ /\ ~Has(primary, req[r].src) /\ To(r, "fallback") /\ UNCHANGED <<primary, spent, lapses>>
      \/ /\ primary' \in {primary, Without(primary, req[r].src)} /\ To(r, "fallback") /\ UNCHANGED spent
         /\ lapses \subseteq lapses' /\ "consume" \in lapses'
    BY <1>0, <1>1, <1>2 DEF ConsumePrimary, Lapse
<1>4. /\ lapses \subseteq lapses' /\ spent \subseteq spent'
      /\ primary' \in Stores /\ primary'.access = primary.access /\ primary'.codes \subseteq primary.codes
      /\ primary'.refresh \subseteq primary.refresh
    BY <1>0, <1>1, <1>3, WithoutFacts DEF Types, ReqRecs
<1>5. /\ req'[r].pc \in {"sync", "fallback"} /\ req'[r].src = req[r].src /\ req'[r].pair = req[r].pair
      /\ \A s \in Reqs \ {r} : req'[s] = req[s]
      /\ req' \in [Reqs -> ReqRecs]
      /\ req'[r].pc = "sync" => req[r].src \in spent'
    BY <1>0, <1>3, MoveFacts DEF Holding
<1>6. Base'
    <2>1. Types'
        BY <1>0, <1>1, <1>2, <1>3, <1>4, <1>5 DEF Types, Holding, Pairing, ReqRecs
    <2>2. Requests'
        BY <1>0, <1>1, <1>2, <1>3, <1>4, <1>5 DEF Requests, Holding, Pairing, OfRedis, Types, ReqRecs
    <2>3. PairsApart'
        BY <1>0, <1>1, <1>2, <1>3, <1>4, <1>5 DEF PairsApart, Pairing, Holding, Requests, Types, ReqRecs
    <2>4. \A x \in (Codes \cup Pairs) \ given' : stage'[x] = 0
        BY <1>0, <1>1, <1>2, <1>3, <1>4, <1>5 DEF Base, Types, ReqRecs
    <2>5. \A p \in drawn' \cap Pairs : from'[p] \in given'
        BY <1>0, <1>1, <1>2, <1>3, <1>4, <1>5 DEF Base
    <2> QED BY <2>1, <2>2, <2>3, <2>4, <2>5 DEF Base
<1>7. DiskFollows'
    BY <1>0, <1>1, <1>2, <1>3, <1>4, <1>5 DEF DiskFollows, Full, Types, ReqRecs
<1>8. SurviveInv'
    BY <1>0, <1>1, <1>2, <1>3, <1>4, <1>5 DEF SurviveInv, Full, LiveAccess, LiveRefresh, Requests, Types, Pairing,
       Holding, ReqRecs
<1>9. RedisUsed'
    BY <1>0, <1>1, <1>2, <1>3, <1>4, <1>5 DEF RedisUsed, Full, Requests, OfRedis
<1>10. EndedInv'
    BY <1>0, <1>1, <1>2, <1>3, <1>4, <1>5, EndedKept DEF Pairing, Full
<1>11. UsedInv'
    <2> SUFFICES ASSUME ~raced', lapses' \cap {"consume", "disk", "away"} = {}
                 PROVE  /\ \A x \in given' : Used(x)' => ~Has(primary, x)' /\ (Has(file, x)' => InWindow(x)')
                        /\ \A s, u \in Reqs : req'[s].pc \in Holding /\ req'[u].pc \in Holding /\ req'[s].src = req'[u].src => s = u
                        /\ \A s \in Reqs, q \in drawn' \cap Pairs : req'[s].pc \in Holding => from'[q] # req'[s].src
                        /\ \A q, u \in drawn' \cap Pairs : from'[q] = from'[u] => q = u
                        /\ \A s \in Reqs : req'[s].pc = "fallback" => ~Has(primary, req[s].src)'
        BY DEF UsedInv
    <2>1. /\ \A x \in given : Used(x) => ~Has(primary, x) /\ (Has(file, x) => InWindow(x))
          /\ \A s, u \in Reqs : req[s].pc \in Holding /\ req[u].pc \in Holding /\ req[s].src = req[u].src => s = u
          /\ \A s \in Reqs, q \in drawn \cap Pairs : req[s].pc \in Holding => from[q] # req[s].src
          /\ \A q, u \in drawn \cap Pairs : from[q] = from[u] => q = u
          /\ \A s \in Reqs : req[s].pc = "fallback" => ~Has(primary, req[s].src)
        BY <1>0, <1>1, <1>2, <1>3, <1>4, <1>5 DEF UsedInv, Full
    <2>2. \/ /\ req'[r].pc = "sync" /\ Has(primary, req[r].src) /\ ~Has(primary', req[r].src)
          \/ req'[r].pc = "fallback" /\ ~Has(primary, req[r].src) /\ UNCHANGED primary
        BY <1>0, <1>1, <1>3, MoveFacts, WithoutFacts DEF Has, Types, Holding, ReqRecs
    <2>3. \A x : (InWindow(x) => InWindow(x)') /\ (Has(primary', x) => Has(primary, x)) /\ (Has(file', x) <=> Has(file, x))
        BY <1>1, <1>4, <1>5 DEF InWindow, Has
    <2>4. CASE req'[r].pc = "fallback"
        <3>1. \A x : (Used(x)' => Used(x))
            BY <1>1, <1>5, <2>4 DEF Used, Holding
        <3>2. \A s \in Reqs : req'[s].pc \in Holding => req[s].pc \in Holding /\ req'[s].src = req[s].src
            BY <1>5, <2>4 DEF Holding
        <3>3. \A s \in Reqs : req'[s].pc = "fallback" => ~Has(primary', req'[s].src)
            BY <1>5, <2>1, <2>2, <2>4
        <3> QED BY <1>1, <2>1, <2>3, <3>1, <3>2, <3>3 DEF Has
    <2>5. CASE req'[r].pc = "sync"
        <3> DEFINE x == req[r].src
        <3>1. ~Used(x) /\ Has(primary, x) /\ ~Has(primary', x)
            BY <1>1, <2>1, <2>2, <2>5
        <3>2. \A y : (y = x => InWindow(y)') /\ (Used(y)' => Used(y) \/ y = x)
            BY <1>1, <1>5, <2>5 DEF Used, InWindow
        <3>3. \A s \in Reqs \ {r} : req'[s] = req[s] /\ (req[s].pc \in Holding => req[s].src # x)
            BY <1>5, <3>1 DEF Used
        <3>4. \A q \in drawn \cap Pairs : from[q] # x
            BY <3>1 DEF Used
        <3>5. \A s \in Reqs : req'[s].pc = "fallback" => ~Has(primary', req'[s].src)
            BY <1>5, <2>1, <2>3, <2>5
        <3>6. req'[r].src = x
            BY <1>5
        <3> HIDE DEF x
        <3>7. \A y \in given' : Used(y)' => ~Has(primary', y) /\ (Has(file', y) => InWindow(y)')
            BY <1>1, <2>1, <2>3, <3>1, <3>2
        <3>8. \A s, u \in Reqs : req'[s].pc \in Holding /\ req'[u].pc \in Holding /\ req'[s].src = req'[u].src => s = u
            BY <2>1, <3>3, <3>6
        <3>9. \A s \in Reqs, q \in drawn' \cap Pairs : req'[s].pc \in Holding => from'[q] # req'[s].src
            BY <1>1, <2>1, <3>3, <3>4, <3>6
        <3> QED BY <1>1, <2>1, <3>5, <3>7, <3>8, <3>9 DEF Has
    <2> QED BY <1>5, <2>4, <2>5
<1> QED BY <1>6, <1>7, <1>8, <1>9, <1>10, <1>11 DEF Full

LEMMA SyncFileKeeps ==
    ASSUME TokensAssumption, Full, NEW r \in Reqs, SyncFile(r)
    PROVE  Full'
<1>0. Types /\ Requests /\ PairsApart /\ Base
    BY DEF Full, Base
<1>1. /\ UNCHANGED <<hybrid, primary, stage, drawn, given, from, spent, raced>> /\ req[r].pc = "sync"
      /\ req[r].src \in given /\ req[r].src \in Codes \cup Pairs /\ req[r].src \in spent /\ hybrid
    BY <1>0 DEF SyncFile, Requests, Types, OfRedis, Holding, history, ReqRecs
<1>2. file' = Without(file, req[r].src) /\ To(r, "check")
    BY DEF SyncFile, FileSet
<1>3. /\ file' \in Stores /\ file'.access = file.access /\ file'.codes = file.codes \ {req[r].src}
      /\ file'.refresh = file.refresh \ {req[r].src}
    BY <1>0, <1>1, <1>2, WithoutFacts DEF Types, ReqRecs
<1>4. /\ disk' \in Stores /\ disk'.codes = {} /\ lapses \subseteq lapses'
      /\ \/ "disk" \notin lapses' => disk'.access = file'.access /\ disk'.refresh = file'.refresh
         \/ disk' = disk /\ file'.access = file.access /\ file'.refresh = file.refresh
    <2>1. CASE req[r].src \in Pairs \cap file.refresh
        <3>1. saveState(file')
            BY <2>1, <1>2 DEF SyncFile, FileSet
        <3> QED BY <1>0, <1>3, <3>1, SaveFacts DEF Types, ReqRecs
    <2>2. CASE req[r].src \notin Pairs \cap file.refresh
        <3>1. UNCHANGED <<disk, lapses>> /\ req[r].src \notin file.refresh
            BY <1>0, <2>2 DEF SyncFile, Types, Stores, ReqRecs
        <3> QED BY <1>0, <1>3, <3>1 DEF Types, ReqRecs
    <2> QED BY <2>1, <2>2
<1>5. /\ req'[r].pc = "check" /\ req'[r].src = req[r].src /\ req'[r].pair = req[r].pair
      /\ \A s \in Reqs \ {r} : req'[s] = req[s]
      /\ req' \in [Reqs -> ReqRecs]
    BY <1>0, <1>2, MoveFacts DEF Holding
<1>6. Base'
    <2>1. Types'
        BY <1>0, <1>1, <1>2, <1>3, <1>4, <1>5 DEF Types, Holding, Pairing, ReqRecs
    <2>2. Requests'
        BY <1>0, <1>1, <1>2, <1>3, <1>4, <1>5 DEF Requests, Holding, Pairing, OfRedis, Types, ReqRecs
    <2>3. PairsApart'
        BY <1>0, <1>1, <1>2, <1>3, <1>4, <1>5 DEF PairsApart, Pairing, Holding, Requests, Types, ReqRecs
    <2>4. \A x \in (Codes \cup Pairs) \ given' : stage'[x] = 0
        BY <1>0, <1>1, <1>2, <1>3, <1>4, <1>5 DEF Base, Types, ReqRecs
    <2>5. \A p \in drawn' \cap Pairs : from'[p] \in given'
        BY <1>0, <1>1, <1>2, <1>3, <1>4, <1>5 DEF Base
    <2> QED BY <2>1, <2>2, <2>3, <2>4, <2>5 DEF Base
<1>7. DiskFollows'
    BY <1>0, <1>1, <1>2, <1>3, <1>4, <1>5 DEF DiskFollows, Full, Types, ReqRecs
<1>8. SurviveInv'
    <2>1. \A s \in Reqs : req'[s].pair = req[s].pair /\ (req'[s].pc \in Pairing <=> req[s].pc \in Pairing)
                         /\ (req'[s].pc \in {"refreshPrimary", "answer"} <=> req[s].pc \in {"refreshPrimary", "answer"})
        BY <1>1, <1>5 DEF Pairing, Holding
    <2>2. LiveAccess' = LiveAccess /\ LiveRefresh' = LiveRefresh
        BY <1>1, <2>1 DEF LiveAccess, LiveRefresh
    <2>3. req[r].src \notin LiveRefresh
        BY <1>0, <1>1 DEF LiveRefresh, Requests, Pairing, Holding
    <2> QED BY <1>1, <1>3, <1>4, <2>2, <2>3 DEF SurviveInv, Full
<1>9. RedisUsed'
    BY <1>0, <1>1, <1>2, <1>3, <1>4, <1>5 DEF RedisUsed, Full, Requests, OfRedis
<1>10. EndedInv'
    BY <1>0, <1>1, <1>2, <1>3, <1>4, <1>5, EndedKept DEF Pairing, Full
<1>11. UsedInv'
    <2> SUFFICES ASSUME ~raced', lapses' \cap {"consume", "disk", "away"} = {}
                 PROVE  /\ \A x \in given' : Used(x)' => ~Has(primary, x)' /\ (Has(file, x)' => InWindow(x)')
                        /\ \A s, u \in Reqs : req'[s].pc \in Holding /\ req'[u].pc \in Holding /\ req'[s].src = req'[u].src => s = u
                        /\ \A s \in Reqs, q \in drawn' \cap Pairs : req'[s].pc \in Holding => from'[q] # req'[s].src
                        /\ \A q, u \in drawn' \cap Pairs : from'[q] = from'[u] => q = u
                        /\ \A s \in Reqs : req'[s].pc = "fallback" => ~Has(primary, req[s].src)'
        BY DEF UsedInv
    <2>1. /\ \A x \in given : Used(x) => ~Has(primary, x) /\ (Has(file, x) => InWindow(x))
          /\ \A s, u \in Reqs : req[s].pc \in Holding /\ req[u].pc \in Holding /\ req[s].src = req[u].src => s = u
          /\ \A s \in Reqs, q \in drawn \cap Pairs : req[s].pc \in Holding => from[q] # req[s].src
          /\ \A q, u \in drawn \cap Pairs : from[q] = from[u] => q = u
          /\ \A s \in Reqs : req[s].pc = "fallback" => ~Has(primary, req[s].src)
        BY <1>0, <1>1, <1>2, <1>3, <1>4, <1>5 DEF UsedInv, Full
    <2>2. \A s \in Reqs : (req'[s].pc \in Holding <=> req[s].pc \in Holding) /\ req'[s].src = req[s].src
        BY <1>1, <1>5 DEF Holding
    <2>3. \A x : Used(x)' <=> Used(x)
        BY <1>1, <2>2 DEF Used
    <2>4. \A x : (Has(file', x) => Has(file, x) /\ x # req[r].src) /\ (Has(primary', x) <=> Has(primary, x))
        BY <1>1, <1>3 DEF Has
    <2>5. \A x : x # req[r].src => (InWindow(x) => InWindow(x)')
        BY <1>1, <1>5 DEF InWindow
    <2>6. \A s \in Reqs : req'[s].pc = "fallback" => req[s].pc = "fallback"
        BY <1>5
    <2>7. \A x \in given' : Used(x)' => ~Has(primary', x) /\ (Has(file', x) => InWindow(x)')
        BY <1>1, <2>1, <2>3, <2>4, <2>5
    <2>8. \A s \in Reqs : req'[s].pc = "fallback" => ~Has(primary', req'[s].src)
        BY <2>1, <2>2, <2>4, <2>6
    <2> QED BY <1>1, <2>1, <2>2, <2>7, <2>8 DEF Has
<1> QED BY <1>6, <1>7, <1>8, <1>9, <1>10, <1>11 DEF Full

LEMMA FallbackKeeps ==
    ASSUME TokensAssumption, Full, NEW r \in Reqs, Fallback(r)
    PROVE  Full'
<1>0. Types /\ Requests /\ PairsApart /\ Base
    BY DEF Full, Base
<1>1. /\ UNCHANGED <<hybrid, primary, stage, drawn, given, from>> /\ req[r].pc = "fallback"
      /\ req[r].src \in given /\ req[r].src \in Codes \cup Pairs
    BY <1>0 DEF Fallback, Requests, Types, ReqRecs
<1>2. req[r].src \in file[Kept(req[r].src)] <=> Has(file, req[r].src)
    BY <1>0, <1>1, KeptFacts DEF Types, ReqRecs
<1>3. \/ /\ Has(file, req[r].src) /\ file' = Without(file, req[r].src) /\ spent' = spent \cup {req[r].src}
         /\ raced' = (raced \/ InWindow(req[r].src)) /\ To(r, "check")
      \/ /\ ~Has(file, req[r].src) /\ End(r) /\ UNCHANGED <<file, disk, lapses, spent, raced>>
    BY <1>2 DEF Fallback
<1>4. /\ file' \in Stores /\ file'.access = file.access /\ raced' \in BOOLEAN /\ (raced => raced')
      /\ \/ spent' = spent \cup {req[r].src} /\ file'.codes = file.codes \ {req[r].src}
            /\ file'.refresh = file.refresh \ {req[r].src}
         \/ UNCHANGED <<spent, file>>
    <2>1. raced' \in BOOLEAN /\ (raced => raced')
        BY <1>0, <1>3 DEF Types, ReqRecs
    <2>2. CASE Has(file, req[r].src)
        BY <1>0, <1>1, <1>3, <2>1, <2>2, WithoutFacts DEF Types, ReqRecs
    <2>3. CASE ~Has(file, req[r].src)
        BY <1>0, <1>3, <2>1, <2>3 DEF Types, ReqRecs
    <2> QED BY <2>2, <2>3
<1>5. /\ disk' \in Stores /\ disk'.codes = {} /\ lapses \subseteq lapses'
      /\ \/ "disk" \notin lapses' => disk'.access = file'.access /\ disk'.refresh = file'.refresh
         \/ disk' = disk /\ file'.access = file.access /\ file'.refresh = file.refresh
    <2>1. CASE Has(file, req[r].src) /\ req[r].src \in Pairs
        <3>1. saveState(file')
            BY <1>2, <2>1 DEF Fallback
        <3> QED BY <1>0, <1>4, <3>1, SaveFacts DEF Types, ReqRecs
    <2>2. CASE Has(file, req[r].src) /\ req[r].src \notin Pairs
        <3>1. UNCHANGED <<disk, lapses>> /\ req[r].src \notin file.refresh
            BY <1>0, <1>2, <2>2 DEF Fallback, Types, Stores, ReqRecs
        <3>2. file'.refresh = file.refresh
            BY <1>4, <3>1
        <3> QED BY <1>0, <1>4, <3>1, <3>2 DEF Types, ReqRecs
    <2>3. CASE ~Has(file, req[r].src)
        BY <1>0, <1>3, <2>3 DEF Types, ReqRecs
    <2> QED BY <2>1, <2>2, <2>3
<1>6. /\ \A s \in Reqs \ {r} : req'[s] = req[s]
      /\ req' \in [Reqs -> ReqRecs]
      /\ \/ req'[r].pc = "idle" /\ UNCHANGED <<file, spent, raced>>
         \/ /\ req'[r].pc = "check" /\ req'[r].src = req[r].src /\ req[r].src \in spent' /\ Has(file, req[r].src)
            /\ raced' = (raced \/ InWindow(req[r].src))
    BY <1>0, <1>3, MoveFacts DEF Holding
<1>7. Base'
    <2>1. Types'
        BY <1>0, <1>1, <1>2, <1>3, <1>4, <1>5, <1>6 DEF Types, Holding, Pairing, ReqRecs
    <2>2. Requests'
        BY <1>0, <1>1, <1>2, <1>3, <1>4, <1>5, <1>6 DEF Requests, Holding, Pairing, OfRedis, Types, ReqRecs
    <2>3. PairsApart'
        BY <1>0, <1>1, <1>2, <1>3, <1>4, <1>5, <1>6 DEF PairsApart, Pairing, Holding, Requests, Types, ReqRecs
    <2>4. \A x \in (Codes \cup Pairs) \ given' : stage'[x] = 0
        BY <1>0, <1>1, <1>2, <1>3, <1>4, <1>5, <1>6 DEF Base, Types, ReqRecs
    <2>5. \A p \in drawn' \cap Pairs : from'[p] \in given'
        BY <1>0, <1>1, <1>2, <1>3, <1>4, <1>5, <1>6 DEF Base
    <2> QED BY <2>1, <2>2, <2>3, <2>4, <2>5 DEF Base
<1>8. DiskFollows'
    BY <1>0, <1>1, <1>2, <1>3, <1>4, <1>5, <1>6 DEF DiskFollows, Full, Types, ReqRecs
<1>9. SurviveInv'
    BY <1>0, <1>1, <1>2, <1>3, <1>4, <1>5, <1>6 DEF SurviveInv, Full, LiveAccess, LiveRefresh, Requests, Types,
       Pairing, Holding, ReqRecs
<1>10. RedisUsed'
    BY <1>0, <1>1, <1>2, <1>3, <1>4, <1>5, <1>6 DEF RedisUsed, Full, Requests, OfRedis
<1>11. EndedInv'
    BY <1>0, <1>1, <1>2, <1>3, <1>4, <1>5, <1>6, EndedKept DEF Pairing, Full
<1>12. UsedInv'
    <2> SUFFICES ASSUME ~raced', lapses' \cap {"consume", "disk", "away"} = {}
                 PROVE  /\ \A x \in given' : Used(x)' => ~Has(primary, x)' /\ (Has(file, x)' => InWindow(x)')
                        /\ \A s, u \in Reqs : req'[s].pc \in Holding /\ req'[u].pc \in Holding /\ req'[s].src = req'[u].src => s = u
                        /\ \A s \in Reqs, q \in drawn' \cap Pairs : req'[s].pc \in Holding => from'[q] # req'[s].src
                        /\ \A q, u \in drawn' \cap Pairs : from'[q] = from'[u] => q = u
                        /\ \A s \in Reqs : req'[s].pc = "fallback" => ~Has(primary, req[s].src)'
        BY DEF UsedInv
    <2>1. /\ \A x \in given : Used(x) => ~Has(primary, x) /\ (Has(file, x) => InWindow(x))
          /\ \A s, u \in Reqs : req[s].pc \in Holding /\ req[u].pc \in Holding /\ req[s].src = req[u].src => s = u
          /\ \A s \in Reqs, q \in drawn \cap Pairs : req[s].pc \in Holding => from[q] # req[s].src
          /\ \A q, u \in drawn \cap Pairs : from[q] = from[u] => q = u
          /\ \A s \in Reqs : req[s].pc = "fallback" => ~Has(primary, req[s].src)
        BY <1>0, <1>1, <1>2, <1>3, <1>4, <1>5, <1>6 DEF UsedInv, Full
    <2>2. \A x : (Has(file', x) => Has(file, x)) /\ (Has(primary', x) <=> Has(primary, x))
        BY <1>1, <1>4 DEF Has
    <2>3. \A x : InWindow(x) => InWindow(x)'
        BY <1>1, <1>6 DEF InWindow
    <2>4. \A s \in Reqs : req'[s].pc = "fallback" => ~Has(primary', req'[s].src)
        BY <1>6, <2>1, <2>2
    <2>5. CASE req'[r].pc = "idle"
        <3>1. \A s \in Reqs : req'[s].pc \in Holding => req[s].pc \in Holding /\ req'[s].src = req[s].src
            BY <1>6, <2>5 DEF Holding
        <3>2. \A x : Used(x)' => Used(x)
            BY <1>1, <3>1 DEF Used
        <3>3. \A x \in given' : Used(x)' => ~Has(primary', x) /\ (Has(file', x) => InWindow(x)')
            BY <1>1, <2>1, <2>2, <2>3, <3>2
        <3> QED BY <1>1, <2>1, <2>4, <3>1, <3>3 DEF Has
    <2>6. CASE req'[r].pc # "idle"
        <3> DEFINE x == req[r].src
        <3>1. /\ req'[r].pc = "check" /\ req'[r].src = x /\ Has(file, x) /\ ~InWindow(x) /\ x \in given
              /\ ~Has(primary, x)
            BY <1>1, <1>6, <2>1, <2>6
        <3>2. ~Used(x) /\ ~Has(file', x)
            <4>1. ~Used(x)
                BY <2>1, <3>1
            <4>2. ~Has(file', x)
                BY <1>0, <1>1, <1>3, <3>1, WithoutFacts DEF Has, Types, ReqRecs
            <4> QED BY <4>1, <4>2
        <3>3. \A y : Used(y)' => Used(y) \/ y = x
            BY <1>1, <1>6, <3>1 DEF Used
        <3>4. \A s \in Reqs \ {r} : req'[s] = req[s] /\ (req[s].pc \in Holding => req[s].src # x)
            BY <1>6, <3>2 DEF Used
        <3>5. \A q \in drawn \cap Pairs : from[q] # x
            BY <3>2 DEF Used
        <3> HIDE DEF x
        <3>6. \A y \in given' : Used(y)' => ~Has(primary', y) /\ (Has(file', y) => InWindow(y)')
            BY <1>1, <2>1, <2>2, <2>3, <3>1, <3>2, <3>3
        <3>7. \A s, u \in Reqs : req'[s].pc \in Holding /\ req'[u].pc \in Holding /\ req'[s].src = req'[u].src => s = u
            BY <2>1, <3>1, <3>4
        <3>8. \A s \in Reqs, q \in drawn' \cap Pairs : req'[s].pc \in Holding => from'[q] # req'[s].src
            BY <1>1, <2>1, <3>1, <3>4, <3>5
        <3> QED BY <1>1, <2>1, <2>4, <3>6, <3>7, <3>8 DEF Has
    <2> QED BY <2>5, <2>6
<1> QED BY <1>7, <1>8, <1>9, <1>10, <1>11, <1>12 DEF Full

LEMMA DeleteFileKeeps ==
    ASSUME TokensAssumption, Full, NEW r \in Reqs, DeleteFile(r)
    PROVE  Full'
<1>0. Types /\ Requests /\ PairsApart /\ Base
    BY DEF Full, Base
<1>1. /\ UNCHANGED <<hybrid, primary, stage, drawn, given, from, spent, raced>> /\ req[r].pc = "check"
      /\ req[r].src \in given /\ req[r].src \in Pairs /\ req[r].src \in spent
      /\ file' = [file EXCEPT !.access = @ \ {req[r].src}] /\ saveState(file')
      /\ To(r, IF hybrid THEN "deletePrimary" ELSE "access")
    BY <1>0 DEF DeleteFile, Requests, Types, Holding, history, FileSet, ReqRecs
<1>2. file' \in Stores /\ file'.access = file.access \ {req[r].src} /\ file'.codes = file.codes /\ file'.refresh = file.refresh
    BY <1>0, <1>1, AddFacts, ZenonT(40) DEF Types, ReqRecs
<1>3. /\ disk' \in Stores /\ disk'.codes = {} /\ lapses \subseteq lapses'
      /\ "disk" \notin lapses' => disk'.access = file'.access /\ disk'.refresh = file'.refresh
    BY <1>0, <1>1, <1>2, SaveFacts DEF Types, ReqRecs
<1>4. /\ req'[r].pc = (IF hybrid THEN "deletePrimary" ELSE "access") /\ req'[r].src = req[r].src
      /\ req'[r].pair = req[r].pair /\ \A s \in Reqs \ {r} : req'[s] = req[s]
      /\ req' \in [Reqs -> ReqRecs]
    BY <1>0, <1>1, MoveFacts DEF Holding
<1>5. Base'
    <2>1. Types'
        BY <1>0, <1>1, <1>2, <1>3, <1>4 DEF Types, Holding, Pairing, ReqRecs
    <2>2. Requests'
        BY <1>0, <1>1, <1>2, <1>3, <1>4 DEF Requests, Holding, Pairing, OfRedis, Types, ReqRecs
    <2>3. PairsApart'
        BY <1>0, <1>1, <1>2, <1>3, <1>4 DEF PairsApart, Pairing, Holding, Requests, Types, ReqRecs
    <2>4. \A x \in (Codes \cup Pairs) \ given' : stage'[x] = 0
        BY <1>0, <1>1, <1>2, <1>3, <1>4 DEF Base, Types, ReqRecs
    <2>5. \A p \in drawn' \cap Pairs : from'[p] \in given'
        BY <1>0, <1>1, <1>2, <1>3, <1>4 DEF Base
    <2> QED BY <2>1, <2>2, <2>3, <2>4, <2>5 DEF Base
<1>6. DiskFollows'
    BY <1>0, <1>1, <1>2, <1>3, <1>4 DEF DiskFollows, Full, Types, ReqRecs
<1>7. SurviveInv'
    <2>1. /\ \A p \in LiveAccess' : p \in LiveAccess /\ p # req[r].src
          /\ \A p \in LiveRefresh' : p \in LiveRefresh
        BY <1>0, <1>1, <1>4 DEF LiveAccess, LiveRefresh, Requests, Pairing
    <2> QED BY <1>1, <1>2, <1>3, <2>1 DEF SurviveInv, Full
<1>8. RedisUsed'
    BY <1>0, <1>1, <1>2, <1>3, <1>4 DEF RedisUsed, Full, Requests, OfRedis
<1>9. EndedInv'
    BY <1>0, <1>1, <1>2, <1>3, <1>4, EmptyFacts DEF EndedInv, Full, RedisUsed, Requests, Types, Pairing, Base, ReqRecs
<1>10. UsedInv'
    BY <1>0, <1>1, <1>2, <1>3, <1>4, UsedKept DEF Has, Holding, Pairing
<1> QED BY <1>5, <1>6, <1>7, <1>8, <1>9, <1>10 DEF Full

LEMMA DeletePrimaryKeeps ==
    ASSUME TokensAssumption, Full, NEW r \in Reqs, DeletePrimary(r)
    PROVE  Full'
<1>0. Types /\ Requests /\ PairsApart /\ Base
    BY DEF Full, Base
<1>1. /\ UNCHANGED <<hybrid, file, disk, stage, drawn, given, from, spent, raced>> /\ req[r].pc = "deletePrimary"
      /\ req[r].src \in given /\ req[r].src \in Pairs /\ req[r].src \in spent /\ hybrid /\ lapses \subseteq lapses'
      /\ \/ primary' = [primary EXCEPT !.access = @ \ {req[r].src}]
         \/ UNCHANGED primary /\ "delete" \in lapses'
      /\ To(r, "access")
    BY <1>0 DEF DeletePrimary, Requests, Types, Holding, OfRedis, history, Lapse, ReqRecs
<1>2. /\ primary' \in Stores /\ primary'.access \subseteq primary.access /\ primary'.codes = primary.codes
      /\ primary'.refresh = primary.refresh
      /\ "delete" \notin lapses' => primary'.access = primary.access \ {req[r].src}
    <2>1. CASE primary' = [primary EXCEPT !.access = @ \ {req[r].src}]
        <3>1. /\ primary' \in Stores /\ primary'.access = primary.access \ {req[r].src}
              /\ primary'.codes = primary.codes /\ primary'.refresh = primary.refresh
            BY <1>0, <2>1, AddFacts, ZenonT(40) DEF Types, ReqRecs
        <3> QED BY <3>1
    <2>2. CASE UNCHANGED primary /\ "delete" \in lapses'
        BY <1>0, <2>2 DEF Types, ReqRecs
    <2> QED BY <1>1, <2>1, <2>2
<1>3. /\ req'[r].pc = "access" /\ req'[r].src = req[r].src /\ req'[r].pair = req[r].pair
      /\ \A s \in Reqs \ {r} : req'[s] = req[s]
      /\ req' \in [Reqs -> ReqRecs]
    BY <1>0, <1>1, MoveFacts DEF Holding
<1>4. Base'
    <2>1. Types'
        BY <1>0, <1>1, <1>2, <1>3 DEF Types, Holding, Pairing, ReqRecs
    <2>2. Requests'
        BY <1>0, <1>1, <1>2, <1>3 DEF Requests, Holding, Pairing, OfRedis, Types, ReqRecs
    <2>3. PairsApart'
        BY <1>0, <1>1, <1>2, <1>3 DEF PairsApart, Pairing, Holding, Requests, Types, ReqRecs
    <2>4. \A x \in (Codes \cup Pairs) \ given' : stage'[x] = 0
        BY <1>0, <1>1, <1>2, <1>3 DEF Base, Types, ReqRecs
    <2>5. \A p \in drawn' \cap Pairs : from'[p] \in given'
        BY <1>0, <1>1, <1>2, <1>3 DEF Base
    <2> QED BY <2>1, <2>2, <2>3, <2>4, <2>5 DEF Base
<1>5. DiskFollows'
    BY <1>0, <1>1, <1>2, <1>3 DEF DiskFollows, Full, Types, ReqRecs
<1>6. SurviveInv'
    BY <1>0, <1>1, <1>2, <1>3 DEF SurviveInv, Full, LiveAccess, LiveRefresh, Requests, Types, Pairing, Holding, ReqRecs
<1>7. RedisUsed'
    BY <1>0, <1>1, <1>2, <1>3 DEF RedisUsed, Full, Requests, OfRedis
<1>8. EndedInv'
    BY <1>0, <1>1, <1>2, <1>3, EmptyFacts DEF EndedInv, Full, RedisUsed, Requests, Types, Pairing, Base, ReqRecs
<1>9. UsedInv'
    BY <1>0, <1>1, <1>2, <1>3, UsedKept DEF Has, Holding, Pairing
<1> QED BY <1>4, <1>5, <1>6, <1>7, <1>8, <1>9 DEF Full

LEMMA SaveTokenFileKeeps ==
    ASSUME TokensAssumption, Full, NEW r \in Reqs, NEW p \in Pairs, SaveTokenFile(r, p)
    PROVE  Full'
<1>0. Types /\ Requests /\ PairsApart /\ Base
    BY DEF Full, Base
<1>1. /\ UNCHANGED <<hybrid, primary, stage, given, spent, raced>> /\ p \notin drawn /\ drawn' = drawn \cup {p}
      /\ p \notin given
      /\ (req[r].pc = "check" /\ req[r].src \in Codes) \/ req[r].pc = "access"
      /\ from' = [from EXCEPT ![p] = req[r].src] /\ file' = [file EXCEPT !.access = @ \cup {p}] /\ saveState(file')
    BY <1>0 DEF SaveTokenFile, Types, FileSet, ReqRecs
<1>2. /\ req[r].src \in given /\ req[r].src \in Codes \cup Pairs /\ req[r].src \in spent /\ req[r].pc \in Holding
      /\ from' \in [Pairs -> Codes \cup Pairs \cup {None}] /\ from'[p] = req[r].src
      /\ \A q \in Pairs \ {p} : from'[q] = from[q]
    BY <1>0, <1>1 DEF Requests, Types, Holding, ReqRecs
<1>3. file' \in Stores /\ file'.access = file.access \cup {p} /\ file'.codes = file.codes /\ file'.refresh = file.refresh
    BY <1>0, <1>1, AddFacts DEF Types, ReqRecs
<1>4. /\ disk' \in Stores /\ disk'.codes = {} /\ lapses \subseteq lapses'
      /\ "disk" \notin lapses' => disk'.access = file'.access /\ disk'.refresh = file'.refresh
    BY <1>0, <1>1, <1>3, SaveFacts DEF Types, ReqRecs
<1>5. /\ req'[r].pc = (IF hybrid THEN "accessPrimary" ELSE "refresh") /\ req'[r].src = req[r].src /\ req'[r].pair = p
      /\ \A s \in Reqs \ {r} : req'[s] = req[s]
      /\ req' \in [Reqs -> ReqRecs]
    BY <1>0 DEF SaveTokenFile, Types, Pairing, ReqRecs
<1>6. Base'
    <2>1. Types'
        BY <1>0, <1>1, <1>2, <1>3, <1>4, <1>5 DEF Types, Holding, Pairing, ReqRecs
    <2>2. Requests'
        BY <1>0, <1>1, <1>2, <1>3, <1>4, <1>5 DEF Requests, Holding, Pairing, OfRedis, Types, ReqRecs
    <2>3. PairsApart'
        BY <1>0, <1>1, <1>2, <1>3, <1>4, <1>5 DEF PairsApart, Pairing, Holding, Requests, Types, ReqRecs
    <2>4. \A x \in (Codes \cup Pairs) \ given' : stage'[x] = 0
        BY <1>0, <1>1, <1>2, <1>3, <1>4, <1>5 DEF Base, Types, ReqRecs
    <2>5. \A q \in drawn' \cap Pairs : from'[q] \in given'
        BY <1>0, <1>1, <1>2, <1>3, <1>4, <1>5 DEF Base
    <2> QED BY <2>1, <2>2, <2>3, <2>4, <2>5 DEF Base
<1>7. DiskFollows'
    BY <1>0, <1>1, <1>2, <1>3, <1>4, <1>5 DEF DiskFollows, Full, Types, ReqRecs
<1>8. SurviveInv'
    <2>1. /\ \A q \in LiveAccess' : q \in LiveAccess \/ q = p
          /\ \A q \in LiveRefresh' : q \in LiveRefresh
        BY <1>1, <1>2, <1>5 DEF LiveAccess, LiveRefresh, Pairing, Holding
    <2> QED BY <1>1, <1>3, <1>4, <2>1 DEF SurviveInv, Full
<1>9. RedisUsed'
    BY <1>0, <1>1, <1>2, <1>3, <1>4, <1>5 DEF RedisUsed, Full, Requests, OfRedis
<1>10. EndedInv'
    <2> SUFFICES ASSUME lapses' \cap {"delete", "disk", "away"} = {}
                 PROVE  /\ \A q \in drawn' \cap Pairs : from'[q] \in Pairs => from'[q] \notin file'.access /\ from'[q] \notin primary'.access
                        /\ \A s \in Reqs :
                              /\ req'[s].pc \in {"deletePrimary", "access"} \cup Pairing => req'[s].src \notin file'.access
                              /\ req'[s].pc \in {"access"} \cup Pairing => req'[s].src \notin primary'.access
        BY DEF EndedInv
    <2>1. /\ \A q \in drawn \cap Pairs : from[q] \in Pairs => from[q] \notin file.access /\ from[q] \notin primary.access
          /\ \A s \in Reqs :
                /\ req[s].pc \in {"deletePrimary", "access"} \cup Pairing => req[s].src \notin file.access
                /\ req[s].pc \in {"access"} \cup Pairing => req[s].src \notin primary.access
        BY <1>4 DEF EndedInv, Full
    <2>2. req[r].src \notin file.access /\ req[r].src \notin primary.access /\ req[r].src # p
        BY <1>0, <1>1, <1>2, <2>1 DEF Types, Stores, TokensAssumption, ReqRecs
    <2>3. \A q \in drawn \cap Pairs : from[q] # p /\ q # p
        BY <1>0, <1>1 DEF Base
    <2>4. \A s \in Reqs : req[s].pc # "idle" => req[s].src # p
        BY <1>0, <1>1 DEF Requests
    <2>5. \A q \in drawn' \cap Pairs : from'[q] \in Pairs => from'[q] \notin file'.access /\ from'[q] \notin primary'.access
        BY <1>1, <1>2, <1>3, <2>1, <2>2, <2>3
    <2>6. \A s \in Reqs :
                /\ req'[s].pc \in {"deletePrimary", "access"} \cup Pairing => req'[s].src \notin file'.access
                /\ req'[s].pc \in {"access"} \cup Pairing => req'[s].src \notin primary'.access
        BY <1>1, <1>3, <1>5, <2>1, <2>2, <2>4 DEF Pairing
    <2> QED BY <2>5, <2>6
<1>11. UsedInv'
    <2> SUFFICES ASSUME ~raced', lapses' \cap {"consume", "disk", "away"} = {}
                 PROVE  /\ \A x \in given' : Used(x)' => ~Has(primary, x)' /\ (Has(file, x)' => InWindow(x)')
                        /\ \A s, u \in Reqs : req'[s].pc \in Holding /\ req'[u].pc \in Holding /\ req'[s].src = req'[u].src => s = u
                        /\ \A s \in Reqs, q \in drawn' \cap Pairs : req'[s].pc \in Holding => from'[q] # req'[s].src
                        /\ \A q, u \in drawn' \cap Pairs : from'[q] = from'[u] => q = u
                        /\ \A s \in Reqs : req'[s].pc = "fallback" => ~Has(primary, req[s].src)'
        BY DEF UsedInv
    <2>1. /\ \A x \in given : Used(x) => ~Has(primary, x) /\ (Has(file, x) => InWindow(x))
          /\ \A s, u \in Reqs : req[s].pc \in Holding /\ req[u].pc \in Holding /\ req[s].src = req[u].src => s = u
          /\ \A s \in Reqs, q \in drawn \cap Pairs : req[s].pc \in Holding => from[q] # req[s].src
          /\ \A q, u \in drawn \cap Pairs : from[q] = from[u] => q = u
          /\ \A s \in Reqs : req[s].pc = "fallback" => ~Has(primary, req[s].src)
        BY <1>0, <1>1, <1>2, <1>3, <1>4, <1>5 DEF UsedInv, Full
    <2>2. \A x : (Has(file', x) <=> Has(file, x)) /\ (Has(primary', x) <=> Has(primary, x))
        BY <1>1, <1>3 DEF Has
    <2>3. \A s \in Reqs : req'[s].pc \in Holding => s # r /\ req[s].pc \in Holding /\ req'[s].src = req[s].src
        BY <1>5 DEF Holding
    <2>4. \A s \in Reqs : req'[s].pc = "fallback" => req[s].pc = "fallback" /\ req'[s].src = req[s].src
        BY <1>5
    <2>5. \A q \in drawn \cap Pairs : from'[q] = from[q] /\ from[q] # req[r].src /\ q # p
        BY <1>1, <1>2, <2>1
    <2>6. \A x : Used(x)' => Used(x)
        BY <1>1, <1>2, <2>3, <2>5 DEF Used
    <2>7. \A x : InWindow(x) /\ Has(file, x) /\ Used(x)' => InWindow(x)'
        <3> SUFFICES ASSUME NEW x, InWindow(x), Used(x)' PROVE InWindow(x)'
            OBVIOUS
        <3>1. PICK s \in Reqs : req[s].pc = "sync" /\ req[s].src = x
            BY DEF InWindow
        <3>2. s # r
            BY <1>1, <3>1
        <3> QED BY <1>5, <3>1, <3>2 DEF InWindow
    <2>8. \A x \in given' : Used(x)' => ~Has(primary', x) /\ (Has(file', x) => InWindow(x)')
        BY <1>1, <2>1, <2>2, <2>6, <2>7
    <2>9. \A s \in Reqs, q \in drawn' \cap Pairs : req'[s].pc \in Holding => from'[q] # req'[s].src
        BY <1>1, <1>2, <2>1, <2>3, <2>5
    <2>10. \A q, u \in drawn' \cap Pairs : from'[q] = from'[u] => q = u
        BY <1>1, <1>2, <2>1, <2>5
    <2>11. \A s, u \in Reqs : req'[s].pc \in Holding /\ req'[u].pc \in Holding /\ req'[s].src = req'[u].src => s = u
        BY <2>1, <2>3
    <2>12. \A s \in Reqs : req'[s].pc = "fallback" => ~Has(primary', req'[s].src)
        BY <2>1, <2>2, <2>4
    <2> QED BY <2>8, <2>9, <2>10, <2>11, <2>12 DEF Has
<1> QED BY <1>6, <1>7, <1>8, <1>9, <1>10, <1>11 DEF Full

LEMMA SaveTokenPrimaryKeeps ==
    ASSUME TokensAssumption, Full, NEW r \in Reqs, SaveTokenPrimary(r)
    PROVE  Full'
<1>0. Types /\ Requests /\ PairsApart /\ Base
    BY DEF Full, Base
<1>1. /\ UNCHANGED <<hybrid, file, disk, stage, drawn, given, from, spent, raced>> /\ req[r].pc = "accessPrimary" /\ hybrid
      /\ req[r].pair \in (Pairs \cap drawn) \ given /\ lapses \subseteq lapses'
      /\ primary' \in {primary, [primary EXCEPT !.access = @ \cup {req[r].pair}]} /\ (To(r, "refresh") \/ End(r))
    BY <1>0 DEF SaveTokenPrimary, SaveFails, Lapse, Requests, Pairing, OfRedis, history
<1>2. /\ primary' \in Stores /\ primary'.access \subseteq primary.access \cup {req[r].pair} /\ primary'.codes = primary.codes
      /\ primary'.refresh = primary.refresh
    <2>1. CASE UNCHANGED primary
        BY <1>0, <2>1 DEF Types, ReqRecs
    <2>2. CASE primary' = [primary EXCEPT !.access = @ \cup {req[r].pair}]
        BY <1>0, <1>1, <2>2, AddFacts DEF Types, ReqRecs
    <2> QED BY <1>1, <2>1, <2>2
<1>3. /\ \A s \in Reqs \ {r} : req'[s] = req[s]
      /\ req'[r].pc = "idle" \/ (req'[r].pc = "refresh" /\ req'[r].src = req[r].src /\ req'[r].pair = req[r].pair)
      /\ req' \in [Reqs -> ReqRecs]
    BY <1>0, <1>1, MoveFacts DEF Pairing
<1>4. Base'
    <2>1. Types'
        BY <1>0, <1>1, <1>2, <1>3 DEF Types, Holding, Pairing, ReqRecs
    <2>2. Requests'
        BY <1>0, <1>1, <1>2, <1>3 DEF Requests, Holding, Pairing, OfRedis, Types, ReqRecs
    <2>3. PairsApart'
        BY <1>0, <1>1, <1>2, <1>3 DEF PairsApart, Pairing, Holding, Requests, Types, ReqRecs
    <2>4. \A x \in (Codes \cup Pairs) \ given' : stage'[x] = 0
        BY <1>0, <1>1, <1>2, <1>3 DEF Base, Types, ReqRecs
    <2>5. \A p \in drawn' \cap Pairs : from'[p] \in given'
        BY <1>0, <1>1, <1>2, <1>3 DEF Base
    <2> QED BY <2>1, <2>2, <2>3, <2>4, <2>5 DEF Base
<1>5. DiskFollows'
    BY <1>0, <1>1, <1>2, <1>3 DEF DiskFollows, Full, Types, ReqRecs
<1>6. SurviveInv'
    <2>1. /\ \A q \in LiveAccess' : q \in LiveAccess
          /\ \A q \in LiveRefresh' : q \in LiveRefresh
        BY <1>1, <1>3 DEF LiveAccess, LiveRefresh, Pairing
    <2> QED BY <1>1, <2>1 DEF SurviveInv, Full
<1>7. RedisUsed'
    BY <1>0, <1>1, <1>2, <1>3 DEF RedisUsed, Full, Requests, OfRedis
<1>8. EndedInv'
    BY <1>0, <1>1, <1>2, <1>3, EndedKept DEF Pairing, Full
<1>9. UsedInv'
    BY <1>0, <1>1, <1>2, <1>3, UsedKept DEF Has, Holding, Pairing
<1> QED BY <1>4, <1>5, <1>6, <1>7, <1>8, <1>9 DEF Full

LEMMA SaveRefreshTokenPrimaryKeeps ==
    ASSUME TokensAssumption, Full, NEW r \in Reqs, SaveRefreshTokenPrimary(r)
    PROVE  Full'
<1>0. Types /\ Requests /\ PairsApart /\ Base
    BY DEF Full, Base
<1>1. /\ UNCHANGED <<hybrid, file, disk, stage, drawn, given, from, spent, raced>> /\ req[r].pc = "refreshPrimary" /\ hybrid
      /\ req[r].pair \in (Pairs \cap drawn) \ given /\ lapses \subseteq lapses'
      /\ primary' \in {primary, [primary EXCEPT !.refresh = @ \cup {req[r].pair}]} /\ (To(r, "answer") \/ End(r))
    BY <1>0 DEF SaveRefreshTokenPrimary, SaveFails, Lapse, Requests, Pairing, OfRedis, history
<1>2. /\ primary' \in Stores /\ primary'.refresh \subseteq primary.refresh \cup {req[r].pair}
      /\ primary'.codes = primary.codes
      /\ primary'.access = primary.access
    <2>1. CASE UNCHANGED primary
        BY <1>0, <2>1 DEF Types, ReqRecs
    <2>2. CASE primary' = [primary EXCEPT !.refresh = @ \cup {req[r].pair}]
        BY <1>0, <1>1, <2>2, AddFacts DEF Types, ReqRecs
    <2> QED BY <1>1, <2>1, <2>2
<1>3. /\ \A s \in Reqs \ {r} : req'[s] = req[s]
      /\ req'[r].pc = "idle" \/ (req'[r].pc = "answer" /\ req'[r].src = req[r].src /\ req'[r].pair = req[r].pair)
      /\ req' \in [Reqs -> ReqRecs]
    BY <1>0, <1>1, MoveFacts DEF Pairing
<1>4. Base'
    <2>1. Types'
        BY <1>0, <1>1, <1>2, <1>3 DEF Types, Holding, Pairing, ReqRecs
    <2>2. Requests'
        BY <1>0, <1>1, <1>2, <1>3 DEF Requests, Holding, Pairing, OfRedis, Types, ReqRecs
    <2>3. PairsApart'
        BY <1>0, <1>1, <1>2, <1>3 DEF PairsApart, Pairing, Holding, Requests, Types, ReqRecs
    <2>4. \A x \in (Codes \cup Pairs) \ given' : stage'[x] = 0
        BY <1>0, <1>1, <1>2, <1>3 DEF Base, Types, ReqRecs
    <2>5. \A p \in drawn' \cap Pairs : from'[p] \in given'
        BY <1>0, <1>1, <1>2, <1>3 DEF Base
    <2> QED BY <2>1, <2>2, <2>3, <2>4, <2>5 DEF Base
<1>5. DiskFollows'
    BY <1>0, <1>1, <1>2, <1>3 DEF DiskFollows, Full, Types, ReqRecs
<1>6. SurviveInv'
    <2>1. /\ \A q \in LiveAccess' : q \in LiveAccess
          /\ \A q \in LiveRefresh' : q \in LiveRefresh
        BY <1>1, <1>3 DEF LiveAccess, LiveRefresh, Pairing
    <2> QED BY <1>1, <2>1 DEF SurviveInv, Full
<1>7. RedisUsed'
    BY <1>0, <1>1, <1>2, <1>3 DEF RedisUsed, Full, Requests, OfRedis
<1>8. EndedInv'
    BY <1>0, <1>1, <1>2, <1>3, EndedKept DEF Pairing, Full
<1>9. UsedInv'
    BY <1>0, <1>1, <1>2, <1>3, UsedKept DEF Has, Holding, Pairing
<1> QED BY <1>4, <1>5, <1>6, <1>7, <1>8, <1>9 DEF Full

LEMMA SaveRefreshTokenFileKeeps ==
    ASSUME TokensAssumption, Full, NEW r \in Reqs, SaveRefreshTokenFile(r)
    PROVE  Full'
<1>0. Types /\ Requests /\ PairsApart /\ Base
    BY DEF Full, Base
<1>1. /\ UNCHANGED <<hybrid, primary, stage, drawn, given, from, spent, raced>> /\ req[r].pc = "refresh"
      /\ req[r].pair \in (Pairs \cap drawn) \ given
      /\ file' = [file EXCEPT !.refresh = @ \cup {req[r].pair}] /\ saveState(file')
      /\ To(r, IF hybrid THEN "refreshPrimary" ELSE "answer")
    BY <1>0 DEF SaveRefreshTokenFile, FileSet, Requests, Pairing, history
<1>2. /\ file' \in Stores /\ file'.refresh = file.refresh \cup {req[r].pair} /\ file'.codes = file.codes
      /\ file'.access = file.access
    BY <1>0, <1>1, AddFacts DEF Types, ReqRecs
<1>3. /\ disk' \in Stores /\ disk'.codes = {} /\ lapses \subseteq lapses'
      /\ "disk" \notin lapses' => disk'.access = file'.access /\ disk'.refresh = file'.refresh
    BY <1>0, <1>1, <1>2, SaveFacts DEF Types, ReqRecs
<1>4. /\ req'[r].pc = (IF hybrid THEN "refreshPrimary" ELSE "answer") /\ req'[r].src = req[r].src
      /\ req'[r].pair = req[r].pair /\ \A s \in Reqs \ {r} : req'[s] = req[s]
      /\ req' \in [Reqs -> ReqRecs]
    BY <1>0, <1>1, MoveFacts DEF Pairing
<1>5. Base'
    <2>1. Types'
        BY <1>0, <1>1, <1>2, <1>3, <1>4 DEF Types, Holding, Pairing, ReqRecs
    <2>2. Requests'
        BY <1>0, <1>1, <1>2, <1>3, <1>4 DEF Requests, Holding, Pairing, OfRedis, Types, ReqRecs
    <2>3. PairsApart'
        BY <1>0, <1>1, <1>2, <1>3, <1>4 DEF PairsApart, Pairing, Holding, Requests, Types, ReqRecs
    <2>4. \A x \in (Codes \cup Pairs) \ given' : stage'[x] = 0
        BY <1>0, <1>1, <1>2, <1>3, <1>4 DEF Base, Types, ReqRecs
    <2>5. \A p \in drawn' \cap Pairs : from'[p] \in given'
        BY <1>0, <1>1, <1>2, <1>3, <1>4 DEF Base
    <2> QED BY <2>1, <2>2, <2>3, <2>4, <2>5 DEF Base
<1>6. DiskFollows'
    BY <1>0, <1>1, <1>2, <1>3, <1>4 DEF DiskFollows, Full, Types, ReqRecs
<1>7. SurviveInv'
    <2>1. /\ \A q \in LiveAccess' : q \in LiveAccess
          /\ \A q \in LiveRefresh' : q \in LiveRefresh \/ q = req[r].pair
        BY <1>1, <1>4 DEF LiveAccess, LiveRefresh, Pairing
    <2> QED BY <1>1, <1>2, <1>3, <2>1 DEF SurviveInv, Full
<1>8. RedisUsed'
    BY <1>0, <1>1, <1>2, <1>3, <1>4 DEF RedisUsed, Full, Requests, OfRedis
<1>9. EndedInv'
    BY <1>0, <1>1, <1>2, <1>3, <1>4, EndedKept DEF Pairing, Full
<1>10. UsedInv'
    BY <1>0, <1>1, <1>2, <1>3, <1>4, UsedKept DEF Has, Holding, Pairing
<1> QED BY <1>5, <1>6, <1>7, <1>8, <1>9, <1>10 DEF Full

LEMMA RestartKeeps ==
    ASSUME TokensAssumption, Full, NEW reachable \in BOOLEAN, Restart(reachable)
    PROVE  Full'
<1>0. Types /\ Requests /\ PairsApart /\ Base
    BY DEF Full, Base
<1>1. /\ UNCHANGED <<disk, stage, drawn, given, from, spent, raced>> /\ hybrid' = reachable
      /\ req' = [r \in Reqs |-> NoReq] /\ file' = Fresh(disk) /\ lapses \subseteq lapses'
      /\ ("away" \notin lapses' => reachable = hybrid)
    BY DEF Restart, loadState, Lapse, history
<1>2. /\ file' \in Stores /\ file'.codes = {} /\ file'.access = {p \in disk.access : stage[p] = 0}
      /\ file'.refresh = {p \in disk.refresh : stage[p] < 2}
    BY <1>0, <1>1, FreshFacts DEF Types, ReqRecs
<1>3. /\ primary' \in Stores /\ primary'.access \subseteq primary.access \cup file'.access /\ primary'.codes = primary.codes
      /\ primary'.refresh \subseteq primary.refresh \cup file'.refresh /\ (~reachable => primary' = primary)
    <2>1. PICK A \in SUBSET file'.access, R \in SUBSET file'.refresh :
             primary' = IF reachable THEN [primary EXCEPT !.access = @ \cup A, !.refresh = @ \cup R] ELSE primary
        BY <1>1 DEF Restart, loadState
    <2>2. A \subseteq Pairs /\ R \subseteq Pairs
        BY <1>2 DEF Stores
    <2>3. CASE ~reachable
        BY <1>0, <2>1, <2>3 DEF Types, ReqRecs
    <2>4. CASE reachable
        <3>1. /\ primary' \in Stores /\ primary'.access = primary.access \cup A /\ primary'.codes = primary.codes
              /\ primary'.refresh = primary.refresh \cup R
            BY <1>0, <2>1, <2>2, <2>4 DEF Types, Stores, ReqRecs
        <3> QED BY <2>4, <3>1
    <2> QED BY <2>3, <2>4
<1>4. /\ \A r \in Reqs : req'[r].pc = "idle"
      /\ req' \in [Reqs -> ReqRecs]
    BY <1>1 DEF NoReq, ReqRecs
<1>5. Base'
    <2>1. Types'
        BY <1>0, <1>1, <1>2, <1>3, <1>4 DEF Types, Holding, Pairing, ReqRecs
    <2>2. Requests'
        BY <1>0, <1>1, <1>2, <1>3, <1>4 DEF Requests, Holding, Pairing, OfRedis, Types, ReqRecs
    <2>3. PairsApart'
        BY <1>0, <1>1, <1>2, <1>3, <1>4 DEF PairsApart, Pairing, Holding, Requests, Types, ReqRecs
    <2>4. \A x \in (Codes \cup Pairs) \ given' : stage'[x] = 0
        BY <1>0, <1>1, <1>2, <1>3, <1>4 DEF Base, Types, ReqRecs
    <2>5. \A p \in drawn' \cap Pairs : from'[p] \in given'
        BY <1>0, <1>1, <1>2, <1>3, <1>4 DEF Base
    <2> QED BY <2>1, <2>2, <2>3, <2>4, <2>5 DEF Base
<1>6. DiskFollows'
    BY <1>0, <1>1, <1>2, <1>3, <1>4 DEF DiskFollows, Full, Types, ReqRecs
<1>7. SurviveInv'
    <2>1. /\ \A q \in LiveAccess' : q \in LiveAccess
          /\ \A q \in LiveRefresh' : q \in LiveRefresh
        BY <1>1, <1>4 DEF LiveAccess, LiveRefresh, Pairing
    <2> QED BY <1>1, <1>2, <2>1 DEF SurviveInv, Full
<1>8. RedisUsed'
    BY <1>0, <1>1, <1>2, <1>3, <1>4 DEF RedisUsed, Full, Requests, OfRedis
<1>9. EndedInv'
    <2>1. lapses' \cap {"delete", "disk", "away"} = {} => file'.access \subseteq file.access
        BY <1>1, <1>2 DEF Full, DiskFollows
    <2> QED BY <1>1, <1>3, <1>4, <2>1 DEF EndedInv, Full, Pairing
<1>10. UsedInv'
    <2> SUFFICES ASSUME ~raced', lapses' \cap {"consume", "disk", "away"} = {}
                 PROVE  /\ \A x \in given' : Used(x)' => ~Has(primary, x)' /\ (Has(file, x)' => InWindow(x)')
                        /\ \A s, u \in Reqs : req'[s].pc \in Holding /\ req'[u].pc \in Holding /\ req'[s].src = req'[u].src => s = u
                        /\ \A s \in Reqs, q \in drawn' \cap Pairs : req'[s].pc \in Holding => from'[q] # req'[s].src
                        /\ \A q, u \in drawn' \cap Pairs : from'[q] = from'[u] => q = u
                        /\ \A s \in Reqs : req'[s].pc = "fallback" => ~Has(primary, req[s].src)'
        BY DEF UsedInv
    <2>1. /\ \A x \in given : Used(x) => ~Has(primary, x) /\ (Has(file, x) => InWindow(x))
          /\ \A s, u \in Reqs : req[s].pc \in Holding /\ req[u].pc \in Holding /\ req[s].src = req[u].src => s = u
          /\ \A s \in Reqs, q \in drawn \cap Pairs : req[s].pc \in Holding => from[q] # req[s].src
          /\ \A q, u \in drawn \cap Pairs : from[q] = from[u] => q = u
          /\ \A s \in Reqs : req[s].pc = "fallback" => ~Has(primary, req[s].src)
        BY <1>0, <1>1, <1>2, <1>3, <1>4 DEF UsedInv, Full
    <2>2. \A x : Used(x)' => \E p \in drawn \cap Pairs : from[p] = x
        BY <1>1, <1>4 DEF Used, Holding
    <2>3. \A x \in given : Used(x)' => ~Has(primary, x) /\ ~Has(file, x)
        <3> SUFFICES ASSUME NEW x \in given, Used(x)' PROVE ~Has(primary, x) /\ ~Has(file, x)
            OBVIOUS
        <3>1. PICK p \in drawn \cap Pairs : from[p] = x
            BY <2>2
        <3>2. Used(x)
            BY <3>1 DEF Used
        <3>3. ~InWindow(x)
            BY <2>1, <3>1 DEF InWindow, Holding
        <3> QED BY <2>1, <3>2, <3>3
    <2>4. file'.refresh \subseteq file.refresh
        BY <1>1, <1>2 DEF Full, DiskFollows
    <2>5. \A x : (Has(file', x) => Has(file, x)) /\ (Has(primary', x) => Has(primary, x) \/ Has(file, x))
        BY <1>2, <1>3, <2>4 DEF Has
    <2>6. \A x \in given' : Used(x)' => ~Has(primary', x) /\ ~Has(file', x)
        BY <1>1, <2>3, <2>5
    <2>7. \A s \in Reqs : req'[s].pc \notin Holding \cup {"fallback"}
        BY <1>4 DEF Holding
    <2> QED BY <1>1, <2>1, <2>6, <2>7 DEF Has
<1> QED BY <1>5, <1>6, <1>7, <1>8, <1>9, <1>10 DEF Full

LEMMA StutterKeeps ==
    ASSUME Full, UNCHANGED vars
    PROVE  Full'
<1> USE DEF vars, history
<1>1. Base'
    BY DEF Full, Base, Types, Requests, PairsApart, ReqRecs
<1>2. DiskFollows' /\ RedisUsed' /\ EndedInv'
    BY DEF Full, DiskFollows, RedisUsed, EndedInv
<1>3. SurviveInv'
    BY DEF Full, SurviveInv, LiveAccess, LiveRefresh
<1>4. UsedInv'
    BY DEF Full, UsedInv, Used, Has, InWindow
<1> QED BY <1>1, <1>2, <1>3, <1>4 DEF Full

LEMMA FullNext ==
    ASSUME TokensAssumption, Full, [Next]_vars
    PROVE  Full'
<1>1. ASSUME NEW c \in Codes, Authorize(c) PROVE Full'
    BY <1>1, AuthorizeKeeps
<1>2. ASSUME NEW x \in Codes \cup Pairs, Age(x) PROVE Full'
    BY <1>2, AgeKeeps
<1>3. ASSUME NEW r \in Reqs, NEW src \in Codes \cup Pairs, handleToken(r, src) PROVE Full'
    BY <1>3, handleTokenKeeps
<1>4. ASSUME NEW r \in Reqs, ConsumePrimary(r) \/ SyncFile(r) \/ Fallback(r) \/ Refuse(r) PROVE Full'
    BY <1>4, ConsumePrimaryKeeps, SyncFileKeeps, FallbackKeeps, RefuseKeeps
<1>5. ASSUME NEW r \in Reqs, DeleteFile(r) \/ DeletePrimary(r) PROVE Full'
    BY <1>5, DeleteFileKeeps, DeletePrimaryKeeps
<1>6. ASSUME NEW r \in Reqs, NEW p \in Pairs, SaveTokenFile(r, p) PROVE Full'
    BY <1>6, SaveTokenFileKeeps
<1>7. ASSUME NEW r \in Reqs, \/ SaveTokenPrimary(r) \/ SaveRefreshTokenFile(r) \/ SaveRefreshTokenPrimary(r)
                             \/ Answer(r)
      PROVE  Full'
    BY <1>7, SaveTokenPrimaryKeeps, SaveRefreshTokenFileKeeps, SaveRefreshTokenPrimaryKeeps, AnswerKeeps
<1>8. ASSUME NEW p \in Pairs, GetTokenOver(p) PROVE Full'
    BY <1>8, GetTokenOverKeeps
<1>9. CASE removeExpired \/ ExpireKeys \/ RedisLosesData
    BY <1>9, removeExpiredKeeps, ExpireKeysKeeps, RedisLosesDataKeeps
<1>10. ASSUME NEW reachable \in BOOLEAN, Restart(reachable) PROVE Full'
    BY <1>10, RestartKeeps
<1>11. CASE UNCHANGED vars
    BY <1>11, StutterKeeps
<1> QED BY <1>1, <1>2, <1>3, <1>4, <1>5, <1>6, <1>7, <1>8, <1>9, <1>10, <1>11 DEF Next

LEMMA FullInit == TokensAssumption /\ Init => Full
<1> SUFFICES ASSUME TokensAssumption, Init PROVE Full
    OBVIOUS
<1>1. Base
    BY BaseInit
<1>2. /\ \A r \in Reqs : req[r].pc = "idle"
      /\ drawn = {} /\ given = {} /\ disk = Empty /\ file = Empty /\ primary = Empty
    BY DEF Init, NoReq
<1>3. DiskFollows /\ RedisUsed /\ EndedInv
    BY <1>2, EmptyFacts DEF DiskFollows, RedisUsed, EndedInv, Pairing
<1>4. SurviveInv
    BY <1>2 DEF SurviveInv, LiveAccess, LiveRefresh, Pairing
<1>5. UsedInv
    BY <1>2 DEF UsedInv, Used, Holding
<1> QED BY <1>1, <1>3, <1>4, <1>5 DEF Full

LEMMA FullAlways == Spec => []Full
<1>1. Init => Full
    BY TokensAssumption, FullInit
<1>2. Full /\ [Next]_vars => Full'
    BY TokensAssumption, FullNext
<1> QED BY <1>1, <1>2, PTL DEF Spec

-----------------------------------------------------------------------------
\* ConsumeAuthCode, ConsumeRefreshToken: for any number of requests, of
\* restarts and of losses of Redis, no code and no refresh token is answered
\* with two pairs, under the exceptions SingleUse names.
THEOREM ExchangedOnce == Spec => []SingleUse
<1>1. Full => SingleUse
    BY DEF Full, UsedInv, SingleUse, Base, Types, ReqRecs
<1> QED BY <1>1, FullAlways, PTL

\* handleRefreshTokenGrant: for any number of requests and restarts, once a
\* refresh was answered the access token it replaces is accepted from
\* neither store, under the exceptions OldAccessEnds names.
THEOREM ReplacedAccessEnds == Spec => []OldAccessEnds
<1>1. Full => OldAccessEnds
    BY DEF Full, EndedInv, OldAccessEnds, Accepts, Base, Types, ReqRecs
<1> QED BY <1>1, FullAlways, PTL

\* HybridTokenStore, FileTokenStore: for any number of restarts, losses of
\* Redis and failing commands, a pair that was answered and not exchanged is
\* accepted and can be refreshed for as long as it lives and the file can be
\* written.
THEOREM SessionsOutliveFailures == Spec => []SessionSurvives
<1>1. Full => SessionSurvives
    BY DEF Full, SurviveInv, LiveAccess, LiveRefresh, SessionSurvives, Accepts, Refreshable
<1> QED BY <1>1, FullAlways, PTL

=============================================================================
