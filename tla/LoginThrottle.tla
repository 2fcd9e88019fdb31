---------------------------- MODULE LoginThrottle ----------------------------
(***************************************************************************)
(* Password logins (internal/mcp: handleAuthorize) under the limits for    *)
(* failed attempts (internal/auth: LoginThrottle) and the limit on hash    *)
(* comparisons (CompareLimiter).  An attempt is charged to its counters    *)
(* before its password is compared and keeps the charge when it is wrong.  *)
(* Redis decides, and the table of the process mirrors it; when a command  *)
(* of Redis fails, or the table holds charges Redis never saw, the table   *)
(* decides.  Each script and each section under the lock is a step.        *)
(*                                                                         *)
(* Data: a counter is named by what it counts; a count of 0 is a missing   *)
(* entry.  A window ends at any time between attempts: an attempt takes    *)
(* seconds (compareMaxWait, redisTimeout), a window minutes.               *)
(***************************************************************************)
EXTENDS Naturals, Sequences, FiniteSets

CONSTANTS
    Attempts,       \* login requests, each made once
    Accounts, IPs,
    AuthUser,       \* the account of the single password
    MaxFailuresPerUserIP, MaxFailuresPerUser, MaxFailuresPerIP,
    MaxEntries,     \* maxLocalLoginCounters
    Slots,          \* comparisons at a time
    MaxWaiting,     \* requests that wait for a slot
    MaxRedisFails,  \* bound on the failing commands of Redis
    MaxWindowEnds   \* bound on the windows that end

ASSUME LoginAssumption ==
    /\ AuthUser \in Accounts /\ IsFiniteSet(Attempts)
    /\ MaxEntries \in Nat /\ MaxEntries >= 3
    /\ {MaxFailuresPerUserIP, MaxFailuresPerUser, MaxFailuresPerIP} \subseteq Nat
    /\ Slots \in Nat \ {0} /\ MaxWaiting \in Nat /\ MaxRedisFails \in Nat /\ MaxWindowEnds \in Nat

VARIABLES
    rdb,         \* a Redis client was given
    userStore,   \* users.yaml, or else the single password
    shared,      \* the counters in Redis
    local,       \* localLoginCounters: count, and how many of it Redis does not know
    attempt,     \* the requests
    slotQueue,   \* who waits for a slot, in order
    redisFails, windowEnds,
    \* History.
    charged,     \* where the charge of an attempt is still held: <<table, counter>>
    loosened,    \* <<table, counter>> -> charges in force that the table has lost: to a
                 \* refund of another attempt, a clear, an eviction, the end of its own
                 \* window, or a mark that is below the count
    overlapped,  \* the table decided while Redis decided another attempt on a counter
    lockoutLost  \* an exhausted counter was dropped although others could have been

loginVars == <<rdb, userStore, shared, local, attempt, slotQueue, redisFails, windowEnds,
               charged, loosened, overlapped, lockoutLost>>
loginHistory == <<windowEnds, charged, loosened, overlapped, lockoutLost>>

LoginKeys == ({"user_ip"} \X Accounts \X IPs) \cup ({"user"} \X Accounts) \cup ({"ip"} \X IPs)
LoginLimit(k) ==
    [user_ip |-> MaxFailuresPerUserIP, user |-> MaxFailuresPerUser, ip |-> MaxFailuresPerIP][k[1]]

\* counters: the narrowest first; a limit of 0 disables its counter.
Enabled(k) == IF LoginLimit(k) > 0 THEN <<k>> ELSE <<>>
counters(acct, ip) == Enabled(<<"user_ip", acct, ip>>) \o Enabled(<<"user", acct>>) \o Enabled(<<"ip", ip>>)

KeysOf(cs) == {cs[i] : i \in DOMAIN cs}
Keys(a) == KeysOf(attempt[a].counters)
NoAttempt == [pc |-> "new", counters |-> <<>>, shared |-> FALSE, clear |-> FALSE]
LoginAt(a, pc) == attempt' = [attempt EXCEPT ![a].pc = pc]
\* An answer after which no charge is left: a code, or a page that says that
\* the login was turned away, blocked or could not be checked.
Answered(a) == [attempt EXCEPT ![a] = [NoAttempt EXCEPT !.pc = "answered"]]
InFlight == {a \in Attempts : attempt[a].pc \notin {"new", "failed", "answered"}}
NoCounter == [count |-> 0, unshared |-> 0]
Present == {k \in LoginKeys : local[k].count > 0}

\* History: whose charge a table holds, and the charges without some of it.
HeldIn(table, k) == {a \in Attempts : <<table, k>> \in charged[a]}
Uncharge(table, ks) == [a \in Attempts |-> charged[a] \ ({table} \X ks)]
Tables == {"shared", "local"}
Loosen(table, n) ==
    [tk \in Tables \X LoginKeys |-> IF tk[1] = table THEN loosened[tk] + n[tk[2]] ELSE loosened[tk]]

-----------------------------------------------------------------------------
LoginInit ==
    /\ rdb \in BOOLEAN /\ userStore \in BOOLEAN
    /\ shared = [k \in LoginKeys |-> 0]
    /\ local = [k \in LoginKeys |-> NoCounter]
    /\ attempt = [a \in Attempts |-> NoAttempt]
    /\ slotQueue = <<>> /\ redisFails = 0 /\ windowEnds = 0
    /\ charged = [a \in Attempts |-> {}]
    /\ loosened = [tk \in Tables \X LoginKeys |-> 0]
    /\ overlapped = FALSE /\ lockoutLost = FALSE

\* handleAuthorize turns a request away that has no PKCE challenge, no known
\* client with this redirect, or comes while password login is disabled.
Reject(a) ==
    /\ attempt[a].pc = "new"
    /\ attempt' = Answered(a)
    /\ UNCHANGED <<rdb, userStore, shared, local, slotQueue, redisFails, loginHistory>>

\* As holdsUnshared, for the narrowest counter only.
holdsUnsharedFirst(cs) == cs # <<>> /\ local[cs[1]].unshared > 0

\* holdsUnshared: Redis would count too little for this attempt.
holdsUnshared(cs) == \E k \in KeysOf(cs) : local[k].unshared > 0

\* Acquire chooses the table.  With the single password every attempt counts
\* against the configured account.
Acquire(a) ==
    /\ attempt[a].pc = "new"
    /\ \E acct \in IF userStore THEN Accounts ELSE {AuthUser}, ip \in IPs :
          LET cs == counters(acct, ip) IN
          attempt' = [attempt EXCEPT ![a].counters = cs,
                          ![a].pc = IF cs = <<>> THEN "allowed"
                                    ELSE IF rdb /\ ~holdsUnshared(cs) THEN "redis" ELSE "local"]
    /\ UNCHANGED <<rdb, userStore, shared, local, slotQueue, redisFails, loginHistory>>

SharedExhausted(a) == {i \in DOMAIN attempt[a].counters :
                          shared[attempt[a].counters[i]] >= LoginLimit(attempt[a].counters[i])}

\* loginAcquireScript: nothing is charged unless every counter has room.
acquireScript(a) ==
    [k \in LoginKeys |-> IF k \in Keys(a) /\ SharedExhausted(a) = {} THEN shared[k] + 1 ELSE shared[k]]

\* acquireRedis.  A command that fails may have run or not.
acquireRedis(a) ==
    /\ attempt[a].pc = "redis"
    /\ \/ /\ shared' = acquireScript(a)
          /\ IF SharedExhausted(a) = {}
             THEN /\ attempt' = [attempt EXCEPT ![a].pc = "charge", ![a].shared = TRUE]
                  /\ charged' = [charged EXCEPT ![a] = {"shared"} \X Keys(a)]
             ELSE /\ \E i \in SharedExhausted(a) :
                       /\ \A j \in SharedExhausted(a) : i <= j
                       /\ attempt' = [attempt EXCEPT ![a].pc = "exhaust", ![a].counters = <<@[i]>>]
                  /\ UNCHANGED charged
          /\ UNCHANGED redisFails
       \/ /\ redisFails < MaxRedisFails
          /\ redisFails' = redisFails + 1
          /\ shared' \in {shared, acquireScript(a)}
          /\ LoginAt(a, "local")
          /\ UNCHANGED charged
    /\ UNCHANGED <<rdb, userStore, local, slotQueue, windowEnds, loosened, overlapped, lockoutLost>>

\* makeRoom: what it may drop, in the order of a map.  First a batch that is
\* not exhausted, then anything until the new counters fit, never those of the
\* attempt itself.
makeRoom(need, keep) ==
    LET others == Present \ keep
        weak   == {k \in others : local[k].count < LoginLimit(k)}
        batch  == IF need > MaxEntries \div 10 THEN need ELSE MaxEntries \div 10
        Left(d) == Cardinality(Present \ d) + need
        First  == {d \in SUBSET weak : Cardinality(d) = batch \/ (d = weak /\ Cardinality(d) < batch)}
        Then(d) == {e \in SUBSET others : d \subseteq e /\ (Left(e) = MaxEntries \/ (e = others /\ Left(e) > MaxEntries))}
    IN IF Left({}) <= MaxEntries THEN {{}}
       ELSE UNION {IF Left(d) <= MaxEntries THEN {d} ELSE Then(d) : d \in First}

\* What an eviction does to the history.
Evicted(dropped, keep, marked) ==
    /\ loosened' = Loosen("local", [k \in LoginKeys |->
                              IF k \in dropped THEN Cardinality(HeldIn("local", k)) ELSE marked[k]])
    /\ lockoutLost' = (lockoutLost \/
          /\ \E k \in dropped : local[k].count >= LoginLimit(k)
          /\ \E k \in Present \ (keep \cup dropped) : local[k].count < LoginLimit(k))

\* charge: one more on each counter, after room was made for the new ones.
charge(a, unshared) ==
    \E dropped \in makeRoom(Cardinality(Keys(a) \ Present), Keys(a)) :
       /\ local' = [k \in LoginKeys |->
                       IF k \in Keys(a) THEN [count |-> local[k].count + 1, unshared |-> local[k].unshared + unshared]
                       ELSE IF k \in dropped THEN NoCounter ELSE local[k]]
       /\ charged' = [Uncharge("local", dropped) EXCEPT ![a] = @ \cup ({"local"} \X Keys(a))]
       /\ Evicted(dropped, Keys(a), [k \in LoginKeys |-> 0])

\* mirror of an attempt that Redis has allowed.
mirrorCharge(a) ==
    /\ attempt[a].pc = "charge"
    /\ charge(a, 0)
    /\ LoginAt(a, "allowed")
    /\ UNCHANGED <<rdb, userStore, shared, slotQueue, redisFails, windowEnds, overlapped>>

\* mirror of a blocked attempt: its counter is marked exhausted, unless it
\* has charges of its own.  The mark takes the place of a higher count.
exhaust(a) ==
    LET k == attempt[a].counters[1]
        excess == IF local[k].count > LoginLimit(k) THEN local[k].count - LoginLimit(k) ELSE 0 IN
    /\ attempt[a].pc = "exhaust"
    /\ \/ /\ local[k].unshared > 0
          /\ UNCHANGED <<local, charged, loosened, lockoutLost>>
       \/ /\ local[k].unshared = 0
          /\ \E dropped \in IF k \in Present THEN {{}} ELSE makeRoom(1, {k}) :
                /\ local' = [j \in LoginKeys |->
                                IF j = k THEN [count |-> LoginLimit(k), unshared |-> 0]
                                ELSE IF j \in dropped THEN NoCounter ELSE local[j]]
                /\ charged' = Uncharge("local", dropped)
                /\ Evicted(dropped, {k}, [j \in LoginKeys |-> IF j = k THEN excess ELSE 0])
    /\ attempt' = Answered(a)
    /\ UNCHANGED <<rdb, userStore, shared, slotQueue, redisFails, windowEnds, overlapped>>

\* The table decides: blocked, or charged with charges Redis does not know.
acquireLocal(a) ==
    /\ attempt[a].pc = "local"
    /\ IF \E k \in Keys(a) : local[k].count >= LoginLimit(k)
       THEN /\ attempt' = Answered(a)
            /\ UNCHANGED <<local, charged, loosened, overlapped, lockoutLost>>
       ELSE /\ charge(a, 1)
            /\ LoginAt(a, "allowed")
            /\ overlapped' = (overlapped \/ \E b \in Attempts :
                                 attempt[b].pc \in {"redis", "charge"} /\ Keys(a) \cap Keys(b) # {})
    /\ UNCHANGED <<rdb, userStore, shared, slotQueue, redisFails, windowEnds>>

-----------------------------------------------------------------------------
\* As Cancel, forgotten: the attempt keeps its charge.
CancelForgotten(att, a) == [att EXCEPT ![a].pc = "answered"]

\* Cancel: the password was not compared, so every slot goes back.
Cancel(att, a) == [att EXCEPT ![a].pc = "release"]

Comparing == {a \in Attempts : attempt[a].pc = "comparing"}

\* CompareLimiter.acquire: a free slot, a place in the queue, or neither.  A
\* client that is gone gets no comparison.
acquireSlot(a) ==
    /\ attempt[a].pc = "allowed" /\ userStore
    /\ \/ attempt' = Cancel(attempt, a) /\ UNCHANGED slotQueue
       \/ /\ Cardinality(Comparing) < Slots
          /\ LoginAt(a, "comparing") /\ UNCHANGED slotQueue
       \/ /\ Cardinality(Comparing) >= Slots
          /\ IF Len(slotQueue) >= MaxWaiting
             THEN attempt' = Cancel(attempt, a) /\ UNCHANGED slotQueue
             ELSE LoginAt(a, "waiting") /\ slotQueue' = Append(slotQueue, a)
    /\ UNCHANGED <<rdb, userStore, shared, local, redisFails, loginHistory>>

\* The timer or the client ends the wait.
GiveUpWaiting(a) ==
    /\ attempt[a].pc = "waiting"
    /\ \E i \in DOMAIN slotQueue :
          /\ slotQueue[i] = a
          /\ slotQueue' = SubSeq(slotQueue, 1, i - 1) \o SubSeq(slotQueue, i + 1, Len(slotQueue))
    /\ attempt' = Cancel(attempt, a)
    /\ UNCHANGED <<rdb, userStore, shared, local, redisFails, loginHistory>>

\* A correct password is released, a wrong one keeps its charge.
Verdict(att, a, right) ==
    IF right THEN [att EXCEPT ![a].pc = "release", ![a].clear = TRUE] ELSE [att EXCEPT ![a].pc = "failed"]

\* Authenticate: the comparison ends and its slot goes to the longest waiter.
Compared(a) ==
    /\ attempt[a].pc = "comparing"
    /\ \E right \in BOOLEAN :
          attempt' = IF slotQueue = <<>> THEN Verdict(attempt, a, right)
                     ELSE [Verdict(attempt, a, right) EXCEPT ![Head(slotQueue)].pc = "comparing"]
    /\ slotQueue' = IF slotQueue = <<>> THEN <<>> ELSE Tail(slotQueue)
    /\ UNCHANGED <<rdb, userStore, shared, local, redisFails, loginHistory>>

\* The single password is compared without a slot.
SinglePassword(a) ==
    /\ attempt[a].pc = "allowed" /\ ~userStore
    /\ \E right \in BOOLEAN : attempt' = Verdict(attempt, a, right)
    /\ UNCHANGED <<rdb, userStore, shared, local, slotQueue, redisFails, loginHistory>>

Cleared(a) == {k \in Keys(a) : attempt[a].clear /\ k[1] # "ip"}
Refunded(a) == Keys(a) \ Cleared(a)

\* loginReleaseScript: clear, or hand back a slot that was reserved there.
releaseScript(a) ==
    [k \in LoginKeys |-> IF k \in Cleared(a) THEN 0
                         ELSE IF k \in Refunded(a) /\ attempt[a].shared /\ shared[k] > 0 THEN shared[k] - 1
                         ELSE shared[k]]

\* A refund that finds the charge of others in place of its own.
StaleRefund(a, table, count) ==
    [k \in LoginKeys |-> IF k \in Refunded(a) /\ <<table, k>> \notin charged[a] /\ count[k] > 0 THEN 1 ELSE 0]

\* release, in Redis: an error is logged, the counters stay too high.
releaseRedis(a) ==
    /\ attempt[a].pc = "release" /\ rdb
    /\ \/ shared' = releaseScript(a) /\ UNCHANGED redisFails
       \/ /\ redisFails < MaxRedisFails
          /\ redisFails' = redisFails + 1
          /\ shared' \in {shared, releaseScript(a)}
    /\ charged' = [Uncharge("shared", Cleared(a)) EXCEPT ![a] = @ \ ({"shared"} \X LoginKeys)]
    /\ loosened' = IF attempt[a].shared THEN Loosen("shared", StaleRefund(a, "shared", shared)) ELSE loosened
    /\ LoginAt(a, "releaseLocal")
    /\ UNCHANGED <<rdb, userStore, local, slotQueue, windowEnds, overlapped, lockoutLost>>

\* What release leaves of a counter in the table.
releasedLocal(a, k) ==
    IF k \in Cleared(a) THEN NoCounter
    ELSE IF k \notin Refunded(a) \/ k \notin Present THEN local[k]
    ELSE IF local[k].count <= 1 THEN NoCounter
    ELSE [count    |-> local[k].count - 1,
          unshared |-> IF ~attempt[a].shared /\ local[k].unshared > 0 THEN local[k].unshared - 1
                       ELSE local[k].unshared]

\* release, in the table.  Then the code is saved, or the answer says that
\* the login could not be checked.
releaseLocal(a) ==
    /\ attempt[a].pc = "releaseLocal" \/ (attempt[a].pc = "release" /\ ~rdb)
    /\ local' = [k \in LoginKeys |-> releasedLocal(a, k)]
    /\ charged' = [Uncharge("local", Cleared(a)) EXCEPT ![a] = {}]
    /\ loosened' = Loosen("local", [k \in LoginKeys |->
                              IF k \in Cleared(a) THEN Cardinality(HeldIn("shared", k))
                              ELSE StaleRefund(a, "local", [j \in LoginKeys |-> local[j].count])[k]])
    /\ attempt' = Answered(a)
    /\ UNCHANGED <<rdb, userStore, shared, slotQueue, redisFails, windowEnds, overlapped, lockoutLost>>

-----------------------------------------------------------------------------
\* The window of a counter ends.
ExpireShared(k) ==
    /\ InFlight = {} /\ windowEnds < MaxWindowEnds /\ windowEnds' = windowEnds + 1
    /\ shared[k] > 0
    /\ shared' = [shared EXCEPT ![k] = 0]
    /\ charged' = Uncharge("shared", {k})
    /\ UNCHANGED <<rdb, userStore, local, attempt, slotQueue, redisFails, loosened, overlapped, lockoutLost>>

ExpireLocal(k) ==
    /\ InFlight = {} /\ windowEnds < MaxWindowEnds /\ windowEnds' = windowEnds + 1
    /\ k \in Present
    /\ local' = [local EXCEPT ![k] = NoCounter]
    /\ charged' = Uncharge("local", {k})
    /\ loosened' = [loosened EXCEPT ![<<"local", k>>] = @ + Cardinality(HeldIn("shared", k))]
    /\ UNCHANGED <<rdb, userStore, shared, attempt, slotQueue, redisFails, overlapped, lockoutLost>>

LoginNext ==
    \/ \E a \in Attempts :
          \/ Reject(a) \/ Acquire(a) \/ acquireRedis(a) \/ mirrorCharge(a) \/ exhaust(a) \/ acquireLocal(a)
          \/ acquireSlot(a) \/ GiveUpWaiting(a) \/ Compared(a) \/ SinglePassword(a)
          \/ releaseRedis(a) \/ releaseLocal(a)
    \/ \E k \in LoginKeys : ExpireShared(k) \/ ExpireLocal(k)

LoginSpec == LoginInit /\ [][LoginNext]_loginVars

-----------------------------------------------------------------------------
\* makeRoom, CompareLimiter: the table keeps its bound and drops a lockout
\* only when nothing else is left to drop; a slot is not left free while
\* someone waits, and who waits is in the queue, once.
LoginBoundsKept ==
    /\ Cardinality(Present) <= MaxEntries /\ ~lockoutLost
    /\ Cardinality(Comparing) <= Slots
    /\ slotQueue # <<>> => Cardinality(Comparing) = Slots
    /\ Len(slotQueue) <= MaxWaiting
    /\ \A a \in Attempts : (attempt[a].pc = "waiting") <=> (\E i \in DOMAIN slotQueue : slotQueue[i] = a)

\* LoginThrottle (comment of the type): a failing Redis never lifts the
\* limits and concurrent attempts cannot slip past them.  The attempts that
\* are charged to a counter in Redis, or only in the table, stay within its
\* limit but for charges the code is known to lose, and unless the table
\* decides in the moment in which Redis decides another attempt; and the
\* bounds of the table and of the comparisons are kept.
LoginLimitHolds ==
    /\ LoginBoundsKept
    /\ ~overlapped => \A k \in LoginKeys :
         Cardinality(HeldIn("shared", k) \cup {a \in HeldIn("local", k) : ~attempt[a].shared})
             <= LoginLimit(k) + loosened[<<"shared", k>>] + loosened[<<"local", k>>]

\* Acquire, Success, Cancel: with nothing in flight and no failed command,
\* the counters say how many passwords were wrong; logins that succeeded,
\* were refused a comparison or were blocked cost nothing.
LoginCountsExact ==
    InFlight = {} /\ redisFails = 0 /\ (\A tk \in Tables \X LoginKeys : loosened[tk] = 0) =>
        \A k \in LoginKeys :
            LET failed(table) == Cardinality({a \in HeldIn(table, k) : attempt[a].pc = "failed"})
            IN IF rdb THEN shared[k] = failed("shared") ELSE local[k].count = failed("local")
=============================================================================
