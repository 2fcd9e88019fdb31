--------------------------- MODULE RestCallsProofs --------------------------
EXTENDS RestCalls, FiniteSetTheorems, TLAPS

(***************************************************************************)
(* Calls of a REST backend, for any number of calls, tools, retries, pages *)
(* and tokens.  A call's safety is a fact about its record and what the    *)
(* upstream ran for it (CallSafe), which no other call can disturb.        *)
(***************************************************************************)
Requesting == {"first", "retry", "reauth", "page"}
Flying == {"inject", "expired", "login", "store", "use", "send", "unauthorized", "reset"}
CallRecs ==
    [pc : Flying \cup {"new", "done", "failed", "refused"},
     tool : [kind : MethodKinds, errors : {"none", "noStrategy", "strategy"}, shape : {"list", "single", "file", "stream"}],
     phase : Requesting \cup {"renew"}, tries : Nat, token : Nat, key : Nat,
     page : Pages, at : Nat \ {0}, got : Seq(Nat), cut : BOOLEAN]
PageEffects == [Pages -> [runs : Nat, keys : SUBSET Nat]]

\* Where a call may be in each phase.
PhaseOK(rec) ==
    /\ rec.pc \in {"inject", "expired", "use", "send"} => rec.phase \in Requesting
    /\ rec.pc = "unauthorized" => rec.phase \in {"first", "retry"}
    /\ rec.pc = "reset" => rec.phase = "renew"
    /\ rec.pc = "new" => rec = NoCall

\* A write that may not be repeated has not run for the page it is asked for.
RunOnce(rec, e) ==
    rec.tool.kind = "unsafe" =>
        /\ rec.phase # "retry"
        /\ rec.pc \in Flying => e[rec.page].runs = 0
        /\ \A p \in Pages : e[p].runs <= 1

\* The key of a request is the number of its page.
KeyOfPage(rec, e) ==
    rec.tool.kind = "keyed" =>
        /\ rec.pc \in Flying => rec.key = rec.page
        /\ \A p \in Pages : e[p].keys \subseteq {p}

\* What came is a prefix of the list, and all of it at the end.
PrefixCame(rec) ==
    strategy # "link" =>
        /\ rec.at = rec.page /\ rec.at <= ListPages
        /\ \A i \in DOMAIN rec.got : rec.got[i] = i
        /\ rec.pc \in Flying \cup {"new"} => Len(rec.got) = rec.page - 1
        /\ rec.pc = "done" /\ ~rec.cut /\ rec.tool.shape = "list" =>
              Len(rec.got) = rec.page /\ (rec.page = MaxPages \/ rec.page = ListPages)

CallSafe(rec, e) ==
    /\ rec \in CallRecs /\ e \in PageEffects
    /\ PhaseOK(rec)
    /\ \A p \in Pages : p > rec.page => e[p].runs = 0 /\ e[p].keys = {}
    /\ rec.pc = "new" => \A p \in Pages : e[p].runs = 0 /\ e[p].keys = {}
    /\ RunOnce(rec, e) /\ KeyOfPage(rec, e) /\ PrefixCame(rec)

RestSafe ==
    /\ restCall \in [RestReqs -> CallRecs] /\ restEffects \in [RestReqs -> PageEffects]
    /\ \A c \in RestReqs : CallSafe(restCall[c], restEffects[c])

\* A record that differs in its place, phase, token or tries only.
Moved(rec, r) ==
    /\ r \in CallRecs /\ r.tool = rec.tool /\ r.page = rec.page /\ r.at = rec.at
    /\ r.got = rec.got /\ r.key = rec.key

\* What the answers that end or repeat a request make of its record.
Outcome(rec, r) ==
    /\ Moved(rec, r)
    /\ r.pc \in {"failed", "done", "inject", "unauthorized", "refused"}
    /\ r.pc = "done" => r.cut
    /\ r.pc = "inject" => rec.tool.kind # "unsafe" /\ r.phase = "retry" /\ rec.phase \in {"first", "retry"} /\ r.token = 0
    /\ r.pc # "inject" => r.phase = rec.phase /\ r.token = rec.token
    /\ r.pc = "unauthorized" => rec.phase \in {"first", "retry"}

LEMMA NoAnswerOutcome ==
    ASSUME RestAssumption, NEW rec \in CallRecs, rec.phase \in Requesting,
           rec.tool.kind = "unsafe" => rec.phase # "retry"
    PROVE  Outcome(rec, NoAnswer(rec)) /\ NoAnswer(rec).pc \in {"failed", "done", "inject"}
<1>0. Outcome(rec, [rec EXCEPT !.pc = "failed"]) /\ [rec EXCEPT !.pc = "failed"].pc = "failed"
    BY DEF Outcome, Moved, CallRecs
<1>1. CASE rec.phase \in {"first", "reauth"}
    <2>1. NoAnswer(rec) = [rec EXCEPT !.pc = "failed"]
        BY <1>1 DEF NoAnswer
    <2> QED BY <1>0, <2>1
<1>2. CASE rec.phase = "retry"
    <2>1. NoAnswer(rec) = TryAgain(rec)
        BY <1>2 DEF NoAnswer
    <2>2. TryAgain(rec) \in {[rec EXCEPT !.tries = @ + 1, !.pc = "inject", !.token = 0], [rec EXCEPT !.pc = "failed"]}
        BY DEF TryAgain
    <2>3. CASE TryAgain(rec) = [rec EXCEPT !.pc = "failed"]
        BY <1>0, <2>1, <2>3
    <2>4. CASE TryAgain(rec) = [rec EXCEPT !.tries = @ + 1, !.pc = "inject", !.token = 0]
        <3> DEFINE r == [rec EXCEPT !.tries = @ + 1, !.pc = "inject", !.token = 0]
        <3>0. rec.tries + 1 \in Nat /\ "inject" \in Flying
            BY DEF CallRecs, Flying
        <3>1. r \in CallRecs
            BY <3>0 DEF CallRecs
        <3>2. /\ r.pc = "inject" /\ r.token = 0 /\ r.phase = rec.phase /\ r.tool = rec.tool /\ r.page = rec.page
              /\ r.at = rec.at /\ r.got = rec.got /\ r.key = rec.key
            BY DEF CallRecs
        <3> HIDE DEF r
        <3>3. Outcome(rec, r) /\ r.pc = "inject"
            BY <1>2, <3>1, <3>2 DEF Outcome, Moved
        <3> QED BY <2>1, <2>4, <3>3 DEF r
    <2> QED BY <2>2, <2>3, <2>4
<1>3. CASE rec.phase = "page"
    <2>1. NoAnswer(rec) = [rec EXCEPT !.pc = "done", !.cut = TRUE]
        BY <1>3 DEF NoAnswer
    <2>2. NoAnswer(rec) \in CallRecs /\ NoAnswer(rec).cut
        BY <2>1 DEF CallRecs
    <2> QED BY <2>1, <2>2 DEF Outcome, Moved, CallRecs
<1> QED BY <1>1, <1>2, <1>3 DEF Requesting

LEMMA OtherOutcomes ==
    ASSUME RestAssumption, NEW rec \in CallRecs, rec.phase \in Requesting,
           rec.tool.kind = "unsafe" => rec.phase # "retry"
    PROVE  /\ Outcome(rec, Retryable(rec)) /\ Retryable(rec).pc \in {"failed", "done", "inject"}
           /\ Outcome(rec, Terminal(rec)) /\ Terminal(rec).pc \in {"failed", "done", "inject"}
           /\ Outcome(rec, Unauthorized(rec)) /\ Unauthorized(rec).pc \in {"unauthorized", "done", "refused", "inject", "failed"}
<1>0. Outcome(rec, NoAnswer(rec)) /\ NoAnswer(rec).pc \in {"failed", "done", "inject"}
    BY NoAnswerOutcome
<1>1. Outcome(rec, [rec EXCEPT !.pc = "failed"])
    BY DEF Outcome, Moved, CallRecs
<1>2. Retryable(rec) \in {NoAnswer(rec), [rec EXCEPT !.pc = "failed"]}
      \/ /\ rec.phase = "first" /\ rec.tool.kind # "unsafe"
         /\ Retryable(rec) = [rec EXCEPT !.pc = "inject", !.phase = "retry", !.token = 0]
    BY DEF Retryable, CanAutoRetry
<1>3. Outcome(rec, Retryable(rec)) /\ Retryable(rec).pc \in {"failed", "done", "inject"}
    <2>1. CASE Retryable(rec) = NoAnswer(rec)
        BY <2>1, <1>0
    <2>2. CASE Retryable(rec) = [rec EXCEPT !.pc = "failed"]
        BY <2>2, <1>1 DEF CallRecs
    <2>3. CASE /\ rec.phase = "first" /\ rec.tool.kind # "unsafe"
               /\ Retryable(rec) = [rec EXCEPT !.pc = "inject", !.phase = "retry", !.token = 0]
        <3> DEFINE r == [rec EXCEPT !.pc = "inject", !.phase = "retry", !.token = 0]
        <3>1. r \in CallRecs
            BY DEF CallRecs, Flying, Requesting
        <3>2. /\ r.pc = "inject" /\ r.token = 0 /\ r.phase = "retry" /\ r.tool = rec.tool /\ r.page = rec.page
              /\ r.at = rec.at /\ r.got = rec.got /\ r.key = rec.key
            BY DEF CallRecs
        <3> HIDE DEF r
        <3>3. Outcome(rec, r) /\ r.pc = "inject"
            BY <2>3, <3>1, <3>2 DEF Outcome, Moved
        <3> QED BY <2>3, <3>3 DEF r
    <2> QED BY <1>2, <2>1, <2>2, <2>3
<1>4. Outcome(rec, Terminal(rec)) /\ Terminal(rec).pc \in {"failed", "done", "inject"}
    BY <1>0, <1>1 DEF Terminal, CallRecs
<1>5. Outcome(rec, Unauthorized(rec)) /\ Unauthorized(rec).pc \in {"unauthorized", "done", "refused", "inject", "failed"}
    <2>1. CASE Unauthorized(rec) = NoAnswer(rec)
        BY <2>1, <1>0
    <2>2. CASE Unauthorized(rec) = [rec EXCEPT !.pc = "refused"]
        BY <2>2 DEF Outcome, Moved, CallRecs
    <2>3. CASE Unauthorized(rec) = [rec EXCEPT !.pc = "unauthorized"] /\ rec.phase \in {"first", "retry"}
        BY <2>3 DEF Outcome, Moved, CallRecs, Flying
    <2> QED BY <2>1, <2>2, <2>3 DEF Unauthorized
<1> QED BY <1>3, <1>4, <1>5

\* What one request of the page of a record leaves upstream.
RanOnce(rec, e) == [e EXCEPT ![rec.page] = [runs |-> @.runs + 1, keys |-> @.keys \cup {rec.key}]]

LEMMA MovedIsSafe ==
    ASSUME RestAssumption, NEW rec, NEW r, NEW e, CallSafe(rec, e), Moved(rec, r), PhaseOK(r),
           r.pc \notin {"done", "new"}, r.pc \in Flying => rec.pc \in Flying,
           rec.tool.kind = "unsafe" => r.phase # "retry"
    PROVE  CallSafe(r, e)
<1>1. RunOnce(r, e) /\ KeyOfPage(r, e)
    BY DEF CallSafe, Moved, RunOnce, KeyOfPage
<1>2. PrefixCame(r)
    BY DEF CallSafe, Moved, PrefixCame
<1> QED BY <1>1, <1>2 DEF CallSafe, Moved

LEMMA OutcomeIsSafe ==
    ASSUME RestAssumption, NEW rec, NEW r, NEW e, CallSafe(rec, e), Outcome(rec, r), rec.pc \in Flying
    PROVE  /\ CallSafe(r, e)
           /\ r.pc # "unauthorized" => CallSafe(r, RanOnce(rec, e))
<1>1. PhaseOK(r)
    BY DEF Outcome, PhaseOK, Requesting
<1>2. RunOnce(r, e) /\ KeyOfPage(r, e) /\ PrefixCame(r)
    <2>1. r.phase = "retry" => rec.tool.kind # "unsafe"
        BY DEF Outcome, CallSafe, RunOnce
    <2>2. RunOnce(r, e) /\ KeyOfPage(r, e)
        BY <2>1 DEF CallSafe, Outcome, Moved, RunOnce, KeyOfPage
    <2>3. PrefixCame(r)
        BY DEF CallSafe, Outcome, Moved, PrefixCame
    <2> QED BY <2>2, <2>3
<1>3. CallSafe(r, e)
    BY <1>1, <1>2 DEF CallSafe, Outcome, Moved
<1>4. ASSUME r.pc # "unauthorized" PROVE CallSafe(r, RanOnce(rec, e))
    <2> DEFINE f == RanOnce(rec, e)
    <2>1. rec \in CallRecs /\ e \in PageEffects /\ rec.page \in Pages /\ rec.key \in Nat
        BY DEF CallSafe, CallRecs
    <2>2. /\ f \in PageEffects
          /\ f[rec.page].runs = e[rec.page].runs + 1 /\ f[rec.page].keys = e[rec.page].keys \cup {rec.key}
          /\ \A p \in Pages : p # rec.page => f[p] = e[p]
        BY <2>1 DEF RanOnce, PageEffects
    <2> HIDE DEF f
    <2>3. r.page = rec.page /\ r.tool = rec.tool /\ r.key = rec.key /\ r.pc # "new" /\ r \in CallRecs
        BY DEF Outcome, Moved
    <2>4. \A p \in Pages : p > r.page => f[p].runs = 0 /\ f[p].keys = {}
        BY <2>1, <2>2, <2>3 DEF CallSafe, Pages
    <2>5. RunOnce(r, f)
        <3>1. SUFFICES ASSUME rec.tool.kind = "unsafe"
                       PROVE  r.phase # "retry" /\ r.pc \notin Flying /\ \A p \in Pages : f[p].runs <= 1
            BY <2>3 DEF RunOnce
        <3>2. r.pc \notin Flying
            BY <1>4, <3>1 DEF Outcome, Flying
        <3>3. e[rec.page].runs = 0 /\ \A p \in Pages : e[p].runs <= 1
            BY <3>1 DEF CallSafe, RunOnce
        <3>4. r.phase # "retry"
            BY <1>2, <2>3, <3>1 DEF RunOnce
        <3> QED BY <3>2, <3>3, <3>4, <2>2
    <2>6. KeyOfPage(r, f)
        BY <2>1, <2>2, <2>3 DEF CallSafe, KeyOfPage, Flying
    <2>7. CallSafe(r, f)
        BY <1>1, <1>2, <2>2, <2>3, <2>4, <2>5, <2>6 DEF CallSafe
    <2> QED BY <2>7 DEF f
<1> QED BY <1>3, <1>4

\* The record of a call whose page was collected.
LEMMA CollectedFields ==
    ASSUME RestAssumption, NEW rec \in CallRecs
    PROVE  LET r == Collected(rec) IN
           /\ r \in CallRecs /\ r.tool = rec.tool /\ r.got = Append(rec.got, rec.at)
           /\ \/ /\ r.pc = "done" /\ r.phase = rec.phase /\ r.token = rec.token /\ r.page = rec.page /\ r.at = rec.at
                 /\ ~(rec.tool.shape = "list" /\ rec.page < MaxPages /\ nextPage(rec) # 0)
              \/ /\ r.pc = "inject" /\ r.phase = "page" /\ r.token = 0 /\ r.page = rec.page + 1
                 /\ r.key = IF rec.tool.kind = "keyed" THEN rec.key + 1 ELSE rec.key
                 /\ rec.page < MaxPages /\ rec.at < ListPages /\ r.at = nextPage(rec)
<1> DEFINE kept == [rec EXCEPT !.got = Append(@, rec.at)]
           more == rec.tool.shape = "list" /\ rec.page < MaxPages /\ nextPage(rec) # 0
           next == [kept EXCEPT !.pc = "inject", !.phase = "page", !.token = 0, !.page = @ + 1, !.at = nextPage(rec)]
<1>0. /\ rec.at \in Nat \ {0} /\ rec.page \in Pages /\ rec.key \in Nat /\ rec.got \in Seq(Nat)
      /\ MaxPages \in Nat \ {0} /\ ListPages \in Nat \ {0}
    BY DEF CallRecs, RestAssumption
<1>1. Append(rec.got, rec.at) \in Seq(Nat)
    BY <1>0
<1>2. /\ kept \in CallRecs /\ kept.tool = rec.tool /\ kept.got = Append(rec.got, rec.at) /\ kept.page = rec.page
      /\ kept.at = rec.at /\ kept.key = rec.key /\ kept.phase = rec.phase /\ kept.token = rec.token
    BY <1>1 DEF CallRecs
<1> HIDE DEF kept
<1>3. CASE ~more
    <2>1. Collected(rec) = [kept EXCEPT !.pc = "done"]
        BY <1>3 DEF Collected, kept
    <2>2. /\ [kept EXCEPT !.pc = "done"] \in CallRecs /\ [kept EXCEPT !.pc = "done"].tool = kept.tool
          /\ [kept EXCEPT !.pc = "done"].got = kept.got /\ [kept EXCEPT !.pc = "done"].page = kept.page
          /\ [kept EXCEPT !.pc = "done"].at = kept.at /\ [kept EXCEPT !.pc = "done"].pc = "done"
          /\ [kept EXCEPT !.pc = "done"].phase = kept.phase /\ [kept EXCEPT !.pc = "done"].token = kept.token
        BY <1>2 DEF CallRecs
    <2> QED BY <1>2, <1>3, <2>1, <2>2
<1>4. CASE more
    <2>1. Collected(rec) = DrawKey(next)
        BY <1>4 DEF Collected, kept
    <2>2. rec.at < ListPages /\ nextPage(rec) \in Nat \ {0}
        BY <1>0, <1>4 DEF nextPage
    <2>3. rec.page + 1 \in Pages
        BY <1>0, <1>4 DEF Pages
    <2>4. next \in CallRecs
        BY <1>2, <2>2, <2>3 DEF CallRecs, Flying, Requesting
    <2>5. /\ next.tool = rec.tool /\ next.got = kept.got /\ next.page = rec.page + 1 /\ next.at = nextPage(rec)
          /\ next.pc = "inject" /\ next.phase = "page" /\ next.token = 0 /\ next.key = rec.key
        BY <1>2 DEF CallRecs
    <2> HIDE DEF next
    <2>6. CASE rec.tool.kind # "keyed"
        <3>1. DrawKey(next) = next
            BY <2>5, <2>6 DEF DrawKey
        <3> QED BY <1>2, <1>4, <2>1, <2>2, <2>4, <2>5, <2>6, <3>1
    <2>7. CASE rec.tool.kind = "keyed"
        <3> DEFINE drawn == [next EXCEPT !.key = @ + 1]
        <3>1. DrawKey(next) = drawn
            BY <2>5, <2>7 DEF DrawKey
        <3>2. next.key + 1 \in Nat
            BY <1>0, <2>5
        <3>3. drawn \in CallRecs /\ drawn.tool = next.tool /\ drawn.got = next.got /\ drawn.page = next.page
              /\ drawn.at = next.at /\ drawn.pc = next.pc /\ drawn.phase = next.phase /\ drawn.token = next.token
              /\ drawn.key = next.key + 1
            BY <2>4, <3>2 DEF CallRecs
        <3> HIDE DEF drawn
        <3> QED BY <1>2, <1>4, <2>1, <2>2, <2>5, <2>7, <3>1, <3>3
    <2> QED BY <2>6, <2>7
<1> QED BY <1>3, <1>4

LEMMA CollectedIsSafe ==
    ASSUME RestAssumption, NEW rec, NEW e, CallSafe(rec, e), rec.pc = "send"
    PROVE  CallSafe(Collected(rec), RanOnce(rec, e))
<1> DEFINE r == Collected(rec)
           f == RanOnce(rec, e)
<1>0. /\ rec \in CallRecs /\ e \in PageEffects /\ rec.page \in Pages /\ rec.key \in Nat /\ rec.got \in Seq(Nat)
      /\ rec.at \in Nat \ {0} /\ MaxPages \in Nat \ {0} /\ ListPages \in Nat \ {0} /\ rec.pc \in Flying
    BY DEF CallSafe, CallRecs, RestAssumption, Flying
<1>1. /\ r \in CallRecs /\ r.tool = rec.tool /\ r.got = Append(rec.got, rec.at)
      /\ \/ /\ r.pc = "done" /\ r.phase = rec.phase /\ r.token = rec.token /\ r.page = rec.page /\ r.at = rec.at
            /\ ~(rec.tool.shape = "list" /\ rec.page < MaxPages /\ nextPage(rec) # 0)
         \/ /\ r.pc = "inject" /\ r.phase = "page" /\ r.token = 0 /\ r.page = rec.page + 1
            /\ r.key = IF rec.tool.kind = "keyed" THEN rec.key + 1 ELSE rec.key
            /\ rec.page < MaxPages /\ rec.at < ListPages /\ r.at = nextPage(rec)
    BY <1>0, CollectedFields
<1>2. /\ f \in PageEffects
      /\ f[rec.page].runs = e[rec.page].runs + 1 /\ f[rec.page].keys = e[rec.page].keys \cup {rec.key}
      /\ \A p \in Pages : p # rec.page => f[p] = e[p]
    BY <1>0 DEF RanOnce, PageEffects
<1> HIDE DEF r, f
<1>3. PhaseOK(r) /\ r.pc # "new"
    BY <1>1 DEF PhaseOK, Requesting
<1>4. r.page \in Pages /\ r.page \in Nat /\ rec.page \in Nat /\ r.page \in {rec.page, rec.page + 1}
    BY <1>0, <1>1 DEF Pages
<1>5. \A p \in Pages : p > r.page => f[p].runs = 0 /\ f[p].keys = {}
    BY <1>0, <1>2, <1>4 DEF CallSafe, Pages
<1>6. RunOnce(r, f)
    <2>1. SUFFICES ASSUME rec.tool.kind = "unsafe"
                   PROVE  r.phase # "retry" /\ (r.pc \in Flying => f[r.page].runs = 0) /\ \A p \in Pages : f[p].runs <= 1
        BY <1>1 DEF RunOnce
    <2>2. e[rec.page].runs = 0 /\ (\A p \in Pages : e[p].runs <= 1) /\ rec.phase # "retry"
        BY <1>0, <2>1 DEF CallSafe, RunOnce
    <2>3. \A p \in Pages : f[p].runs <= 1
        BY <1>2, <2>2
    <2>4. r.pc \in Flying => r.page = rec.page + 1 /\ r.phase = "page"
        BY <1>1 DEF Flying
    <2>5. r.pc \in Flying => f[r.page].runs = 0
        BY <1>0, <1>2, <1>4, <2>4 DEF CallSafe, Pages
    <2>6. r.phase # "retry"
        BY <1>1, <2>2
    <2> QED BY <2>3, <2>5, <2>6
<1>7. KeyOfPage(r, f)
    <2>1. SUFFICES ASSUME rec.tool.kind = "keyed"
                   PROVE  (r.pc \in Flying => r.key = r.page) /\ \A p \in Pages : f[p].keys \subseteq {p}
        BY <1>1 DEF KeyOfPage
    <2>2. rec.key = rec.page /\ \A p \in Pages : e[p].keys \subseteq {p}
        BY <1>0, <2>1 DEF CallSafe, KeyOfPage
    <2>3. \A p \in Pages : f[p].keys \subseteq {p}
        BY <1>2, <2>2
    <2>4. r.pc \in Flying => r.key = r.page
        BY <1>1, <2>1, <2>2 DEF Flying
    <2> QED BY <2>3, <2>4
<1>8. PrefixCame(r)
    <2>1. SUFFICES ASSUME strategy # "link" PROVE PrefixCame(r)
        BY DEF PrefixCame
    <2>2. rec.at = rec.page /\ rec.at <= ListPages /\ Len(rec.got) = rec.page - 1 /\ \A i \in DOMAIN rec.got : rec.got[i] = i
        BY <1>0, <2>1 DEF CallSafe, PrefixCame
    <2>3. Len(r.got) = rec.page /\ \A i \in DOMAIN r.got : r.got[i] = i
        <3>1. /\ Len(r.got) = Len(rec.got) + 1 /\ r.got \in Seq(Nat) /\ Len(rec.got) \in Nat
              /\ \A i \in 1..Len(rec.got) : r.got[i] = rec.got[i]
              /\ r.got[Len(rec.got) + 1] = rec.at
            BY <1>0, <1>1
        <3>2. DOMAIN r.got = 1..Len(r.got) /\ DOMAIN rec.got = 1..Len(rec.got)
            BY <1>0, <3>1
        <3>3. Len(r.got) = rec.page
            BY <1>4, <2>2, <3>1
        <3>4. ASSUME NEW i \in 1..Len(r.got) PROVE r.got[i] = i
            <4>1. CASE i \in 1..Len(rec.got)
                BY <4>1, <2>2, <3>1, <3>2
            <4>2. CASE i = Len(rec.got) + 1
                BY <4>2, <1>4, <2>2, <3>1
            <4> QED BY <3>1, <4>1, <4>2, SMTT(30)
        <3> QED BY <3>2, <3>3, <3>4
    <2>4. nextPage(rec) = IF rec.at >= ListPages THEN 0 ELSE rec.at + 1
        BY <2>1 DEF nextPage
    <2>5. r.at = r.page /\ r.at <= ListPages
        BY <1>0, <1>1, <2>2, <2>4
    <2>6. r.pc = "done" /\ r.tool.shape = "list" => rec.page = MaxPages \/ rec.page = ListPages
        BY <1>0, <1>1, <2>2, <2>4 DEF Pages
    <2>7. r.pc \in Flying \cup {"new"} => Len(r.got) = r.page - 1
        <3>1. r.pc \in Flying \cup {"new"} => r.page = rec.page + 1
            BY <1>1, <1>3 DEF Flying
        <3> QED BY <1>4, <2>3, <3>1
    <2>8. r.pc = "done" => r.page = rec.page
        BY <1>1
    <2> QED BY <2>3, <2>5, <2>6, <2>7, <2>8 DEF PrefixCame
<1>9. CallSafe(r, f)
    BY <1>1, <1>2, <1>3, <1>5, <1>6, <1>7, <1>8 DEF CallSafe
<1> QED BY <1>9 DEF r, f

\* A step of one call disturbs no other.
LEMMA SafeStep ==
    ASSUME RestSafe, NEW c \in RestReqs, NEW r, NEW e, CallSafe(r, e), UNCHANGED strategy,
           restCall' = [restCall EXCEPT ![c] = r], restEffects' = [restEffects EXCEPT ![c] = e]
    PROVE  RestSafe'
<1>1. r \in CallRecs /\ e \in PageEffects
    BY DEF CallSafe
<1>2. restCall' \in [RestReqs -> CallRecs] /\ restEffects' \in [RestReqs -> PageEffects]
    BY <1>1 DEF RestSafe
<1>3. ASSUME NEW d \in RestReqs PROVE CallSafe(restCall'[d], restEffects'[d])
    BY DEF RestSafe
<1>4. ASSUME NEW s, NEW f, CallSafe(s, f) PROVE CallSafe(s, f)'
    BY <1>4 DEF CallSafe, PrefixCame, PhaseOK, RunOnce, KeyOfPage
<1> QED BY <1>2, <1>3, <1>4 DEF RestSafe

LEMMA SameEffects ==
    ASSUME RestSafe, NEW c \in RestReqs, UNCHANGED restEffects
    PROVE  restEffects' = [restEffects EXCEPT ![c] = restEffects[c]]
BY DEF RestSafe

\* The first record of a call.
LEMMA FirstIsSafe ==
    ASSUME RestAssumption, NEW c \in RestReqs, NEW tool \in ToolsOf[c], NEW e,
           e \in PageEffects, \A p \in Pages : e[p].runs = 0 /\ e[p].keys = {}
    PROVE  CallSafe(DrawKey([NoCall EXCEPT !.tool = tool, !.pc = "inject"]), e)
<1> DEFINE first == [NoCall EXCEPT !.tool = tool, !.pc = "inject"]
           r == DrawKey(first)
<1>0. /\ tool \in [kind : MethodKinds, errors : {"none", "noStrategy", "strategy"}, shape : {"list", "single", "file", "stream"}]
      /\ MaxPages \in Nat \ {0} /\ ListPages \in Nat \ {0} /\ 1 \in Pages
    BY DEF RestAssumption, Pages
<1>1. /\ first \in CallRecs /\ first.pc = "inject" /\ first.tool = tool /\ first.phase = "first" /\ first.key = 0
      /\ first.page = 1 /\ first.at = 1 /\ first.got = <<>>
    <2>1. NoCall \in CallRecs
        BY <1>0 DEF NoCall, CallRecs, Requesting, MethodKinds
    <2>2. NoCall.phase = "first" /\ NoCall.key = 0 /\ NoCall.page = 1 /\ NoCall.at = 1 /\ NoCall.got = <<>>
        BY DEF NoCall
    <2>3. "inject" \in Flying
        BY DEF Flying
    <2> QED BY <1>0, <2>1, <2>2, <2>3 DEF CallRecs
<1> HIDE DEF first
<1>2. /\ r.pc = "inject" /\ r.tool = tool /\ r.phase = "first" /\ r.page = 1 /\ r.at = 1 /\ r.got = <<>>
      /\ tool.kind = "keyed" => r.key = 1
    BY <1>1 DEF DrawKey, CallRecs
<1>3. r \in CallRecs
    BY <1>1 DEF DrawKey, CallRecs
<1> HIDE DEF r
<1>4. PhaseOK(r) /\ r.page = 1
    BY <1>2 DEF PhaseOK, Requesting
<1>5. RunOnce(r, e) /\ KeyOfPage(r, e)
    BY <1>0, <1>2 DEF RunOnce, KeyOfPage
<1>6. PrefixCame(r)
    BY <1>0, <1>2 DEF PrefixCame
<1>7. CallSafe(r, e)
    BY <1>2, <1>3, <1>4, <1>5, <1>6 DEF CallSafe
<1> QED BY <1>7 DEF r, first

LEMMA NewIsSafe ==
    ASSUME RestAssumption, NEW e \in PageEffects, \A p \in Pages : e[p].runs = 0 /\ e[p].keys = {}
    PROVE  CallSafe(NoCall, e)
<1>0. MaxPages \in Nat \ {0} /\ ListPages \in Nat \ {0} /\ 1 \in Pages
    BY DEF RestAssumption, Pages
<1>1. NoCall \in CallRecs
    BY <1>0 DEF NoCall, CallRecs, Requesting, MethodKinds
<1>2. PhaseOK(NoCall) /\ RunOnce(NoCall, e) /\ KeyOfPage(NoCall, e)
    BY DEF NoCall, PhaseOK, RunOnce, KeyOfPage
<1>3. PrefixCame(NoCall)
    BY <1>0 DEF NoCall, PrefixCame
<1> QED BY <1>1, <1>2, <1>3 DEF CallSafe

LEMMA RestSafeInit == RestAssumption /\ RestInit => RestSafe
<1> SUFFICES ASSUME RestAssumption, RestInit PROVE RestSafe
    OBVIOUS
<1> DEFINE e == [p \in Pages |-> [runs |-> 0, keys |-> {}]]
<1>1. e \in PageEffects /\ \A p \in Pages : e[p].runs = 0 /\ e[p].keys = {}
    BY DEF PageEffects
<1> HIDE DEF e
<1>2. CallSafe(NoCall, e) /\ NoCall \in CallRecs
    BY <1>1, NewIsSafe DEF CallSafe
<1>3. restCall = [c \in RestReqs |-> NoCall] /\ restEffects = [c \in RestReqs |-> e]
    BY DEF RestInit, e
<1> QED BY <1>1, <1>2, <1>3 DEF RestSafe

LEMMA ExecuteSafe ==
    ASSUME RestAssumption, RestSafe, NEW c \in RestReqs, NEW tool \in ToolsOf[c], ExecuteRest(c, tool)
    PROVE  RestSafe'
<1>1. restCall[c].pc = "new" /\ UNCHANGED <<restEffects, strategy>>
      /\ restCall' = [restCall EXCEPT ![c] = DrawKey([NoCall EXCEPT !.tool = tool, !.pc = "inject"])]
    BY DEF ExecuteRest, upstreamVars
<1>2. restEffects[c] \in PageEffects /\ \A p \in Pages : restEffects[c][p].runs = 0 /\ restEffects[c][p].keys = {}
    BY <1>1 DEF RestSafe, CallSafe
<1>3. CallSafe(DrawKey([NoCall EXCEPT !.tool = tool, !.pc = "inject"]), restEffects[c])
    BY <1>2, FirstIsSafe
<1>4. restEffects' = [restEffects EXCEPT ![c] = restEffects[c]]
    BY <1>1, SameEffects
<1> QED BY <1>1, <1>3, <1>4, SafeStep

\* The steps that only move a call on: its record is r.
LEMMA MoveSafe ==
    ASSUME RestAssumption, RestSafe, NEW c \in RestReqs, NEW r, UNCHANGED <<restEffects, strategy>>,
           restCall' = [restCall EXCEPT ![c] = r], Moved(restCall[c], r), PhaseOK(r),
           r.pc \notin {"done", "new"}, r.pc \in Flying => restCall[c].pc \in Flying,
           restCall[c].tool.kind = "unsafe" => r.phase # "retry"
    PROVE  RestSafe'
<1>1. CallSafe(restCall[c], restEffects[c])
    BY DEF RestSafe
<1>2. CallSafe(r, restEffects[c])
    BY <1>1, MovedIsSafe
<1>3. restEffects' = [restEffects EXCEPT ![c] = restEffects[c]]
    BY SameEffects
<1> QED BY <1>2, <1>3, SafeStep

\* A call's record is put at a place, in a phase, with a token.
Placed(c, pc, phase, token) ==
    /\ restCall' = [restCall EXCEPT ![c] = restCall'[c]]
    /\ Moved(restCall[c], restCall'[c])
    /\ restCall'[c].pc = pc /\ restCall'[c].phase = phase /\ restCall'[c].token = token

LEMMA Placing ==
    ASSUME restCall \in [RestReqs -> CallRecs], NEW c \in RestReqs
    PROVE  /\ \A pc \in Flying \cup {"failed", "refused"} :
                 restCall' = Goes(c, pc) => Placed(c, pc, restCall[c].phase, restCall[c].token)
           /\ \A pc \in Flying, t \in Nat :
                 restCall' = [restCall EXCEPT ![c].token = t, ![c].pc = pc] => Placed(c, pc, restCall[c].phase, t)
           /\ restCall' = Request(c, "reauth") => Placed(c, "inject", "reauth", 0)
           /\ restCall' = [restCall EXCEPT ![c].pc = "reset", ![c].phase = "renew"] =>
                 Placed(c, "reset", "renew", restCall[c].token)
<1> DEFINE rec == restCall[c]
<1>0. rec \in CallRecs
    OBVIOUS
<1>1. ASSUME NEW pc \in Flying \cup {"failed", "refused"}, restCall' = Goes(c, pc)
      PROVE  Placed(c, pc, rec.phase, rec.token)
    <2> DEFINE r == [rec EXCEPT !.pc = pc]
    <2>1. restCall'[c] = r /\ restCall' = [restCall EXCEPT ![c] = r]
        BY <1>1 DEF Goes
    <2>2. /\ r \in CallRecs /\ r.pc = pc /\ r.phase = rec.phase /\ r.token = rec.token /\ r.tool = rec.tool
          /\ r.page = rec.page /\ r.at = rec.at /\ r.got = rec.got /\ r.key = rec.key
        BY <1>0 DEF CallRecs
    <2> HIDE DEF r
    <2> QED BY <2>1, <2>2 DEF Placed, Moved
<1>2. ASSUME NEW pc \in Flying, NEW t \in Nat, restCall' = [restCall EXCEPT ![c].token = t, ![c].pc = pc]
      PROVE  Placed(c, pc, rec.phase, t)
    <2> DEFINE r == [rec EXCEPT !.token = t, !.pc = pc]
    <2>1. restCall'[c] = r /\ restCall' = [restCall EXCEPT ![c] = r]
        BY <1>2
    <2>2. /\ r \in CallRecs /\ r.pc = pc /\ r.phase = rec.phase /\ r.token = t /\ r.tool = rec.tool
          /\ r.page = rec.page /\ r.at = rec.at /\ r.got = rec.got /\ r.key = rec.key
        BY <1>0 DEF CallRecs
    <2> HIDE DEF r
    <2> QED BY <2>1, <2>2 DEF Placed, Moved
<1>3. ASSUME restCall' = Request(c, "reauth") PROVE Placed(c, "inject", "reauth", 0)
    <2> DEFINE r == [rec EXCEPT !.pc = "inject", !.phase = "reauth", !.token = 0]
    <2>1. restCall'[c] = r /\ restCall' = [restCall EXCEPT ![c] = r]
        BY <1>3 DEF Request
    <2>2. /\ r \in CallRecs /\ r.pc = "inject" /\ r.phase = "reauth" /\ r.token = 0 /\ r.tool = rec.tool
          /\ r.page = rec.page /\ r.at = rec.at /\ r.got = rec.got /\ r.key = rec.key
        BY <1>0 DEF CallRecs, Flying, Requesting
    <2> HIDE DEF r
    <2> QED BY <2>1, <2>2 DEF Placed, Moved
<1>4. ASSUME restCall' = [restCall EXCEPT ![c].pc = "reset", ![c].phase = "renew"]
      PROVE  Placed(c, "reset", "renew", rec.token)
    <2> DEFINE r == [rec EXCEPT !.pc = "reset", !.phase = "renew"]
    <2>1. restCall'[c] = r /\ restCall' = [restCall EXCEPT ![c] = r]
        BY <1>4
    <2>2. /\ r \in CallRecs /\ r.pc = "reset" /\ r.phase = "renew" /\ r.token = rec.token /\ r.tool = rec.tool
          /\ r.page = rec.page /\ r.at = rec.at /\ r.got = rec.got /\ r.key = rec.key
        BY <1>0 DEF CallRecs, Flying
    <2> HIDE DEF r
    <2> QED BY <2>1, <2>2 DEF Placed, Moved
<1> QED BY <1>1, <1>2, <1>3, <1>4

\* An answer is made of a call's record.
Answered(c) ==
    /\ restCall' = [restCall EXCEPT ![c] = restCall'[c]]
    /\ Outcome(restCall[c], restCall'[c])

LEMMA Answering ==
    ASSUME RestAssumption, RestSafe, NEW c \in RestReqs, restCall[c].phase \in Requesting, restCall[c].pc \in Flying
    PROVE  /\ restCall' = [restCall EXCEPT ![c] = NoAnswer(@)] =>
                 Answered(c) /\ restCall'[c].pc \notin {"unauthorized", "refused"}
           /\ restCall' = [restCall EXCEPT ![c] = Retryable(@)] =>
                 Answered(c) /\ restCall'[c].pc \notin {"unauthorized", "refused"}
           /\ restCall' = [restCall EXCEPT ![c] = Terminal(@)] =>
                 Answered(c) /\ restCall'[c].pc \notin {"unauthorized", "refused"}
           /\ restCall' = [restCall EXCEPT ![c] = Unauthorized(@)] => Answered(c)
           /\ restCall' = [restCall EXCEPT ![c] = Collected(@)] => restCall'[c] = Collected(restCall[c])
<1> DEFINE rec == restCall[c]
<1>1. rec \in CallRecs /\ (rec.tool.kind = "unsafe" => rec.phase # "retry")
    BY DEF RestSafe, CallSafe, RunOnce
<1>2. Outcome(rec, NoAnswer(rec)) /\ NoAnswer(rec).pc \in {"failed", "done", "inject"}
    BY <1>1, NoAnswerOutcome
<1>3. /\ Outcome(rec, Retryable(rec)) /\ Retryable(rec).pc \in {"failed", "done", "inject"}
      /\ Outcome(rec, Terminal(rec)) /\ Terminal(rec).pc \in {"failed", "done", "inject"}
      /\ Outcome(rec, Unauthorized(rec))
    BY <1>1, OtherOutcomes
<1>4. \A r : restCall' = [restCall EXCEPT ![c] = r] => restCall'[c] = r
    BY DEF RestSafe
<1> QED BY ONLY <1>2, <1>3, <1>4 DEF Answered

\* A call that is placed where its phase allows it.
LEMMA PlacedSafe ==
    ASSUME RestAssumption, RestSafe, NEW c \in RestReqs, NEW pc, NEW phase, NEW token,
           Placed(c, pc, phase, token), UNCHANGED <<restEffects, strategy>>, pc \notin {"done", "new"},
           pc \in Flying => restCall[c].pc \in Flying, phase \in {restCall[c].phase, "renew", "reauth"},
           pc \in {"inject", "expired", "use", "send"} => phase \in Requesting,
           pc = "unauthorized" => phase \in {"first", "retry"}, pc = "reset" => phase = "renew"
    PROVE  RestSafe'
<1>1. PhaseOK(restCall'[c])
    BY DEF Placed, PhaseOK
<1>2. restCall[c].tool.kind = "unsafe" => phase # "retry"
    BY DEF RestSafe, CallSafe, RunOnce
<1>3. CallSafe(restCall[c], restEffects[c])
    BY DEF RestSafe
<1>4. CallSafe(restCall'[c], restEffects[c])
    BY <1>1, <1>2, <1>3, MovedIsSafe DEF Placed
<1>5. restEffects' = [restEffects EXCEPT ![c] = restEffects[c]]
    BY SameEffects
<1>6. restCall' = [restCall EXCEPT ![c] = restCall'[c]]
    BY DEF Placed
<1> DEFINE r == restCall'[c]
<1>7. CallSafe(r, restEffects[c]) /\ restCall' = [restCall EXCEPT ![c] = r]
    BY <1>4, <1>6
<1> HIDE DEF r
<1> QED BY <1>5, <1>7, SafeStep

LEMMA AnsweredSafe ==
    ASSUME RestAssumption, RestSafe, NEW c \in RestReqs, Answered(c), restCall[c].pc \in Flying, UNCHANGED strategy,
           \/ UNCHANGED restEffects
           \/ restEffects' = Ran(c) /\ restCall'[c].pc # "unauthorized"
    PROVE  RestSafe'
<1> DEFINE r == restCall'[c]
           e == restEffects[c]
<1>1. CallSafe(restCall[c], e)
    BY DEF RestSafe
<1>2. CallSafe(r, e) /\ (r.pc # "unauthorized" => CallSafe(r, RanOnce(restCall[c], e)))
    BY <1>1, OutcomeIsSafe DEF Answered
<1>3. restCall' = [restCall EXCEPT ![c] = r]
    BY DEF Answered
<1>4. UNCHANGED restEffects => restEffects' = [restEffects EXCEPT ![c] = e]
    BY SameEffects
<1>5. restEffects' = Ran(c) => restEffects' = [restEffects EXCEPT ![c] = RanOnce(restCall[c], e)]
    BY DEF Ran, RanOnce
<1> HIDE DEF r, e
<1>6. CASE UNCHANGED restEffects
    BY <1>2, <1>3, <1>4, <1>6, SafeStep
<1>7. CASE restEffects' = Ran(c) /\ r.pc # "unauthorized"
    BY <1>2, <1>3, <1>5, <1>7, SafeStep
<1> QED BY <1>6, <1>7 DEF r

LEMMA SendSafe ==
    ASSUME RestAssumption, RestSafe, NEW c \in RestReqs, Send(c)
    PROVE  RestSafe'
<1> USE DEF upstreamVars
<1>1. restCall[c].pc = "send" /\ restCall[c].pc \in Flying /\ UNCHANGED strategy
    BY DEF Send, Flying
<1>2. restCall[c].phase \in Requesting
    BY <1>1 DEF RestSafe, CallSafe, PhaseOK
<1>3. CASE restEffects' = Ran(c) /\ restCall' = [restCall EXCEPT ![c] = Collected(@)]
    <2> DEFINE r == Collected(restCall[c])
               f == RanOnce(restCall[c], restEffects[c])
    <2>1. CallSafe(r, f)
        BY <1>1, CollectedIsSafe DEF RestSafe
    <2>2. restCall' = [restCall EXCEPT ![c] = r] /\ restEffects' = [restEffects EXCEPT ![c] = f]
        BY <1>3 DEF Ran, RanOnce
    <2> HIDE DEF r, f
    <2> QED BY <1>1, <2>1, <2>2, SafeStep
<1>4. CASE /\ restEffects' = Ran(c)
           /\ restCall' \in {[restCall EXCEPT ![c] = Retryable(@)], [restCall EXCEPT ![c] = NoAnswer(@)]}
    BY <1>1, <1>2, <1>4, Answering, AnsweredSafe
<1>5. CASE /\ UNCHANGED restEffects
           /\ restCall' \in {[restCall EXCEPT ![c] = Terminal(@)], [restCall EXCEPT ![c] = Retryable(@)],
                             [restCall EXCEPT ![c] = NoAnswer(@)], [restCall EXCEPT ![c] = Unauthorized(@)]}
    BY <1>1, <1>2, <1>5, Answering, AnsweredSafe
<1> QED BY <1>3, <1>4, <1>5 DEF Send

LEMMA InjectSafe ==
    ASSUME RestAssumption, RestSafe, NEW c \in RestReqs, cached \in Nat, issued \in Nat,
           injectStatic(c) \/ injectOAuth2(c) \/ injectSession(c)
    PROVE  RestSafe'
<1> USE DEF upstreamVars
<1>1. restCall[c].pc = "inject" /\ restCall[c].pc \in Flying /\ UNCHANGED <<strategy, restEffects>>
    BY DEF injectStatic, injectOAuth2, injectSession, Flying
<1>2. restCall[c].phase \in Requesting /\ restCall \in [RestReqs -> CallRecs]
    BY <1>1 DEF RestSafe, CallSafe, PhaseOK
<1>3. \/ restCall' = [restCall EXCEPT ![c] = NoAnswer(@)]
      \/ \E pc \in {"send", "expired", "login", "use"} : restCall' = Goes(c, pc)
      \/ \E t \in Nat : restCall' = [restCall EXCEPT ![c].token = t, ![c].pc = "send"]
    <2>1. CASE injectStatic(c)
        BY <2>1 DEF injectStatic
    <2>2. CASE injectOAuth2(c)
        <3>1. issued' = issued + 1 => issued' \in Nat
            OBVIOUS
        <3> QED BY <2>2, <3>1 DEF injectOAuth2, Issue
    <2>3. CASE injectSession(c)
        BY <2>3 DEF injectSession
    <2> QED BY <2>1, <2>2, <2>3
<1>4. CASE restCall' = [restCall EXCEPT ![c] = NoAnswer(@)]
    BY <1>1, <1>2, <1>4, Answering, AnsweredSafe
<1>5. ASSUME NEW pc \in {"send", "expired", "login", "use"}, restCall' = Goes(c, pc) PROVE RestSafe'
    <2>1. pc \in Flying
        BY DEF Flying
    <2>2. Placed(c, pc, restCall[c].phase, restCall[c].token)
        BY <1>2, <1>5, <2>1, Placing
    <2> QED BY <1>1, <1>2, <2>1, <2>2, PlacedSafe
<1>6. ASSUME NEW t \in Nat, restCall' = [restCall EXCEPT ![c].token = t, ![c].pc = "send"] PROVE RestSafe'
    <2>1. "send" \in Flying
        BY DEF Flying
    <2>2. Placed(c, "send", restCall[c].phase, t)
        BY <1>2, <1>6, <2>1, Placing
    <2> QED BY <1>1, <1>2, <2>1, <2>2, PlacedSafe
<1> QED BY <1>3, <1>4, <1>5, <1>6

LEMMA SessionSafe ==
    ASSUME RestAssumption, RestSafe, NEW c \in RestReqs, cached \in Nat, issued \in Nat,
           \/ dropSession(c) \/ sessionLogin(c) \/ storeSession(c) \/ useSession(c)
           \/ HandleUnauthorized(c) \/ resetJar(c)
    PROVE  RestSafe'
<1> USE DEF upstreamVars
<1>0. UNCHANGED <<strategy, restEffects>> /\ restCall \in [RestReqs -> CallRecs] /\ restCall[c] \in CallRecs
    BY DEF dropSession, sessionLogin, storeSession, useSession, HandleUnauthorized, resetJar, RestSafe
<1>1. PhaseOK(restCall[c]) /\ restCall[c].phase \in Requesting \cup {"renew"}
    BY <1>0 DEF RestSafe, CallSafe, CallRecs
<1>2. CASE dropSession(c)
    <2>1. restCall[c].pc = "expired" /\ restCall' = Goes(c, "login")
        BY <1>2 DEF dropSession
    <2>2. Placed(c, "login", restCall[c].phase, restCall[c].token)
        BY <1>0, <2>1, Placing DEF Flying
    <2> QED BY <1>0, <2>1, <2>2, PlacedSafe DEF Flying
<1>3. CASE resetJar(c)
    <2>1. restCall[c].pc = "reset" /\ restCall' = Goes(c, "login")
        BY <1>3 DEF resetJar
    <2>2. Placed(c, "login", restCall[c].phase, restCall[c].token)
        BY <1>0, <2>1, Placing DEF Flying
    <2> QED BY <1>0, <2>1, <2>2, PlacedSafe DEF Flying
<1>4. CASE useSession(c)
    <2>1. restCall[c].pc = "use" /\ restCall' = [restCall EXCEPT ![c].token = cached, ![c].pc = "send"]
        BY <1>4 DEF useSession
    <2>2. Placed(c, "send", restCall[c].phase, cached)
        BY <1>0, <2>1, Placing DEF Flying
    <2>3. restCall[c].phase \in Requesting
        BY <1>1, <2>1 DEF PhaseOK
    <2> QED BY <1>0, <2>1, <2>2, <2>3, PlacedSafe DEF Flying
<1>5. CASE storeSession(c)
    <2>1. restCall[c].pc = "store"
        BY <1>5 DEF storeSession
    <2>2. CASE restCall[c].phase = "renew"
        <3>1. Placed(c, "inject", "reauth", 0)
            BY <1>0, <1>5, <2>2, Placing DEF storeSession
        <3> QED BY <1>0, <2>1, <3>1, PlacedSafe DEF Flying, Requesting
    <2>3. CASE restCall[c].phase # "renew"
        <3>1. Placed(c, "use", restCall[c].phase, restCall[c].token)
            BY <1>0, <1>5, <2>3, Placing DEF storeSession, Flying
        <3> QED BY <1>0, <1>1, <2>1, <2>3, <3>1, PlacedSafe DEF Flying
    <2> QED BY <2>2, <2>3
<1>6. CASE HandleUnauthorized(c)
    <2>1. restCall[c].pc = "unauthorized"
        BY <1>6 DEF HandleUnauthorized
    <2>2. CASE authKind = "session"
        <3>1. Placed(c, "reset", "renew", restCall[c].token)
            BY <1>0, <1>6, <2>2, Placing DEF HandleUnauthorized
        <3> QED BY <1>0, <2>1, <3>1, PlacedSafe DEF Flying, Requesting
    <2>3. CASE authKind # "session"
        <3>1. Placed(c, "inject", "reauth", 0)
            BY <1>0, <1>6, <2>3, Placing DEF HandleUnauthorized
        <3> QED BY <1>0, <2>1, <3>1, PlacedSafe DEF Flying, Requesting
    <2> QED BY <2>2, <2>3
<1>7. CASE sessionLogin(c)
    <2>1. restCall[c].pc = "login" /\ restCall[c].pc \in Flying
        BY <1>7 DEF sessionLogin, Flying
    <2>2. CASE Issue /\ restCall' = [restCall EXCEPT ![c].token = issued', ![c].pc = "store"]
        <3>1. issued' \in Nat
            BY <2>2 DEF Issue
        <3>2. Placed(c, "store", restCall[c].phase, issued')
            BY <1>0, <2>2, <3>1, Placing DEF Flying
        <3> QED BY <1>0, <2>1, <3>2, PlacedSafe DEF Flying
    <2>3. CASE restCall[c].phase = "renew" /\ restCall' = Goes(c, "refused")
        <3>1. Placed(c, "refused", restCall[c].phase, restCall[c].token)
            BY <1>0, <2>3, Placing
        <3> QED BY <1>0, <2>1, <3>1, PlacedSafe DEF Flying
    <2>4. CASE restCall[c].phase # "renew" /\ restCall' = [restCall EXCEPT ![c] = NoAnswer(@)]
        BY <1>0, <1>1, <2>1, <2>4, Answering, AnsweredSafe
    <2> QED BY <1>7, <2>2, <2>3, <2>4 DEF sessionLogin
<1> QED BY <1>2, <1>3, <1>4, <1>5, <1>6, <1>7

LEMMA EndSafe ==
    ASSUME RestAssumption, RestSafe, NEW c \in RestReqs, RejectCall(c) \/ StoreFails(c) \/ CancelWait(c)
    PROVE  RestSafe'
<1>1. restCall' = Goes(c, "failed") /\ UNCHANGED <<strategy, restEffects>> /\ restCall \in [RestReqs -> CallRecs]
    BY DEF RejectCall, StoreFails, CancelWait, RestSafe, upstreamVars
<1>2. Placed(c, "failed", restCall[c].phase, restCall[c].token)
    BY <1>1, Placing
<1> QED BY <1>1, <1>2, PlacedSafe DEF Flying

\* The numbers of the tokens.
TokenNumbers == cached \in Nat /\ issued \in Nat

\* RestSafe is kept by every step.
LEMMA RestSafeNext ==
    ASSUME RestAssumption, RestSafe, TokenNumbers, [RestNext]_restVars
    PROVE  RestSafe' /\ TokenNumbers'
<1>1. TokenNumbers'
    <2>1. \A c \in RestReqs : restCall[c].token \in Nat
        BY DEF RestSafe, CallRecs
    <2>2. CASE UNCHANGED restVars
        BY <2>2 DEF TokenNumbers, restVars
    <2>3. CASE (\E t \in 1..MaxLogins : Revoke(t)) \/ GrowOld
        BY <2>3 DEF TokenNumbers, Revoke, GrowOld
    <2>4. ASSUME NEW c \in RestReqs, NEW tool \in ToolsOf[c], ExecuteRest(c, tool) PROVE TokenNumbers'
        BY <2>4 DEF TokenNumbers, ExecuteRest
    <2>5. ASSUME NEW c \in RestReqs, \/ RejectCall(c) \/ StoreFails(c) \/ CancelWait(c) \/ injectStatic(c)
                                     \/ injectSession(c) \/ useSession(c) \/ resetJar(c) \/ Send(c)
          PROVE  TokenNumbers'
        BY <2>5 DEF TokenNumbers, RejectCall, StoreFails, CancelWait, injectStatic, injectSession, useSession, resetJar, Send
    <2>6. ASSUME NEW c \in RestReqs, dropSession(c) \/ HandleUnauthorized(c) \/ storeSession(c) PROVE TokenNumbers'
        BY <2>1, <2>6 DEF TokenNumbers, dropSession, HandleUnauthorized, storeSession
    <2>7. ASSUME NEW c \in RestReqs, injectOAuth2(c) \/ sessionLogin(c) PROVE TokenNumbers'
        BY <2>7 DEF TokenNumbers, injectOAuth2, sessionLogin, Issue
    <2> QED BY <2>2, <2>3, <2>4, <2>5, <2>6, <2>7 DEF RestNext
<1>2. RestSafe'
    <2>1. ASSUME NEW c \in RestReqs, NEW tool \in ToolsOf[c], ExecuteRest(c, tool) PROVE RestSafe'
        BY <2>1, ExecuteSafe
    <2>2. ASSUME NEW c \in RestReqs, RejectCall(c) \/ StoreFails(c) \/ CancelWait(c) PROVE RestSafe'
        BY <2>2, EndSafe
    <2>3. ASSUME NEW c \in RestReqs, injectStatic(c) \/ injectOAuth2(c) \/ injectSession(c) PROVE RestSafe'
        BY <2>3, InjectSafe DEF TokenNumbers
    <2>4. ASSUME NEW c \in RestReqs, Send(c) PROVE RestSafe'
        BY <2>4, SendSafe
    <2>5. ASSUME NEW c \in RestReqs, \/ dropSession(c) \/ sessionLogin(c) \/ storeSession(c) \/ useSession(c)
                                     \/ HandleUnauthorized(c) \/ resetJar(c)
          PROVE  RestSafe'
        BY <2>5, SessionSafe DEF TokenNumbers
    <2>6. ASSUME \/ \E t \in 1..MaxLogins : Revoke(t)
                 \/ GrowOld \/ UNCHANGED restVars
          PROVE  RestSafe'
        <3>1. UNCHANGED <<strategy, restCall, restEffects>>
            BY <2>6 DEF Revoke, GrowOld, restVars
        <3> QED BY <3>1 DEF RestSafe, CallSafe, PrefixCame, PhaseOK, RunOnce, KeyOfPage
    <2> QED BY <2>1, <2>2, <2>3, <2>4, <2>5, <2>6 DEF RestNext
<1> QED BY <1>1, <1>2

\* What the record of a safe call says of its effects and pages.
LEMMA SafeIsRepeatable == RestAssumption /\ RestSafe => RepeatedSafely
<1> SUFFICES ASSUME RestAssumption, RestSafe, NEW c \in RestReqs
             PROVE  /\ restCall[c].tool.kind = "unsafe" => \A p \in Pages : restEffects[c][p].runs <= 1
                    /\ restCall[c].tool.kind = "keyed" =>
                          /\ \A p \in Pages : Cardinality(restEffects[c][p].keys) <= 1
                          /\ \A p, q \in Pages : p # q => restEffects[c][p].keys \cap restEffects[c][q].keys = {}
                    /\ strategy # "link" =>
                          /\ \A i \in DOMAIN restCall[c].got : restCall[c].got[i] = i
                          /\ restCall[c].pc = "done" /\ ~restCall[c].cut /\ restCall[c].tool.shape = "list" =>
                                Len(restCall[c].got) = IF ListPages < MaxPages THEN ListPages ELSE MaxPages
    BY DEF RepeatedSafely, NoDuplicateEffect, PagesInOrder
<1> DEFINE rec == restCall[c]
           e == restEffects[c]
<1>0. CallSafe(rec, e)
    BY DEF RestSafe
<1> HIDE DEF rec, e
<1>1. rec.tool.kind = "unsafe" => \A p \in Pages : e[p].runs <= 1
    BY <1>0 DEF CallSafe, RunOnce
<1>2. ASSUME rec.tool.kind = "keyed"
      PROVE  /\ \A p \in Pages : Cardinality(e[p].keys) <= 1
             /\ \A p, q \in Pages : p # q => e[p].keys \cap e[q].keys = {}
    <2>1. \A p \in Pages : e[p].keys \subseteq {p}
        BY <1>0, <1>2 DEF CallSafe, KeyOfPage
    <2>2. ASSUME NEW p \in Pages PROVE Cardinality(e[p].keys) <= 1
        <3>1. e[p].keys = {} \/ e[p].keys = {p}
            BY <2>1
        <3>2. Cardinality({}) = 0 /\ Cardinality({p}) = 1
            BY FS_EmptySet, FS_Singleton
        <3>3. CASE e[p].keys = {}
            BY <3>2, <3>3
        <3>4. CASE e[p].keys = {p}
            BY <3>2, <3>4
        <3> QED BY <3>1, <3>3, <3>4
    <2> QED BY <2>1, <2>2
<1>3. ASSUME strategy # "link" PROVE \A i \in DOMAIN rec.got : rec.got[i] = i
    BY <1>0, <1>3 DEF CallSafe, PrefixCame
<1>4. ASSUME strategy # "link", rec.pc = "done", ~rec.cut, rec.tool.shape = "list"
      PROVE  Len(rec.got) = IF ListPages < MaxPages THEN ListPages ELSE MaxPages
    <2>1. /\ rec.at = rec.page /\ rec.at <= ListPages
          /\ Len(rec.got) = rec.page /\ (rec.page = MaxPages \/ rec.page = ListPages)
        BY <1>0, <1>4 DEF CallSafe, PrefixCame
    <2>2. rec.page \in Pages /\ MaxPages \in Nat /\ ListPages \in Nat
        BY <1>0 DEF CallSafe, CallRecs, RestAssumption
    <2> QED BY <2>1, <2>2 DEF Pages
<1> QED BY <1>1, <1>2, <1>3, <1>4 DEF rec, e

\* ExecuteRest, Retryer.Do, paginateResults: for any number of calls, tools,
\* retries and pages, a write that is not safe to repeat runs at most once
\* for a page, one with a key runs under one key for a page, and the answer
\* is a prefix of the list in order, the whole of it unless a page failed.
THEOREM RepeatsHarmless == RestSpec => []RepeatedSafely
<1>1. RestInit => RestSafe /\ TokenNumbers
    BY RestAssumption, RestSafeInit DEF RestInit, TokenNumbers
<1>2. RestSafe /\ TokenNumbers /\ [RestNext]_restVars => (RestSafe /\ TokenNumbers)'
    BY RestAssumption, RestSafeNext
<1>3. RestSafe => RepeatedSafely
    BY RestAssumption, SafeIsRepeatable
<1> QED BY <1>1, <1>2, <1>3, PTL DEF RestSpec

-----------------------------------------------------------------------------
(***************************************************************************)
(* The credential.  A token that is about to be stored was issued to this  *)
(* call and nobody has seen it (Unseen), so what is cached after a renewal *)
(* is not what was refused before it (Renewing).                           *)
(***************************************************************************)
Waiting == {"inject", "expired", "login", "store", "use", "send"}

TokensKnown ==
    /\ refused \in [RestReqs -> SUBSET Nat] /\ unstable \in BOOLEAN
    /\ cached <= issued
    /\ \A c \in RestReqs : restCall[c].token <= issued /\ \A t \in refused[c] : t <= issued

\* storeSession: the token of the login is not known to anyone else.
Unseen ==
    \A c \in RestReqs : restCall[c].pc = "store" =>
        /\ restCall[c].token # 0 /\ restCall[c].token # cached
        /\ \A d \in RestReqs : restCall[c].token \notin refused[d] /\ (d # c => restCall[d].token # restCall[c].token)

\* What a call was refused with by the time it is where it is.
Renewing(rec, seen) ==
    /\ rec.pc \in Waiting \cup {"new"} /\ rec.phase \in {"first", "retry"} => seen = {}
    /\ rec.pc = "unauthorized" \/ (rec.pc \in Flying /\ rec.phase \in {"renew", "reauth"}) => \E t \in Nat : seen = {t}
    /\ rec.pc \in Waiting /\ rec.phase = "reauth" => cached = 0 \/ cached \notin seen
    /\ rec.pc = "inject" => rec.token = 0
    /\ rec.pc = "send" /\ rec.phase = "reauth" => rec.token = 0 \/ rec.token \notin seen
    /\ rec.pc = "refused" /\ rec.phase = "reauth" => 0 \in seen \/ \E t, u \in Nat : t # u /\ seen = {t, u}

\* Only a session is looked at, logged in and used in steps of their own.
KindOfAuth ==
    /\ authKind \in {"static", "oauth2", "session"}
    /\ authKind = "static" => cached = 0
    /\ authKind # "session" => \A c \in RestReqs : restCall[c].pc \notin {"expired", "login", "store", "use", "reset"}

\* Without others in the way a session is in every request.
SessionSent ==
    authKind = "session" /\ ~unstable =>
        \A c \in RestReqs :
            /\ restCall[c].pc = "use" => cached # 0
            /\ restCall[c].pc = "send" => restCall[c].token # 0
            /\ 0 \notin refused[c]

RenewInv ==
    /\ TokensKnown /\ Unseen /\ KindOfAuth /\ SessionSent
    /\ \A c \in RestReqs : Renewing(restCall[c], refused[c])

\* A step that changes the record of one call only.
LEMMA OneRecordRenews ==
    ASSUME RestSafe, TokenNumbers, RenewInv, NEW c \in RestReqs, NEW r \in CallRecs,
           restCall' = [restCall EXCEPT ![c] = r], UNCHANGED <<authKind, refused, issued, cached>>,
           r.token \in {0, restCall[c].token, cached},
           r.pc = "store" => restCall[c].pc = "store" /\ r.token = restCall[c].token,
           Renewing(r, refused[c]), unstable' \in BOOLEAN, unstable => unstable',
           authKind # "session" => r.pc \notin {"expired", "login", "store", "use", "reset"},
           authKind = "session" /\ ~unstable' => (r.pc = "use" => cached # 0) /\ (r.pc = "send" => r.token # 0)
    PROVE  RenewInv'
<1>0. /\ restCall \in [RestReqs -> CallRecs] /\ restCall'[c] = r /\ \A d \in RestReqs \ {c} : restCall'[d] = restCall[d]
      /\ \A d \in RestReqs : restCall[d].token \in Nat
    BY DEF RestSafe, CallRecs
<1>1. TokensKnown'
    BY <1>0 DEF TokensKnown, RenewInv, TokenNumbers
<1>2. Unseen'
    BY <1>0 DEF Unseen, RenewInv
<1>3. KindOfAuth'
    BY <1>0 DEF KindOfAuth, RenewInv
<1>4. SessionSent'
    BY <1>0 DEF SessionSent, RenewInv
<1>5. ASSUME NEW d \in RestReqs PROVE Renewing(restCall[d], refused[d])'
    <2>1. Renewing(restCall'[d], refused[d])
        BY <1>0 DEF RenewInv
    <2> QED BY <2>1 DEF Renewing
<1> QED BY <1>1, <1>2, <1>3, <1>4, <1>5 DEF RenewInv

LEMMA AnswerRenews ==
    ASSUME RestSafe, TokenNumbers, RenewInv, NEW c \in RestReqs, Answered(c), restCall[c].pc \in Waiting,
           restCall'[c].pc \notin {"unauthorized", "refused"}, UNCHANGED <<authKind, refused, issued, cached, unstable>>
    PROVE  RenewInv'
<1> DEFINE rec == restCall[c]
           r == restCall'[c]
<1>1. /\ Outcome(rec, r) /\ restCall' = [restCall EXCEPT ![c] = r] /\ r \in CallRecs
      /\ r.pc \in {"failed", "done", "inject"}
    BY DEF Answered, Outcome, Moved
<1>2. Renewing(rec, refused[c]) /\ unstable \in BOOLEAN
    BY DEF RenewInv, TokensKnown
<1> HIDE DEF r
<1>3. Renewing(r, refused[c])
    <2>1. CASE r.pc = "inject"
        BY <1>1, <1>2, <2>1 DEF Renewing, Outcome
    <2>2. CASE r.pc # "inject"
        BY <1>1, <2>2 DEF Renewing, Waiting, Flying
    <2> QED BY <2>1, <2>2
<1>4. r.token \in {0, rec.token}
    BY <1>1 DEF Outcome
<1> QED BY <1>1, <1>2, <1>3, <1>4, OneRecordRenews

LEMMA BeginRenews ==
    ASSUME RestAssumption, RestSafe, TokenNumbers, RenewInv, NEW c \in RestReqs, NEW tool \in ToolsOf[c], ExecuteRest(c, tool)
    PROVE  RenewInv'
<1> DEFINE r == DrawKey([NoCall EXCEPT !.tool = tool, !.pc = "inject"])
<1>1. /\ restCall' = [restCall EXCEPT ![c] = r] /\ UNCHANGED <<authKind, refused, issued, cached, unstable>>
      /\ restCall[c].pc = "new"
    BY DEF ExecuteRest, upstreamVars
<1>2. restEffects[c] \in PageEffects /\ \A p \in Pages : restEffects[c][p].runs = 0 /\ restEffects[c][p].keys = {}
    BY <1>1 DEF RestSafe, CallSafe
<1>3. CallSafe(r, restEffects[c])
    BY <1>2, FirstIsSafe
<1>4. r.pc = "inject" /\ r.token = 0 /\ r.phase = "first"
    <2> DEFINE first == [NoCall EXCEPT !.tool = tool, !.pc = "inject"]
    <2>1. /\ first = [first EXCEPT !.pc = "inject"] /\ first.pc = "inject" /\ first.token = 0 /\ first.phase = "first"
        BY DEF NoCall
    <2>2. [first EXCEPT !.key = @ + 1].pc = "inject" /\ [first EXCEPT !.key = @ + 1].token = 0 /\ [first EXCEPT !.key = @ + 1].phase = "first"
        BY DEF NoCall
    <2> QED BY <2>1, <2>2 DEF DrawKey
<1>5. restCall[c] = NoCall /\ NoCall.phase = "first" /\ NoCall.pc = "new"
    BY <1>1 DEF RestSafe, CallSafe, PhaseOK, NoCall
<1>6. refused[c] = {} /\ unstable \in BOOLEAN
    <2>1. Renewing(restCall[c], refused[c]) /\ unstable \in BOOLEAN
        BY DEF RenewInv, TokensKnown
    <2> QED BY <2>1, <1>5 DEF Renewing
<1> HIDE DEF r
<1>7. Renewing(r, refused[c]) /\ r \in CallRecs
    BY <1>3, <1>4, <1>6 DEF Renewing, CallSafe, Waiting
<1> QED BY <1>1, <1>4, <1>6, <1>7, OneRecordRenews

LEMMA EndRenews ==
    ASSUME RestAssumption, RestSafe, TokenNumbers, RenewInv, NEW c \in RestReqs, RejectCall(c) \/ StoreFails(c) \/ CancelWait(c)
    PROVE  RenewInv'
<1>1. /\ restCall' = Goes(c, "failed") /\ UNCHANGED <<authKind, refused, issued, cached, unstable>>
      /\ restCall \in [RestReqs -> CallRecs]
    BY DEF RejectCall, StoreFails, CancelWait, RestSafe, upstreamVars
<1>2. Placed(c, "failed", restCall[c].phase, restCall[c].token)
    BY <1>1, Placing
<1> DEFINE r == restCall'[c]
<1>3. r \in CallRecs /\ r.pc = "failed" /\ r.token = restCall[c].token /\ restCall' = [restCall EXCEPT ![c] = r]
    BY <1>2 DEF Placed, Moved
<1> HIDE DEF r
<1>4. Renewing(r, refused[c])
    BY <1>3 DEF Renewing, Waiting, Flying
<1>5. unstable \in BOOLEAN
    BY DEF RenewInv, TokensKnown
<1> QED BY <1>1, <1>3, <1>4, <1>5, OneRecordRenews

\* A token is issued and cached at once, or known to the one call only.
LEMMA FreshRenews ==
    ASSUME RestSafe, TokenNumbers, RenewInv, NEW c \in RestReqs, NEW r \in CallRecs,
           restCall' = [restCall EXCEPT ![c] = r], UNCHANGED <<authKind, refused>>, issued' = issued + 1,
           r.token = issued', unstable' \in BOOLEAN, unstable => unstable', r.phase = restCall[c].phase,
           restCall[c].pc \in Waiting,
           \/ r.pc = "send" /\ cached' = issued' /\ authKind = "oauth2"
           \/ r.pc = "store" /\ UNCHANGED cached /\ authKind = "session"
    PROVE  RenewInv'
<1>0. /\ restCall \in [RestReqs -> CallRecs] /\ restCall'[c] = r /\ \A d \in RestReqs \ {c} : restCall'[d] = restCall[d]
      /\ \A d \in RestReqs : restCall[d].token \in Nat
      /\ issued' \in Nat /\ issued \in Nat /\ cached \in Nat
    BY DEF RestSafe, CallRecs, TokenNumbers
<1>1. TokensKnown'
    BY <1>0 DEF TokensKnown, RenewInv
<1>2. /\ issued' # 0 /\ issued' # cached /\ \A d \in RestReqs : issued' \notin refused[d] /\ issued' # restCall[d].token
    BY <1>0 DEF TokensKnown, RenewInv
<1>3. Unseen'
    BY <1>0, <1>2 DEF Unseen, RenewInv
<1>4. KindOfAuth'
    BY <1>0 DEF KindOfAuth, RenewInv
<1>5. SessionSent'
    BY <1>0 DEF SessionSent, RenewInv
<1>6. ASSUME NEW d \in RestReqs PROVE Renewing(restCall[d], refused[d])'
    <2>1. Renewing(restCall[d], refused[d])
        BY DEF RenewInv
    <2>2. CASE d # c
        BY <1>0, <1>2, <2>1, <2>2 DEF Renewing
    <2>3. CASE d = c
        <3>1. Renewing(restCall[c], refused[c]) /\ restCall[c].pc \in Flying
            BY <2>1, <2>3 DEF Waiting, Flying
        <3> QED BY <1>0, <1>2, <2>3, <3>1 DEF Renewing, Waiting
    <2> QED BY <2>2, <2>3
<1> QED BY <1>1, <1>3, <1>4, <1>5, <1>6 DEF RenewInv

LEMMA InjectRenews ==
    ASSUME RestAssumption, RestSafe, TokenNumbers, RenewInv, NEW c \in RestReqs,
           injectStatic(c) \/ injectOAuth2(c) \/ injectSession(c)
    PROVE  RenewInv'
<1> USE DEF upstreamVars
<1>1. /\ restCall[c].pc = "inject" /\ restCall[c].pc \in Waiting /\ restCall[c].pc \in Flying
      /\ UNCHANGED <<authKind, refused, unstable>>
    BY DEF injectStatic, injectOAuth2, injectSession, Waiting, Flying
<1>2. restCall[c].phase \in Requesting /\ restCall \in [RestReqs -> CallRecs]
    BY <1>1 DEF RestSafe, CallSafe, PhaseOK
<1>3. Renewing(restCall[c], refused[c]) /\ unstable \in BOOLEAN /\ restCall[c].token = 0
    BY <1>1 DEF RenewInv, TokensKnown, Renewing
<1>4. CASE restCall' = [restCall EXCEPT ![c] = NoAnswer(@)] /\ UNCHANGED <<issued, cached>>
    BY <1>1, <1>2, <1>4, Answering, AnswerRenews
<1>5. ASSUME NEW pc \in {"send", "expired", "login", "use"}, restCall' = Goes(c, pc), UNCHANGED <<issued, cached>>,
             pc = "use" => cached # 0, IF pc = "send" THEN authKind # "session" ELSE authKind = "session"
      PROVE  RenewInv'
    <2>1. pc \in Flying
        BY DEF Flying
    <2>2. Placed(c, pc, restCall[c].phase, restCall[c].token)
        BY <1>2, <1>5, <2>1, Placing
    <2> DEFINE r == restCall'[c]
    <2>3. /\ r \in CallRecs /\ r.pc = pc /\ r.token = 0 /\ r.phase = restCall[c].phase
          /\ restCall' = [restCall EXCEPT ![c] = r]
        BY <1>3, <2>2 DEF Placed, Moved
    <2> HIDE DEF r
    <2>4. Renewing(r, refused[c])
        BY <1>1, <1>3, <2>3 DEF Renewing, Waiting, Flying
    <2> QED BY <1>1, <1>3, <1>5, <2>3, <2>4, OneRecordRenews
<1>6. CASE /\ cached # 0 /\ restCall' = [restCall EXCEPT ![c].token = cached, ![c].pc = "send"]
           /\ UNCHANGED <<issued, cached>> /\ authKind = "oauth2"
    <2>1. "send" \in Flying /\ cached \in Nat
        BY DEF Flying, TokenNumbers
    <2>2. Placed(c, "send", restCall[c].phase, cached)
        BY <1>2, <1>6, <2>1, Placing
    <2> DEFINE r == restCall'[c]
    <2>3. /\ r \in CallRecs /\ r.pc = "send" /\ r.token = cached /\ r.phase = restCall[c].phase
          /\ restCall' = [restCall EXCEPT ![c] = r]
        BY <2>2 DEF Placed, Moved
    <2> HIDE DEF r
    <2>4. Renewing(r, refused[c])
        BY <1>1, <1>3, <2>3 DEF Renewing, Waiting, Flying
    <2> QED BY <1>1, <1>3, <1>6, <2>3, <2>4, OneRecordRenews
<1>7. CASE /\ Issue /\ cached' = issued' /\ restCall' = [restCall EXCEPT ![c].token = issued', ![c].pc = "send"]
           /\ authKind = "oauth2"
    <2>1. "send" \in Flying /\ issued' \in Nat /\ issued' = issued + 1
        BY <1>7 DEF Flying, TokenNumbers, Issue
    <2>2. Placed(c, "send", restCall[c].phase, issued')
        BY <1>2, <1>7, <2>1, Placing
    <2> DEFINE r == restCall'[c]
    <2>3. /\ r \in CallRecs /\ r.pc = "send" /\ r.token = issued' /\ r.phase = restCall[c].phase
          /\ restCall' = [restCall EXCEPT ![c] = r]
        BY <2>2 DEF Placed, Moved
    <2> HIDE DEF r
    <2> QED BY <1>1, <1>3, <1>7, <2>1, <2>3, FreshRenews
<1> QED
    <2>1. CASE injectStatic(c)
        BY <2>1, <1>4, <1>5 DEF injectStatic
    <2>2. CASE injectOAuth2(c)
        BY <2>2, <1>4, <1>5, <1>6, <1>7 DEF injectOAuth2
    <2>3. CASE injectSession(c)
        BY <2>3, <1>5 DEF injectSession
    <2> QED BY <2>1, <2>2, <2>3

\* A step after which nothing is cached.
LEMMA DroppedRenews ==
    ASSUME RestSafe, TokenNumbers, RenewInv, NEW c \in RestReqs, NEW r \in CallRecs,
           restCall' = [restCall EXCEPT ![c] = r], UNCHANGED <<authKind, refused, issued>>, cached' = 0,
           r.token \in {0, restCall[c].token}, r.pc \in {"inject", "reset", "login"},
           r.pc = "inject" => r.token = 0 /\ r.phase = "reauth",
           r.pc # "inject" => authKind = "session",
           restCall[c].pc = "unauthorized" \/ (restCall[c].pc \in Waiting /\ r.phase = restCall[c].phase),
           restCall[c].pc = "unauthorized" => r.pc = "inject" \/ r.phase = "renew",
           unstable' \in BOOLEAN, unstable => unstable', authKind = "session" /\ InUse(c) => unstable'
    PROVE  RenewInv'
<1>0. /\ restCall \in [RestReqs -> CallRecs] /\ restCall'[c] = r /\ \A d \in RestReqs \ {c} : restCall'[d] = restCall[d]
      /\ \A d \in RestReqs : restCall[d].token \in Nat /\ issued \in Nat
    BY DEF RestSafe, CallRecs, TokenNumbers
<1>1. TokensKnown'
    BY <1>0 DEF TokensKnown, RenewInv
<1>2. Unseen'
    BY <1>0 DEF Unseen, RenewInv
<1>3. KindOfAuth'
    BY <1>0 DEF KindOfAuth, RenewInv
<1>4. SessionSent'
    BY <1>0 DEF SessionSent, RenewInv, InUse
<1>5. ASSUME NEW d \in RestReqs PROVE Renewing(restCall[d], refused[d])'
    <2>1. Renewing(restCall[d], refused[d])
        BY DEF RenewInv
    <2>2. CASE d # c
        BY <1>0, <2>1, <2>2 DEF Renewing
    <2>3. CASE d = c
        <3>1. Renewing(restCall[c], refused[c])
            BY <2>1, <2>3
        <3> QED BY <1>0, <2>3, <3>1 DEF Renewing, Waiting, Flying
    <2> QED BY <2>2, <2>3
<1> QED BY <1>1, <1>2, <1>3, <1>4, <1>5 DEF RenewInv

LEMMA StoreRenews ==
    ASSUME RestAssumption, RestSafe, TokenNumbers, RenewInv, NEW c \in RestReqs, storeSession(c)
    PROVE  RenewInv'
<1> DEFINE r == restCall'[c]
           t == restCall[c].token
<1>0. /\ restCall \in [RestReqs -> CallRecs] /\ restCall[c].pc = "store" /\ UNCHANGED <<authKind, refused, issued>>
      /\ cached' = t /\ \A d \in RestReqs : restCall[d].token \in Nat /\ issued \in Nat
    BY DEF storeSession, upstreamVars, RestSafe, CallRecs, TokenNumbers
<1>1. /\ restCall' = [restCall EXCEPT ![c] = r] /\ r \in CallRecs
      /\ \/ restCall[c].phase = "renew" /\ r.pc = "inject" /\ r.phase = "reauth" /\ r.token = 0
         \/ r.pc = "use" /\ r.phase = restCall[c].phase /\ r.phase # "renew" /\ r.token = t
    <2>1. CASE restCall[c].phase = "renew"
        <3>1. Placed(c, "inject", "reauth", 0)
            BY <1>0, <2>1, Placing DEF storeSession
        <3> QED BY <2>1, <3>1 DEF Placed, Moved
    <2>2. CASE restCall[c].phase # "renew"
        <3>1. Placed(c, "use", restCall[c].phase, t)
            BY <1>0, <2>2, Placing DEF storeSession, Flying
        <3> QED BY <2>2, <3>1 DEF Placed, Moved
    <2> QED BY <2>1, <2>2
<1>2. restCall'[c] = r /\ \A d \in RestReqs \ {c} : restCall'[d] = restCall[d]
    BY <1>0, <1>1
<1>3. /\ t # 0 /\ t \in Nat /\ t <= issued
      /\ \A d \in RestReqs : t \notin refused[d] /\ (restCall[d].pc = "store" /\ d # c => restCall[d].token # t)
    BY <1>0 DEF RenewInv, Unseen, TokensKnown
<1>4. unstable' \in BOOLEAN /\ (unstable => unstable')
    BY DEF storeSession, RenewInv, TokensKnown
<1> HIDE DEF r, t
<1>5. TokensKnown'
    BY <1>0, <1>1, <1>2, <1>3, <1>4 DEF TokensKnown, RenewInv
<1>6. Unseen'
    BY <1>0, <1>1, <1>2, <1>3 DEF Unseen, RenewInv
<1>7. KindOfAuth'
    BY <1>0, <1>1, <1>2 DEF KindOfAuth, RenewInv
<1>8. SessionSent'
    BY <1>0, <1>1, <1>2, <1>3, <1>4 DEF SessionSent, RenewInv
<1>9. ASSUME NEW d \in RestReqs PROVE Renewing(restCall[d], refused[d])'
    <2>1. Renewing(restCall[d], refused[d])
        BY DEF RenewInv
    <2>2. CASE d # c
        BY <1>0, <1>2, <1>3, <2>1, <2>2 DEF Renewing
    <2>3. CASE d = c
        <3>1. Renewing(restCall[c], refused[c])
            BY <2>1, <2>3
        <3> QED BY <1>0, <1>1, <1>2, <1>3, <2>3, <3>1 DEF Renewing, Waiting, Flying
    <2> QED BY <2>2, <2>3
<1> QED BY <1>5, <1>6, <1>7, <1>8, <1>9 DEF RenewInv

LEMMA SessionRenews ==
    ASSUME RestAssumption, RestSafe, TokenNumbers, RenewInv, NEW c \in RestReqs,
           dropSession(c) \/ sessionLogin(c) \/ useSession(c) \/ HandleUnauthorized(c) \/ resetJar(c)
    PROVE  RenewInv'
<1> USE DEF upstreamVars
<1> DEFINE r == restCall'[c]
<1>0. /\ UNCHANGED <<authKind, refused>> /\ restCall \in [RestReqs -> CallRecs] /\ restCall[c] \in CallRecs
      /\ unstable' \in BOOLEAN /\ (unstable => unstable')
    BY DEF dropSession, sessionLogin, useSession, HandleUnauthorized, resetJar, RestSafe, RenewInv, TokensKnown
<1>1. /\ PhaseOK(restCall[c]) /\ Renewing(restCall[c], refused[c]) /\ restCall[c].phase \in Requesting \cup {"renew"}
    BY <1>0 DEF RestSafe, CallSafe, RenewInv, CallRecs
<1>2. restCall[c].pc \in {"expired", "login", "store", "use", "reset"} => authKind = "session"
    BY DEF RenewInv, KindOfAuth
<1>3. CASE dropSession(c)
    <2>1. /\ restCall[c].pc = "expired" /\ restCall' = Goes(c, "login") /\ cached' = 0 /\ UNCHANGED issued
          /\ InUse(c) => unstable'
        BY <1>3 DEF dropSession
    <2>2. Placed(c, "login", restCall[c].phase, restCall[c].token)
        BY <1>0, <2>1, Placing DEF Flying
    <2>3. /\ restCall' = [restCall EXCEPT ![c] = r] /\ r \in CallRecs /\ r.pc = "login" /\ r.phase = restCall[c].phase
          /\ r.token = restCall[c].token
        BY <2>2 DEF Placed, Moved
    <2> HIDE DEF r
    <2> QED BY <1>0, <1>2, <2>1, <2>3, DroppedRenews DEF Waiting
<1>4. CASE resetJar(c)
    <2>1. restCall[c].pc = "reset" /\ restCall' = Goes(c, "login") /\ UNCHANGED <<cached, issued>>
        BY <1>4 DEF resetJar
    <2>2. Placed(c, "login", restCall[c].phase, restCall[c].token)
        BY <1>0, <2>1, Placing DEF Flying
    <2>3. /\ restCall' = [restCall EXCEPT ![c] = r] /\ r \in CallRecs /\ r.pc = "login" /\ r.phase = "renew"
          /\ r.token = restCall[c].token
        BY <1>1, <2>1, <2>2 DEF Placed, Moved, PhaseOK
    <2>4. Renewing(r, refused[c])
        BY <1>1, <2>1, <2>3 DEF Renewing, Waiting, Flying, PhaseOK
    <2> HIDE DEF r
    <2> QED BY <1>0, <1>2, <2>1, <2>3, <2>4, OneRecordRenews
<1>5. CASE useSession(c)
    <2>1. /\ restCall[c].pc = "use" /\ restCall' = [restCall EXCEPT ![c].token = cached, ![c].pc = "send"]
          /\ UNCHANGED <<cached, issued, unstable>> /\ cached \in Nat
        BY <1>5 DEF useSession, TokenNumbers
    <2>2. Placed(c, "send", restCall[c].phase, cached)
        BY <1>0, <2>1, Placing DEF Flying
    <2>3. /\ restCall' = [restCall EXCEPT ![c] = r] /\ r \in CallRecs /\ r.pc = "send" /\ r.phase = restCall[c].phase
          /\ r.token = cached
        BY <2>2 DEF Placed, Moved
    <2>4. Renewing(r, refused[c])
        BY <1>1, <2>1, <2>3 DEF Renewing, Waiting, Flying
    <2>5. authKind = "session" /\ ~unstable => cached # 0
        BY <2>1 DEF RenewInv, SessionSent
    <2> HIDE DEF r
    <2> QED BY <1>0, <1>2, <2>1, <2>3, <2>4, <2>5, OneRecordRenews
<1>6. CASE HandleUnauthorized(c)
    <2>1. /\ restCall[c].pc = "unauthorized" /\ cached' = 0 /\ UNCHANGED issued
          /\ authKind = "session" /\ InUse(c) => unstable'
        BY <1>6 DEF HandleUnauthorized, RenewInv, KindOfAuth
    <2>2. /\ restCall' = [restCall EXCEPT ![c] = r] /\ r \in CallRecs
          /\ \/ authKind = "session" /\ r.pc = "reset" /\ r.phase = "renew" /\ r.token = restCall[c].token
             \/ authKind # "session" /\ r.pc = "inject" /\ r.phase = "reauth" /\ r.token = 0
        <3>1. CASE authKind = "session"
            <4>1. Placed(c, "reset", "renew", restCall[c].token)
                BY <1>0, <1>6, <3>1, Placing DEF HandleUnauthorized
            <4> QED BY <3>1, <4>1 DEF Placed, Moved
        <3>2. CASE authKind # "session"
            <4>1. Placed(c, "inject", "reauth", 0)
                BY <1>0, <1>6, <3>2, Placing DEF HandleUnauthorized
            <4> QED BY <3>2, <4>1 DEF Placed, Moved
        <3> QED BY <3>1, <3>2
    <2> HIDE DEF r
    <2> QED BY <1>0, <2>1, <2>2, DroppedRenews
<1>7. CASE sessionLogin(c)
    <2>1. restCall[c].pc = "login" /\ restCall[c].pc \in Flying /\ restCall[c].pc \in Waiting /\ UNCHANGED cached
        BY <1>7 DEF sessionLogin, Flying, Waiting
    <2>2. CASE Issue /\ restCall' = [restCall EXCEPT ![c].token = issued', ![c].pc = "store"]
        <3>1. issued' \in Nat /\ issued' = issued + 1
            BY <2>2 DEF Issue, TokenNumbers
        <3>2. Placed(c, "store", restCall[c].phase, issued')
            BY <1>0, <2>2, <3>1, Placing DEF Flying
        <3>3. /\ restCall' = [restCall EXCEPT ![c] = r] /\ r \in CallRecs /\ r.pc = "store" /\ r.phase = restCall[c].phase
              /\ r.token = issued'
            BY <3>2 DEF Placed, Moved
        <3> HIDE DEF r
        <3> QED BY <1>0, <1>2, <2>1, <3>1, <3>3, FreshRenews
    <2>3. CASE restCall[c].phase = "renew" /\ restCall' = Goes(c, "refused") /\ UNCHANGED <<issued, unstable>>
        <3>1. Placed(c, "refused", restCall[c].phase, restCall[c].token)
            BY <1>0, <2>3, Placing
        <3>2. /\ restCall' = [restCall EXCEPT ![c] = r] /\ r \in CallRecs /\ r.pc = "refused" /\ r.phase = "renew"
              /\ r.token = restCall[c].token
            BY <2>3, <3>1 DEF Placed, Moved
        <3>3. Renewing(r, refused[c])
            BY <3>2 DEF Renewing, Waiting, Flying
        <3> HIDE DEF r
        <3> QED BY <1>0, <2>1, <2>3, <3>2, <3>3, OneRecordRenews
    <2>4. CASE /\ restCall[c].phase # "renew" /\ restCall' = [restCall EXCEPT ![c] = NoAnswer(@)]
               /\ UNCHANGED <<issued, unstable>>
        BY <1>0, <1>1, <2>1, <2>4, Answering, AnswerRenews
    <2> QED BY <1>7, <2>2, <2>3, <2>4 DEF sessionLogin
<1> QED BY <1>3, <1>4, <1>5, <1>6, <1>7

\* A 401: the token of the request joins those the call was refused with.
LEMMA RefusedRenews ==
    ASSUME RestAssumption, RestSafe, TokenNumbers, RenewInv, NEW c \in RestReqs, restCall[c].pc = "send",
           restCall' = [restCall EXCEPT ![c] = Unauthorized(@)], UNCHANGED <<authKind, issued, cached, unstable>>,
           refused' = [refused EXCEPT ![c] = @ \cup {restCall[c].token}]
    PROVE  RenewInv'
<1> DEFINE rec == restCall[c]
           r == restCall'[c]
<1>0. /\ restCall \in [RestReqs -> CallRecs] /\ rec \in CallRecs /\ rec.pc \in Flying /\ rec.phase \in Requesting
      /\ \A d \in RestReqs : restCall[d].token \in Nat /\ issued \in Nat
      /\ \A d \in RestReqs \ {c} : restCall'[d] = restCall[d]
    BY DEF RestSafe, CallSafe, PhaseOK, CallRecs, TokenNumbers, Flying
<1>1. Answered(c) /\ r = Unauthorized(rec)
    BY <1>0, Answering
<1>2. /\ r \in CallRecs /\ r.token = rec.token /\ r.phase = rec.phase /\ r.pc \in {"unauthorized", "done", "refused", "failed"}
      /\ r.pc = "unauthorized" => r.phase \in {"first", "retry"}
    <2>1. CASE rec.phase = "page"
        BY <1>1, <2>1 DEF Answered, Outcome, Moved
    <2>2. CASE rec.phase # "page"
        <3>1. Unauthorized(rec).pc \in {"unauthorized", "refused"}
            BY <1>0, <2>2 DEF Unauthorized, CallRecs
        <3> QED BY <1>1, <3>1 DEF Answered, Outcome, Moved
    <2> QED BY <2>1, <2>2
<1>3. Renewing(rec, refused[c]) /\ rec.pc = "send" /\ rec.token \in Nat /\ restCall'[c] = r
    BY <1>0 DEF RenewInv
<1>4. /\ refused \in [RestReqs -> SUBSET Nat] /\ refused' \in [RestReqs -> SUBSET Nat]
      /\ refused'[c] = refused[c] \cup {rec.token} /\ \A d \in RestReqs \ {c} : refused'[d] = refused[d]
    BY <1>3 DEF RenewInv, TokensKnown
<1> HIDE DEF rec, r
<1>5. TokensKnown'
    BY <1>0, <1>2, <1>3, <1>4 DEF TokensKnown, RenewInv, rec
<1>6. Unseen'
    BY <1>0, <1>2, <1>3, <1>4 DEF Unseen, RenewInv, rec
<1>7. KindOfAuth'
    BY <1>0, <1>2, <1>3 DEF KindOfAuth, RenewInv
<1>8. SessionSent'
    BY <1>0, <1>2, <1>3, <1>4 DEF SessionSent, RenewInv, rec
<1>9. ASSUME NEW d \in RestReqs PROVE Renewing(restCall[d], refused[d])'
    <2>1. Renewing(restCall[d], refused[d])
        BY DEF RenewInv
    <2>2. CASE d # c
        BY <1>0, <1>4, <2>1, <2>2 DEF Renewing
    <2>3. CASE d = c
        <3>1. CASE r.pc = "unauthorized"
            <4>1. refused[c] = {}
                BY <1>2, <1>3, <3>1 DEF Renewing, Waiting
            <4>2. refused'[c] = {rec.token}
                BY <1>4, <4>1
            <4> QED BY <1>2, <1>3, <2>3, <3>1, <4>2 DEF Renewing, Waiting
        <3>2. CASE r.pc = "refused" /\ r.phase = "reauth"
            <4>1. PICK t \in Nat : refused[c] = {t}
                BY <1>0, <1>2, <1>3, <3>2 DEF Renewing, rec
            <4>2. rec.token = 0 \/ rec.token \notin refused[c]
                BY <1>2, <1>3, <3>2 DEF Renewing
            <4>3. 0 \in refused'[c] \/ (t # rec.token /\ refused'[c] = {t, rec.token})
                BY <1>4, <4>1, <4>2
            <4> QED BY <1>2, <1>3, <2>3, <3>2, <4>3 DEF Renewing, Waiting, Flying
        <3>3. CASE r.pc \in {"done", "failed"} \/ (r.pc = "refused" /\ r.phase # "reauth")
            BY <1>3, <2>3, <3>3 DEF Renewing, Waiting, Flying
        <3> QED BY <1>2, <3>1, <3>2, <3>3
    <2> QED BY <2>2, <2>3
<1> QED BY <1>5, <1>6, <1>7, <1>8, <1>9 DEF RenewInv

LEMMA SendRenews ==
    ASSUME RestAssumption, RestSafe, TokenNumbers, RenewInv, NEW c \in RestReqs, Send(c)
    PROVE  RenewInv'
<1> USE DEF upstreamVars
<1>1. /\ restCall[c].pc = "send" /\ restCall[c].pc \in Flying /\ restCall[c].pc \in Waiting
      /\ UNCHANGED <<authKind, issued, cached, unstable>>
    BY DEF Send, Flying, Waiting
<1>2. restCall[c].phase \in Requesting /\ restCall[c] \in CallRecs
    BY <1>1 DEF RestSafe, CallSafe, PhaseOK
<1>3. CASE UNCHANGED refused /\ restCall' = [restCall EXCEPT ![c] = Collected(@)]
    <2> DEFINE r == Collected(restCall[c])
    <2>1. /\ r \in CallRecs /\ restCall' = [restCall EXCEPT ![c] = r]
          /\ r.pc = "done" \/ (r.pc = "inject" /\ r.phase = "page" /\ r.token = 0)
        BY <1>2, <1>3, CollectedFields
    <2>2. r.pc = "done" => r.token = restCall[c].token
        BY <1>2, <2>1, CollectedFields
    <2> HIDE DEF r
    <2>3. Renewing(r, refused[c]) /\ unstable \in BOOLEAN
        BY <2>1 DEF Renewing, Waiting, Flying, RenewInv, TokensKnown
    <2> QED BY <1>1, <1>3, <2>1, <2>2, <2>3, OneRecordRenews
<1>4. CASE /\ UNCHANGED refused
           /\ restCall' \in {[restCall EXCEPT ![c] = Terminal(@)], [restCall EXCEPT ![c] = Retryable(@)],
                             [restCall EXCEPT ![c] = NoAnswer(@)]}
    BY <1>1, <1>2, <1>4, Answering, AnswerRenews
<1>5. CASE /\ restCall' = [restCall EXCEPT ![c] = Unauthorized(@)]
           /\ refused' = [refused EXCEPT ![c] = @ \cup {restCall[c].token}]
    BY <1>1, <1>5, RefusedRenews
<1> QED BY <1>3, <1>4, <1>5 DEF Send

LEMMA RenewNext ==
    ASSUME RestAssumption, RestSafe, TokenNumbers, RenewInv, [RestNext]_restVars
    PROVE  RenewInv'
<1>1. ASSUME NEW c \in RestReqs, NEW tool \in ToolsOf[c], ExecuteRest(c, tool) PROVE RenewInv'
    BY <1>1, BeginRenews
<1>2. ASSUME NEW c \in RestReqs, RejectCall(c) \/ StoreFails(c) \/ CancelWait(c) PROVE RenewInv'
    BY <1>2, EndRenews
<1>3. ASSUME NEW c \in RestReqs, injectStatic(c) \/ injectOAuth2(c) \/ injectSession(c) PROVE RenewInv'
    BY <1>3, InjectRenews
<1>4. ASSUME NEW c \in RestReqs, Send(c) PROVE RenewInv'
    BY <1>4, SendRenews
<1>5. ASSUME NEW c \in RestReqs, storeSession(c) PROVE RenewInv'
    BY <1>5, StoreRenews
<1>6. ASSUME NEW c \in RestReqs,
             dropSession(c) \/ sessionLogin(c) \/ useSession(c) \/ HandleUnauthorized(c) \/ resetJar(c)
      PROVE  RenewInv'
    BY <1>6, SessionRenews
<1>7. ASSUME \/ \E t \in 1..MaxLogins : Revoke(t)
             \/ GrowOld \/ UNCHANGED restVars
      PROVE  RenewInv'
    <2>1. UNCHANGED <<authKind, issued, cached, restCall, refused, unstable>>
        BY <1>7 DEF Revoke, GrowOld, restVars
    <2> QED BY <2>1 DEF RenewInv, TokensKnown, Unseen, KindOfAuth, SessionSent, Renewing
<1> QED BY <1>1, <1>2, <1>3, <1>4, <1>5, <1>6, <1>7 DEF RestNext

LEMMA RenewInit == RestInit => RenewInv
<1> SUFFICES ASSUME RestInit PROVE RenewInv
    OBVIOUS
<1>1. /\ issued = 0 /\ cached = 0 /\ unstable = FALSE /\ authKind \in {"static", "oauth2", "session"}
      /\ refused = [c \in RestReqs |-> {}]
      /\ \A c \in RestReqs : /\ restCall[c].pc = "new" /\ restCall[c].phase = "first" /\ restCall[c].token = 0
                             /\ refused[c] = {}
    BY DEF RestInit, NoCall
<1>2. TokensKnown
    <2>1. refused \in [RestReqs -> SUBSET Nat] /\ unstable \in BOOLEAN
        BY <1>1
    <2> QED BY <1>1, <2>1 DEF TokensKnown
<1>4. Unseen /\ KindOfAuth /\ SessionSent
    BY <1>1 DEF Unseen, KindOfAuth, SessionSent
<1>3. \A c \in RestReqs : Renewing(restCall[c], refused[c])
    BY <1>1 DEF Renewing, Waiting, Flying
<1> QED BY <1>2, <1>3, <1>4 DEF RenewInv

\* InjectAuth, HandleUnauthorized: for any number of calls, retries and
\* tokens, a call gives up on a 401 only after a request with a credential
\* other than the one refused first, and a session is in every request,
\* unless it was cleared or replaced under a call that was using it.
THEOREM RenewsBeforeGivingUp == RestSpec => []RenewedBeforeGivingUp
<1>1. RestInit => RestSafe /\ TokenNumbers /\ RenewInv
    BY RestAssumption, RestSafeInit, RenewInit DEF RestInit, TokenNumbers
<1>2. RestSafe /\ TokenNumbers /\ RenewInv /\ [RestNext]_restVars => (RestSafe /\ TokenNumbers /\ RenewInv)'
    BY RestAssumption, RestSafeNext, RenewNext
<1>3. RestSafe /\ TokenNumbers /\ RenewInv => RenewedBeforeGivingUp
    <2> SUFFICES ASSUME RenewInv, ~unstable, NEW c \in RestReqs
                 PROVE  /\ authKind = "session" => 0 \notin refused[c]
                        /\ restCall[c].pc = "refused" /\ restCall[c].phase = "reauth" /\ 0 \notin refused[c] =>
                              Cardinality(refused[c]) = 2
        BY DEF RenewedBeforeGivingUp
    <2>1. authKind = "session" => 0 \notin refused[c]
        BY DEF RenewInv, SessionSent
    <2>2. ASSUME restCall[c].pc = "refused", restCall[c].phase = "reauth", 0 \notin refused[c]
          PROVE  Cardinality(refused[c]) = 2
        <3>1. PICK t \in Nat, u \in Nat : t # u /\ refused[c] = {t, u}
            BY <2>2 DEF RenewInv, Renewing
        <3>2. Cardinality({t}) = 1 /\ IsFiniteSet({t})
            BY FS_Singleton
        <3>3. Cardinality({t} \cup {u}) = Cardinality({t}) + 1
            BY <3>1, <3>2, FS_AddElement
        <3>4. {t, u} = {t} \cup {u}
            OBVIOUS
        <3> QED BY <3>1, <3>2, <3>3, <3>4
    <2> QED BY <2>1, <2>2
<1> QED BY <1>1, <1>2, <1>3, PTL DEF RestSpec

=============================================================================
