------------------------------- MODULE Grants -------------------------------
(***************************************************************************)
(* The life of a grant of a kit (internal/grants): a caller asks for a     *)
(* kit, an approver approves it with its key (approver API) or with a      *)
(* signed statement (approval page), denies it or revokes the grant, and   *)
(* both requests and grants end by themselves when their time is over.     *)
(*                                                                         *)
(* Calls of approvers run concurrently and share only the store (Redis or  *)
(* process memory) and the policy in effect, which a reload replaces under *)
(* them.  A call reads the request, resolves what it grants, takes the     *)
(* request, reads what the caller holds, stores the grant and removes the  *)
(* ones it replaces; each of these is a step of its own.                   *)
(*                                                                         *)
(* Data: scopes and tools of a kit are members of Entries, a request's id  *)
(* with its nonce is a member of Ids drawn once, reasons, names, coverage, *)
(* fingerprints and audit entries (write-only) are left out.               *)
(***************************************************************************)
EXTENDS Naturals, FiniteSets

CONSTANTS
    Subjects,     \* callers, as Subject{UserID, Binding}
    KitNames,
    Entries,      \* scopes and tools a kit may list
    Approvers,
    Ids,          \* ids newID can draw, each at most once
    Calls,        \* approval calls that may be in flight at a time
    Policies,     \* the kits and approvers each authz config file defines
    AskedTTLs,    \* durations callers ask for; 0 for none
    Choices,      \* durations and entries approvers choose; 0 and {} for none
    DefaultTTL, MaxTTL, RequestTTL, MaxPending,
    MaxTime,      \* bound on the clock
    MaxSigned,    \* bound on the statements signed
    Persistent,   \* Redis store: survives a restart
    StoreMayFail, \* Redis store: a command may fail, its effect unknown
    None          \* no kit definition, no approver

KitDef == [entries : SUBSET Entries, ttlDefault : Nat, ttlMax : Nat]
Policy == [kits : [KitNames -> KitDef \cup {None}],
           approvers : [Approvers -> [known : BOOLEAN, kits : SUBSET KitNames]]]

ASSUME GrantsAssumption ==
    /\ DefaultTTL \in Nat \ {0} /\ MaxTTL \in Nat \ {0}
    /\ RequestTTL \in Nat \ {0} /\ MaxPending \in Nat /\ MaxTime \in Nat
    /\ AskedTTLs \subseteq Nat /\ MaxSigned \in Nat
    /\ Choices \subseteq [ttl : Nat, entries : SUBSET Entries]
    /\ None \notin KitDef /\ None \notin Approvers
    /\ Policies \subseteq Policy /\ Policies # {}
    /\ Persistent \in BOOLEAN /\ StoreMayFail \in BOOLEAN
    /\ \A p \in Policies, k \in KitNames :
          p.kits[k] # None => p.kits[k].entries # {}

VARIABLES
    now,      \* the clock
    policy,   \* the policy applied last (Kits() and Approvers())
    pending,  \* requests stored under StatePending
    active,   \* grants stored under StateActive
    used,     \* ids drawn so far
    call,     \* approval calls in flight
    signed,   \* statements an approver has signed
    ended,    \* ids Deny or Revoke answered with success
    scoped    \* <<approver, kit>> pairs some policy in effect allowed

vars == <<now, policy, pending, active, used, call, signed, ended, scoped>>

\* A request or grant.  part is the set of entries granted, {} for nil: the
\* whole kit.  approver and how are set by the approval.
Grant == [id : Ids, subject : Subjects, kit : KitNames, ttl : Nat,
          part : SUBSET Entries, approver : Approvers \cup {None},
          how : {"none", "key", "signature"}, expires : Nat]

\* What a statement says beside fixed text: the request, the signer, what the
\* kit listed, the entries and the duration approved.
Statement == [id : Ids, approver : Approvers, kit : KitDef,
              entries : SUBSET Entries, ttl : Nat]

Choice == [ttl : Nat, entries : SUBSET Entries]

\* An approval in flight: its input, the grant being built from the request
\* and the ids of the grants found to be replaced.
CallState == [pc : {"idle", "approve", "take", "held", "put", "replace"},
              how : {"none", "key", "signature"},
              approver : Approvers \cup {None}, id : Ids \cup {None},
              choice : Choice, grant : Grant \cup {None}, old : SUBSET Ids]

IdleCall == [pc |-> "idle", how |-> "none", approver |-> None, id |-> None,
             choice |-> [ttl |-> 0, entries |-> {}], grant |-> None, old |-> {}]

TypeOK ==
    /\ now \in Nat
    /\ policy \in Policy
    /\ pending \subseteq Grant
    /\ active \subseteq Grant
    /\ used \subseteq Ids
    /\ call \in [Calls -> CallState]
    /\ signed \subseteq Statement
    /\ ended \subseteq Ids
    /\ scoped \subseteq Approvers \X KitNames

-----------------------------------------------------------------------------
(* Helpers.                                                                *)

SmallerOf(a, b) == IF a < b THEN a ELSE b

\* No method of a store returns what has expired (prune, live).
Live(grants) == {g \in grants : now < g.expires}

ForSubject(grants, s) == {g \in Live(grants) : g.subject = s}

WithId(grants, id) == {g \in Live(grants) : g.id = id}

IdsOf(grants) == {g.id : g \in grants}

kitMaxTTL(k) == IF k.ttlMax > 0 THEN k.ttlMax ELSE MaxTTL

\* kitTTL(k, d).ttl is how long kit k is granted for when d is asked for,
\* .over whether d exceeded the kit's maximum.
kitTTL(k, d) ==
    LET default == IF k.ttlDefault > 0 THEN k.ttlDefault ELSE DefaultTTL
    IN  [ttl  |-> SmallerOf(IF d = 0 THEN default ELSE d, kitMaxTTL(k)),
         over |-> d > kitMaxTTL(k)]

\* The duration an approval of req with choice a grants, and whether the
\* choice is valid: no longer than the kit's maximum unless the request asked
\* for that much, and no entry the kit does not list.
resolveTTL(k, req, a) == kitTTL(k, IF a.ttl = 0 THEN req.ttl ELSE a.ttl).ttl

resolveOK(k, req, a) ==
    /\ ~(kitTTL(k, IF a.ttl = 0 THEN req.ttl ELSE a.ttl).over /\ a.ttl > req.ttl)
    /\ a.entries \subseteq k.entries

MayApprove(p, a, k) ==
    /\ p.approvers[a].known
    /\ p.approvers[a].kits = {} \/ k \in p.approvers[a].kits

\* An approver the registry does not know has no scope to check.
checkScope(p, a, k) == p.approvers[a].known => MayApprove(p, a, k)

ScopesOf(p) == {ak \in Approvers \X KitNames : MayApprove(p, ak[1], ak[2])}

\* IsWhole: the kit lists nothing the part leaves out.
IsWhole(k, part) == k.entries \subseteq part

\* The statement for a request, built from the policy and the choices.
StatementFor(p, a, req, choice) ==
    [id |-> req.id, approver |-> a, kit |-> p.kits[req.kit],
     entries |-> IF choice.entries = {} THEN p.kits[req.kit].entries ELSE choice.entries,
     ttl |-> resolveTTL(p.kits[req.kit], req, choice)]

\* The conditions under which statement() writes one.
StatementOK(p, a, req, choice) ==
    /\ p.kits[req.kit] # None
    /\ MayApprove(p, a, req.kit)
    /\ resolveOK(p.kits[req.kit], req, choice)

-----------------------------------------------------------------------------
Init ==
    /\ now = 0
    /\ policy \in Policies
    /\ pending = {}
    /\ active = {}
    /\ used = {}
    /\ call = [c \in Calls |-> IdleCall]
    /\ signed = {}
    /\ ended = {}
    /\ scoped = ScopesOf(policy)

Tick ==
    /\ now < MaxTime
    /\ now' = now + 1
    /\ UNCHANGED <<policy, pending, active, used, call, signed, ended, scoped>>

\* ApplyPolicy: a changed authz config file replaces the kits, and after that
\* the approvers.
ReloadKits(p) ==
    /\ p.kits # policy.kits
    /\ policy' = [policy EXCEPT !.kits = p.kits]
    /\ UNCHANGED <<now, pending, active, used, call, signed, ended, scoped>>

ReloadApprovers(p) ==
    /\ p # policy
    /\ p.kits = policy.kits
    /\ policy' = p
    /\ scoped' = scoped \cup ScopesOf(p)
    /\ UNCHANGED <<now, pending, active, used, call, signed, ended>>

\* As AddPending with the limit off by one.
AddPendingOneMore(g) ==
    /\ \A p \in ForSubject(pending, g.subject) : p.kit # g.kit
    /\ Cardinality(ForSubject(pending, g.subject)) <= MaxPending
    /\ pending' = Live(pending) \cup {g}

\* AddPending refuses a second request for the kit and one past the limit.
AddPending(g) ==
    /\ \A p \in ForSubject(pending, g.subject) : p.kit # g.kit
    /\ Cardinality(ForSubject(pending, g.subject)) < MaxPending
    /\ pending' = Live(pending) \cup {g}

\* Service.Request: what it reads of the policy and of the caller's grants
\* does not change what AddPending does, so the call is one step.
Request(s, k, asked, id) ==
    /\ policy.kits[k] # None
    /\ \E a \in Approvers : policy.approvers[a].known
    /\ id \notin used
    /\ AddPending([id |-> id, subject |-> s, kit |-> k,
                   ttl |-> kitTTL(policy.kits[k], asked).ttl, part |-> {},
                   approver |-> None, how |-> "none", expires |-> now + RequestTTL])
    /\ used' = used \cup {id}
    /\ UNCHANGED <<now, policy, active, call, signed, ended, scoped>>

\* POST /approve/{id}/statement, and the approver signs what it answers.
SignStatement(a, id, choice) ==
    \E req \in WithId(pending, id) :
        /\ StatementOK(policy, a, req, choice)
        /\ Cardinality(signed) < MaxSigned
        /\ signed' = signed \cup {StatementFor(policy, a, req, choice)}
        /\ UNCHANGED <<now, policy, pending, active, used, call, ended, scoped>>

\* POST /grants/{id}/approve: the key identifies the approver; the body is
\* read after that.
StartWithKey(c, a, id, choice) ==
    /\ call[c].pc = "idle"
    /\ policy.approvers[a].known
    /\ id \in used
    /\ call' = [call EXCEPT ![c] = [IdleCall EXCEPT !.pc = "approve", !.how = "key",
                                       !.approver = a, !.id = id, !.choice = choice]]
    /\ UNCHANGED <<now, policy, pending, active, used, signed, ended, scoped>>

\* ApproveSigned: the statement is written again, and only a signature of
\* exactly that text goes on, with the entries and duration of the statement.
StartSigned(c, a, id, choice) ==
    \E req \in WithId(pending, id) :
        LET st == StatementFor(policy, a, req, choice)
        IN  /\ call[c].pc = "idle"
            /\ StatementOK(policy, a, req, choice)
            /\ st \in signed
            /\ call' = [call EXCEPT ![c] = [IdleCall EXCEPT !.pc = "approve",
                              !.how = "signature", !.approver = a, !.id = id,
                              !.choice = [ttl |-> st.ttl, entries |-> st.entries]]]
            /\ UNCHANGED <<now, policy, pending, active, used, signed, ended, scoped>>

\* As Resolve, where a signed approval that names every entry also becomes
\* the whole kit.
ResolveCollapsesSigned(c) ==
    LET me == call[c] IN
    /\ me.pc = "approve"
    /\ \E req \in WithId(pending, me.id) :
          LET k == policy.kits[req.kit]
              part == IF IsWhole(k, me.choice.entries) THEN {} ELSE me.choice.entries
          IN  /\ k # None
              /\ checkScope(policy, me.approver, req.kit)
              /\ resolveOK(k, req, me.choice)
              /\ call' = [call EXCEPT ![c].pc = "take",
                             ![c].grant = [req EXCEPT !.ttl = resolveTTL(k, req, me.choice),
                                              !.part = part, !.approver = me.approver,
                                              !.how = me.how]]
    /\ UNCHANGED <<now, policy, pending, active, used, signed, ended, scoped>>

\* approve up to Take.  With a key, naming every entry is the whole kit.
Resolve(c) ==
    LET me == call[c] IN
    /\ me.pc = "approve"
    /\ \E req \in WithId(pending, me.id) :
          LET k == policy.kits[req.kit]
              part == IF me.how = "key" /\ IsWhole(k, me.choice.entries) THEN {} ELSE me.choice.entries
          IN  /\ k # None
              /\ checkScope(policy, me.approver, req.kit)
              /\ resolveOK(k, req, me.choice)
              /\ call' = [call EXCEPT ![c].pc = "take",
                             ![c].grant = [req EXCEPT !.ttl = resolveTTL(k, req, me.choice),
                                              !.part = part, !.approver = me.approver,
                                              !.how = me.how]]
    /\ UNCHANGED <<now, policy, pending, active, used, signed, ended, scoped>>

\* approve returns early: the request is gone, its kit is no longer defined,
\* the kit is out of the approver's scope or the choice does not fit.
ResolveFails(c) ==
    LET me == call[c] IN
    /\ me.pc = "approve"
    /\ \A req \in WithId(pending, me.id) :
          LET k == policy.kits[req.kit]
          IN  ~(k # None /\ checkScope(policy, me.approver, req.kit) /\ resolveOK(k, req, me.choice))
    /\ call' = [call EXCEPT ![c] = IdleCall]
    /\ UNCHANGED <<now, policy, pending, active, used, signed, ended, scoped>>

\* As Take, with Get in its place: the request stays where it is.
TakeKeepsRequest(c) ==
    LET me == call[c] IN
    /\ me.pc = "take"
    /\ IF WithId(pending, me.id) = {}
         THEN call' = [call EXCEPT ![c] = IdleCall]
         ELSE call' = [call EXCEPT ![c].pc = "held",
                          ![c].grant.expires = now + me.grant.ttl]
    /\ UNCHANGED <<now, policy, pending, active, used, signed, ended, scoped>>

\* Take(pending): of two calls only one gets the request.
Take(c) ==
    LET me == call[c] IN
    /\ me.pc = "take"
    /\ IF WithId(pending, me.id) = {}
         THEN call' = [call EXCEPT ![c] = IdleCall]
         ELSE call' = [call EXCEPT ![c].pc = "held",
                          ![c].grant.expires = now + me.grant.ttl]
    /\ pending' = {g \in Live(pending) : g.id # me.id}
    /\ UNCHANGED <<now, policy, active, used, signed, ended, scoped>>

\* As ReadHeld, looking the replaced grant up by the id of the new one.
ReadHeldById(c) ==
    LET me == call[c] IN
    /\ me.pc = "held"
    /\ call' = [call EXCEPT ![c].pc = "put", ![c].old = IdsOf(WithId(active, me.id))]
    /\ UNCHANGED <<now, policy, pending, active, used, signed, ended, scoped>>

\* ForSubject(active): the grants of the same kit the new one replaces.
ReadHeld(c) ==
    LET me == call[c] IN
    /\ me.pc = "held"
    /\ call' = [call EXCEPT ![c].pc = "put",
                   ![c].old = {g.id : g \in {h \in ForSubject(active, me.grant.subject) :
                                                h.kit = me.grant.kit /\ h.id # me.id}}]
    /\ UNCHANGED <<now, policy, pending, active, used, signed, ended, scoped>>

\* Put(active).
Put(c) ==
    LET me == call[c] IN
    /\ me.pc = "put"
    /\ active' = {g \in Live(active) : g.id # me.id} \cup {me.grant}
    /\ call' = [call EXCEPT ![c].pc = "replace"]
    /\ UNCHANGED <<now, policy, pending, used, signed, ended, scoped>>

\* Take(active) of one grant the new one replaces; an error is only logged.
RemoveOld(c, id) ==
    /\ call[c].pc = "replace"
    /\ id \in call[c].old
    /\ \/ active' = {g \in Live(active) : g.id # id}
       \/ StoreMayFail /\ UNCHANGED active
    /\ call' = [call EXCEPT ![c].old = @ \ {id}]
    /\ UNCHANGED <<now, policy, pending, used, signed, ended, scoped>>

Answer(c) ==
    /\ call[c].pc = "replace"
    /\ call[c].old = {}
    /\ call' = [call EXCEPT ![c] = IdleCall]
    /\ UNCHANGED <<now, policy, pending, active, used, signed, ended, scoped>>

\* A command of the store fails: approve returns the error where it is.  The
\* command may have taken effect all the same, its answer lost.
StoreFails(c) ==
    LET me == call[c] IN
    /\ StoreMayFail
    /\ me.pc \in {"approve", "take", "held", "put"}
    /\ \/ UNCHANGED <<pending, active>>
       \/ /\ me.pc = "take"
          /\ pending' = {g \in Live(pending) : g.id # me.id}
          /\ UNCHANGED active
       \/ /\ me.pc = "put"
          /\ active' = {g \in Live(active) : g.id # me.id} \cup {me.grant}
          /\ UNCHANGED pending
    /\ call' = [call EXCEPT ![c] = IdleCall]
    /\ UNCHANGED <<now, policy, used, signed, ended, scoped>>

\* Service.Deny and Service.Revoke: Take, and success only for who got it.  A
\* command that failed after taking effect is answered as an error.
Deny(id) ==
    /\ WithId(pending, id) # {}
    /\ pending' = {g \in Live(pending) : g.id # id}
    /\ \/ ended' = ended \cup {id}
       \/ StoreMayFail /\ UNCHANGED ended
    /\ UNCHANGED <<now, policy, active, used, call, signed, scoped>>

Revoke(id) ==
    /\ WithId(active, id) # {}
    /\ active' = {g \in Live(active) : g.id # id}
    /\ \/ ended' = ended \cup {id}
       \/ StoreMayFail /\ UNCHANGED ended
    /\ UNCHANGED <<now, policy, pending, used, call, signed, scoped>>

\* The process restarts: calls in flight are gone, and so is a memory store.
Restart ==
    /\ call # [c \in Calls |-> IdleCall] \/ (~Persistent /\ pending \cup active # {})
    /\ call' = [c \in Calls |-> IdleCall]
    /\ pending' = IF Persistent THEN pending ELSE {}
    /\ active' = IF Persistent THEN active ELSE {}
    /\ UNCHANGED <<now, policy, used, signed, ended, scoped>>

CallStep(c) ==
    \/ Resolve(c) \/ ResolveFails(c) \/ Take(c) \/ ReadHeld(c) \/ Put(c)
    \/ \E id \in Ids : RemoveOld(c, id)
    \/ Answer(c) \/ StoreFails(c)

Next ==
    \/ Tick
    \/ \E p \in Policies : ReloadKits(p) \/ ReloadApprovers(p)
    \/ \E s \in Subjects, k \in KitNames, d \in AskedTTLs, id \in Ids : Request(s, k, d, id)
    \/ \E a \in Approvers, id \in Ids, ch \in Choices : SignStatement(a, id, ch)
    \/ \E c \in Calls, a \in Approvers, id \in Ids, ch \in Choices :
          StartWithKey(c, a, id, ch) \/ StartSigned(c, a, id, ch)
    \/ \E c \in Calls : CallStep(c)
    \/ \E id \in Ids : Deny(id) \/ Revoke(id)
    \/ Restart

Spec == Init /\ [][Next]_vars

-----------------------------------------------------------------------------
(* Properties.                                                             *)

\* An approval that took its request and has not stored the grant yet is the
\* only place the request lives in.
Owns(c) == call[c].pc \in {"held", "put"}

\* A call past Resolve carries the grant it builds for its request.
CallOK ==
    \A c \in Calls :
        call[c].pc \in {"take", "held", "put", "replace"} =>
            call[c].grant \in Grant /\ call[c].grant.id = call[c].id

\* Each id drawn lives in one place only: pending, active, with one approval
\* call that took it, or ended.
OnePlace ==
    /\ ended \subseteq used
    /\ \A g \in pending \cup active : g.id \in used
    /\ \A g \in pending, h \in active : g.id # h.id
    /\ \A c \in Calls : Owns(c) =>
          /\ call[c].id \in used \ ended
          /\ \A g \in pending \cup active : g.id # call[c].id
    /\ \A c, d \in Calls : Owns(c) /\ Owns(d) /\ c # d => call[c].id # call[d].id

\* What an active grant allows now (activeFor, HeldKits, IsWhole): nothing
\* when its kit is no longer defined, the kit for a grant without a part or
\* whose part names every entry, else the entries of the part still listed.
Allowed(g) ==
    LET k == policy.kits[g.kit]
    IN  IF k = None THEN {}
        ELSE IF g.part = {} \/ IsWhole(k, g.part) THEN k.entries
        ELSE g.part \cap k.entries

\* A request an approver denied and a grant an approver revoked, with the
\* answer that it succeeded, is over: whatever approvals of it are in flight,
\* it is never pending or active again (Store.Take gives it to one call).
EndedStaysEnded == \A g \in pending \cup active : g.id \notin ended

\* The inductive invariant behind EndedStaysEnded: approvals in flight never
\* share a request with the store, with each other or with an ended one.
GrantsInv == TypeOK /\ CallOK /\ OnePlace /\ EndedStaysEnded

\* A grant approved by signature covers, at every time and under every later
\* definition of its kit, no more than a statement this approver signed for
\* this request lists, and lasts no longer (ApproveSigned).
SignedGrantMatchesStatement ==
    \A g \in Live(active) :
        g.how = "signature" =>
            \E st \in signed : /\ st.id = g.id
                              /\ st.approver = g.approver
                              /\ Allowed(g) \subseteq st.entries
                              /\ g.ttl <= st.ttl

\* Of concurrent requests no more than MaxPending of a caller and one per kit
\* get in (Store.AddPending).
PendingBounded ==
    \A s \in Subjects :
        /\ Cardinality(ForSubject(pending, s)) <= MaxPending
        /\ \A g, h \in ForSubject(pending, s) : g.kit = h.kit => g = h

\* A grant was approved by an approver who was allowed to approve its kit
\* under some policy that was in effect (Approver.Kits: the only kits the
\* approver may approve).
ScopeRespected == \A g \in active : <<g.approver, g.kit>> \in scoped

\* What gets into the stores is what the policy admits, however requests and
\* approvals overlap with each other and with reloads (AddPending, checkScope).
AdmissionKept == PendingBounded /\ ScopeRespected

\* A grant of the same kit the caller holds already is replaced: between
\* approvals a caller holds at most one grant of a kit (ApproveWith).
OneGrantPerKit ==
    (\A c \in Calls : call[c].pc # "replace") =>
        \A g, h \in Live(active) : g.subject = h.subject /\ g.kit = h.kit => g = h
=============================================================================
