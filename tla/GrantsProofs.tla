---------------------------- MODULE GrantsProofs ----------------------------
(***************************************************************************)
(* Type correctness of Grants, and that a denied request or a revoked      *)
(* grant never comes back, for every set of callers, kits, approvers, ids  *)
(* and concurrent approval calls, and whether or not the store may fail;   *)
(* that requests are admitted and grants approved as the policy says, that *)
(* a signed grant gives what was signed, and that a grant replaces another.*)
(***************************************************************************)
EXTENDS Grants, FiniteSetTheorems, TLAPS

\* The duration kitTTL grants is a natural number.
LEMMA KitTTLType ==
    ASSUME NEW k \in KitDef, NEW d \in Nat
    PROVE  kitTTL(k, d).ttl \in Nat
  BY GrantsAssumption DEF kitTTL, kitMaxTTL, SmallerOf, KitDef

\* So is the duration an approval resolves to.
LEMMA ResolveTTLType ==
    ASSUME NEW k \in KitDef, NEW req \in Grant, NEW a \in Choice
    PROVE  resolveTTL(k, req, a) \in Nat
  BY KitTTLType DEF resolveTTL, Grant, Choice

\* A kit that is defined has a definition of the right shape.
LEMMA KitDefined ==
    ASSUME NEW k \in KitNames, TypeOK, policy.kits[k] # None
    PROVE  policy.kits[k] \in KitDef
  BY GrantsAssumption DEF TypeOK, Policy

\* The idle state of a call is a call state.
LEMMA IdleType == IdleCall \in CallState /\ IdleCall.pc = "idle"
  BY DEF IdleCall, CallState, Choice

\* The invariant holds at the start.
LEMMA InitInv == Init => GrantsInv
  <1> SUFFICES ASSUME Init PROVE GrantsInv
    OBVIOUS
  <1>1. TypeOK
    BY IdleType, GrantsAssumption DEF Init, TypeOK, ScopesOf
  <1>2. CallOK /\ OnePlace /\ EndedStaysEnded
    BY IdleType DEF Init, CallOK, OnePlace, EndedStaysEnded, Owns
  <1> QED  BY <1>1, <1>2 DEF GrantsInv

\* A step that leaves calls, ids and the sets of requests and grants alone.
LEMMA QuietInv ==
    ASSUME GrantsInv, UNCHANGED <<pending, active, used, call, ended>>, TypeOK'
    PROVE  GrantsInv'
  BY DEF GrantsInv, CallOK, OnePlace, EndedStaysEnded, Owns

\* A step of call c that owns nothing new and leaves the store as it is or
\* removes from it.
LEMMA CallStepInv ==
    ASSUME GrantsInv, NEW c \in Calls, TypeOK', UNCHANGED <<used, ended>>,
           pending' \subseteq pending, active' \subseteq active,
           \A d \in Calls : d # c => call'[d] = call[d],
           call'[c].pc \in {"take", "held", "put", "replace"} =>
              call'[c].grant \in Grant /\ call'[c].grant.id = call'[c].id,
           Owns(c)' => Owns(c) /\ call'[c].id = call[c].id
    PROVE  GrantsInv'
  <1>1. CallOK'
    BY DEF GrantsInv, CallOK
  <1>2. \A d \in Calls : Owns(d)' => Owns(d) /\ call'[d].id = call[d].id
    BY DEF Owns
  <1>3. OnePlace' /\ EndedStaysEnded'
    BY <1>2 DEF GrantsInv, OnePlace, EndedStaysEnded
  <1> QED  BY <1>1, <1>3 DEF GrantsInv

\* A step that changes no call and at most removes from the store, and ends
\* ids that lived there.
LEMMA EndInv ==
    ASSUME GrantsInv, NEW id \in Ids, TypeOK', UNCHANGED <<used, call>>,
           \E g \in pending \cup active : g.id = id,
           pending' \subseteq pending, active' \subseteq active,
           \A g \in pending' \cup active' : g.id # id,
           ended' = ended \cup {id} \/ ended' = ended
    PROVE  GrantsInv'
  <1>1. CallOK'
    BY DEF GrantsInv, CallOK
  <1>2. id \in used /\ \A c \in Calls : Owns(c) => call[c].id # id
    BY DEF GrantsInv, OnePlace
  <1>3. EndedStaysEnded'
    BY DEF GrantsInv, EndedStaysEnded
  <1>4. OnePlace'
    BY <1>2 DEF GrantsInv, OnePlace, Owns
  <1> QED  BY <1>1, <1>3, <1>4 DEF GrantsInv

\* Writing call c keeps the type of call.
LEMMA CallUpdate ==
    ASSUME TypeOK, NEW c \in Calls, NEW s \in CallState,
           call' = [call EXCEPT ![c] = s]
    PROVE  /\ call' \in [Calls -> CallState]
           /\ call'[c] = s
           /\ \A d \in Calls : d # c => call'[d] = call[d]
  BY DEF TypeOK

\* A call returns: it becomes idle.
LEMMA IdleStep ==
    ASSUME GrantsInv, NEW c \in Calls, call' = [call EXCEPT ![c] = IdleCall],
           UNCHANGED <<now, policy, used, signed, ended, scoped>>,
           pending' \subseteq pending, active' \subseteq active
    PROVE  GrantsInv'
  <1>1. /\ call' \in [Calls -> CallState]
        /\ call'[c] = IdleCall
        /\ \A d \in Calls : d # c => call'[d] = call[d]
    BY CallUpdate, IdleType DEF GrantsInv
  <1>2. TypeOK'
    BY <1>1 DEF GrantsInv, TypeOK
  <1>3. ~Owns(c)'
    BY <1>1, IdleType DEF Owns
  <1> QED  BY <1>1, <1>2, <1>3, IdleType, CallStepInv

LEMMA TickInv == ASSUME GrantsInv, Tick PROVE GrantsInv'
  <1>1. TypeOK'
    BY DEF GrantsInv, TypeOK, Tick
  <1> QED  BY <1>1, QuietInv DEF Tick

LEMMA ReloadKitsInv ==
    ASSUME GrantsInv, NEW p \in Policies, ReloadKits(p) PROVE GrantsInv'
  <1>1. [policy EXCEPT !.kits = p.kits] \in Policy
    BY GrantsAssumption DEF GrantsInv, TypeOK, Policy
  <1>2. TypeOK'
    BY <1>1 DEF GrantsInv, TypeOK, ReloadKits
  <1> QED  BY <1>2, QuietInv DEF ReloadKits

LEMMA ReloadApproversInv ==
    ASSUME GrantsInv, NEW p \in Policies, ReloadApprovers(p) PROVE GrantsInv'
  <1>1. TypeOK'
    BY GrantsAssumption DEF GrantsInv, TypeOK, ReloadApprovers, ScopesOf
  <1> QED  BY <1>1, QuietInv DEF ReloadApprovers

\* A new request gets an id nobody has.
LEMMA RequestInv ==
    ASSUME GrantsInv, NEW s \in Subjects, NEW k \in KitNames, NEW d \in AskedTTLs,
           NEW id \in Ids, Request(s, k, d, id)
    PROVE  GrantsInv'
  <1> DEFINE g == [id |-> id, subject |-> s, kit |-> k,
                   ttl |-> kitTTL(policy.kits[k], d).ttl, part |-> {},
                   approver |-> None, how |-> "none", expires |-> now + RequestTTL]
  <1>1. /\ pending' \subseteq pending \cup {g}
        /\ id \notin used /\ used' = used \cup {id}
        /\ UNCHANGED <<now, policy, active, call, signed, ended, scoped>>
    BY DEF Request, AddPending, Live
  <1>2. kitTTL(policy.kits[k], d).ttl \in Nat
    BY KitDefined, KitTTLType, GrantsAssumption DEF GrantsInv, Request
  <1>3. g \in Grant
    BY <1>2, GrantsAssumption DEF Grant, GrantsInv, TypeOK
  <1>4. g.id = id
    OBVIOUS
  <1> HIDE DEF g
  <1>5. TypeOK'
    BY <1>1, <1>3 DEF GrantsInv, TypeOK
  <1>6. CallOK'
    BY <1>1 DEF GrantsInv, CallOK
  <1>7. OnePlace'
    BY <1>1, <1>4 DEF GrantsInv, OnePlace, Owns
  <1>8. EndedStaysEnded'
    BY <1>1, <1>4 DEF GrantsInv, OnePlace, EndedStaysEnded
  <1> QED  BY <1>5, <1>6, <1>7, <1>8 DEF GrantsInv

LEMMA SignInv ==
    ASSUME GrantsInv, NEW a \in Approvers, NEW id \in Ids, NEW ch \in Choices,
           SignStatement(a, id, ch)
    PROVE  GrantsInv'
  <1>1. PICK req \in WithId(pending, id) :
            /\ StatementOK(policy, a, req, ch)
            /\ signed' = signed \cup {StatementFor(policy, a, req, ch)}
            /\ UNCHANGED <<now, policy, pending, active, used, call, ended, scoped>>
    BY DEF SignStatement
  <1>2. req \in Grant /\ req.kit \in KitNames /\ req.id \in Ids
    BY DEF GrantsInv, TypeOK, WithId, Live, Grant
  <1>3. policy.kits[req.kit] \in KitDef
    BY <1>1, <1>2, KitDefined DEF GrantsInv, StatementOK
  <1>4. ch \in Choice
    BY GrantsAssumption DEF Choice
  <1>5. resolveTTL(policy.kits[req.kit], req, ch) \in Nat
    BY <1>2, <1>3, <1>4, ResolveTTLType
  <1>6. StatementFor(policy, a, req, ch) \in Statement
    BY <1>2, <1>3, <1>4, <1>5 DEF StatementFor, Statement, KitDef, Choice
  <1>7. TypeOK'
    BY <1>1, <1>6 DEF GrantsInv, TypeOK
  <1> QED  BY <1>1, <1>7, QuietInv

\* A call that starts owns nothing yet.
LEMMA StartInv ==
    ASSUME GrantsInv, NEW c \in Calls, NEW a \in Approvers, NEW id \in Ids,
           NEW ch \in Choice, NEW how \in {"key", "signature"},
           call' = [call EXCEPT ![c] = [IdleCall EXCEPT !.pc = "approve", !.how = how,
                                           !.approver = a, !.id = id, !.choice = ch]],
           UNCHANGED <<now, policy, pending, active, used, signed, ended, scoped>>
    PROVE  GrantsInv'
  <1> DEFINE s == [IdleCall EXCEPT !.pc = "approve", !.how = how,
                           !.approver = a, !.id = id, !.choice = ch]
  <1>1. s \in CallState /\ s.pc = "approve"
    BY DEF IdleCall, CallState, Choice
  <1>2. call' = [call EXCEPT ![c] = s]
    OBVIOUS
  <1> HIDE DEF s
  <1>3. /\ call' \in [Calls -> CallState]
        /\ call'[c] = s
        /\ \A d \in Calls : d # c => call'[d] = call[d]
    BY <1>1, <1>2, CallUpdate DEF GrantsInv
  <1>4. TypeOK'
    BY <1>3 DEF GrantsInv, TypeOK
  <1>5. ~Owns(c)'
    BY <1>1, <1>3 DEF Owns
  <1> QED  BY <1>1, <1>3, <1>4, <1>5, CallStepInv

LEMMA StartWithKeyInv ==
    ASSUME GrantsInv, NEW c \in Calls, NEW a \in Approvers, NEW id \in Ids,
           NEW ch \in Choices, StartWithKey(c, a, id, ch)
    PROVE  GrantsInv'
  <1>1. ch \in Choice
    BY GrantsAssumption DEF Choice
  <1> QED  BY <1>1, StartInv DEF StartWithKey

LEMMA StartSignedInv ==
    ASSUME GrantsInv, NEW c \in Calls, NEW a \in Approvers, NEW id \in Ids,
           NEW ch \in Choices, StartSigned(c, a, id, ch)
    PROVE  GrantsInv'
  <1>1. PICK st \in signed :
            /\ call' = [call EXCEPT ![c] = [IdleCall EXCEPT !.pc = "approve",
                              !.how = "signature", !.approver = a, !.id = id,
                              !.choice = [ttl |-> st.ttl, entries |-> st.entries]]]
            /\ UNCHANGED <<now, policy, pending, active, used, signed, ended, scoped>>
    BY DEF StartSigned
  <1>2. [ttl |-> st.ttl, entries |-> st.entries] \in Choice
    BY DEF GrantsInv, TypeOK, Statement, Choice
  <1> QED  BY <1>1, <1>2, StartInv

\* Resolve builds a grant for the request it read.
LEMMA ResolveInv ==
    ASSUME GrantsInv, NEW c \in Calls, Resolve(c) PROVE GrantsInv'
  <1> DEFINE k(req) == policy.kits[req.kit]
             g(req, part) == [req EXCEPT !.ttl = resolveTTL(k(req), req, call[c].choice),
                                 !.part = part, !.approver = call[c].approver,
                                 !.how = call[c].how]
  <1>1. PICK req \in WithId(pending, call[c].id), part \in {{}, call[c].choice.entries} :
            /\ k(req) # None
            /\ call' = [call EXCEPT ![c].pc = "take", ![c].grant = g(req, part)]
    BY DEF Resolve
  <1>2. /\ call[c] \in CallState /\ call[c].choice \in Choice
        /\ req \in Grant /\ req.id = call[c].id /\ req.kit \in KitNames
    BY DEF GrantsInv, TypeOK, WithId, Live, CallState, Grant
  <1>3. resolveTTL(k(req), req, call[c].choice) \in Nat
    BY <1>1, <1>2, KitDefined, ResolveTTLType DEF GrantsInv
  <1>4. part \in SUBSET Entries
    BY <1>1, <1>2 DEF Choice
  <1>5. g(req, part) \in Grant /\ g(req, part).id = call[c].id
    BY <1>2, <1>3, <1>4 DEF Grant, CallState
  <1> DEFINE s == [call[c] EXCEPT !.pc = "take", !.grant = g(req, part)]
  <1>6. s \in CallState /\ s.pc = "take" /\ s.grant \in Grant /\ s.grant.id = s.id
    <2> HIDE DEF g
    <2> QED  BY <1>2, <1>5 DEF CallState
  <1>7. call' = [call EXCEPT ![c] = s]
    BY <1>1 DEF GrantsInv, TypeOK
  <1> HIDE DEF s
  <1>8. /\ call' \in [Calls -> CallState]
        /\ call'[c] = s
        /\ \A d \in Calls : d # c => call'[d] = call[d]
    BY <1>6, <1>7, CallUpdate DEF GrantsInv
  <1>9. UNCHANGED <<now, policy, pending, active, used, signed, ended, scoped>>
    BY DEF Resolve
  <1>10. TypeOK'
    BY <1>8, <1>9 DEF GrantsInv, TypeOK
  <1>11. ~Owns(c)'
    BY <1>6, <1>8 DEF Owns
  <1> QED  BY <1>6, <1>8, <1>9, <1>10, <1>11, CallStepInv

LEMMA ResolveFailsInv ==
    ASSUME GrantsInv, NEW c \in Calls, ResolveFails(c) PROVE GrantsInv'
  BY IdleStep DEF ResolveFails

\* Take gives the request to c: it was pending, so no other call has it and
\* it has not ended; after the step it is not in the store.
LEMMA TakeInv ==
    ASSUME GrantsInv, NEW c \in Calls, Take(c) PROVE GrantsInv'
  <1>1. /\ call[c].pc = "take" /\ pending' \subseteq pending
        /\ \A g \in pending' : g.id # call[c].id
        /\ UNCHANGED <<now, policy, active, used, signed, ended, scoped>>
    BY DEF Take, Live
  <1>2. CASE WithId(pending, call[c].id) = {}
    BY <1>1, <1>2, IdleStep DEF Take
  <1>3. CASE WithId(pending, call[c].id) # {}
    <2> DEFINE s == [call[c] EXCEPT !.pc = "held",
                                    !.grant.expires = now + call[c].grant.ttl]
    <2>1. call[c] \in CallState /\ call[c].grant \in Grant /\ call[c].grant.id = call[c].id
      BY <1>1 DEF GrantsInv, TypeOK, CallOK
    <2>2. /\ s \in CallState /\ s.pc = "held" /\ s.id = call[c].id
          /\ s.grant \in Grant /\ s.grant.id = s.id
      <3> DEFINE g == [call[c].grant EXCEPT !.expires = now + call[c].grant.ttl]
      <3>1. g \in Grant /\ g.id = call[c].id
        BY <2>1 DEF GrantsInv, TypeOK, Grant
      <3>2. s = [call[c] EXCEPT !.pc = "held", !.grant = g]
        BY <2>1 DEF CallState
      <3> HIDE DEF g, s
      <3> QED  BY <2>1, <3>1, <3>2 DEF CallState
    <2>3. call' = [call EXCEPT ![c] = s]
      BY <1>3 DEF Take, GrantsInv, TypeOK
    <2> HIDE DEF s
    <2>4. /\ call' \in [Calls -> CallState]
          /\ call'[c] = s
          /\ \A d \in Calls : d # c => call'[d] = call[d]
      BY <2>2, <2>3, CallUpdate DEF GrantsInv
    <2>5. TypeOK'
      BY <1>1, <2>4 DEF GrantsInv, TypeOK
    <2>6. CallOK'
      BY <2>2, <2>4 DEF GrantsInv, CallOK
    <2>7. PICK req \in pending : req.id = call[c].id
      BY <1>3 DEF WithId, Live
    <2>8. /\ \A d \in Calls : d # c => (Owns(d)' <=> Owns(d)) /\ call'[d].id = call[d].id
          /\ call'[c].id = req.id
      BY <2>2, <2>4, <2>7 DEF Owns
    <2>9. /\ req.id \in used /\ req.id \notin ended
          /\ \A g \in pending' \cup active' : g.id # req.id
          /\ \A d \in Calls : Owns(d) => call[d].id # req.id
      BY <1>1, <2>7 DEF GrantsInv, OnePlace, EndedStaysEnded
    <2>10. OnePlace'
      BY <1>1, <2>8, <2>9 DEF GrantsInv, OnePlace
    <2>11. EndedStaysEnded'
      BY <1>1 DEF GrantsInv, EndedStaysEnded
    <2> QED  BY <2>5, <2>6, <2>10, <2>11 DEF GrantsInv
  <1> QED  BY <1>2, <1>3

\* A step of c past Resolve that changes only where c is and what it found.
LEMMA MoveInv ==
    ASSUME GrantsInv, NEW c \in Calls, NEW old \in SUBSET Ids,
           NEW pc \in {"put", "replace"},
           call[c].pc \in {"held", "put", "replace"},
           pc = "put" => Owns(c),
           call' = [call EXCEPT ![c] = [call[c] EXCEPT !.pc = pc, !.old = old]],
           UNCHANGED <<now, policy, used, signed, ended, scoped>>,
           pending' \subseteq pending, active' \subseteq active
    PROVE  GrantsInv'
  <1> DEFINE s == [call[c] EXCEPT !.pc = pc, !.old = old]
  <1>1. call[c] \in CallState /\ call[c].grant \in Grant /\ call[c].grant.id = call[c].id
    BY DEF GrantsInv, TypeOK, CallOK
  <1>2. /\ s \in CallState /\ s.pc = pc /\ s.id = call[c].id
        /\ s.grant \in Grant /\ s.grant.id = s.id
    BY <1>1 DEF CallState
  <1>3. call' = [call EXCEPT ![c] = s]
    OBVIOUS
  <1> HIDE DEF s
  <1>4. /\ call' \in [Calls -> CallState]
        /\ call'[c] = s
        /\ \A d \in Calls : d # c => call'[d] = call[d]
    BY <1>2, <1>3, CallUpdate DEF GrantsInv
  <1>5. TypeOK'
    BY <1>4 DEF GrantsInv, TypeOK
  <1>6. Owns(c)' => Owns(c) /\ call'[c].id = call[c].id
    BY <1>2, <1>4 DEF Owns
  <1> QED  BY <1>2, <1>4, <1>5, <1>6, CallStepInv

LEMMA ReadHeldInv ==
    ASSUME GrantsInv, NEW c \in Calls, ReadHeld(c) PROVE GrantsInv'
  <1> DEFINE old == {g.id : g \in {h \in ForSubject(active, call[c].grant.subject) :
                                      h.kit = call[c].grant.kit /\ h.id # call[c].id}}
  <1>1. old \in SUBSET Ids
    BY DEF ForSubject, Live, GrantsInv, TypeOK, Grant
  <1>2. call' = [call EXCEPT ![c] = [call[c] EXCEPT !.pc = "put", !.old = old]]
    BY DEF ReadHeld, GrantsInv, TypeOK
  <1>3. call[c].pc = "held" /\ Owns(c)
    BY DEF ReadHeld, Owns
  <1> HIDE DEF old
  <1> QED  BY <1>1, <1>2, <1>3, MoveInv DEF ReadHeld

\* The grant of call c enters the store, and c lets go of it.
LEMMA StoredInv ==
    ASSUME GrantsInv, NEW c \in Calls, NEW s \in CallState, call[c].pc = "put",
           s = IdleCall \/ s = [call[c] EXCEPT !.pc = "replace"],
           call' = [call EXCEPT ![c] = s],
           active' = {g \in Live(active) : g.id # call[c].id} \cup {call[c].grant},
           UNCHANGED <<now, policy, pending, used, signed, ended, scoped>>
    PROVE  GrantsInv'
  <1>1. /\ call[c] \in CallState /\ call[c].grant \in Grant
        /\ call[c].grant.id = call[c].id /\ Owns(c)
    BY DEF GrantsInv, TypeOK, CallOK, Owns
  <1>2. /\ call' \in [Calls -> CallState]
        /\ call'[c] = s
        /\ \A d \in Calls : d # c => call'[d] = call[d]
    BY CallUpdate DEF GrantsInv
  <1>3. /\ s.pc \in {"idle", "replace"}
        /\ s.pc = "replace" => s.grant = call[c].grant /\ s.id = call[c].id
    BY <1>1, IdleType DEF CallState
  <1>4. active' \subseteq active \cup {call[c].grant}
    BY DEF Live
  <1>5. TypeOK'
    BY <1>1, <1>2, <1>4 DEF GrantsInv, TypeOK
  <1>6. CallOK'
    BY <1>1, <1>2, <1>3 DEF GrantsInv, CallOK
  <1>7. \A d \in Calls : Owns(d)' => d # c /\ Owns(d) /\ call'[d].id = call[d].id
    BY <1>2, <1>3 DEF Owns
  <1>8. /\ call[c].id \in used /\ call[c].id \notin ended
        /\ \A g \in pending : g.id # call[c].id
        /\ \A d \in Calls : d # c /\ Owns(d) => call[d].id # call[c].id
    BY <1>1 DEF GrantsInv, OnePlace
  <1>9. OnePlace'
    BY <1>1, <1>4, <1>7, <1>8 DEF GrantsInv, OnePlace
  <1>10. EndedStaysEnded'
    BY <1>1, <1>4, <1>8 DEF GrantsInv, EndedStaysEnded
  <1> QED  BY <1>5, <1>6, <1>9, <1>10 DEF GrantsInv

LEMMA PutInv == ASSUME GrantsInv, NEW c \in Calls, Put(c) PROVE GrantsInv'
  <1>1. [call[c] EXCEPT !.pc = "replace"] \in CallState
    BY DEF GrantsInv, TypeOK, CallState
  <1>2. call' = [call EXCEPT ![c] = [call[c] EXCEPT !.pc = "replace"]]
    BY DEF Put, GrantsInv, TypeOK
  <1> QED  BY <1>1, <1>2, StoredInv DEF Put

LEMMA RemoveOldInv ==
    ASSUME GrantsInv, NEW c \in Calls, NEW id \in Ids, RemoveOld(c, id)
    PROVE  GrantsInv'
  <1>1. call' = [call EXCEPT ![c] = [call[c] EXCEPT !.pc = "replace", !.old = call[c].old \ {id}]]
    BY DEF RemoveOld, GrantsInv, TypeOK, CallState
  <1>2. call[c].old \ {id} \in SUBSET Ids
    BY DEF GrantsInv, TypeOK, CallState
  <1>3. active' \subseteq active /\ pending' \subseteq pending
    BY DEF RemoveOld, Live
  <1> QED  BY <1>1, <1>2, <1>3, MoveInv DEF RemoveOld

LEMMA AnswerInv == ASSUME GrantsInv, NEW c \in Calls, Answer(c) PROVE GrantsInv'
  BY IdleStep DEF Answer

\* A store that failed left things as they were, or did what it was told.
LEMMA StoreFailsInv ==
    ASSUME GrantsInv, NEW c \in Calls, StoreFails(c) PROVE GrantsInv'
  <1>1. CASE pending' \subseteq pending /\ active' \subseteq active
    BY <1>1, IdleStep DEF StoreFails
  <1>2. CASE call[c].pc = "put" /\ UNCHANGED pending
             /\ active' = {g \in Live(active) : g.id # call[c].id} \cup {call[c].grant}
    BY <1>2, IdleType, StoredInv DEF StoreFails
  <1> QED  BY <1>1, <1>2 DEF StoreFails, Live

LEMMA DenyInv == ASSUME GrantsInv, NEW id \in Ids, Deny(id) PROVE GrantsInv'
  <1>1. TypeOK'
    BY DEF GrantsInv, TypeOK, Deny, Live
  <1>2. \E g \in pending : g.id = id
    BY DEF Deny, WithId, Live
  <1>3. /\ pending' \subseteq pending /\ active' = active /\ UNCHANGED <<used, call>>
        /\ \A g \in pending' \cup active' : g.id # id
        /\ ended' = ended \cup {id} \/ ended' = ended
    BY <1>2 DEF Deny, Live, GrantsInv, OnePlace
  <1> QED  BY <1>1, <1>2, <1>3, EndInv

LEMMA RevokeInv == ASSUME GrantsInv, NEW id \in Ids, Revoke(id) PROVE GrantsInv'
  <1>1. TypeOK'
    BY DEF GrantsInv, TypeOK, Revoke, Live
  <1>2. \E g \in active : g.id = id
    BY DEF Revoke, WithId, Live
  <1>3. /\ active' \subseteq active /\ pending' = pending /\ UNCHANGED <<used, call>>
        /\ \A g \in pending' \cup active' : g.id # id
        /\ ended' = ended \cup {id} \/ ended' = ended
    BY <1>2 DEF Revoke, Live, GrantsInv, OnePlace
  <1> QED  BY <1>1, <1>2, <1>3, EndInv

LEMMA RestartInv == ASSUME GrantsInv, Restart PROVE GrantsInv'
  <1>1. /\ \A c \in Calls : call'[c] = IdleCall
        /\ pending' \subseteq pending /\ active' \subseteq active
        /\ UNCHANGED <<now, policy, used, signed, ended, scoped>>
        /\ call' \in [Calls -> CallState]
    BY IdleType DEF Restart
  <1>2. \A c \in Calls : ~Owns(c)'
    BY <1>1, IdleType DEF Owns
  <1>3. TypeOK'
    BY <1>1 DEF GrantsInv, TypeOK
  <1>4. CallOK'
    BY <1>1, IdleType DEF CallOK
  <1>5. OnePlace' /\ EndedStaysEnded'
    BY <1>1, <1>2 DEF GrantsInv, OnePlace, EndedStaysEnded
  <1> QED  BY <1>3, <1>4, <1>5 DEF GrantsInv

\* Every step preserves the invariant.
LEMMA NextInv == GrantsInv /\ [Next]_vars => GrantsInv'
  <1> SUFFICES ASSUME GrantsInv, [Next]_vars PROVE GrantsInv'
    OBVIOUS
  <1>1. CASE UNCHANGED vars
    <2>1. TypeOK'
      BY <1>1 DEF vars, GrantsInv, TypeOK
    <2> QED  BY <1>1, <2>1, QuietInv DEF vars
  <1>2. CASE Tick
    BY <1>2, TickInv
  <1>3. CASE \E p \in Policies : ReloadKits(p) \/ ReloadApprovers(p)
    BY <1>3, ReloadKitsInv, ReloadApproversInv
  <1>4. CASE \E s \in Subjects, k \in KitNames, d \in AskedTTLs, id \in Ids : Request(s, k, d, id)
    BY <1>4, RequestInv
  <1>5. CASE \E a \in Approvers, id \in Ids, ch \in Choices : SignStatement(a, id, ch)
    BY <1>5, SignInv
  <1>6. CASE \E c \in Calls, a \in Approvers, id \in Ids, ch \in Choices :
                StartWithKey(c, a, id, ch) \/ StartSigned(c, a, id, ch)
    BY <1>6, StartWithKeyInv, StartSignedInv
  <1>7. CASE \E c \in Calls : CallStep(c)
    BY <1>7, ResolveInv, ResolveFailsInv, TakeInv, ReadHeldInv, PutInv, RemoveOldInv,
       AnswerInv, StoreFailsInv DEF CallStep
  <1>8. CASE \E id \in Ids : Deny(id) \/ Revoke(id)
    BY <1>8, DenyInv, RevokeInv
  <1>9. CASE Restart
    BY <1>9, RestartInv
  <1> QED  BY <1>1, <1>2, <1>3, <1>4, <1>5, <1>6, <1>7, <1>8, <1>9 DEF Next

\* The requests, grants, approvals in flight and statements of every
\* behaviour are of their types, and each request lives in one place only:
\* pending, active, with the one approval that took it, or ended.
THEOREM GrantsCorrect == Spec => []GrantsInv
  BY InitInv, NextInv, PTL DEF Spec

\* Type correctness of the store, the policy and the approvals in flight.
THEOREM TypeCorrect == Spec => []TypeOK
  <1>1. GrantsInv => TypeOK
    BY DEF GrantsInv
  <1> QED  BY <1>1, GrantsCorrect, PTL

\* A request whose denial, or a grant whose revocation, was answered with
\* success is never pending or active again, however many approvals of it
\* are in flight and whatever the store answers them (Service.end, approve).
THEOREM NoResurrection == Spec => []EndedStaysEnded
  <1>1. GrantsInv => EndedStaysEnded
    BY DEF GrantsInv
  <1> QED  BY <1>1, GrantsCorrect, PTL
-----------------------------------------------------------------------------
(* Admission of requests.                                                  *)

\* There are finitely many requests, so they can be counted, and the limits
\* hold.
PendingInv == IsFiniteSet(pending) /\ PendingBounded

\* Requests go and time passes: nobody has more of them than before.
LEMMA PendingShrinks ==
    ASSUME TypeOK, PendingInv, pending' \subseteq pending, now' \in {now, now + 1}
    PROVE  PendingInv'
<1>1. IsFiniteSet(pending')
  BY FS_Subset DEF PendingInv
<1>2. ASSUME NEW s \in Subjects
      PROVE  /\ Cardinality(ForSubject(pending, s)') <= MaxPending
             /\ \A g, h \in ForSubject(pending, s)' : g.kit = h.kit => g = h
  <2> DEFINE old == ForSubject(pending, s)
             new == {g \in {h \in pending' : now' < h.expires} : g.subject = s}
  <2>1. new \subseteq old /\ old \subseteq pending
    BY DEF ForSubject, Live, TypeOK, Grant
  <2>2. Cardinality(old) <= MaxPending /\ \A g, h \in old : g.kit = h.kit => g = h
    BY DEF PendingInv, PendingBounded
  <2>3. ForSubject(pending, s)' = new
    BY DEF ForSubject, Live
  <2> HIDE DEF old, new
  <2>4. IsFiniteSet(old)
    BY <2>1, FS_Subset DEF PendingInv
  <2>5. Cardinality(new) <= Cardinality(old) /\ Cardinality(new) \in Nat /\ Cardinality(old) \in Nat
    BY <2>1, <2>4, FS_Subset, FS_CardinalityType
  <2> QED  BY <2>1, <2>2, <2>3, <2>5, GrantsAssumption
<1> QED  BY <1>1, <1>2 DEF PendingInv, PendingBounded

\* AddPending counts before it adds.
LEMMA PendingGrows ==
    ASSUME TypeOK, PendingInv, NEW r \in Grant, AddPending(r), now' = now
    PROVE  PendingInv'
<1> DEFINE of(s) == {g \in Live(pending) : g.subject = s}
<1>1. pending' = Live(pending) \cup {r} /\ Live(pending) \subseteq pending
  BY DEF AddPending, Live
<1>2. IsFiniteSet(pending') /\ IsFiniteSet(Live(pending))
  BY <1>1, FS_Subset, FS_AddElement DEF PendingInv
<1>3. ASSUME NEW s \in Subjects
      PROVE  /\ Cardinality(ForSubject(pending, s)') <= MaxPending
             /\ \A g, h \in ForSubject(pending, s)' : g.kit = h.kit => g = h
  <2>0. ForSubject(pending, s) = of(s)
    BY DEF ForSubject
  <2>1. Cardinality(of(s)) <= MaxPending /\ \A g, h \in of(s) : g.kit = h.kit => g = h
    BY <2>0 DEF PendingInv, PendingBounded
  <2>2. IsFiniteSet(of(s)) /\ Cardinality(of(s)) \in Nat
    BY <1>2, FS_Subset, FS_CardinalityType
  <2>3. ForSubject(pending, s)' \subseteq of(s) \cup {r}
    BY <1>1 DEF ForSubject, Live
  <2>4. CASE r.subject # s
    <3>1. ForSubject(pending, s)' \subseteq of(s)
      BY <1>1, <2>4 DEF ForSubject, Live
    <3> HIDE DEF of
    <3>2. Cardinality(ForSubject(pending, s)') <= Cardinality(of(s))
          /\ Cardinality(ForSubject(pending, s)') \in Nat
      BY <2>2, <3>1, FS_Subset, FS_CardinalityType
    <3> QED  BY <2>1, <2>2, <3>1, <3>2, GrantsAssumption
  <2>5. CASE r.subject = s
    <3>1. Cardinality(of(s)) < MaxPending /\ \A g \in of(s) : g.kit # r.kit
      BY <2>0, <2>5 DEF AddPending
    <3> HIDE DEF of
    <3>2. IsFiniteSet(of(s) \cup {r}) /\ Cardinality(of(s) \cup {r}) \in Nat
          /\ Cardinality(of(s) \cup {r}) <= Cardinality(of(s)) + 1
      <4>1. IsFiniteSet(of(s) \cup {r})
            /\ Cardinality(of(s) \cup {r}) = IF r \in of(s) THEN Cardinality(of(s)) ELSE Cardinality(of(s)) + 1
        BY <2>2, FS_AddElement
      <4> QED  BY <2>2, <4>1, FS_CardinalityType
    <3>3. Cardinality(ForSubject(pending, s)') <= Cardinality(of(s) \cup {r})
          /\ Cardinality(ForSubject(pending, s)') \in Nat
      BY <2>3, <3>2, FS_Subset, FS_CardinalityType
    <3> QED  BY <2>1, <2>2, <2>3, <3>1, <3>2, <3>3, GrantsAssumption
  <2> QED  BY <2>4, <2>5
<1> QED  BY <1>2, <1>3 DEF PendingInv, PendingBounded

LEMMA PendingStep == ASSUME TypeOK, PendingInv, [Next]_vars PROVE PendingInv'
<1>1. ASSUME NEW s \in Subjects, NEW k \in KitNames, NEW d \in AskedTTLs, NEW id \in Ids, Request(s, k, d, id)
      PROVE  PendingInv'
  <2> DEFINE g == [id |-> id, subject |-> s, kit |-> k,
                   ttl |-> kitTTL(policy.kits[k], d).ttl, part |-> {},
                   approver |-> None, how |-> "none", expires |-> now + RequestTTL]
  <2>1. AddPending(g) /\ now' = now /\ policy.kits[k] # None
    BY <1>1 DEF Request
  <2>2. kitTTL(policy.kits[k], d).ttl \in Nat
    BY <2>1, KitDefined, KitTTLType, GrantsAssumption
  <2>3. g \in Grant
    BY <2>2, GrantsAssumption DEF Grant, TypeOK
  <2> HIDE DEF g
  <2> QED  BY <2>1, <2>3, PendingGrows
<1>2. ASSUME NEW c \in Calls, CallStep(c)  PROVE PendingInv'
  <2>1. pending' \subseteq pending /\ now' = now
    BY <1>2 DEF CallStep, Resolve, ResolveFails, Take, ReadHeld, Put, RemoveOld, Answer, StoreFails, Live
  <2> QED  BY <2>1, PendingShrinks
<1>3. ASSUME NEW id \in Ids, Deny(id) \/ Revoke(id)  PROVE PendingInv'
  <2>1. pending' \subseteq pending /\ now' = now
    BY <1>3 DEF Deny, Revoke, Live
  <2> QED  BY <2>1, PendingShrinks
<1>4. ASSUME Tick \/ Restart \/ UNCHANGED vars  PROVE PendingInv'
  <2>1. pending' \subseteq pending /\ now' \in {now, now + 1}
    BY <1>4 DEF Tick, Restart, vars
  <2> QED  BY <2>1, PendingShrinks
<1>5. ASSUME NEW p \in Policies, ReloadKits(p) \/ ReloadApprovers(p)  PROVE PendingInv'
  BY <1>5, PendingShrinks DEF ReloadKits, ReloadApprovers
<1>6. ASSUME NEW a \in Approvers, NEW id \in Ids, NEW ch \in Choices, NEW c \in Calls,
             StartWithKey(c, a, id, ch) \/ StartSigned(c, a, id, ch)
      PROVE  PendingInv'
  BY <1>6, PendingShrinks DEF StartWithKey, StartSigned
<1>7. ASSUME NEW a \in Approvers, NEW id \in Ids, NEW ch \in Choices, SignStatement(a, id, ch)
      PROVE  PendingInv'
  BY <1>7, PendingShrinks DEF SignStatement
<1> QED  BY <1>1, <1>2, <1>3, <1>4, <1>5, <1>6, <1>7 DEF Next

LEMMA PendingInit == Init => PendingInv
<1> SUFFICES ASSUME Init  PROVE PendingInv
  OBVIOUS
<1>1. \A s \in Subjects : ForSubject(pending, s) = {}
  BY DEF Init, ForSubject, Live
<1>2. IsFiniteSet({}) /\ Cardinality({}) = 0
  BY FS_EmptySet
<1>3. PendingBounded
  BY <1>1, <1>2, GrantsAssumption DEF PendingBounded
<1> QED  BY <1>2, <1>3 DEF Init, PendingInv

(***************************************************************************)
(* However requests overlap, expire and are approved or denied, a caller   *)
(* has no more than MaxPending of them and one per kit (Store.AddPending). *)
(***************************************************************************)
THEOREM RequestsBounded == Spec => []PendingBounded
<1>1. PendingInv => PendingBounded
  BY DEF PendingInv
<1> QED  BY <1>1, PendingInit, PendingStep, TypeCorrect, PTL DEF Spec
-----------------------------------------------------------------------------
(* Approvals, from the call that starts one to the grant in the store.     *)

\* Call c starts, is over but for what it replaces, or goes on with the grant
\* it built.
Started(c) ==
    \E a \in Approvers, id \in Ids, ch \in Choices : StartWithKey(c, a, id, ch) \/ StartSigned(c, a, id, ch)

Ends(c) == call'[c].pc \in {"idle", "replace"}

Moves(c) ==
    /\ call[c].pc \in {"take", "held"} /\ call'[c].pc \in {"held", "put"}
    /\ \E t \in Nat : call'[c].grant = [call[c].grant EXCEPT !.expires = t]

\* What every step is to call c.
Shape(c) == call'[c] = call[c] \/ Ends(c) \/ Started(c) \/ Resolve(c) \/ Moves(c)

LEMMA OtherCalls ==
    ASSUME TypeOK, NEW c \in Calls, NEW r, call' = [call EXCEPT ![c] = r], NEW d \in Calls
    PROVE  call'[d] = IF d = c THEN r ELSE call[d]
  BY DEF TypeOK

LEMMA TakeShape == ASSUME GrantsInv, NEW c \in Calls, Take(c), NEW d \in Calls PROVE Shape(d)
<1>0. TypeOK /\ call[c].pc = "take" /\ call[c] \in CallState /\ call[c].grant \in Grant
  BY DEF Take, GrantsInv, TypeOK, CallOK
<1>1. CASE WithId(pending, call[c].id) = {}
  <2>1. call' = [call EXCEPT ![c] = IdleCall]
    BY <1>1 DEF Take
  <2>2. call'[d] = IF d = c THEN IdleCall ELSE call[d]
    BY <1>0, <2>1, OtherCalls
  <2> QED  BY <2>2, IdleType DEF Shape, Ends
<1>2. CASE WithId(pending, call[c].id) # {}
  <2> DEFINE t == now + call[c].grant.ttl
             s == [call[c] EXCEPT !.pc = "held", !.grant = [call[c].grant EXCEPT !.expires = t]]
  <2>1. call' = [call EXCEPT ![c] = s]
    BY <1>0, <1>2 DEF Take, TypeOK, CallState
  <2>2. t \in Nat
    BY <1>0 DEF TypeOK, Grant
  <2>3. s.pc = "held" /\ s.grant = [call[c].grant EXCEPT !.expires = t]
    BY <1>0 DEF CallState
  <2> HIDE DEF s, t
  <2>4. call'[d] = IF d = c THEN s ELSE call[d]
    BY <1>0, <2>1, OtherCalls
  <2>5. CASE d = c
    BY <1>0, <2>2, <2>3, <2>4, <2>5 DEF Shape, Moves
  <2> QED  BY <2>4, <2>5 DEF Shape
<1> QED  BY <1>1, <1>2

LEMMA ReadHeldShape == ASSUME GrantsInv, NEW c \in Calls, ReadHeld(c), NEW d \in Calls PROVE Shape(d)
<1> DEFINE old == {g.id : g \in {h \in ForSubject(active, call[c].grant.subject) :
                                      h.kit = call[c].grant.kit /\ h.id # call[c].id}}
           s == [call[c] EXCEPT !.pc = "put", !.old = old]
<1>0. TypeOK /\ call[c].pc = "held" /\ call[c] \in CallState /\ call[c].grant \in Grant
  BY DEF ReadHeld, GrantsInv, TypeOK, CallOK
<1>1. call' = [call EXCEPT ![c] = s]
  BY <1>0 DEF ReadHeld, TypeOK
<1>2. s.pc = "put" /\ s.grant = call[c].grant
  BY <1>0 DEF CallState
<1>3. s.grant = [call[c].grant EXCEPT !.expires = call[c].grant.expires] /\ call[c].grant.expires \in Nat
  BY <1>0, <1>2 DEF Grant
<1> HIDE DEF s
<1>4. call'[d] = IF d = c THEN s ELSE call[d]
  BY <1>0, <1>1, OtherCalls
<1>5. CASE d = c
  BY <1>0, <1>2, <1>3, <1>4, <1>5 DEF Shape, Moves
<1> QED  BY <1>4, <1>5 DEF Shape

\* Put, RemoveOld, Answer and the failures.
LEMMA EndShape ==
    ASSUME GrantsInv, NEW c \in Calls, NEW d \in Calls, 
           ResolveFails(c) \/ Put(c) \/ (\E id \in Ids : RemoveOld(c, id)) \/ Answer(c) \/ StoreFails(c)
    PROVE  Shape(d)
<1>0. TypeOK /\ call[c] \in CallState
  BY DEF GrantsInv, TypeOK
<1>1. CASE call' = [call EXCEPT ![c] = IdleCall]
  BY <1>0, <1>1, IdleType, OtherCalls DEF Shape, Ends
<1>2. ASSUME NEW old, call' = [call EXCEPT ![c] = [call[c] EXCEPT !.pc = "replace", !.old = old]]
      PROVE  Shape(d)
  <2> DEFINE s == [call[c] EXCEPT !.pc = "replace", !.old = old]
  <2>1. s.pc = "replace"
    BY <1>0 DEF CallState
  <2> HIDE DEF s
  <2>2. call'[d] = IF d = c THEN s ELSE call[d]
    BY <1>0, <1>2, OtherCalls DEF s
  <2> QED  BY <2>1, <2>2 DEF Shape, Ends
<1>3. ASSUME Put(c)  PROVE Shape(d)
  <2>1. call' = [call EXCEPT ![c] = [call[c] EXCEPT !.pc = "replace", !.old = call[c].old]]
    BY <1>0, <1>3 DEF Put, TypeOK, CallState
  <2> QED  BY <1>2, <2>1
<1>4. ASSUME NEW id \in Ids, RemoveOld(c, id)  PROVE Shape(d)
  <2>1. call' = [call EXCEPT ![c] = [call[c] EXCEPT !.pc = "replace", !.old = call[c].old \ {id}]]
    BY <1>0, <1>4 DEF RemoveOld, TypeOK, CallState
  <2> QED  BY <1>2, <2>1
<1> QED  BY <1>1, <1>3, <1>4 DEF ResolveFails, Answer, StoreFails

LEMMA ResolveShape == ASSUME GrantsInv, NEW c \in Calls, Resolve(c), NEW d \in Calls PROVE Shape(d)
<1>1. d # c => call'[d] = call[d]
  BY DEF Resolve, GrantsInv, TypeOK
<1> QED  BY <1>1 DEF Shape

LEMMA StartShape == ASSUME GrantsInv, NEW c \in Calls, Started(c), NEW d \in Calls PROVE Shape(d)
<1>1. d # c => call'[d] = call[d]
  BY DEF Started, StartWithKey, StartSigned, GrantsInv, TypeOK
<1> QED  BY <1>1 DEF Shape

LEMMA StepShape ==
    ASSUME GrantsInv, [Next]_vars
    PROVE  /\ signed \subseteq signed' /\ scoped \subseteq scoped'
           /\ \A g \in active' : g \in active \/ \E c \in Calls : call[c].pc = "put" /\ g = call[c].grant
           /\ \A d \in Calls : Shape(d)
<1> DEFINE Grows == /\ signed \subseteq signed' /\ scoped \subseteq scoped'
                    /\ \A g \in active' : g \in active \/ \E c \in Calls : call[c].pc = "put" /\ g = call[c].grant
<1> SUFFICES Grows /\ \A d \in Calls : Shape(d)
  OBVIOUS
<1>1. ASSUME NEW c \in Calls, CallStep(c)  PROVE Grows /\ \A d \in Calls : Shape(d)
  <2>1. Grows
    BY <1>1 DEF CallStep, Resolve, ResolveFails, Take, ReadHeld, Put, RemoveOld, Answer, StoreFails, Live
  <2> HIDE DEF Grows
  <2> QED  BY <1>1, <2>1, ResolveShape, TakeShape, ReadHeldShape, EndShape DEF CallStep
<1>2. ASSUME NEW c \in Calls, Started(c)  PROVE Grows /\ \A d \in Calls : Shape(d)
  <2>1. Grows
    BY <1>2 DEF Started, StartWithKey, StartSigned
  <2> HIDE DEF Grows
  <2> QED  BY <1>2, <2>1, StartShape
<1>3. CASE Restart
  <2>1. Grows
    BY <1>3 DEF Restart
  <2> HIDE DEF Grows
  <2>2. \A d \in Calls : call'[d] = IdleCall
    BY <1>3 DEF Restart
  <2>3. \A d \in Calls : Ends(d)
    BY <2>2, IdleType DEF Ends
  <2> QED  BY <2>1, <2>3 DEF Shape
<1>4. CASE \/ Tick \/ UNCHANGED vars
           \/ \E p \in Policies : ReloadKits(p) \/ ReloadApprovers(p)
           \/ \E s \in Subjects, k \in KitNames, d \in AskedTTLs, id \in Ids : Request(s, k, d, id)
           \/ \E a \in Approvers, id \in Ids, ch \in Choices : SignStatement(a, id, ch)
           \/ \E id \in Ids : Deny(id) \/ Revoke(id)
  <2>1. Grows /\ UNCHANGED call
    BY <1>4 DEF Tick, vars, ReloadKits, ReloadApprovers, Request, SignStatement, Deny, Revoke, Live
  <2>2. \A d \in Calls : call'[d] = call[d]
    BY <2>1
  <2> HIDE DEF Grows
  <2> QED  BY <2>1, <2>2 DEF Shape
<1> HIDE DEF Grows
<1>5. Grows /\ \A d \in Calls : Shape(d)
  <2>1. CASE \E c \in Calls, a \in Approvers, id \in Ids, ch \in Choices :
                StartWithKey(c, a, id, ch) \/ StartSigned(c, a, id, ch)
    <3>1. \E c \in Calls : Started(c)
      BY <2>1 DEF Started
    <3> QED  BY <3>1, <1>2
  <2>2. CASE \E c \in Calls : CallStep(c)
    BY <2>2, <1>1
  <2> QED  BY <2>1, <2>2, <1>3, <1>4 DEF Next
<1> QED  BY <1>5
-----------------------------------------------------------------------------
(* Signed approvals.                                                       *)

\* Kits and approvers in effect come from some policy each, not always the
\* same one; the history of scopes has those of the approvers.
PolicyInEffect ==
    /\ \E p \in Policies : policy.kits = p.kits
    /\ \E p \in Policies : policy.approvers = p.approvers
    /\ ScopesOf(policy) \subseteq scoped

\* The grant has a part, and a statement its approver signed for it lists the
\* part and allows the time.
Vouched(g) ==
    /\ g.part # {}
    /\ \E st \in signed : /\ st.id = g.id /\ st.approver = g.approver
                          /\ g.part \subseteq st.entries /\ g.ttl <= st.ttl

\* A statement names entries and a time; an approval by signature has the
\* statement it was started with, and what it builds stays vouched for.
SignedInv ==
    /\ PolicyInEffect
    /\ \A st \in signed : st.entries # {} /\ st.ttl > 0
    /\ \A c \in Calls :
          /\ call[c].pc = "approve" /\ call[c].how = "signature" =>
                \E st \in signed : /\ st.id = call[c].id /\ st.approver = call[c].approver
                                   /\ call[c].choice = [ttl |-> st.ttl, entries |-> st.entries]
          /\ call[c].pc \in {"take", "held", "put"} /\ call[c].grant.how = "signature" => Vouched(call[c].grant)
    /\ \A g \in active : g.how = "signature" => Vouched(g)

LEMMA PolicyStep == ASSUME GrantsInv, PolicyInEffect, [Next]_vars PROVE PolicyInEffect'
<1> USE DEF PolicyInEffect
<1>1. ASSUME NEW p \in Policies, ReloadKits(p)  PROVE PolicyInEffect'
  <2>1. policy'.kits = p.kits /\ policy'.approvers = policy.approvers /\ scoped' = scoped
    BY <1>1 DEF ReloadKits, GrantsInv, TypeOK, Policy
  <2>2. ScopesOf(policy') = ScopesOf(policy)
    BY <2>1 DEF ScopesOf, MayApprove
  <2> QED  BY <2>1, <2>2
<1>2. ASSUME NEW p \in Policies, ReloadApprovers(p)  PROVE PolicyInEffect'
  BY <1>2 DEF ReloadApprovers
<1>3. (\A p \in Policies : ~ReloadKits(p) /\ ~ReloadApprovers(p)) => UNCHANGED <<policy, scoped>>
  <2>1. ASSUME NEW c \in Calls, CallStep(c)  PROVE UNCHANGED <<policy, scoped>>
    BY <2>1 DEF CallStep, Resolve, ResolveFails, Take, ReadHeld, Put, RemoveOld, Answer, StoreFails
  <2>2. ASSUME NEW c \in Calls, NEW a \in Approvers, NEW id \in Ids, NEW ch \in Choices,
               StartWithKey(c, a, id, ch) \/ StartSigned(c, a, id, ch)
        PROVE  UNCHANGED <<policy, scoped>>
    BY <2>2 DEF StartWithKey, StartSigned
  <2>3. ASSUME NEW a \in Approvers, NEW id \in Ids, NEW ch \in Choices, SignStatement(a, id, ch)
        PROVE  UNCHANGED <<policy, scoped>>
    BY <2>3 DEF SignStatement
  <2>4. ASSUME NEW s \in Subjects, NEW k \in KitNames, NEW d \in AskedTTLs, NEW id \in Ids, Request(s, k, d, id)
        PROVE  UNCHANGED <<policy, scoped>>
    BY <2>4 DEF Request
  <2>5. Tick \/ Restart \/ UNCHANGED vars \/ (\E id \in Ids : Deny(id) \/ Revoke(id)) => UNCHANGED <<policy, scoped>>
    BY DEF Tick, Restart, vars, Deny, Revoke
  <2> QED  BY <2>1, <2>2, <2>3, <2>4, <2>5 DEF Next
<1>4. UNCHANGED <<policy, scoped>> => PolicyInEffect'
  OBVIOUS
<1> QED  BY <1>1, <1>2, <1>3, <1>4

\* kitTTL never grants for no time, nor for longer than a time asked for.
LEMMA KitTTLBounds ==
    ASSUME NEW k \in KitDef, NEW d \in Nat
    PROVE  /\ kitTTL(k, d).ttl > 0
           /\ d > 0 => kitTTL(k, d).ttl <= d
  BY GrantsAssumption DEF kitTTL, kitMaxTTL, SmallerOf, KitDef

\* Every statement that is signed names entries and a time.
LEMMA StatementFull ==
    ASSUME TypeOK, PolicyInEffect, NEW a \in Approvers, NEW req \in Grant, NEW ch \in Choices,
           StatementOK(policy, a, req, ch)
    PROVE  StatementFor(policy, a, req, ch).entries # {} /\ StatementFor(policy, a, req, ch).ttl > 0
<1>1. req.kit \in KitNames /\ req.ttl \in Nat /\ ch.ttl \in Nat /\ policy.kits[req.kit] # None
  BY GrantsAssumption DEF Grant, StatementOK
<1>2. policy.kits[req.kit] \in KitDef
  BY <1>1, KitDefined
<1>3. policy.kits[req.kit].entries # {}
  BY <1>1, GrantsAssumption DEF PolicyInEffect
<1>4. resolveTTL(policy.kits[req.kit], req, ch) > 0
  BY <1>1, <1>2, KitTTLBounds DEF resolveTTL
<1> QED  BY <1>3, <1>4 DEF StatementFor

\* Resolve builds from a signed choice a grant the statement vouches for.
LEMMA ResolveVouched ==
    ASSUME GrantsInv, SignedInv, NEW c \in Calls, Resolve(c)
    PROVE  call'[c].pc = "take" /\ (call'[c].grant.how = "signature" => Vouched(call'[c].grant))
<1> DEFINE k(req) == policy.kits[req.kit]
           g(req, part) == [req EXCEPT !.ttl = resolveTTL(k(req), req, call[c].choice),
                               !.part = part, !.approver = call[c].approver, !.how = call[c].how]
<1>0. PICK req \in WithId(pending, call[c].id) : \E part :
          /\ k(req) # None
          /\ call[c].how # "key" => part = call[c].choice.entries
          /\ call' = [call EXCEPT ![c].pc = "take", ![c].grant = g(req, part)]
  BY DEF Resolve
<1>1. PICK part :
          /\ k(req) # None
          /\ call[c].how # "key" => part = call[c].choice.entries
          /\ call' = [call EXCEPT ![c].pc = "take", ![c].grant = g(req, part)]
  BY <1>0
<1>2. /\ call[c] \in CallState /\ call[c].pc = "approve"
      /\ req \in Grant /\ req.id = call[c].id /\ req.kit \in KitNames
  BY DEF GrantsInv, TypeOK, WithId, Live, Grant, Resolve
<1> DEFINE h == g(req, part)
<1>3. /\ h.how = call[c].how /\ h.approver = call[c].approver /\ h.id = call[c].id
      /\ h.part = part /\ h.ttl = resolveTTL(k(req), req, call[c].choice)
  BY <1>2 DEF Grant
<1>4. call'[c].pc = "take" /\ call'[c].grant = h
  BY <1>1, <1>2 DEF GrantsInv, TypeOK, CallState
<1>5. ASSUME call[c].how = "signature"  PROVE Vouched(h)
  <2>1. PICK st \in signed : /\ st.id = call[c].id /\ st.approver = call[c].approver
                             /\ call[c].choice = [ttl |-> st.ttl, entries |-> st.entries]
    BY <1>2, <1>5 DEF SignedInv
  <2>2. part = st.entries /\ st.entries # {} /\ st.ttl > 0 /\ st.ttl \in Nat
    BY <1>1, <1>5, <2>1 DEF SignedInv, GrantsInv, TypeOK, Statement
  <2>3. k(req) \in KitDef
    BY <1>1, <1>2, KitDefined DEF GrantsInv
  <2>4. h.ttl <= st.ttl
    <3>1. h.ttl = kitTTL(k(req), st.ttl).ttl
      BY <1>3, <2>1, <2>2 DEF resolveTTL
    <3> HIDE DEF h, k
    <3> QED  BY <2>2, <2>3, <3>1, KitTTLBounds
  <2> HIDE DEF h
  <2> QED  BY <1>3, <2>1, <2>2, <2>4 DEF Vouched
<1> HIDE DEF h
<1> QED  BY <1>3, <1>4, <1>5

\* A call that starts with a signature has its statement.
LEMMA StartVouched ==
    ASSUME GrantsInv, NEW c \in Calls, Started(c)
    PROVE  /\ call'[c].pc = "approve"
           /\ call'[c].how = "signature" =>
                \E st \in signed : /\ st.id = call'[c].id /\ st.approver = call'[c].approver
                                   /\ call'[c].choice = [ttl |-> st.ttl, entries |-> st.entries]
<1>1. ASSUME NEW a \in Approvers, NEW id \in Ids, NEW ch \in Choices, StartWithKey(c, a, id, ch)
      PROVE  call'[c].pc = "approve" /\ call'[c].how = "key"
  BY <1>1 DEF StartWithKey, IdleCall, GrantsInv, TypeOK
<1>2. ASSUME NEW a \in Approvers, NEW id \in Ids, NEW ch \in Choices, StartSigned(c, a, id, ch)
      PROVE  /\ call'[c].pc = "approve"
             /\ \E st \in signed : /\ st.id = call'[c].id /\ st.approver = call'[c].approver
                                   /\ call'[c].choice = [ttl |-> st.ttl, entries |-> st.entries]
  <2>1. PICK req \in WithId(pending, id) :
          LET st == StatementFor(policy, a, req, ch) IN
          /\ st \in signed
          /\ call' = [call EXCEPT ![c] = [IdleCall EXCEPT !.pc = "approve", !.how = "signature", !.approver = a,
                                             !.id = id, !.choice = [ttl |-> st.ttl, entries |-> st.entries]]]
    BY <1>2 DEF StartSigned
  <2> DEFINE st == StatementFor(policy, a, req, ch)
  <2>2. st.id = id /\ st.approver = a
    BY DEF StatementFor, WithId
  <2>3. st \in signed
    BY <2>1
  <2>4. /\ call'[c].pc = "approve" /\ call'[c].id = id /\ call'[c].approver = a
        /\ call'[c].choice = [ttl |-> st.ttl, entries |-> st.entries]
    BY <2>1 DEF IdleCall, GrantsInv, TypeOK
  <2> HIDE DEF st
  <2> QED  BY <2>2, <2>3, <2>4
<1> QED  BY <1>1, <1>2 DEF Started

LEMMA SignedStep == ASSUME GrantsInv, SignedInv, [Next]_vars PROVE SignedInv'
<1>0. /\ signed \subseteq signed'
      /\ \A g \in active' : g \in active \/ \E c \in Calls : call[c].pc = "put" /\ g = call[c].grant
      /\ \A d \in Calls : Shape(d)
  BY StepShape
<1>1. PolicyInEffect'
  BY PolicyStep DEF SignedInv
<1>2. \A st \in signed' : st.entries # {} /\ st.ttl > 0
  <2>1. ASSUME NEW a \in Approvers, NEW id \in Ids, NEW ch \in Choices, SignStatement(a, id, ch)
        PROVE  \A st \in signed' : st.entries # {} /\ st.ttl > 0
    <3>1. PICK req \in Grant : StatementOK(policy, a, req, ch) /\ signed' = signed \cup {StatementFor(policy, a, req, ch)}
      BY <2>1 DEF SignStatement, WithId, Live, GrantsInv, TypeOK
    <3>2. StatementFor(policy, a, req, ch).entries # {} /\ StatementFor(policy, a, req, ch).ttl > 0
      BY <3>1, StatementFull DEF GrantsInv, SignedInv
    <3> QED  BY <3>1, <3>2 DEF SignedInv
  <2>2. (\A a \in Approvers, id \in Ids, ch \in Choices : ~SignStatement(a, id, ch)) => signed' = signed
    BY ZenonT(40) DEF Next, vars, Tick, Request, ReloadKits, ReloadApprovers, StartWithKey, StartSigned, CallStep, Resolve,
       ResolveFails, Take, ReadHeld, Put, RemoveOld, Answer, StoreFails, Deny, Revoke, Restart
  <2> QED  BY <2>1, <2>2 DEF SignedInv
<1>3. \A g : Vouched(g) => Vouched(g)'
  BY <1>0 DEF Vouched
<1>4. \A g \in active' : g.how = "signature" => Vouched(g)'
  BY <1>0, <1>3 DEF SignedInv
<1>5. ASSUME NEW c \in Calls
      PROVE  /\ call'[c].pc = "approve" /\ call'[c].how = "signature" =>
                   \E st \in signed' : /\ st.id = call'[c].id /\ st.approver = call'[c].approver
                                       /\ call'[c].choice = [ttl |-> st.ttl, entries |-> st.entries]
             /\ call'[c].pc \in {"take", "held", "put"} /\ call'[c].grant.how = "signature" => Vouched(call[c].grant)'
  <2>1. CASE call'[c] = call[c]
    BY <2>1, <1>0, <1>3 DEF SignedInv
  <2>2. CASE Ends(c)
    BY <2>2 DEF Ends
  <2>3. CASE Started(c)
    BY <2>3, <1>0, StartVouched
  <2>4. CASE Resolve(c)
    <3>1. call'[c].pc = "take" /\ (call'[c].grant.how = "signature" => Vouched(call'[c].grant))
      BY <2>4, ResolveVouched
    <3>2. UNCHANGED signed
      BY <2>4 DEF Resolve
    <3> QED  BY <3>1, <3>2 DEF Vouched
  <2>5. CASE Moves(c)
    <3>1. PICK t \in Nat : call'[c].grant = [call[c].grant EXCEPT !.expires = t]
      BY <2>5 DEF Moves
    <3>2. call[c].grant \in Grant
      BY <2>5 DEF Moves, GrantsInv, CallOK
    <3> DEFINE g == call[c].grant
               h == call'[c].grant
    <3>3. h.id = g.id /\ h.approver = g.approver /\ h.part = g.part /\ h.ttl = g.ttl /\ h.how = g.how
      BY <3>1, <3>2 DEF Grant
    <3>4. g.how = "signature" => Vouched(g)
      BY <2>5 DEF Moves, SignedInv
    <3>5. call'[c].pc # "approve"
      BY <2>5 DEF Moves
    <3>6. h.how = "signature" => Vouched(call[c].grant)'
      <4>1. Vouched(call[c].grant)' = (/\ h.part # {}
                                       /\ \E st \in signed' : /\ st.id = h.id /\ st.approver = h.approver
                                                              /\ h.part \subseteq st.entries /\ h.ttl <= st.ttl)
        BY DEF Vouched
      <4> HIDE DEF g, h
      <4> QED  BY <4>1, <3>3, <3>4, <1>0 DEF Vouched
    <3> QED  BY <3>5, <3>6
  <2> QED  BY <1>0, <2>1, <2>2, <2>3, <2>4, <2>5 DEF Shape
<1> QED  BY <1>1, <1>2, <1>4, <1>5 DEF SignedInv

(***************************************************************************)
(* A grant approved by signature never gives more than a statement that    *)
(* its approver signed for this request lists, nor for longer: under every *)
(* later definition of the kit, and however the policy changes between the *)
(* signature, the approval and the use (ApproveSigned, IsWhole).           *)
(***************************************************************************)
THEOREM SignedGrantsMatch == Spec => []SignedGrantMatchesStatement
<1>1. Init => SignedInv
  <2> SUFFICES ASSUME Init  PROVE SignedInv
    OBVIOUS
  <2>1. PolicyInEffect
    BY DEF Init, PolicyInEffect
  <2> QED  BY <2>1, IdleType DEF Init, SignedInv
<1>2. GrantsInv /\ SignedInv /\ [Next]_vars => SignedInv'
  BY SignedStep
<1>3. SignedInv => SignedGrantMatchesStatement
  <2> SUFFICES ASSUME SignedInv, NEW g \in Live(active), g.how = "signature"
               PROVE  \E st \in signed : /\ st.id = g.id
                              /\ st.approver = g.approver
                              /\ Allowed(g) \subseteq st.entries
                              /\ g.ttl <= st.ttl
    BY DEF SignedGrantMatchesStatement
  <2>1. Vouched(g)
    BY DEF SignedInv, Live
  <2>2. Allowed(g) \subseteq g.part
    BY <2>1 DEF Vouched, Allowed, IsWhole
  <2> QED  BY <2>1, <2>2 DEF Vouched
<1> QED  BY <1>1, <1>2, <1>3, GrantsCorrect, PTL DEF Spec
-----------------------------------------------------------------------------
(* Scopes of approvers.                                                    *)

\* A policy that replaces another keeps its approvers, whatever it changes of
\* their scopes.
ApproversStay ==
    \A p, q \in Policies, a \in Approvers : p.approvers[a].known => q.approvers[a].known

\* An approval runs for an approver in the registry, and once it has passed
\* checkScope its kit was in the scope of the approver.
ScopeInv ==
    /\ PolicyInEffect
    /\ ScopeRespected
    /\ \A c \in Calls :
          /\ call[c].pc = "approve" => call[c].approver \in Approvers /\ policy.approvers[call[c].approver].known
          /\ call[c].pc \in {"take", "held", "put"} => <<call[c].grant.approver, call[c].grant.kit>> \in scoped

LEMMA ResolveScoped ==
    ASSUME GrantsInv, ScopeInv, NEW c \in Calls, Resolve(c)
    PROVE  call'[c].pc = "take" /\ <<call'[c].grant.approver, call'[c].grant.kit>> \in scoped
<1> DEFINE ttl(req) == resolveTTL(policy.kits[req.kit], req, call[c].choice)
<1>0. PICK req \in WithId(pending, call[c].id) : \E part :
          /\ checkScope(policy, call[c].approver, req.kit)
          /\ call' = [call EXCEPT ![c].pc = "take",
                         ![c].grant = [req EXCEPT !.ttl = ttl(req), !.part = part,
                                          !.approver = call[c].approver, !.how = call[c].how]]
  BY DEF Resolve
<1>1. PICK part :
          /\ checkScope(policy, call[c].approver, req.kit)
          /\ call' = [call EXCEPT ![c].pc = "take",
                         ![c].grant = [req EXCEPT !.ttl = ttl(req), !.part = part,
                                          !.approver = call[c].approver, !.how = call[c].how]]
  BY <1>0
<1>2. /\ call[c] \in CallState /\ call[c].pc = "approve"
      /\ req \in Grant /\ req.kit \in KitNames
  BY DEF GrantsInv, TypeOK, WithId, Live, Grant, Resolve
<1> DEFINE h == [req EXCEPT !.ttl = ttl(req), !.part = part, !.approver = call[c].approver, !.how = call[c].how]
<1>3. h.approver = call[c].approver /\ h.kit = req.kit
  BY <1>2 DEF Grant
<1>4. call'[c].pc = "take" /\ call'[c].grant = h
  BY <1>1, <1>2 DEF GrantsInv, TypeOK, CallState
<1> HIDE DEF h
<1>5. call[c].approver \in Approvers /\ MayApprove(policy, call[c].approver, req.kit)
  BY <1>1, <1>2 DEF ScopeInv, checkScope
<1>6. <<call[c].approver, req.kit>> \in ScopesOf(policy)
  BY <1>2, <1>5 DEF ScopesOf
<1> QED  BY <1>3, <1>4, <1>6 DEF ScopeInv, PolicyInEffect

LEMMA StartScoped ==
    ASSUME GrantsInv, NEW c \in Calls, Started(c)
    PROVE  /\ call'[c].pc = "approve" /\ UNCHANGED policy
           /\ call'[c].approver \in Approvers /\ policy.approvers[call'[c].approver].known
<1>1. ASSUME NEW a \in Approvers, NEW id \in Ids, NEW ch \in Choices,
             StartWithKey(c, a, id, ch) \/ StartSigned(c, a, id, ch)
      PROVE  call'[c].pc = "approve" /\ call'[c].approver = a /\ UNCHANGED policy
  <2>1. \E how \in {"key", "signature"} : \E ch1 :
           call' = [call EXCEPT ![c] = [IdleCall EXCEPT !.pc = "approve", !.how = how, !.approver = a,
                                           !.id = id, !.choice = ch1]]
    BY <1>1 DEF StartWithKey, StartSigned
  <2> QED  BY <1>1, <2>1, ZenonT(40) DEF StartWithKey, StartSigned, IdleCall, GrantsInv, TypeOK
<1>2. ASSUME NEW a \in Approvers, NEW id \in Ids, NEW ch \in Choices,
             StartWithKey(c, a, id, ch) \/ StartSigned(c, a, id, ch)
      PROVE  policy.approvers[a].known
  BY <1>2 DEF StartWithKey, StartSigned, StatementOK, MayApprove
<1> QED  BY <1>1, <1>2 DEF Started

LEMMA ScopeStep == ASSUME ApproversStay, GrantsInv, ScopeInv, [Next]_vars PROVE ScopeInv'
<1>0. /\ scoped \subseteq scoped'
      /\ \A g \in active' : g \in active \/ \E c \in Calls : call[c].pc = "put" /\ g = call[c].grant
      /\ \A d \in Calls : Shape(d)
  BY StepShape
<1>1. PolicyInEffect'
  BY PolicyStep DEF ScopeInv
<1>2. \A a \in Approvers : policy.approvers[a].known => policy'.approvers[a].known
  BY <1>1 DEF ScopeInv, PolicyInEffect, ApproversStay
<1>3. ScopeRespected'
  BY <1>0 DEF ScopeInv, ScopeRespected
<1>4. ASSUME NEW c \in Calls
      PROVE  /\ call'[c].pc = "approve" => call'[c].approver \in Approvers /\ policy'.approvers[call'[c].approver].known
             /\ call'[c].pc \in {"take", "held", "put"} => <<call'[c].grant.approver, call'[c].grant.kit>> \in scoped'
  <2>1. CASE call'[c] = call[c]
    BY <2>1, <1>0, <1>2 DEF ScopeInv
  <2>2. CASE Ends(c)
    BY <2>2 DEF Ends
  <2>3. CASE Started(c)
    BY <2>3, <1>2, StartScoped
  <2>4. CASE Resolve(c)
    BY <2>4, <1>0, ResolveScoped
  <2>5. CASE Moves(c)
    <3>1. PICK t \in Nat : call'[c].grant = [call[c].grant EXCEPT !.expires = t]
      BY <2>5 DEF Moves
    <3>2. call[c].grant \in Grant
      BY <2>5 DEF Moves, GrantsInv, CallOK
    <3>3. call'[c].grant.approver = call[c].grant.approver /\ call'[c].grant.kit = call[c].grant.kit
      BY <3>1, <3>2 DEF Grant
    <3> QED  BY <2>5, <3>3, <1>0 DEF Moves, ScopeInv
  <2> QED  BY <1>0, <2>1, <2>2, <2>3, <2>4, <2>5 DEF Shape
<1> QED  BY <1>1, <1>3, <1>4 DEF ScopeInv

(***************************************************************************)
(* While reloads take no approver out of the registry, nobody has more     *)
(* requests than the limits admit and every grant was approved by an       *)
(* approver in whose scope its kit was, however scopes and kits change     *)
(* under the approvals in flight (AddPending, checkScope).                 *)
(***************************************************************************)
THEOREM AdmissionAlwaysKept ==
    ASSUME ApproversStay
    PROVE  Spec => []AdmissionKept
<1>1. Init => ScopeInv
  <2> SUFFICES ASSUME Init  PROVE ScopeInv
    OBVIOUS
  <2>1. PolicyInEffect
    BY DEF Init, PolicyInEffect
  <2> QED  BY <2>1, IdleType DEF Init, ScopeInv, ScopeRespected
<1>2. GrantsInv /\ ScopeInv /\ [Next]_vars => ScopeInv'
  BY ScopeStep
<1>3. ScopeInv /\ PendingBounded => AdmissionKept
  BY DEF ScopeInv, AdmissionKept
<1> QED  BY <1>1, <1>2, <1>3, GrantsCorrect, RequestsBounded, PTL DEF Spec
-----------------------------------------------------------------------------
(* Replacement of grants.                                                  *)

SameKit(g, h) == g.subject = h.subject /\ g.kit = h.kit

\* Of two grants of a kit a caller holds, the approval that stored the last
\* one is about to remove one; and it knew of it before it stored its own.
ReplaceInv ==
    /\ \A g, h \in Live(active) : SameKit(g, h) /\ g # h =>
          \E c \in Calls : call[c].pc = "replace" /\ (g.id \in call[c].old \/ h.id \in call[c].old)
    /\ \A c \in Calls : call[c].pc = "put" =>
          \A g \in Live(active) : SameKit(g, call[c].grant) => g.id \in call[c].old

\* Grants go and time passes, and the calls that count stay where they are.
LEMMA ReplaceShrinks ==
    ASSUME TypeOK, ReplaceInv, active' \subseteq active, now' \in {now, now + 1},
           \A c \in Calls : (call[c].pc = "replace" \/ call'[c].pc = "put") => call'[c] = call[c]
    PROVE  ReplaceInv'
<1>1. Live(active)' \subseteq Live(active)
  BY DEF Live, TypeOK, Grant
<1>2. ASSUME NEW g \in Live(active)', NEW h \in Live(active)', SameKit(g, h), g # h
      PROVE  \E c \in Calls : call'[c].pc = "replace" /\ (g.id \in call'[c].old \/ h.id \in call'[c].old)
  BY <1>1, <1>2 DEF ReplaceInv
<1>3. ASSUME NEW c \in Calls, call'[c].pc = "put", NEW g \in Live(active)', SameKit(g, call'[c].grant)
      PROVE  g.id \in call'[c].old
  BY <1>1, <1>3 DEF ReplaceInv
<1> QED  BY <1>2, <1>3 DEF ReplaceInv, SameKit

LEMMA ReplaceStep ==
    ASSUME \A c, d \in Calls : c = d, ~StoreMayFail, ~Persistent, GrantsInv, ReplaceInv, [Next]_vars
    PROVE  ReplaceInv'
<1>0. TypeOK /\ \A c \in Calls : call[c] \in CallState
  BY DEF GrantsInv, TypeOK
<1>1. CASE UNCHANGED <<active, call>> /\ now' \in {now, now + 1}
  BY <1>0, <1>1, ReplaceShrinks
<1>2. CASE Tick \/ UNCHANGED vars
  BY <1>1, <1>2 DEF Tick, vars
<1>3. ASSUME NEW p \in Policies, ReloadKits(p) \/ ReloadApprovers(p)  PROVE ReplaceInv'
  BY <1>1, <1>3 DEF ReloadKits, ReloadApprovers
<1>4. ASSUME NEW s \in Subjects, NEW k \in KitNames, NEW d \in AskedTTLs, NEW id \in Ids, Request(s, k, d, id)
      PROVE  ReplaceInv'
  BY <1>1, <1>4 DEF Request
<1>5. ASSUME NEW a \in Approvers, NEW id \in Ids, NEW ch \in Choices, SignStatement(a, id, ch)  PROVE ReplaceInv'
  BY <1>1, <1>5 DEF SignStatement
<1>6. ASSUME NEW c \in Calls, Started(c)  PROVE ReplaceInv'
  <2>1. call'[c].pc = "approve" /\ call[c].pc = "idle" /\ UNCHANGED <<active, now>>
    BY <1>6, StartVouched DEF Started, StartWithKey, StartSigned
  <2> QED  BY <1>0, <2>1, ReplaceShrinks
<1>7. ASSUME NEW c \in Calls, Resolve(c)  PROVE ReplaceInv'
  <2>1. call'[c].pc = "take" /\ call[c].pc = "approve" /\ UNCHANGED <<active, now>>
    BY <1>0, <1>7 DEF Resolve, TypeOK, CallState
  <2> QED  BY <1>0, <2>1, ReplaceShrinks
<1>8. ASSUME NEW c \in Calls, ResolveFails(c) \/ StoreFails(c)  PROVE ReplaceInv'
  <2>1. call'[c].pc = "idle" /\ call[c].pc = "approve" /\ UNCHANGED <<active, now>>
    BY <1>0, <1>8, IdleType DEF ResolveFails, StoreFails, TypeOK
  <2> QED  BY <1>0, <2>1, ReplaceShrinks
<1>9. ASSUME NEW c \in Calls, Take(c)  PROVE ReplaceInv'
  <2>1. call'[c].pc \in {"idle", "held"} /\ call[c].pc = "take" /\ UNCHANGED <<active, now>>
    BY <1>0, <1>9, IdleType DEF Take, TypeOK, CallState
  <2> QED  BY <1>0, <2>1, ReplaceShrinks
<1>10. ASSUME NEW c \in Calls, ReadHeld(c)  PROVE ReplaceInv'
  <2> DEFINE G == call[c].grant
             old == {g.id : g \in {h \in ForSubject(active, G.subject) : h.kit = G.kit /\ h.id # call[c].id}}
  <2>1. /\ call'[c].pc = "put" /\ call'[c].grant = G /\ call'[c].old = old /\ call[c].pc = "held"
        /\ UNCHANGED <<active, now>>
    BY <1>0, <1>10 DEF ReadHeld, TypeOK, CallState
  <2>2. \A g \in active : g.id # call[c].id
    BY <2>1 DEF GrantsInv, OnePlace, Owns
  <2>3. \A g \in Live(active) : SameKit(g, G) => g.id \in old
    BY <2>2 DEF SameKit, ForSubject, Live
  <2>4. Live(active)' = Live(active)
    BY <2>1 DEF Live
  <2>5. \A g, h \in Live(active) : ~(SameKit(g, h) /\ g # h)
    BY <2>1 DEF ReplaceInv
  <2> HIDE DEF old, G
  <2> QED  BY <2>1, <2>3, <2>4, <2>5 DEF ReplaceInv, SameKit
<1>11. ASSUME NEW c \in Calls, Put(c)  PROVE ReplaceInv'
  <2> DEFINE G == call[c].grant
             old == call[c].old
  <2>1. call'[c].pc = "replace" /\ call'[c].old = old /\ call[c].pc = "put" /\ now' = now
        /\ active' \subseteq Live(active) \cup {G}
    BY <1>0, <1>11 DEF Put, TypeOK, CallState
  <2>2. Live(active)' \subseteq Live(active) \cup {G}
    BY <2>1 DEF Live
  <2>3. (\A g \in Live(active) : SameKit(g, G) => g.id \in old) /\ \A g, h \in Live(active) : ~(SameKit(g, h) /\ g # h)
    BY <2>1 DEF ReplaceInv
  <2> HIDE DEF old, G
  <2>4. ASSUME NEW g \in Live(active)', NEW h \in Live(active)', SameKit(g, h), g # h
        PROVE  g.id \in old \/ h.id \in old
    BY <2>2, <2>3, <2>4 DEF SameKit
  <2> QED  BY <2>1, <2>4 DEF ReplaceInv, SameKit
<1>12. ASSUME NEW c \in Calls, NEW id \in Ids, RemoveOld(c, id)  PROVE ReplaceInv'
  <2> DEFINE old == call[c].old
  <2>1. call'[c].pc = "replace" /\ call'[c].old = old \ {id} /\ call[c].pc = "replace" /\ now' = now
        /\ active' = {g \in Live(active) : g.id # id}
    BY <1>0, <1>12 DEF RemoveOld, TypeOK, CallState
  <2>2. \A g \in Live(active)' : g \in Live(active) /\ g.id # id
    BY <2>1 DEF Live
  <2>3. \A g, h \in Live(active) : SameKit(g, h) /\ g # h => g.id \in old \/ h.id \in old
    BY <2>1 DEF ReplaceInv
  <2> HIDE DEF old
  <2>4. ASSUME NEW g \in Live(active)', NEW h \in Live(active)', SameKit(g, h), g # h
        PROVE  g.id \in old \ {id} \/ h.id \in old \ {id}
    BY <2>2, <2>3, <2>4
  <2> QED  BY <2>1, <2>4 DEF ReplaceInv, SameKit
<1>13. ASSUME NEW c \in Calls, Answer(c)  PROVE ReplaceInv'
  <2>1. call'[c].pc = "idle" /\ call[c].old = {} /\ UNCHANGED <<active, now>>
    BY <1>0, <1>13, IdleType DEF Answer, TypeOK
  <2>2. Live(active)' = Live(active)
    BY <2>1 DEF Live
  <2>3. \A g, h \in Live(active) : ~(SameKit(g, h) /\ g # h)
    BY <2>1 DEF ReplaceInv
  <2> QED  BY <2>1, <2>2, <2>3 DEF ReplaceInv, SameKit
<1>14. ASSUME NEW id \in Ids, Deny(id) \/ Revoke(id)  PROVE ReplaceInv'
  <2>1. active' \subseteq active /\ UNCHANGED <<call, now>>
    BY <1>14 DEF Deny, Revoke, Live
  <2> QED  BY <1>0, <2>1, ReplaceShrinks
<1>15. CASE Restart
  <2>1. active' = {} /\ \A c \in Calls : call'[c].pc = "idle"
    BY <1>15, IdleType DEF Restart
  <2> QED  BY <2>1 DEF ReplaceInv, Live
<1>16. ASSUME NEW c \in Calls, CallStep(c)  PROVE ReplaceInv'
  BY <1>16, <1>7, <1>8, <1>9, <1>10, <1>11, <1>12, <1>13 DEF CallStep
<1>17. CASE \E c \in Calls, a \in Approvers, id \in Ids, ch \in Choices :
              StartWithKey(c, a, id, ch) \/ StartSigned(c, a, id, ch)
  <2>1. \E c \in Calls : Started(c)
    BY <1>17 DEF Started
  <2> QED  BY <2>1, <1>6
<1> QED  BY <1>2, <1>3, <1>4, <1>5, <1>14, <1>15, <1>16, <1>17 DEF Next

(***************************************************************************)
(* On a store in memory that does not fail, and with approvals one after   *)
(* the other, a caller never holds two grants of a kit once the approval   *)
(* of the second has answered, whatever expires, is revoked or lost in a   *)
(* restart in between (ApproveWith).                                       *)
(***************************************************************************)
THEOREM GrantsReplaced ==
    ASSUME \A c, d \in Calls : c = d, ~StoreMayFail, ~Persistent
    PROVE  Spec => []OneGrantPerKit
<1>1. Init => ReplaceInv
  BY IdleType DEF Init, ReplaceInv, Live
<1>2. GrantsInv /\ ReplaceInv /\ [Next]_vars => ReplaceInv'
  BY ReplaceStep
<1>3. ReplaceInv => OneGrantPerKit
  BY DEF ReplaceInv, OneGrantPerKit, SameKit
<1> QED  BY <1>1, <1>2, <1>3, GrantsCorrect, PTL DEF Spec
=============================================================================
