-------------------------- MODULE ConsentMemProofs --------------------------
(* Proofs about ConsentMem, for any number of edges, agents, scopes,         *)
(* requests and concurrent handlers: its types, that the open keys and the   *)
(* pending requests are one to one, that the store implements ConsentBroker, *)
(* and that a revoked edge prompts anew.                                     *)
EXTENDS ConsentMem, TLAPS

\* A leaf that names no prover is one for Zenon.
USE ZenonT(30)

WasGiven(e, sc) == \E g \in given[e] : Covered(sc, g)

\* What is granted was given.
GivenAgrees ==
  \A e \in Edge : grant[e].state = "granted" => grant[e].scopes \in given[e]

\* What handler c has found still holds: what it will approve was given once,
\* and the backstop holds no request queued after a revocation that stands.
CallOK(c) ==
  /\ call[c].pc = "putApproved"
       => WasGiven(call[c].ask.edge, call[c].ask.scopes)
  /\ call[c].pc = "flip"
       => /\ call[c].id \in ReqId
          /\ req[call[c].id].status # "none"
          /\ WasGiven(req[call[c].id].edge, req[call[c].id].scopes)
          /\ call[c].id \notin afterRevoke

\* The history of a revocation ends with it.
AfterRevokeOK ==
  \A r \in ReqId \cap afterRevoke :
    Pending(r) /\ grant[req[r].edge].state = "revoked"

IInv ==
  /\ TypeOK
  /\ OpenIffPending
  /\ GivenAgrees
  /\ AfterRevokeOK
  /\ \A c \in Call : CallOK(c)

\* What no step of the store undoes.
ReqKept ==
  \A r \in ReqId :
    req[r].status # "none" =>
      /\ req'[r].status # "none"
      /\ req'[r].edge = req[r].edge
      /\ req'[r].scopes = req[r].scopes

GivenGrows == \A e \in Edge : given[e] \subseteq given'[e]

-----------------------------------------------------------------------------
(* The operators                                                             *)

\* Every request has an open key (OpenRequestKey of consent.go).
LEMMA KeyIsOpenKey ==
  ASSUME NEW e \in Edge, NEW a \in Agent \cup {NoAgent}
  PROVE  OpenRequestKey(e, a) \in OpenKey
  BY DEF OpenRequestKey, OpenKey

\* A handler that is not running is in the type of handlers.
LEMMA IdleType == Idle \in CallState
  <1>1. (CHOOSE e \in Edge : TRUE) \in Edge
    BY EdgesExist
  <1> QED BY <1>1 DEF Idle, CallState, Ask

\* A written grant is a grant, and is live.
LEMMA FreshGrantType ==
  ASSUME NEW sc \in SUBSET Scope
  PROVE  /\ FreshGrant(sc) \in Grant
         /\ FreshGrant(sc).state = "granted" /\ FreshGrant(sc).scopes = sc
  BY DEF FreshGrant, Grant

\* The history variable given follows the grants and never forgets.
LEMMA GivenStep ==
  ASSUME TypeOK, GivenAgrees, History, grant' \in [Edge -> Grant]
  PROVE  /\ given' \in [Edge -> SUBSET SUBSET Scope]
         /\ GivenAgrees'
         /\ GivenGrows
  <1>1. \A e \in Edge : grant'[e].scopes \in SUBSET Scope
    BY DEF Grant
  <1>2. given' \in [Edge -> SUBSET SUBSET Scope]
    BY <1>1, SMTT(30) DEF TypeOK, History
  <1>3. \A e \in Edge :
          given'[e] = IF grant'[e].state = "granted"
                      THEN given[e] \cup {grant'[e].scopes} ELSE given[e]
    BY DEF History
  <1>4. GivenGrows
    BY Zenon, <1>3 DEF GivenGrows
  <1>5. GivenAgrees'
    BY Zenon, <1>3 DEF GivenAgrees
  <1> QED BY <1>2, <1>4, <1>5

\* What enters the history of revocations: a request is in it only while it is
\* pending on an edge whose revocation stands, and enters as it is queued.
LEMMA AfterRevokeStep ==
  ASSUME TypeOK, History
  PROVE  /\ AfterRevokeOK'
         /\ afterRevoke' \in SUBSET (Call \cup ReqId)
         /\ \A r \in ReqId : r \in afterRevoke' =>
              r \in afterRevoke \/ req[r].status = "none"
  <1>1. \A r \in ReqId : r \in afterRevoke' =>
          /\ req'[r].status = "pending"
          /\ StaysRevoked(req'[r].edge)
          /\ r \in afterRevoke \/ req[r].status = "none"
    BY CallsAreNoRequests DEF History
  <1>2. afterRevoke' \in SUBSET (Call \cup ReqId)
    BY DEF History
  <1> QED BY <1>1, <1>2 DEF AfterRevokeOK, StaysRevoked, Pending

\* The parts of the invariant, put together again after a step in which the
\* handlers in D move.
LEMMA Assemble ==
  ASSUME IInv, History,
         req' \in [ReqId -> Request],
         open' \in [OpenKey -> ReqId \cup {NoReq}],
         grant' \in [Edge -> Grant],
         call' \in [Call -> CallState],
         OpenIffPending', ReqKept,
         \A d \in Call : \/ call'[d] = call[d]
                         \/ call'[d].pc \in {"idle", "create"}
                         \/ /\ call'[d].pc = "putApproved"
                            /\ WasGiven(call'[d].ask.edge, call'[d].ask.scopes)
                         \/ /\ call'[d].pc = "flip"
                            /\ call'[d].id \in ReqId
                            /\ req[call'[d].id].status # "none"
                            /\ WasGiven(req[call'[d].id].edge,
                                        req[call'[d].id].scopes)
                            /\ call'[d].id \notin afterRevoke
  PROVE  IInv'
  <1>1. /\ given' \in [Edge -> SUBSET SUBSET Scope]
        /\ GivenAgrees'
        /\ GivenGrows
    BY GivenStep DEF IInv
  <1>2. /\ AfterRevokeOK'
        /\ afterRevoke' \in SUBSET (Call \cup ReqId)
        /\ \A r \in ReqId : r \in afterRevoke' =>
             r \in afterRevoke \/ req[r].status = "none"
    BY AfterRevokeStep DEF IInv
  <1>3. TypeOK'
    BY <1>1, <1>2 DEF TypeOK
  <1>4. \A e \in Edge, sc \in SUBSET Scope : WasGiven(e, sc) => WasGiven(e, sc)'
    BY <1>1 DEF WasGiven, GivenGrows
  <1>5. \A r \in ReqId : req[r].edge \in Edge /\ req[r].scopes \in SUBSET Scope
    BY DEF IInv, TypeOK, Request
  <1>6. ASSUME NEW d \in Call PROVE CallOK(d)'
    <2>1. call'[d] \in CallState
      OBVIOUS
    <2>2. call'[d].ask.edge \in Edge /\ call'[d].ask.scopes \in SUBSET Scope
      BY <2>1 DEF CallState, Ask
    <2>3. ASSUME call'[d].pc = "putApproved"
          PROVE  WasGiven(call'[d].ask.edge, call'[d].ask.scopes)
      BY <2>3 DEF IInv, CallOK
    <2>4. ASSUME call'[d].pc = "flip"
          PROVE  /\ call'[d].id \in ReqId
                 /\ req[call'[d].id].status # "none"
                 /\ WasGiven(req[call'[d].id].edge, req[call'[d].id].scopes)
                 /\ call'[d].id \notin afterRevoke
      BY <2>4 DEF IInv, CallOK
    <2>5. (call[d].pc = "putApproved"
             => WasGiven(call[d].ask.edge, call[d].ask.scopes))'
      BY <2>2, <2>3, <1>4
    <2>6. (call[d].pc = "flip"
             => /\ call[d].id \in ReqId
                /\ req[call[d].id].status # "none"
                /\ WasGiven(req[call[d].id].edge, req[call[d].id].scopes)
                /\ call[d].id \notin afterRevoke)'
      BY <2>4, <1>2, <1>4, <1>5 DEF ReqKept
    <2> QED BY <2>5, <2>6 DEF CallOK
  <1> QED BY <1>1, <1>2, <1>3, <1>6 DEF IInv

-----------------------------------------------------------------------------
(* The kinds of step                                                         *)

\* A step that leaves the table alone: only grants and handlers move.
LEMMA TableKept ==
  ASSUME IInv, UNCHANGED <<req, open>>
  PROVE  /\ req' \in [ReqId -> Request]
         /\ open' \in [OpenKey -> ReqId \cup {NoReq}]
         /\ OpenIffPending'
         /\ ReqKept
  BY DEF IInv, TypeOK, OpenIffPending, ReqKept, Pending

\* Handler c returns.
LEMMA Returns ==
  ASSUME IInv, NEW c \in Call, Return(c)
  PROVE  /\ call' \in [Call -> CallState]
         /\ \A d \in Call : call'[d] = call[d] \/ call'[d].pc \in {"idle", "create"}
  BY IdleType DEF IInv, TypeOK, Return, Idle

\* A request is recorded under a free id and, when it is pending, under its
\* key, which holds no pending request.
LEMMA RecordStep ==
  ASSUME IInv, NEW r \in ReqId, req[r].status = "none", NEW ask \in Ask,
         NEW st \in {"pending", "approved"},
         req' = [req EXCEPT ![r] = NewRequest(ask, st)],
         \/ st = "approved" /\ UNCHANGED open
         \/ /\ st = "pending"
            /\ OpenRequest(OpenRequestKey(ask.edge, ask.agent)) = {}
            /\ open' = [open EXCEPT ![OpenRequestKey(ask.edge, ask.agent)] = r]
  PROVE  /\ req' \in [ReqId -> Request]
         /\ open' \in [OpenKey -> ReqId \cup {NoReq}]
         /\ OpenIffPending'
         /\ ReqKept
  <1> DEFINE new == NewRequest(ask, st)
             key == OpenRequestKey(ask.edge, ask.agent)
  <1>1. req \in [ReqId -> Request] /\ open \in [OpenKey -> ReqId \cup {NoReq}]
    BY DEF IInv, TypeOK
  <1>2. new \in Request /\ new.status = st /\ KeyOf(new) = key
    BY DEF Ask, NewRequest, Request, ReqStatus, KeyOf
  <1>3. key \in OpenKey
    BY KeyIsOpenKey DEF Ask
  <1>4. req' \in [ReqId -> Request] /\ open' \in [OpenKey -> ReqId \cup {NoReq}]
    BY <1>1, <1>2, <1>3
  <1>5. req'[r] = new /\ \A o \in ReqId : o # r => req'[o] = req[o]
    BY <1>1
  <1>6. ReqKept
    BY <1>5 DEF ReqKept
  <1>7. \A o \in ReqId : Pending(o) => o # r /\ Pending(o)'
    BY <1>5 DEF Pending
  <1>8. CASE st = "approved" /\ UNCHANGED open
    <2>1. \A o \in ReqId : Pending(o)' => o # r
      BY <1>2, <1>5, <1>8 DEF Pending
    <2>2. \A k \in OpenKey : open[k] # NoReq => open[k] # r
      BY DEF IInv, OpenIffPending, Pending
    <2>3. OpenIffPending'
      BY <1>1, <1>5, <1>7, <1>8, <2>1, <2>2 DEF IInv, OpenIffPending, Pending
    <2> QED BY <1>4, <1>6, <2>3
  <1>9. CASE /\ st = "pending"
             /\ OpenRequest(key) = {}
             /\ open' = [open EXCEPT ![key] = r]
    <2>1. open[key] = NoReq
      BY <1>1, <1>3, <1>9 DEF IInv, OpenIffPending, OpenRequest
    <2>2. \A o \in ReqId : Pending(o) => KeyOf(req[o]) # key
      BY <1>3, <2>1, NoReqIsNoReq DEF IInv, OpenIffPending
    <2>3. open'[key] = r /\ \A k \in OpenKey : k # key => open'[k] = open[k]
      BY <1>1, <1>3, <1>9
    <2>4. ASSUME NEW k \in OpenKey, open'[k] # NoReq
          PROVE  Pending(open[k])' /\ KeyOf(req'[open'[k]]) = k
      <3>1. CASE k = key
        BY <3>1, <2>3, <1>2, <1>5, <1>9 DEF Pending
      <3>2. CASE k # key
        <4>1. /\ open'[k] = open[k] /\ open[k] \in ReqId
              /\ Pending(open[k]) /\ KeyOf(req[open[k]]) = k
          BY <3>2, <2>3, <2>4, <1>1 DEF IInv, OpenIffPending
        <4> QED BY <4>1, <1>5, <1>7 DEF Pending
      <3> QED BY <3>1, <3>2
    <2>5. ASSUME NEW k \in OpenKey, NEW o \in ReqId, Pending(o)', KeyOf(req'[o]) = k
          PROVE  open'[k] = o
      <3>1. CASE o = r
        BY <3>1, <2>3, <2>5, <1>2, <1>5
      <3>2. CASE o # r
        <4>1. Pending(o) /\ KeyOf(req[o]) = k
          BY <3>2, <2>5, <1>5 DEF Pending
        <4> QED BY <4>1, <2>2, <2>3 DEF IInv, OpenIffPending
      <3> QED BY <3>1, <3>2
    <2>6. OpenIffPending'
      BY <2>4, <2>5 DEF OpenIffPending
    <2> QED BY <1>4, <1>6, <2>6
  <1> QED BY <1>8, <1>9

\* Pending requests are resolved and their keys freed.
LEMMA ResolveStep ==
  ASSUME IInv, NEW RS \in SUBSET ReqId, \A r \in RS : Pending(r),
         NEW st \in {"approved", "denied"}, Resolve(RS, st)
  PROVE  /\ req' \in [ReqId -> Request]
         /\ open' \in [OpenKey -> ReqId \cup {NoReq}]
         /\ OpenIffPending'
         /\ ReqKept
         /\ \A r \in ReqId \ RS : req'[r] = req[r]
         /\ \A r \in RS : req'[r] = [req[r] EXCEPT !.status = st]
  <1>1. req \in [ReqId -> Request] /\ open \in [OpenKey -> ReqId \cup {NoReq}]
    BY DEF IInv, TypeOK
  <1>2. /\ \A r \in ReqId \ RS : req'[r] = req[r]
        /\ \A r \in RS : req'[r] = [req[r] EXCEPT !.status = st]
    BY DEF Resolve
  <1>3. \A r \in RS : /\ req'[r] \in Request
                      /\ req'[r].status = st
                      /\ req'[r].edge = req[r].edge
                      /\ req'[r].agent = req[r].agent
                      /\ req'[r].scopes = req[r].scopes
    <2> TAKE r \in RS
    <2>1. req[r] \in Request /\ req'[r] = [req[r] EXCEPT !.status = st]
      BY <1>1, <1>2
    <2> QED BY <2>1 DEF Request, ReqStatus
  <1>4. req' \in [ReqId -> Request]
    <2>1. \A r \in ReqId : req'[r] \in Request
      BY <1>1, <1>2, <1>3
    <2>2. req' = [r \in ReqId |-> req'[r]]
      BY DEF Resolve
    <2> QED BY <2>1, <2>2
  <1>5. open' \in [OpenKey -> ReqId \cup {NoReq}]
    BY <1>1 DEF Resolve
  <1>6. ReqKept
    BY <1>2, <1>3 DEF ReqKept
  <1>7. \A k \in OpenKey :
          open'[k] = IF \E r \in RS : k = KeyOf(req[r]) THEN NoReq ELSE open[k]
    BY DEF Resolve
  <1>8. \A r \in ReqId : Pending(r)' <=> Pending(r) /\ r \notin RS
    BY <1>2, <1>3 DEF Pending
  <1>9. ASSUME NEW k \in OpenKey, open'[k] # NoReq
        PROVE  Pending(open[k])' /\ KeyOf(req'[open'[k]]) = k
    <2>1. /\ open'[k] = open[k] /\ open[k] \in ReqId
          /\ Pending(open[k]) /\ KeyOf(req[open[k]]) = k
          /\ open[k] \notin RS
      BY <1>1, <1>7, <1>9 DEF IInv, OpenIffPending
    <2> QED BY <2>1, <1>2 DEF Pending
  <1>10. ASSUME NEW k \in OpenKey, NEW o \in ReqId, Pending(o)', KeyOf(req'[o]) = k
         PROVE  open'[k] = o
    <2>1. Pending(o) /\ o \notin RS /\ KeyOf(req[o]) = k
      BY <1>2, <1>8, <1>10
    <2>2. open[k] = o
      BY <2>1 DEF IInv, OpenIffPending
    <2>3. \A r \in RS : KeyOf(req[r]) # k
      BY <2>1, <2>2 DEF IInv, OpenIffPending
    <2> QED BY <2>2, <2>3, <1>7
  <1>11. OpenIffPending'
    BY <1>9, <1>10 DEF OpenIffPending
  <1> QED BY <1>2, <1>4, <1>5, <1>6, <1>11

-----------------------------------------------------------------------------
(* The actions                                                               *)

\* What EvaluateConsent accepts was given by a grant of that edge.
LEMMA GrantCovers ==
  ASSUME IInv, NEW e \in Edge, NEW sc, EvaluateConsent(grant[e], sc)
  PROVE  WasGiven(e, sc)
  BY DEF IInv, GivenAgrees, EvaluateConsent, WasGiven

\* Create first reads the edge's grant, and decides which of two it will be.
LEMMA CreateFindStep ==
  ASSUME IInv, History, NEW c \in Call, NEW ask \in Asks, CreateFind(c, ask)
  PROVE  IInv'
  <1>1. ask \in Ask /\ ask.edge \in Edge
    BY MemAsksAreAsks DEF Ask
  <1> DEFINE new == [pc |-> IF EvaluateConsent(grant[ask.edge], ask.scopes)
                           THEN "putApproved" ELSE "create",
                     ask |-> ask, id |-> NoReq]
  <1>2. new \in CallState
    BY <1>1 DEF CallState
  <1>3. call' = [call EXCEPT ![c] = new] /\ call \in [Call -> CallState]
    BY DEF CreateFind, IInv, TypeOK
  <1>4. call' \in [Call -> CallState]
    BY <1>2, <1>3
  <1>5. new.pc = "putApproved" => WasGiven(ask.edge, ask.scopes)
    BY <1>1, GrantCovers
  <1>6. \A d \in Call : \/ call'[d] = call[d]
                        \/ call'[d] = new
    BY <1>3
  <1>7. new.pc \in {"create", "putApproved"} /\ new.ask = ask
    OBVIOUS
  <1>8. grant' \in [Edge -> Grant]
    BY DEF CreateFind, IInv, TypeOK
  <1> HIDE DEF new
  <1> QED BY <1>4, <1>5, <1>6, <1>7, <1>8, TableKept, Assemble DEF CreateFind

\* Create under a covering grant records an approved request.
LEMMA CreateApprovedStep ==
  ASSUME IInv, History, NEW c \in Call, NEW r \in ReqId,
         createApprovedConsentRequest(c, r)
  PROVE  IInv'
  <1>1. call[c].ask \in Ask
    BY DEF IInv, TypeOK, CallState
  <1>2. grant' \in [Edge -> Grant]
    BY DEF createApprovedConsentRequest, IInv, TypeOK
  <1> QED BY <1>1, <1>2, RecordStep, Returns, Assemble
          DEF createApprovedConsentRequest

\* Create without one records a pending request, or returns the open one.
LEMMA CreateStep ==
  ASSUME IInv, History, NEW c \in Call, NEW r \in ReqId,
         createConsentRequest(c, r)
  PROVE  IInv'
  <1>1. call[c].ask \in Ask
    BY DEF IInv, TypeOK, CallState
  <1>2. grant' \in [Edge -> Grant]
    BY DEF createConsentRequest, IInv, TypeOK
  <1>3. CASE OpenRequest(OpenRequestKey(call[c].ask.edge, call[c].ask.agent)) # {}
    BY <1>2, <1>3, TableKept, Returns, Assemble DEF createConsentRequest
  <1>4. CASE OpenRequest(OpenRequestKey(call[c].ask.edge, call[c].ask.agent)) = {}
    BY <1>1, <1>2, <1>4, RecordStep, Returns, Assemble DEF createConsentRequest
  <1> QED BY <1>3, <1>4

\* Deny resolves a pending request.
LEMMA DenyStep ==
  ASSUME IInv, History, NEW c \in Call, NEW r \in ReqId, Deny(c, r)
  PROVE  IInv'
  <1>1. grant' \in [Edge -> Grant] /\ call' \in [Call -> CallState]
    BY DEF Deny, IInv, TypeOK
  <1> QED BY <1>1, ResolveStep, Assemble DEF Deny

\* Approve writes the grant and resolves the request and its siblings.
LEMMA ApproveStep ==
  ASSUME IInv, History, NEW c \in Call, NEW r \in ReqId,
         NEW sc \in Narrowed \cup {req[r].scopes}, Approve(c, r, sc)
  PROVE  IInv'
  <1>1. req[r].edge \in Edge /\ sc \in SUBSET Scope
    BY MemNarrowedAreScopes DEF IInv, TypeOK, Request
  <1>2. grant' \in [Edge -> Grant] /\ call' \in [Call -> CallState]
    BY <1>1, FreshGrantType DEF Approve, IInv, TypeOK
  <1>3. {r} \cup Swept(r, sc) \in SUBSET ReqId
        /\ \A o \in {r} \cup Swept(r, sc) : Pending(o)
    BY DEF Approve, Swept
  <1>4. /\ req' \in [ReqId -> Request]
        /\ open' \in [OpenKey -> ReqId \cup {NoReq}]
        /\ OpenIffPending'
        /\ ReqKept
    BY <1>3, ResolveStep DEF Approve
  <1> QED BY <1>2, <1>4, Assemble DEF Approve

\* The poll's backstop finds a grant for a request still pending.
LEMMA BackstopFindStep ==
  ASSUME IInv, History, NEW c \in Call, NEW r \in ReqId, BackstopFind(c, r)
  PROVE  IInv'
  <1> DEFINE new == [Idle EXCEPT !.pc = "flip", !.id = r]
  <1>1. new \in CallState /\ new.pc = "flip" /\ new.id = r
    BY IdleType DEF CallState, Idle
  <1>2. call' = [call EXCEPT ![c] = new] /\ call \in [Call -> CallState]
    BY DEF BackstopFind, IInv, TypeOK
  <1>3. call' \in [Call -> CallState]
        /\ \A d \in Call : call'[d] = call[d] \/ call'[d] = new
    BY <1>1, <1>2
  <1>4. req[r].edge \in Edge
    BY DEF IInv, TypeOK, Request
  <1>5. /\ req[r].status # "none"
        /\ WasGiven(req[r].edge, req[r].scopes)
    BY <1>4, GrantCovers DEF BackstopFind, Pending
  <1>6. r \notin afterRevoke
    BY DEF IInv, AfterRevokeOK, BackstopFind, EvaluateConsent
  <1>7. grant' \in [Edge -> Grant]
    BY DEF BackstopFind, IInv, TypeOK
  <1> HIDE DEF new
  <1> QED BY <1>1, <1>3, <1>5, <1>6, <1>7, TableKept, Assemble DEF BackstopFind

\* The backstop flips the request it found, if it is still pending.
LEMMA ApprovePendingStep ==
  ASSUME IInv, History, NEW c \in Call, approvePendingConsentRequest(c)
  PROVE  IInv'
  <1>1. grant' \in [Edge -> Grant] /\ call[c].id \in ReqId
    BY DEF approvePendingConsentRequest, IInv, TypeOK, CallOK
  <1>2. CASE Pending(call[c].id)
    <2>1. Resolve({call[c].id}, "approved")
      BY <1>2 DEF approvePendingConsentRequest
    <2> QED BY <1>1, <1>2, <2>1, ResolveStep, Returns, Assemble
            DEF approvePendingConsentRequest
  <1>3. CASE ~ Pending(call[c].id)
    BY <1>1, <1>3, TableKept, Returns, Assemble DEF approvePendingConsentRequest
  <1> QED BY <1>2, <1>3

\* A grant is written, revoked or expires outside any request.
LEMMA GrantsStep ==
  ASSUME IInv, History, NEW e \in Edge,
         \/ \E sc \in Narrowed : upsertConsent(e, sc)
         \/ revokeConsent(e)
         \/ GrantExpires(e)
  PROVE  IInv'
  <1>1. grant \in [Edge -> Grant] /\ call \in [Call -> CallState]
    BY DEF IInv, TypeOK
  <1>2. UNCHANGED <<req, open, call>>
    BY DEF upsertConsent, revokeConsent, GrantExpires
  <1>3. grant' \in [Edge -> Grant]
    <2>1. ASSUME NEW sc \in Narrowed, upsertConsent(e, sc)
          PROVE  grant' \in [Edge -> Grant]
      BY <1>1, <2>1, MemNarrowedAreScopes, FreshGrantType DEF upsertConsent
    <2>2. CASE revokeConsent(e)
      BY <1>1, <2>2 DEF revokeConsent, Grant
    <2>3. CASE GrantExpires(e)
      BY <1>1, <2>3 DEF GrantExpires, Grant
    <2> QED BY <2>1, <2>2, <2>3
  <1> QED BY <1>1, <1>2, <1>3, TableKept, Assemble

\* Every step of a handler, of a user or of time keeps the invariant.
LEMMA NextKeeps ==
  ASSUME IInv, Next
  PROVE  IInv'
  BY CreateFindStep, CreateApprovedStep, CreateStep, DenyStep, ApproveStep,
     BackstopFindStep, ApprovePendingStep, GrantsStep DEF Next

\* A step that changes nothing keeps the invariant.
LEMMA Stutters ==
  ASSUME IInv, UNCHANGED vars
  PROVE  IInv'
  BY DEF IInv, vars, TypeOK, OpenIffPending, GivenAgrees, AfterRevokeOK, CallOK,
         Pending, WasGiven

\* The empty store satisfies the invariant.
LEMMA InitHolds == Init => IInv
  <1> SUFFICES ASSUME Init PROVE IInv
    OBVIOUS
  <1>1. AbsentRequest \in Request /\ NoGrant \in Grant /\ AbsentRequest.status = "none"
    BY EdgesExist DEF AbsentRequest, Request, ReqStatus, NoGrant, Grant
  <1>2. TypeOK
    BY <1>1, IdleType DEF Init, TypeOK
  <1>3. OpenIffPending /\ AfterRevokeOK
    BY <1>1 DEF Init, OpenIffPending, Pending, AfterRevokeOK
  <1>4. GivenAgrees /\ \A c \in Call : CallOK(c)
    BY DEF Init, GivenAgrees, NoGrant, CallOK, Idle
  <1> QED BY <1>2, <1>3, <1>4 DEF IInv

\* The invariant the theorems rest on: besides the types, that keys and
\* pending requests match, that every grant was given, and what the handlers
\* and the history of revocations know between two locked sections.
THEOREM MemInvariant == Spec => []IInv
  BY InitHolds, NextKeeps, Stutters, PTL DEF Spec

\* The maps of the in-memory store hold what their types say.
THEOREM MemTypeCorrect == Spec => []TypeOK
  <1>1. IInv => TypeOK
    BY DEF IInv
  <1> QED BY MemInvariant, <1>1, PTL

\* openRequests holds a key exactly while consentRequests holds a pending
\* request under it: creates, denials, sweeps and late flips keep them in step.
THEOREM KeysMatchRequests == Spec => []OpenIffPending
  <1>1. IInv => OpenIffPending
    BY DEF IInv
  <1> QED BY MemInvariant, <1>1, PTL

\* A request asked for after a revocation is approved only with a new grant:
\* a flip that lingers from before the revocation is not for that request.
THEOREM RevokedEdgeAsksAgain == Spec => RevokedEdgeReprompts
  <1> DEFINE Anew == \A r \in ReqId \cap afterRevoke :
                       req'[r].status = "approved"
                         => grant'[req[r].edge].state # "revoked"
  <1>1. ASSUME IInv, Next PROVE Anew
    <2> SUFFICES ASSUME NEW r \in ReqId, r \in afterRevoke,
                        req'[r].status = "approved"
                 PROVE  grant'[req[r].edge].state # "revoked"
      OBVIOUS
    <2>1. /\ Pending(r) /\ req[r].edge \in Edge
          /\ req \in [ReqId -> Request] /\ grant \in [Edge -> Grant]
      BY <1>1 DEF IInv, AfterRevokeOK, TypeOK, Request
    <2>2. req'[r] # req[r]
      BY <2>1 DEF Pending
    <2>3. ASSUME NEW c \in Call, NEW o \in ReqId,
                 \/ createApprovedConsentRequest(c, o)
                 \/ createConsentRequest(c, o)
          PROVE  FALSE
      <3>1. UNCHANGED req \/ \E x : /\ req[o].status = "none"
                                    /\ req' = [req EXCEPT ![o] = x]
        BY <2>3 DEF createApprovedConsentRequest, createConsentRequest
      <3> QED BY <3>1, <2>1, <2>2 DEF Pending
    <2>4. ASSUME NEW c \in Call, NEW o \in ReqId, Deny(c, o) PROVE FALSE
      <3>1. Pending(o) /\ Resolve({o}, "denied")
        BY <2>4 DEF Deny
      <3>2. req'[r] = req[r] \/ req'[r] = [req[r] EXCEPT !.status = "denied"]
        BY <1>1, <3>1, ResolveStep
      <3> QED BY <3>2, <2>1, <2>2 DEF Request
    <2>5. ASSUME NEW c \in Call, NEW o \in ReqId,
                 NEW sc \in Narrowed \cup {req[o].scopes}, Approve(c, o, sc)
          PROVE  grant'[req[r].edge].state # "revoked"
      <3>1. /\ Resolve({o} \cup Swept(o, sc), "approved")
            /\ grant' = [grant EXCEPT ![req[o].edge] = FreshGrant(sc)]
        BY <2>5 DEF Approve
      <3>2. r \in {o} \cup Swept(o, sc)
        BY <3>1, <2>1, <2>2 DEF Resolve
      <3>3. req[r].edge = req[o].edge
        BY <3>2 DEF Swept
      <3> QED BY <3>1, <3>3, <2>1 DEF FreshGrant
    <2>6. ASSUME NEW c \in Call, approvePendingConsentRequest(c) PROVE FALSE
      <3>1. call[c].id \in ReqId /\ call[c].id \notin afterRevoke
        BY <1>1, <2>6 DEF IInv, CallOK, approvePendingConsentRequest
      <3>2. UNCHANGED req \/ Resolve({call[c].id}, "approved")
        BY <2>6 DEF approvePendingConsentRequest
      <3> QED BY <3>1, <3>2, <2>1, <2>2 DEF Resolve
    <2>7. ASSUME UNCHANGED req PROVE FALSE
      BY <2>7, <2>2
    <2> QED BY <1>1, <2>3, <2>4, <2>5, <2>6, <2>7
            DEF Next, CreateFind, BackstopFind, upsertConsent, revokeConsent,
                GrantExpires
  <1>2. ASSUME IInv, [Next]_vars PROVE [Anew]_vars
    BY <1>1, <1>2
  <1>3. Spec => [][Anew]_vars
    BY MemInvariant, <1>2, PTL DEF Spec
  <1> QED BY <1>3 DEF RevokedEdgeReprompts

-----------------------------------------------------------------------------
(* The store implements the broker                                           *)

\* Nothing new is given unless a grant is written.
LEMMA NothingGiven ==
  ASSUME IInv, History,
         \A e \in Edge : grant'[e].state = "granted" =>
                           /\ grant[e].state = "granted"
                           /\ grant'[e].scopes = grant[e].scopes
  PROVE  given' = given
  <1>1. given \in [Edge -> SUBSET SUBSET Scope]
    BY DEF IInv, TypeOK
  <1>2. \A e \in Edge : (IF grant'[e].state = "granted"
                         THEN given[e] \cup {grant'[e].scopes}
                         ELSE given[e]) = given[e]
    BY Zenon DEF IInv, GivenAgrees
  <1>3. given' = [e \in Edge |-> given[e]]
    BY Zenon, <1>2 DEF History
  <1> QED BY <1>1, <1>3

\* Writing a grant is the broker's WriteGrant.
LEMMA GrantIsWritten ==
  ASSUME IInv, History, NEW e \in Edge, NEW sc \in SUBSET Scope,
         grant' = [grant EXCEPT ![e] = FreshGrant(sc)]
  PROVE  Broker!WriteGrant(e, sc)
  <1>1. /\ given \in [Edge -> SUBSET SUBSET Scope]
        /\ grant \in [Edge -> Grant]
    BY DEF IInv, TypeOK
  <1>2. grant' = [grant EXCEPT ![e] = Broker!FreshGrant(sc)]
    BY DEF FreshGrant, Broker!FreshGrant
  <1>3. grant'[e].state = "granted" /\ grant'[e].scopes = sc
    BY <1>1, FreshGrantType
  <1>4. \A x \in Edge : x # e => grant'[x] = grant[x]
    BY <1>1
  <1>5. \A x \in Edge : (IF grant'[x].state = "granted"
                         THEN given[x] \cup {grant'[x].scopes} ELSE given[x])
                        = IF x = e THEN given[x] \cup {sc} ELSE given[x]
    BY Zenon, <1>3, <1>4 DEF IInv, GivenAgrees
  <1>6. given' = [x \in Edge |-> IF x = e THEN given[x] \cup {sc} ELSE given[x]]
    BY Zenon, <1>5 DEF History
  <1>7. given' = [given EXCEPT ![e] = @ \cup {sc}]
    BY Zenon, <1>1, <1>6
  <1> QED BY <1>2, <1>7 DEF Broker!WriteGrant

\* A handler that only reads or returns is invisible to the broker.
LEMMA Invisible ==
  ASSUME IInv, History, UNCHANGED <<req, grant>>
  PROVE  UNCHANGED Broker!vars
  BY NothingGiven DEF Broker!vars

\* Recording a pending request is the broker's Queue, or invisible to it.
LEMMA CreateQueues ==
  ASSUME IInv, History, NEW c \in Call, NEW r \in ReqId,
         createConsentRequest(c, r)
  PROVE  Broker!Next \/ UNCHANGED Broker!vars
  <1> DEFINE ask == call[c].ask
             key == OpenRequestKey(ask.edge, ask.agent)
  <1>1. ask \in Ask /\ Ask = Broker!Ask
    BY DEF IInv, TypeOK, CallState, Ask, Broker!Ask
  <1>2. CASE OpenRequest(key) # {}
    BY <1>2, Invisible DEF createConsentRequest
  <1>3. CASE OpenRequest(key) = {}
    <2>1. key \in OpenKey
      BY <1>1, KeyIsOpenKey DEF Ask
    <2>2. \A o \in ReqId : Pending(o) => KeyOf(req[o]) # key
      BY <1>3, <2>1 DEF IInv, OpenIffPending, OpenRequest
    <2>3. \A o \in ReqId :
            req[o].status = "pending" =>
              Broker!KeyOf(req[o]) # Broker!OpenRequestKey(ask.edge, ask.agent)
      BY <2>2 DEF Pending, KeyOf, OpenRequestKey, Broker!KeyOf,
                  Broker!OpenRequestKey
    <2>4. /\ req[r].status = "none"
          /\ req' = [req EXCEPT ![r] = Broker!NewRequest(ask, "pending")]
      BY <1>3 DEF createConsentRequest, NewRequest, Broker!NewRequest
    <2>5. UNCHANGED <<grant, given>>
      BY NothingGiven DEF createConsentRequest
    <2>6. Broker!Queue(r, ask)
      BY Zenon, <2>3, <2>4, <2>5 DEF Broker!Queue
    <2> QED BY <1>1, <2>6 DEF Broker!Next
  <1> QED BY <1>2, <1>3

\* Recording an approved request is a step of the broker.
LEMMA CreateApprovedQueues ==
  ASSUME IInv, History, NEW c \in Call, NEW r \in ReqId,
         createApprovedConsentRequest(c, r)
  PROVE  Broker!Next
  <1> DEFINE ask == call[c].ask
  <1>1. ask \in Ask /\ Ask = Broker!Ask
    BY DEF IInv, TypeOK, CallState, Ask, Broker!Ask
  <1>2. Broker!WasGiven(ask.edge, ask.scopes)
    BY DEF IInv, CallOK, createApprovedConsentRequest, WasGiven, Covered,
           Broker!WasGiven, Broker!Covered
  <1>3. req' = [req EXCEPT ![r] = Broker!NewRequest(ask, "approved")]
    BY DEF createApprovedConsentRequest, NewRequest, Broker!NewRequest
  <1>4. UNCHANGED <<grant, given>>
    BY NothingGiven DEF createApprovedConsentRequest
  <1>5. Broker!QueueApproved(r, ask)
    BY Zenon, <1>2, <1>3, <1>4
       DEF createApprovedConsentRequest, Broker!QueueApproved
  <1> QED BY <1>1, <1>5 DEF Broker!Next

\* The locked section of an approval is the broker's Approve, sweep included.
LEMMA ApproveApproves ==
  ASSUME IInv, History, NEW c \in Call, NEW r \in ReqId,
         NEW sc \in Narrowed \cup {req[r].scopes}, Approve(c, r, sc)
  PROVE  Broker!Next
  <1>1. req[r].edge \in Edge /\ sc \in SUBSET Scope
    BY MemNarrowedAreScopes DEF IInv, TypeOK, Request
  <1>2. Broker!WriteGrant(req[r].edge, sc)
    BY <1>1, GrantIsWritten DEF Approve
  <1>3. Swept(r, sc) \in SUBSET ReqId /\ {r} \cup Swept(r, sc) = Swept(r, sc) \cup {r}
    BY DEF Swept
  <1>4. req' = [o \in ReqId |-> IF o \in Swept(r, sc) \cup {r}
                                THEN [req[o] EXCEPT !.status = "approved"]
                                ELSE req[o]]
    BY <1>3 DEF Approve, Resolve
  <1>5. /\ req[r].status = "pending"
        /\ \A o \in Swept(r, sc) : /\ req[o].status = "pending"
                                   /\ req[o].edge = req[r].edge
                                   /\ Broker!Covered(req[o].scopes, sc)
    BY DEF Approve, Swept, Pending, Covered, Broker!Covered
  <1>6. Broker!Approve(r, sc, Swept(r, sc))
    BY Zenon, <1>2, <1>4, <1>5 DEF Broker!Approve
  <1> QED BY <1>1, <1>3, <1>6 DEF Broker!Next

\* One request is resolved by itself: the table with one entry changed.
LEMMA ResolveOne ==
  ASSUME IInv, NEW r \in ReqId, NEW st, Resolve({r}, st)
  PROVE  req' = [req EXCEPT ![r].status = st]
  <1>1. req \in [ReqId -> Request]
    BY DEF IInv, TypeOK
  <1>2. req' = [o \in ReqId |-> IF o \in {r} THEN [req[o] EXCEPT !.status = st]
                                ELSE req[o]]
    BY DEF Resolve
  <1> QED BY Zenon, <1>1, <1>2

\* The backstop's flip is the broker's approval under a grant.
LEMMA FlipIsCovered ==
  ASSUME IInv, History, NEW c \in Call, approvePendingConsentRequest(c)
  PROVE  Broker!Next \/ UNCHANGED Broker!vars
  <1> DEFINE r == call[c].id
  <1>1. r \in ReqId /\ WasGiven(req[r].edge, req[r].scopes)
    BY DEF IInv, CallOK, approvePendingConsentRequest
  <1>2. CASE Pending(r)
    <2>1. req' = [req EXCEPT ![r].status = "approved"]
      BY <1>1, <1>2, ResolveOne DEF approvePendingConsentRequest
    <2>2. UNCHANGED <<grant, given>>
      BY NothingGiven DEF approvePendingConsentRequest
    <2>3. Broker!WasGiven(req[r].edge, req[r].scopes)
      BY <1>1 DEF WasGiven, Covered, Broker!WasGiven, Broker!Covered
    <2>4. Broker!ApproveCovered(r)
      BY <1>2, <2>1, <2>2, <2>3 DEF Pending, Broker!ApproveCovered
    <2> QED BY <1>1, <2>4 DEF Broker!Next
  <1>3. CASE ~ Pending(r)
    BY <1>3, Invisible DEF approvePendingConsentRequest
  <1> QED BY <1>2, <1>3

\* Deny is the broker's Deny.
LEMMA DenyDenies ==
  ASSUME IInv, History, NEW c \in Call, NEW r \in ReqId, Deny(c, r)
  PROVE  Broker!Next
  <1>1. req' = [req EXCEPT ![r].status = "denied"]
    BY ResolveOne DEF Deny
  <1>2. UNCHANGED <<grant, given>>
    BY NothingGiven DEF Deny
  <1>3. Broker!Deny(r)
    BY <1>1, <1>2 DEF Deny, Pending, Broker!Deny
  <1> QED BY <1>3 DEF Broker!Next

\* Writing, revoking and expiring a grant are the broker's own steps.
LEMMA GrantsAreGrants ==
  ASSUME IInv, History, NEW e \in Edge,
         \/ \E sc \in Narrowed : upsertConsent(e, sc)
         \/ revokeConsent(e)
         \/ GrantExpires(e)
  PROVE  Broker!Next
  <1>1. grant \in [Edge -> Grant] /\ grant[e] \in Grant
    BY DEF IInv, TypeOK
  <1>2. ASSUME NEW sc \in Narrowed, upsertConsent(e, sc) PROVE Broker!Next
    <2>1. sc \in SUBSET Scope
      BY MemNarrowedAreScopes
    <2>2. Broker!WriteGrant(e, sc) /\ UNCHANGED req
      BY <1>2, <2>1, GrantIsWritten DEF upsertConsent
    <2> QED BY <2>1, <2>2 DEF Broker!Next, Broker!PostConsent
  <1>3. CASE revokeConsent(e)
    <2>1. grant' = [grant EXCEPT ![e].state = "revoked"]
      BY <1>3 DEF revokeConsent
    <2>2. given' = given
      BY <1>1, <2>1, NothingGiven DEF Grant
    <2>3. Broker!Revoke(e)
      BY <1>3, <2>1, <2>2 DEF revokeConsent, Broker!Revoke
    <2> QED BY <2>3 DEF Broker!Next
  <1>4. CASE GrantExpires(e)
    <2>1. grant' = [grant EXCEPT ![e].expired = TRUE]
      BY <1>4 DEF GrantExpires
    <2>2. given' = given
      BY <1>1, <2>1, NothingGiven DEF Grant
    <2>3. Broker!Expire(e)
      BY <1>4, <2>1, <2>2 DEF GrantExpires, Broker!Expire
    <2> QED BY <2>3 DEF Broker!Next
  <1> QED BY <1>2, <1>3, <1>4

\* Every step of the store is a step of the broker, or invisible to it.
LEMMA NextImplements ==
  ASSUME IInv, Next
  PROVE  Broker!Next \/ UNCHANGED Broker!vars
  <1>1. History
    BY DEF Next
  <1>2. ASSUME NEW c \in Call,
               \/ \E ask \in Asks : CreateFind(c, ask)
               \/ \E r \in ReqId : BackstopFind(c, r)
        PROVE  UNCHANGED Broker!vars
    BY <1>1, <1>2, Invisible DEF CreateFind, BackstopFind
  <1> QED BY <1>1, <1>2, CreateQueues, CreateApprovedQueues, ApproveApproves,
             FlipIsCovered, DenyDenies, GrantsAreGrants DEF Next

\* The in-memory store keeps the same promises as the DynamoDB one: with each
\* locked section one step, it shows only what ConsentBroker allows.
THEOREM MemImplements == Spec => RefinesBroker
  <1>1. Init => Broker!Init
    BY DEF Init, Broker!Init, AbsentRequest, Broker!AbsentRequest, NoGrant,
           Broker!NoGrant
  <1>2. IInv /\ [Next]_vars => [Broker!Next]_(Broker!vars)
    <2>1. ASSUME UNCHANGED vars PROVE UNCHANGED Broker!vars
      BY <2>1 DEF vars, Broker!vars
    <2> QED BY <2>1, NextImplements
  <1> QED BY MemInvariant, <1>1, <1>2, PTL
          DEF Spec, RefinesBroker, Broker!Spec
=============================================================================
