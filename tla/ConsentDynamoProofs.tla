------------------------ MODULE ConsentDynamoProofs -------------------------
(* Proofs about ConsentDynamo, for any number of edges, agents, scopes,      *)
(* requests and concurrent handlers: its types, that one open key has at     *)
(* most one pending request, that an approved request has a grant, that a    *)
(* resolved request is final, and that the store implements ConsentBroker.   *)
EXTENDS ConsentDynamo, TLAPS

\* A leaf that names no prover is one for Zenon.
USE ZenonT(30)

WasGiven(e, sc) == \E g \in given[e] : Covered(sc, g)

Resolved(r) == req[r].status \in {"approved", "denied"}

\* The marker of a key points at the pending request of the key...
Marked == \A r \in ReqId : Pending(r) => open[KeyOf(req[r])] = r

\* ... and never at a request that does not exist.
MarkersPointAtRequests ==
  \A k \in OpenKey : open[k] # NoReq => req[open[k]].status # "none"

\* The history variable and the grants agree.
GivenAgrees ==
  \A e \in Edge : /\ given[e] # {} => grant[e].state # "none"
                  /\ grant[e].state = "granted" => grant[e].scopes \in given[e]

\* What handler c knows of the store still holds, however long ago it read it.
CallOK(c) ==
  /\ call[c].pc = "putApproved"
       => WasGiven(call[c].ask.edge, call[c].ask.scopes)
  /\ call[c].pc = "readReq"
       => call[c].id \in ReqId /\ req[call[c].id].status # "none"
  /\ call[c].pc \in {"delMarker", "free", "sweepFree"}
       => call[c].id \in ReqId /\ Resolved(call[c].id)
  /\ call[c].pc = "sweepQuery" \/ (call[c].pc = "free" /\ ~ call[c].last)
       => call[c].ask.scopes \in given[call[c].ask.edge]
  /\ \A o \in call[c].todo : /\ req[o].status # "none"
                             /\ WasGiven(req[o].edge, req[o].scopes)
  /\ call[c].pc = "flip"
       => /\ call[c].last
          /\ call[c].id \in ReqId
          /\ req[call[c].id].status # "none"
          /\ WasGiven(req[call[c].id].edge, req[call[c].id].scopes)

IInv ==
  /\ TypeOK
  /\ Marked
  /\ MarkersPointAtRequests
  /\ GivenAgrees
  /\ ApprovedHasGrant
  /\ \A c \in Call \cup Poller : CallOK(c)

\* What no step of the store undoes.
ReqKept ==
  \A r \in ReqId :
    req[r].status # "none" =>
      /\ req'[r].status # "none"
      /\ req'[r].edge = req[r].edge
      /\ req'[r].scopes = req[r].scopes
      /\ Resolved(r) => req'[r] = req[r]

GrantsKept ==
  \A e \in Edge : grant[e].state # "none" => grant'[e].state # "none"

GivenGrows == \A e \in Edge : given[e] \subseteq given'[e]

-----------------------------------------------------------------------------
(* The operators                                                             *)

\* Every request has an open key (OpenRequestKey of consent.go).
LEMMA KeyIsOpenKey ==
  ASSUME NEW e \in Edge, NEW a \in Agent \cup {NoAgent}
  PROVE  OpenRequestKey(e, a) \in OpenKey
  BY DEF OpenRequestKey, OpenKey

\* A handler that is not running is in the type of handlers.
LEMMA IdleType == Idle \in CallState
  <1>1. (CHOOSE e \in Edge : TRUE) \in Edge
    BY EdgesExist
  <1>2. 0 \in 0 .. (txnConflictBudget - 1)
    BY BudgetIsPositive, SMTT(30)
  <1> QED BY <1>1, <1>2 DEF Idle, CallState, PC, Ask

\* What the history variable records is never forgotten.
LEMMA GivenStep ==
  ASSUME TypeOK, GivenAgrees, History, grant' \in [Edge -> Grant], GrantsKept
  PROVE  /\ given' \in [Edge -> SUBSET SUBSET Scope]
         /\ GivenAgrees'
         /\ GivenGrows
  <1>1. \A e \in Edge : grant'[e].scopes \in SUBSET Scope
    BY DEF Grant
  <1>2. given' \in [Edge -> SUBSET SUBSET Scope]
    BY <1>1, SMTT(30) DEF TypeOK, History
  <1>3. \A e \in Edge :
          given'[e] = IF grant'[e].state = "granted"
                      THEN given[e] \cup {grant'[e].scopes} ELSE given[e]
    BY DEF History
  <1>4. GivenGrows
    BY Zenon, <1>3 DEF GivenGrows
  <1>5. GivenAgrees'
    BY Zenon, <1>3 DEF GivenAgrees, GrantsKept
  <1> QED BY <1>2, <1>4, <1>5

\* What a handler knows survives the steps of the others.
LEMMA CallFrame ==
  ASSUME TypeOK, ReqKept, GivenGrows, NEW d \in Call \cup Poller,
         CallOK(d), call'[d] = call[d]
  PROVE  CallOK(d)'
  <1>1. call[d] \in CallState
    BY DEF TypeOK
  <1>2. \A e \in Edge, sc \in SUBSET Scope : WasGiven(e, sc) => WasGiven(e, sc)'
    BY DEF WasGiven, GivenGrows
  <1>3. \A r \in ReqId : req[r].edge \in Edge /\ req[r].scopes \in SUBSET Scope
    BY DEF TypeOK, Request
  <1>4. /\ call[d].ask.edge \in Edge
        /\ call[d].ask.scopes \in SUBSET Scope
        /\ call[d].todo \subseteq ReqId
    BY <1>1 DEF CallState, Ask
  <1> QED BY <1>2, <1>3, <1>4, SMTT(30)
          DEF CallOK, ReqKept, GivenGrows, Resolved, WasGiven

\* The parts of the invariant, put together again after a step of handler c.
LEMMA Assemble ==
  ASSUME IInv, History, NEW c \in Call \cup Poller,
         req' \in [ReqId -> Request],
         open' \in [OpenKey -> ReqId \cup {NoReq}],
         grant' \in [Edge -> Grant],
         call' \in [Call \cup Poller -> CallState],
         \A d \in Call \cup Poller : d # c => call'[d] = call[d],
         ReqKept, GrantsKept,
         Marked', MarkersPointAtRequests', ApprovedHasGrant',
         GivenGrows => CallOK(c)'
  PROVE  IInv'
  <1>1. /\ given' \in [Edge -> SUBSET SUBSET Scope]
        /\ GivenAgrees'
        /\ GivenGrows
    BY GivenStep DEF IInv
  <1>2. TypeOK'
    BY <1>1 DEF TypeOK
  <1>3. ASSUME NEW d \in Call \cup Poller PROVE CallOK(d)'
    <2>1. CASE d = c
      BY <2>1, <1>1
    <2>2. CASE d # c
      BY <2>2, <1>1, CallFrame DEF IInv
    <2> QED BY <2>1, <2>2
  <1> QED BY <1>1, <1>2, <1>3 DEF IInv

-----------------------------------------------------------------------------
(* The kinds of step                                                         *)

\* A handler that stops knows nothing of the store.
LEMMA IdleKnowsNothing ==
  ASSUME NEW c \in Call \cup Poller, call'[c] = Idle
  PROVE  CallOK(c)'
  BY SMTT(30) DEF CallOK, Idle

\* A step that reads the store, or only moves a handler.
LEMMA ReadStep ==
  ASSUME IInv, History, NEW c \in Call \cup Poller, UNCHANGED store,
         call' \in [Call \cup Poller -> CallState],
         \A d \in Call \cup Poller : d # c => call'[d] = call[d],
         GivenGrows => CallOK(c)'
  PROVE  IInv' /\ ReqKept
  <1>1. req' = req /\ open' = open /\ grant' = grant
    BY DEF store
  <1>2. /\ req' \in [ReqId -> Request]
        /\ open' \in [OpenKey -> ReqId \cup {NoReq}]
        /\ grant' \in [Edge -> Grant]
    BY <1>1 DEF IInv, TypeOK
  <1>3. ReqKept /\ GrantsKept
    BY <1>1 DEF ReqKept, GrantsKept
  <1>4. Marked' /\ MarkersPointAtRequests' /\ ApprovedHasGrant'
    BY <1>1 DEF IInv, Marked, MarkersPointAtRequests, ApprovedHasGrant,
                Pending
  <1> QED BY <1>2, <1>3, <1>4, Assemble

\* A pending request is approved, or denied: what that means for the table.
LEMMA FlipStep ==
  ASSUME IInv, NEW r \in ReqId, Pending(r), NEW st \in {"approved", "denied"},
         req' = [req EXCEPT ![r].status = st], UNCHANGED open, GrantsKept,
         st = "approved" => grant'[req[r].edge].state # "none"
  PROVE  /\ req' \in [ReqId -> Request]
         /\ open' \in [OpenKey -> ReqId \cup {NoReq}]
         /\ ReqKept
         /\ Marked' /\ MarkersPointAtRequests' /\ ApprovedHasGrant'
  <1>1. req \in [ReqId -> Request] /\ open \in [OpenKey -> ReqId \cup {NoReq}]
    BY DEF IInv, TypeOK
  <1>2. req[r] \in Request
    BY <1>1
  <1>3. [req[r] EXCEPT !.status = st] \in Request
    BY <1>2 DEF Request, ReqStatus
  <1>4. req' = [req EXCEPT ![r] = [req[r] EXCEPT !.status = st]]
    BY <1>1
  <1>5. req' \in [ReqId -> Request]
    BY <1>1, <1>3, <1>4
  <1>6. \A o \in ReqId : o # r => req'[o] = req[o]
    BY <1>1, <1>4
  <1>7. /\ req'[r].status = st
        /\ req'[r].edge = req[r].edge
        /\ req'[r].agent = req[r].agent
        /\ req'[r].scopes = req[r].scopes
    BY <1>1, <1>2, <1>4 DEF Request
  <1>8. ReqKept
    BY <1>6, <1>7 DEF ReqKept, Resolved, Pending
  <1>9. Marked'
    BY <1>6, <1>7 DEF IInv, Marked, Pending, KeyOf
  <1>10. MarkersPointAtRequests'
    BY <1>6, <1>7, <1>1 DEF IInv, MarkersPointAtRequests
  <1>11. ApprovedHasGrant'
    <2>1. \A o \in ReqId : req[o].edge \in Edge
      BY <1>1 DEF Request
    <2> QED BY <1>6, <1>7, <2>1 DEF IInv, ApprovedHasGrant, GrantsKept
  <1> QED BY <1>1, <1>5, <1>8, <1>9, <1>10, <1>11

\* The marker of a resolved request is deleted, if it is still its own.
LEMMA UnmarkStep ==
  ASSUME IInv, NEW key \in OpenKey, NEW id \in ReqId, Resolved(id),
         open' = MarkerWithout(key, id) \/ UNCHANGED open,
         UNCHANGED <<req, grant>>
  PROVE  /\ req' \in [ReqId -> Request]
         /\ open' \in [OpenKey -> ReqId \cup {NoReq}]
         /\ grant' \in [Edge -> Grant]
         /\ ReqKept /\ GrantsKept
         /\ Marked' /\ MarkersPointAtRequests' /\ ApprovedHasGrant'
  <1>1. /\ req \in [ReqId -> Request]
        /\ open \in [OpenKey -> ReqId \cup {NoReq}]
        /\ grant \in [Edge -> Grant]
    BY DEF IInv, TypeOK
  <1>2. open' \in [OpenKey -> ReqId \cup {NoReq}]
    BY <1>1 DEF MarkerWithout
  <1>3. \A k \in OpenKey : open'[k] = open[k]
                           \/ (open[k] = id /\ open'[k] = NoReq)
    BY <1>1 DEF MarkerWithout
  <1>4. \A r \in ReqId : KeyOf(req[r]) \in OpenKey
    BY <1>1, KeyIsOpenKey DEF KeyOf, Request
  <1>5. Marked'
    BY <1>3, <1>4 DEF IInv, Marked, Pending, Resolved
  <1>6. MarkersPointAtRequests'
    BY <1>3 DEF IInv, MarkersPointAtRequests
  <1>7. ReqKept /\ GrantsKept /\ ApprovedHasGrant'
    BY DEF IInv, ReqKept, GrantsKept, ApprovedHasGrant
  <1> QED BY <1>1, <1>2, <1>5, <1>6, <1>7

\* A grant is written or changed and no handler moves.
LEMMA GrantStep ==
  ASSUME IInv, History, UNCHANGED <<req, open, call>>,
         grant' \in [Edge -> Grant], GrantsKept
  PROVE  IInv' /\ ReqKept
  <1>1. /\ given' \in [Edge -> SUBSET SUBSET Scope]
        /\ GivenAgrees'
        /\ GivenGrows
    BY GivenStep DEF IInv
  <1>2. TypeOK'
    BY <1>1 DEF IInv, TypeOK
  <1>3. ReqKept
    BY DEF ReqKept
  <1>4. Marked' /\ MarkersPointAtRequests'
    BY DEF IInv, Marked, MarkersPointAtRequests, Pending
  <1>5. ApprovedHasGrant'
    <2>1. \A o \in ReqId : req[o].edge \in Edge
      BY DEF IInv, TypeOK, Request
    <2> QED BY <2>1 DEF IInv, ApprovedHasGrant, GrantsKept
  <1>6. \A d \in Call \cup Poller : CallOK(d)'
    BY <1>1, <1>3, CallFrame DEF IInv
  <1> QED BY <1>1, <1>2, <1>3, <1>4, <1>5, <1>6 DEF IInv

-----------------------------------------------------------------------------
(* POST /v1/consent-requests                                                 *)

\* A covering grant was given at some time.
LEMMA CoveredWasGiven ==
  ASSUME TypeOK, GivenAgrees, NEW e \in Edge, NEW sc \in SUBSET Scope,
         EvaluateConsent(grant[e], sc)
  PROVE  WasGiven(e, sc)
  BY DEF GivenAgrees, EvaluateConsent, WasGiven

\* What was given once is still given after the step.
LEMMA StillGiven ==
  ASSUME GivenGrows, NEW e \in Edge, NEW sc, WasGiven(e, sc)
  PROVE  WasGiven(e, sc)'
  BY DEF GivenGrows, WasGiven

\* A handler's step moves no other handler.
LEMMA Moves ==
  ASSUME IInv, NEW c \in Call \cup Poller, NEW new \in CallState, Become(c, new)
  PROVE  /\ call' \in [Call \cup Poller -> CallState]
         /\ call'[c] = new
         /\ \A d \in Call \cup Poller : d # c => call'[d] = call[d]
  BY DEF IInv, TypeOK, Become

\* A handler that returns moves like any other, and knows nothing then.
LEMMA Returns ==
  ASSUME IInv, NEW c \in Call \cup Poller, Return(c)
  PROVE  /\ call' \in [Call \cup Poller -> CallState]
         /\ \A d \in Call \cup Poller : d # c => call'[d] = call[d]
         /\ CallOK(c)'
  BY Moves, IdleType, IdleKnowsNothing DEF Return

\* The siblings the sweep has still to visit stay covered.
LEMMA TodoKept ==
  ASSUME IInv, ReqKept, GivenGrows, NEW c \in Call \cup Poller,
         NEW o \in call[c].todo
  PROVE  /\ o \in ReqId
         /\ req'[o].status # "none"
         /\ WasGiven(req[o].edge, req[o].scopes)'
  <1>1. o \in ReqId /\ CallOK(c)
    BY DEF IInv, TypeOK, CallState
  <1>2. req[o].edge \in Edge
    BY <1>1 DEF IInv, TypeOK, Request
  <1> QED BY <1>1, <1>2 DEF CallOK, ReqKept, GivenGrows, WasGiven

\* Retry sends the handler to the transaction again, within the budget, or
\* returns.
LEMMA Retries ==
  ASSUME IInv, ReqKept, NEW c \in Call \cup Poller, Retry(c)
  PROVE  /\ call' \in [Call \cup Poller -> CallState]
         /\ \A d \in Call \cup Poller : d # c => call'[d] = call[d]
         /\ GivenGrows => CallOK(c)'
  <1>1. call[c] \in CallState
    BY DEF IInv, TypeOK
  <1> DEFINE new == [call[c] EXCEPT !.pc = "txn", !.id = NoReq,
                                    !.tries = @ + 1]
  <1>2. CASE call[c].tries + 1 < txnConflictBudget /\ Become(c, new)
    <2>1. call[c].tries + 1 \in 0 .. (txnConflictBudget - 1)
      BY <1>1, <1>2, BudgetIsPositive, SMTT(30) DEF CallState
    <2>2. new \in CallState /\ new.pc = "txn" /\ new.todo = call[c].todo
      BY Zenon, <1>1, <2>1 DEF CallState, PC
    <2>3. /\ call' \in [Call \cup Poller -> CallState] /\ call'[c] = new
          /\ \A d \in Call \cup Poller : d # c => call'[d] = call[d]
      BY <1>2, <2>2, Moves
    <2>4. ASSUME GivenGrows PROVE CallOK(c)'
      <3>1. call'[c].pc = "txn" /\ call'[c].todo = call[c].todo
        BY <2>2, <2>3
      <3> QED BY <3>1, <2>4, TodoKept DEF CallOK
    <2> QED BY <2>3, <2>4
  <1> QED BY <1>2, Returns DEF Retry

\* Each handler step of the create path, in the order of the code.
LEMMA CreateFindKeeps ==
  ASSUME IInv, History, NEW c \in Call, NEW ask \in Asks, CreateFind(c, ask)
  PROVE  IInv' /\ ReqKept
  <1>1. ask \in Ask /\ ask.edge \in Edge /\ ask.scopes \in SUBSET Scope
    BY AsksAreAsks DEF Ask
  <1> DEFINE covered == EvaluateConsent(grant[ask.edge], ask.scopes)
             new == [Idle EXCEPT !.pc = IF covered THEN "putApproved"
                                        ELSE "txn",
                                 !.ask = ask]
  <1>2. /\ new \in CallState /\ new.todo = {} /\ new.ask = ask
        /\ new.pc = IF covered THEN "putApproved" ELSE "txn"
    BY Zenon, <1>1, IdleType DEF CallState, PC, Idle
  <1>3. Become(c, new) /\ UNCHANGED store
    BY DEF CreateFind
  <1> HIDE DEF new
  <1>4. /\ call' \in [Call \cup Poller -> CallState] /\ call'[c] = new
        /\ \A d \in Call \cup Poller : d # c => call'[d] = call[d]
    BY Zenon, <1>2, <1>3, Moves
  <1>5. ASSUME GivenGrows PROVE CallOK(c)'
    <2>1. covered => WasGiven(ask.edge, ask.scopes)'
      BY <1>1, <1>5, CoveredWasGiven, StillGiven DEF IInv
    <2>2. /\ call'[c].pc = IF covered THEN "putApproved" ELSE "txn"
          /\ call'[c].todo = {} /\ call'[c].ask = ask
      BY <1>2, <1>4
    <2> QED BY <2>1, <2>2 DEF CallOK, WasGiven
  <1> QED BY <1>3, <1>4, <1>5, ReadStep

\* CreateApprovedConsentRequest records a request no handler knows yet, on an
\* edge that has a grant.
LEMMA CreateApprovedKeeps ==
  ASSUME IInv, History, NEW c \in Call, NEW r \in ReqId,
         CreateApprovedConsentRequest(c, r)
  PROVE  IInv' /\ ReqKept
  <1>1. /\ req \in [ReqId -> Request] /\ call[c] \in CallState
        /\ call[c].pc = "putApproved" /\ req[r].status = "none"
        /\ CallOK(c)
    BY DEF IInv, TypeOK, CreateApprovedConsentRequest
  <1> DEFINE ask == call[c].ask
             new == NewRequest(ask, "approved")
  <1>2. ask \in Ask /\ WasGiven(ask.edge, ask.scopes)
    BY <1>1 DEF CallOK, CallState
  <1>3. new \in Request /\ new.status = "approved" /\ new.edge = ask.edge
    BY <1>2 DEF NewRequest, Request, ReqStatus, Ask
  <1>4. req' = [req EXCEPT ![r] = new] /\ UNCHANGED <<open, grant>> /\ Return(c)
    BY DEF CreateApprovedConsentRequest
  <1>5. /\ req' \in [ReqId -> Request] /\ req'[r] = new
        /\ \A o \in ReqId : o # r => req'[o] = req[o]
    BY <1>1, <1>3, <1>4
  <1>6. ReqKept /\ GrantsKept
    BY <1>1, <1>4, <1>5 DEF ReqKept, GrantsKept
  <1>7. Marked'
    BY <1>3, <1>4, <1>5 DEF IInv, Marked, Pending
  <1>8. MarkersPointAtRequests'
    BY <1>1, <1>3, <1>4, <1>5 DEF IInv, TypeOK, MarkersPointAtRequests
  <1>9. ApprovedHasGrant'
    <2>1. grant[ask.edge].state # "none"
      BY <1>2 DEF IInv, GivenAgrees, WasGiven, Ask
    <2> QED BY <1>3, <1>4, <1>5, <2>1 DEF IInv, ApprovedHasGrant
  <1>10. /\ open' \in [OpenKey -> ReqId \cup {NoReq}]
         /\ grant' \in [Edge -> Grant]
    BY <1>4 DEF IInv, TypeOK
  <1> QED BY Zenon, <1>4, <1>5, <1>6, <1>7, <1>8, <1>9, <1>10, Returns, Assemble

\* The create transaction puts the request and its marker together.
LEMMA CreateTxnKeeps ==
  ASSUME IInv, History, NEW c \in Call, NEW r \in ReqId, CreateTxn(c, r)
  PROVE  IInv' /\ ReqKept
  <1>1. /\ req \in [ReqId -> Request] /\ call[c] \in CallState
        /\ open \in [OpenKey -> ReqId \cup {NoReq}]
        /\ req[r].status = "none" /\ open[AskKey(c)] = NoReq
    BY DEF IInv, TypeOK, CreateTxn, MarkerAbsent
  <1> DEFINE new == NewRequest(call[c].ask, "pending")
  <1>2. call[c].ask \in Ask /\ AskKey(c) \in OpenKey
    BY <1>1, KeyIsOpenKey DEF CallState, Ask, AskKey
  <1>3. new \in Request /\ new.status = "pending" /\ KeyOf(new) = AskKey(c)
    BY <1>2 DEF NewRequest, Request, ReqStatus, Ask, KeyOf, AskKey
  <1>4. /\ req' = [req EXCEPT ![r] = new] /\ open' = [open EXCEPT ![AskKey(c)] = r]
        /\ grant' = grant /\ Return(c)
    BY DEF CreateTxn
  <1> HIDE DEF new
  <1>5. /\ req' \in [ReqId -> Request] /\ req'[r] = new
        /\ \A o \in ReqId : o # r => req'[o] = req[o]
    BY <1>1, <1>3, <1>4
  <1>6. /\ open' \in [OpenKey -> ReqId \cup {NoReq}] /\ open'[AskKey(c)] = r
        /\ \A k \in OpenKey : k # AskKey(c) => open'[k] = open[k]
    BY <1>1, <1>2, <1>4
  <1>7. ReqKept /\ GrantsKept
    BY <1>1, <1>4, <1>5 DEF ReqKept, GrantsKept
  <1>8. Marked'
    <2>1. \A o \in ReqId : KeyOf(req[o]) \in OpenKey
      BY <1>1, KeyIsOpenKey DEF KeyOf, Request
    <2>2. \A o \in ReqId : Pending(o) => KeyOf(req[o]) # AskKey(c)
      BY <1>1, NoReqIsNoReq DEF IInv, Marked
    <2>3. ASSUME NEW o \in ReqId, Pending(o)'
          PROVE  open'[KeyOf(req'[o])] = o
      <3>1. CASE o = r
        BY <3>1, <1>3, <1>5, <1>6
      <3>2. CASE o # r
        BY <3>2, <2>1, <2>2, <2>3, <1>5, <1>6 DEF IInv, Marked, Pending
      <3> QED BY <3>1, <3>2
    <2> QED BY <2>3 DEF Marked
  <1>9. MarkersPointAtRequests'
    BY <1>1, <1>3, <1>5, <1>6, SMTT(30) DEF IInv, MarkersPointAtRequests
  <1>10. ApprovedHasGrant'
    BY <1>3, <1>4, <1>5 DEF IInv, ApprovedHasGrant
  <1>11. grant' \in [Edge -> Grant]
    BY <1>4 DEF IInv, TypeOK
  <1> QED BY <1>4, <1>5, <1>6, <1>7, <1>8, <1>9, <1>10, <1>11, Returns, Assemble

\* Goto changes the handler's place in the code and nothing else it holds.
LEMMA GotoMoves ==
  ASSUME IInv, NEW c \in Call \cup Poller, NEW pc \in PC, Goto(c, pc)
  PROVE  /\ call' \in [Call \cup Poller -> CallState]
         /\ \A d \in Call \cup Poller : d # c => call'[d] = call[d]
         /\ call'[c].pc = pc /\ call'[c].id = call[c].id
         /\ call'[c].ask = call[c].ask /\ call'[c].todo = call[c].todo
         /\ call'[c].last = call[c].last
  <1> DEFINE new == [call[c] EXCEPT !.pc = pc]
  <1>1. call[c] \in CallState
    BY DEF IInv, TypeOK
  <1>2. /\ new \in CallState /\ new.pc = pc /\ new.id = call[c].id
        /\ new.ask = call[c].ask /\ new.todo = call[c].todo
        /\ new.last = call[c].last
    BY <1>1 DEF CallState
  <1>3. Become(c, new)
    BY DEF Goto
  <1> HIDE DEF new
  <1> QED BY <1>2, <1>3, Moves

\* A refused create transaction changes only the handler.
LEMMA CreateConflictKeeps ==
  ASSUME IInv, History, NEW c \in Call,
         CreateTxnCondFailed(c) \/ CreateTxnConflict(c)
  PROVE  IInv' /\ ReqKept
  <1>1. UNCHANGED store /\ ReqKept
    BY DEF CreateTxnCondFailed, CreateTxnConflict, store, ReqKept
  <1>2. CASE CreateTxnConflict(c)
    BY <1>1, <1>2, Retries, ReadStep DEF CreateTxnConflict
  <1>3. CASE CreateTxnCondFailed(c)
    <2>1. Goto(c, "readMarker") /\ "readMarker" \in PC
      BY <1>3 DEF CreateTxnCondFailed, PC
    <2>2. /\ call' \in [Call \cup Poller -> CallState]
          /\ \A d \in Call \cup Poller : d # c => call'[d] = call[d]
          /\ call'[c].pc = "readMarker" /\ call'[c].todo = call[c].todo
      BY <2>1, GotoMoves, SMTT(30)
    <2>3. GivenGrows => CallOK(c)'
      BY <2>2, <1>1, TodoKept DEF CallOK
    <2> QED BY <1>1, <2>2, <2>3, ReadStep
  <1> QED BY <1>2, <1>3

\* The first read of readOpenRequest: the marker names a request.
LEMMA ReadMarkerKeeps ==
  ASSUME IInv, History, NEW c \in Call, ReadMarker(c)
  PROVE  IInv' /\ ReqKept
  <1>1. UNCHANGED store /\ ReqKept /\ req' = req
    BY DEF ReadMarker, store, ReqKept
  <1>2. call[c] \in CallState
    BY DEF IInv, TypeOK
  <1> DEFINE id == open[AskKey(c)]
             new == [call[c] EXCEPT !.pc = "readReq", !.id = id]
  <1>3. CASE id = NoReq
    BY <1>1, <1>3, Retries, ReadStep DEF ReadMarker
  <1>4. CASE id # NoReq
    <2>1. AskKey(c) \in OpenKey
      BY <1>2, KeyIsOpenKey DEF CallState, Ask, AskKey
    <2>2. id \in ReqId /\ req[id].status # "none"
      BY <1>4, <2>1 DEF IInv, TypeOK, MarkersPointAtRequests
    <2>3. Become(c, new)
      BY <1>4 DEF ReadMarker
    <2> HIDE DEF id
    <2>4. /\ new \in CallState /\ new.pc = "readReq" /\ new.id = id
          /\ new.todo = call[c].todo
      BY Zenon, <1>2, <2>2 DEF CallState, PC
    <2> HIDE DEF new
    <2>5. /\ call' \in [Call \cup Poller -> CallState] /\ call'[c] = new
          /\ \A d \in Call \cup Poller : d # c => call'[d] = call[d]
      BY <2>3, <2>4, Moves
    <2>6. ASSUME GivenGrows PROVE CallOK(c)'
      <3>1. \A o \in call[c].todo : /\ req'[o].status # "none"
                                    /\ WasGiven(req[o].edge, req[o].scopes)'
        BY <1>1, <2>6, TodoKept
      <3>2. /\ call'[c].pc = "readReq" /\ call'[c].id = id
            /\ call'[c].todo = call[c].todo
        BY <2>4, <2>5
      <3> QED BY <1>1, <2>2, <3>1, <3>2 DEF CallOK
    <2> QED BY <1>1, <2>5, <2>6, ReadStep
  <1> QED BY <1>3, <1>4

\* The second read of readOpenRequest: a request not pending is resolved.
LEMMA ReadOpenRequestKeeps ==
  ASSUME IInv, History, NEW c \in Call, ReadOpenRequest(c)
  PROVE  IInv' /\ ReqKept
  <1>1. UNCHANGED store /\ ReqKept /\ req' = req
    BY DEF ReadOpenRequest, store, ReqKept
  <1>2. CASE Return(c)
    BY <1>1, <1>2, Returns, ReadStep
  <1>3. CASE ~ Pending(call[c].id) /\ Goto(c, "delMarker")
    <2>1. call[c].id \in ReqId /\ Resolved(call[c].id)
      <3>1. call[c].id \in ReqId /\ req[call[c].id].status # "none"
        BY DEF IInv, CallOK, ReadOpenRequest
      <3> QED BY <3>1, <1>3 DEF IInv, TypeOK, Request, ReqStatus, Pending,
                                Resolved
    <2>2. /\ call' \in [Call \cup Poller -> CallState]
          /\ \A d \in Call \cup Poller : d # c => call'[d] = call[d]
          /\ call'[c].pc = "delMarker" /\ call'[c].id = call[c].id
          /\ call'[c].todo = call[c].todo
      BY Zenon, <1>3, GotoMoves DEF PC
    <2>3. ASSUME GivenGrows PROVE CallOK(c)'
      <3>1. \A o \in call[c].todo : /\ req'[o].status # "none"
                                    /\ WasGiven(req[o].edge, req[o].scopes)'
        BY <1>1, <2>3, TodoKept
      <3> QED BY <1>1, <2>1, <2>2, <3>1 DEF CallOK, Resolved
    <2> QED BY <1>1, <2>2, <2>3, ReadStep
  <1> QED BY <1>2, <1>3 DEF ReadOpenRequest

\* deleteOpenMarkerIf removes the marker of a resolved request only.
LEMMA DeleteStaleMarkerKeeps ==
  ASSUME IInv, History, NEW c \in Call, DeleteStaleMarker(c)
  PROVE  IInv' /\ ReqKept
  <1>1. call[c].id \in ReqId /\ Resolved(call[c].id) /\ AskKey(c) \in OpenKey
    BY KeyIsOpenKey
       DEF IInv, TypeOK, CallOK, DeleteStaleMarker, CallState, Ask, AskKey
  <1>2. /\ open' = MarkerWithout(AskKey(c), call[c].id)
        /\ Retry(c) /\ UNCHANGED <<req, grant>>
    BY DEF DeleteStaleMarker
  <1> QED BY Zenon, <1>1, <1>2, UnmarkStep, Retries, Assemble

-----------------------------------------------------------------------------
(* Approval, denial, sweep and backstop                                      *)

\* Writing a fresh grant keeps every grant there is.
LEMMA FreshGrantStep ==
  ASSUME IInv, NEW e \in Edge, NEW sc \in SUBSET Scope,
         grant' = GrantWritten(e, sc)
  PROVE  /\ grant' \in [Edge -> Grant] /\ GrantsKept
         /\ grant'[e].state = "granted" /\ grant'[e].scopes = sc
         /\ History => sc \in given'[e]
  <1>1. grant \in [Edge -> Grant] /\ FreshGrant(sc) \in Grant
    BY DEF IInv, TypeOK, FreshGrant, Grant
  <1>2. grant' = [grant EXCEPT ![e] = FreshGrant(sc)]
    BY DEF GrantWritten
  <1>3. FreshGrant(sc).state = "granted" /\ FreshGrant(sc).scopes = sc
    BY DEF FreshGrant
  <1>4. /\ grant' \in [Edge -> Grant] /\ grant'[e] = FreshGrant(sc)
        /\ \A x \in Edge : x # e => grant'[x] = grant[x]
    BY <1>1, <1>2
  <1>5. GrantsKept
    BY <1>3, <1>4 DEF GrantsKept
  <1> QED BY <1>3, <1>4, <1>5, SMTT(30) DEF History

\* The approve transaction of ResolveConsentRequest.
LEMMA ApprovePivotKeeps ==
  ASSUME IInv, History, NEW c \in Call, NEW r \in ReqId,
         NEW sc \in Narrowed \cup {req[r].scopes}, ApprovePivot(c, r, sc)
  PROVE  IInv' /\ ReqKept
  <1>1. req[r] \in Request /\ Pending(r)
    BY DEF IInv, TypeOK, ApprovePivot, PivotCond
  <1>2. /\ req[r].edge \in Edge /\ req[r].agent \in Agent \cup {NoAgent}
        /\ sc \in SUBSET Scope
    BY <1>1, NarrowedAreScopes DEF Request
  <1> DEFINE ask == [edge |-> req[r].edge, agent |-> req[r].agent,
                     scopes |-> sc]
             new == [Idle EXCEPT !.pc = "free", !.id = r, !.ask = ask]
  <1>3. /\ req' = [req EXCEPT ![r].status = "approved"] /\ UNCHANGED open
        /\ grant' = GrantWritten(req[r].edge, sc) /\ Become(c, new)
    BY DEF ApprovePivot
  <1>4. /\ new \in CallState /\ new.pc = "free" /\ new.id = r
        /\ new.todo = {} /\ new.ask.edge = req[r].edge /\ new.ask.scopes = sc
    BY Zenon, <1>2, IdleType DEF CallState, PC, Idle, Ask
  <1> HIDE DEF new
  <1>5. /\ call' \in [Call \cup Poller -> CallState] /\ call'[c] = new
        /\ \A d \in Call \cup Poller : d # c => call'[d] = call[d]
    BY <1>3, <1>4, Moves, SMTT(30)
  <1>6. /\ grant' \in [Edge -> Grant] /\ GrantsKept
        /\ grant'[req[r].edge].state # "none" /\ sc \in given'[req[r].edge]
    BY <1>2, <1>3, FreshGrantStep
  <1>7. /\ req' \in [ReqId -> Request]
        /\ open' \in [OpenKey -> ReqId \cup {NoReq}]
        /\ ReqKept
        /\ Marked' /\ MarkersPointAtRequests' /\ ApprovedHasGrant'
    BY Zenon, <1>1, <1>3, <1>6, FlipStep
  <1>8. CallOK(c)'
    <2>1. Resolved(r)'
      BY <1>1, <1>3 DEF IInv, TypeOK, Resolved, Request
    <2> QED BY <1>4, <1>5, <1>6, <2>1 DEF CallOK
  <1> QED BY <1>5, <1>6, <1>7, <1>8, Assemble

\* The deny write of ResolveConsentRequest.
LEMMA DenyPivotKeeps ==
  ASSUME IInv, History, NEW c \in Call, NEW r \in ReqId, DenyPivot(c, r)
  PROVE  IInv' /\ ReqKept
  <1>1. req[r] \in Request /\ Pending(r)
    BY DEF IInv, TypeOK, DenyPivot, PivotCond
  <1>2. req[r].edge \in Edge /\ req[r].agent \in Agent \cup {NoAgent}
    BY <1>1 DEF Request
  <1> DEFINE ask == [edge |-> req[r].edge, agent |-> req[r].agent,
                     scopes |-> {}]
             new == [Idle EXCEPT !.pc = "free", !.id = r, !.last = TRUE,
                                 !.ask = ask]
  <1>3. /\ req' = [req EXCEPT ![r].status = "denied"] /\ UNCHANGED open
        /\ grant' = grant /\ Become(c, new)
    BY DEF DenyPivot
  <1>4. /\ new \in CallState /\ new.pc = "free" /\ new.id = r
        /\ new.todo = {} /\ new.last = TRUE
    BY Zenon, <1>2, IdleType DEF CallState, PC, Idle, Ask
  <1> HIDE DEF new
  <1>5. /\ call' \in [Call \cup Poller -> CallState] /\ call'[c] = new
        /\ \A d \in Call \cup Poller : d # c => call'[d] = call[d]
    BY Zenon, <1>3, <1>4, Moves
  <1>6. grant' \in [Edge -> Grant] /\ GrantsKept
    BY <1>3 DEF IInv, TypeOK, GrantsKept
  <1>7. /\ req' \in [ReqId -> Request]
        /\ open' \in [OpenKey -> ReqId \cup {NoReq}]
        /\ ReqKept
        /\ Marked' /\ MarkersPointAtRequests' /\ ApprovedHasGrant'
    BY Zenon, <1>1, <1>3, <1>6, FlipStep
  <1>8. CallOK(c)'
    <2>1. Resolved(r)'
      BY <1>1, <1>3 DEF IInv, TypeOK, Resolved, Request
    <2> QED BY <1>4, <1>5, <2>1 DEF CallOK
  <1> QED BY <1>5, <1>6, <1>7, <1>8, Assemble

\* freeOpenMarker, done or failed.
LEMMA FreeOpenMarkerKeeps ==
  ASSUME IInv, History, NEW c \in Call \cup Poller, FreeOpenMarker(c)
  PROVE  IInv' /\ ReqKept
  <1>1. /\ call[c].id \in ReqId /\ Resolved(call[c].id) /\ AskKey(c) \in OpenKey
        /\ ~ call[c].last => call[c].ask.scopes \in given[call[c].ask.edge]
        /\ call[c].ask.edge \in Edge
    BY KeyIsOpenKey
       DEF IInv, TypeOK, CallOK, FreeOpenMarker, CallState, Ask, AskKey
  <1>2. /\ open' = MarkerWithout(AskKey(c), call[c].id) \/ UNCHANGED open
        /\ UNCHANGED <<req, grant>>
    BY DEF FreeOpenMarker
  <1>3. /\ req' \in [ReqId -> Request]
        /\ open' \in [OpenKey -> ReqId \cup {NoReq}]
        /\ grant' \in [Edge -> Grant]
        /\ ReqKept /\ GrantsKept
        /\ Marked' /\ MarkersPointAtRequests' /\ ApprovedHasGrant'
    BY <1>1, <1>2, UnmarkStep
  <1>4. CASE Return(c)
    BY <1>3, <1>4, Returns, Assemble
  <1>5. CASE ~ call[c].last /\ Goto(c, "sweepQuery")
    <2>1. /\ call' \in [Call \cup Poller -> CallState]
          /\ \A d \in Call \cup Poller : d # c => call'[d] = call[d]
          /\ call'[c].pc = "sweepQuery" /\ call'[c].ask = call[c].ask
          /\ call'[c].todo = call[c].todo
      BY Zenon, <1>5, GotoMoves DEF PC
    <2>2. ASSUME GivenGrows PROVE CallOK(c)'
      <3>1. \A o \in call[c].todo : /\ req'[o].status # "none"
                                    /\ WasGiven(req[o].edge, req[o].scopes)'
        BY <1>3, <2>2, TodoKept
      <3>2. call[c].ask.scopes \in given'[call[c].ask.edge]
        BY <1>1, <1>5, <2>2 DEF GivenGrows
      <3> QED BY <2>1, <3>1, <3>2 DEF CallOK
    <2> QED BY <1>3, <2>1, <2>2, Assemble
  <1> QED BY <1>4, <1>5 DEF FreeOpenMarker

\* What the sweep's query returns is covered by a grant the user gave.
LEMMA SweepQueryKeeps ==
  ASSUME IInv, History, NEW c \in Call, SweepQuery(c)
  PROVE  IInv' /\ ReqKept
  <1>1. UNCHANGED store /\ req' = req
    BY DEF SweepQuery, store
  <1>2. /\ call[c] \in CallState /\ call[c].ask.edge \in Edge
        /\ call[c].ask.scopes \in given[call[c].ask.edge]
    BY DEF IInv, TypeOK, CallOK, SweepQuery, CallState, Ask
  <1>3. PICK seen \in SUBSET Siblings(c) :
          IF seen = {} THEN Return(c)
          ELSE Become(c, [call[c] EXCEPT !.pc = "sweep", !.todo = seen])
    BY Zenon DEF SweepQuery
  <1>4. CASE Return(c)
    BY <1>1, <1>4, Returns, ReadStep
  <1> DEFINE new == [call[c] EXCEPT !.pc = "sweep", !.todo = seen]
  <1>5. CASE Become(c, new)
    <2>1. seen \subseteq ReqId
      BY <1>3 DEF Siblings
    <2>2. new \in CallState /\ new.pc = "sweep" /\ new.todo = seen
      BY Zenon, <1>2, <2>1 DEF CallState, PC
    <2> HIDE DEF new
    <2>3. /\ call' \in [Call \cup Poller -> CallState] /\ call'[c] = new
          /\ \A d \in Call \cup Poller : d # c => call'[d] = call[d]
      BY <1>5, <2>2, Moves
    <2>4. ASSUME GivenGrows PROVE CallOK(c)'
      <3>1. ASSUME NEW o \in seen
            PROVE  req[o].status # "none" /\ WasGiven(req[o].edge, req[o].scopes)'
        <4>1. /\ req[o].status = "pending" /\ req[o].edge = call[c].ask.edge
              /\ Covered(req[o].scopes, call[c].ask.scopes)
          BY <1>3 DEF Siblings, Pending
        <4> QED BY <1>1, <1>2, <2>4, <4>1 DEF WasGiven, GivenGrows
      <3>2. call'[c].pc = "sweep" /\ call'[c].todo = seen
        BY <2>2, <2>3
      <3> QED BY <1>1, <3>1, <3>2 DEF CallOK
    <2> QED BY <1>1, <2>3, <2>4, ReadStep
  <1> QED BY <1>3, <1>4, <1>5

\* The sweep approves a sibling that is still pending.
LEMMA SweepFlipKeeps ==
  ASSUME IInv, History, NEW c \in Call, NEW o \in ReqId, SweepFlip(c, o)
  PROVE  IInv' /\ ReqKept
  <1>1. /\ call[c] \in CallState /\ o \in call[c].todo
        /\ req[o] \in Request /\ req[o].edge \in Edge
        /\ WasGiven(req[o].edge, req[o].scopes)
    BY DEF IInv, TypeOK, CallOK, SweepFlip, Request
  <1>2. /\ UNCHANGED <<open, grant>>
        /\ grant' \in [Edge -> Grant] /\ GrantsKept
    BY DEF SweepFlip, IInv, TypeOK, GrantsKept
  <1>3. CASE Pending(o)
    <2> DEFINE new == [call[c] EXCEPT !.pc = "sweepFree", !.id = o,
                                      !.todo = @ \ {o}]
    <2>1. req' = [req EXCEPT ![o].status = "approved"] /\ Become(c, new)
      BY <1>3 DEF SweepFlip
    <2>2. /\ new \in CallState /\ new.pc = "sweepFree" /\ new.id = o
          /\ new.todo \subseteq call[c].todo
      BY Zenon, <1>1 DEF CallState, PC
    <2> HIDE DEF new
    <2>3. /\ call' \in [Call \cup Poller -> CallState] /\ call'[c] = new
          /\ \A d \in Call \cup Poller : d # c => call'[d] = call[d]
      BY <2>1, <2>2, Moves
    <2>4. grant'[req[o].edge].state # "none"
      BY <1>1, <1>2 DEF IInv, GivenAgrees, WasGiven
    <2>5. /\ req' \in [ReqId -> Request]
          /\ open' \in [OpenKey -> ReqId \cup {NoReq}]
          /\ ReqKept
          /\ Marked' /\ MarkersPointAtRequests' /\ ApprovedHasGrant'
      BY Zenon, <1>2, <1>3, <2>1, <2>4, FlipStep
    <2>6. ASSUME GivenGrows PROVE CallOK(c)'
      <3>1. \A x \in call[c].todo : /\ req'[x].status # "none"
                                    /\ WasGiven(req[x].edge, req[x].scopes)'
        BY <2>5, <2>6, TodoKept
      <3>2. Resolved(o)'
        BY <1>1, <2>1 DEF IInv, TypeOK, Resolved, Request
      <3>3. /\ call'[c].pc = "sweepFree" /\ call'[c].id = o
            /\ call'[c].todo \subseteq call[c].todo
        BY <2>2, <2>3
      <3> QED BY <3>1, <3>2, <3>3 DEF CallOK
    <2> QED BY <1>2, <2>3, <2>5, <2>6, Assemble
  <1>4. CASE ~ Pending(o)
    <2>1. UNCHANGED store /\ ReqKept
      BY <1>2, <1>4 DEF SweepFlip, store, ReqKept
    <2>2. CASE Return(c)
      BY <2>1, <2>2, Returns, ReadStep
    <2> DEFINE new == [call[c] EXCEPT !.todo = @ \ {o}]
    <2>3. CASE Become(c, new)
      <3>1. /\ new \in CallState /\ new.pc = "sweep"
            /\ new.todo \subseteq call[c].todo
        BY <1>1 DEF CallState, SweepFlip
      <3> HIDE DEF new
      <3>2. /\ call' \in [Call \cup Poller -> CallState] /\ call'[c] = new
            /\ \A d \in Call \cup Poller : d # c => call'[d] = call[d]
        BY <2>3, <3>1, Moves
      <3>3. ASSUME GivenGrows PROVE CallOK(c)'
        <4>1. \A x \in call[c].todo : /\ req'[x].status # "none"
                                      /\ WasGiven(req[x].edge, req[x].scopes)'
          BY <2>1, <3>3, TodoKept
        <4>2. call'[c].pc = "sweep" /\ call'[c].todo \subseteq call[c].todo
          BY <3>1, <3>2
        <4> QED BY <4>1, <4>2 DEF CallOK
      <3> QED BY <2>1, <3>2, <3>3, ReadStep
    <2> QED BY <1>4, <2>2, <2>3 DEF SweepFlip
  <1> QED BY <1>3, <1>4

\* The sweep frees the marker of the sibling it approved.
LEMMA SweepFreeKeeps ==
  ASSUME IInv, History, NEW c \in Call, SweepFree(c)
  PROVE  IInv' /\ ReqKept
  <1>1. call[c].id \in ReqId /\ Resolved(call[c].id)
    BY DEF IInv, CallOK, SweepFree
  <1>2. KeyOf(req[call[c].id]) \in OpenKey
    BY <1>1, KeyIsOpenKey DEF IInv, TypeOK, Request, KeyOf
  <1>3. /\ open' = MarkerWithout(KeyOf(req[call[c].id]), call[c].id)
           \/ UNCHANGED open
        /\ UNCHANGED <<req, grant>>
    BY DEF SweepFree
  <1>4. /\ req' \in [ReqId -> Request]
        /\ open' \in [OpenKey -> ReqId \cup {NoReq}]
        /\ grant' \in [Edge -> Grant]
        /\ ReqKept /\ GrantsKept
        /\ Marked' /\ MarkersPointAtRequests' /\ ApprovedHasGrant'
    BY <1>1, <1>2, <1>3, UnmarkStep
  <1>5. CASE Return(c)
    BY Zenon, <1>4, <1>5, Returns, Assemble
  <1>6. CASE Goto(c, "sweep")
    <2>1. /\ call' \in [Call \cup Poller -> CallState]
          /\ \A d \in Call \cup Poller : d # c => call'[d] = call[d]
          /\ call'[c].pc = "sweep" /\ call'[c].todo = call[c].todo
      BY Zenon, <1>6, GotoMoves DEF PC
    <2>2. ASSUME GivenGrows PROVE CallOK(c)'
      BY <1>4, <2>1, <2>2, TodoKept DEF CallOK
    <2> QED BY <1>4, <2>1, <2>2, Assemble
  <1> QED BY <1>5, <1>6 DEF SweepFree

\* The backstop starts on a request the grant covers.
LEMMA BackstopFindKeeps ==
  ASSUME IInv, History, NEW c \in Call \cup Poller, NEW r \in ReqId,
         BackstopFind(c, r)
  PROVE  IInv' /\ ReqKept
  <1>1. /\ req[r] \in Request /\ req[r].status = "pending"
        /\ EvaluateConsent(grant[req[r].edge], req[r].scopes)
    BY DEF IInv, TypeOK, BackstopFind, Pending
  <1>2. /\ req[r].edge \in Edge /\ req[r].agent \in Agent \cup {NoAgent}
        /\ req[r].scopes \in SUBSET Scope
    BY <1>1 DEF Request
  <1> DEFINE ask == [edge |-> req[r].edge, agent |-> req[r].agent,
                     scopes |-> req[r].scopes]
             new == [Idle EXCEPT !.pc = "flip", !.id = r, !.last = TRUE,
                                 !.ask = ask]
  <1>3. Become(c, new) /\ UNCHANGED store /\ req' = req
    BY DEF BackstopFind, store
  <1>4. /\ new \in CallState /\ new.pc = "flip" /\ new.id = r
        /\ new.todo = {} /\ new.last = TRUE
    BY Zenon, <1>2, IdleType DEF CallState, PC, Idle, Ask
  <1> HIDE DEF new
  <1>5. /\ call' \in [Call \cup Poller -> CallState] /\ call'[c] = new
        /\ \A d \in Call \cup Poller : d # c => call'[d] = call[d]
    BY <1>3, <1>4, Moves
  <1>6. ASSUME GivenGrows PROVE CallOK(c)'
    <2>1. WasGiven(req[r].edge, req[r].scopes)
      BY <1>1, <1>2, CoveredWasGiven DEF IInv
    <2>2. WasGiven(req[r].edge, req[r].scopes)'
      BY <1>2, <1>3, <1>6, <2>1 DEF WasGiven, GivenGrows
    <2>3. /\ call'[c].pc = "flip" /\ call'[c].id = r /\ call'[c].todo = {}
          /\ call'[c].last = TRUE
      BY <1>4, <1>5
    <2> QED BY <1>1, <1>3, <2>2, <2>3 DEF CallOK
  <1> QED BY <1>3, <1>5, <1>6, ReadStep

\* The backstop's conditional flip.
LEMMA ApprovePendingKeeps ==
  ASSUME IInv, History, NEW c \in Call \cup Poller,
         ApprovePendingConsentRequest(c)
  PROVE  IInv' /\ ReqKept
  <1> DEFINE r == call[c].id
  <1>1. /\ r \in ReqId /\ req[r] \in Request /\ req[r].edge \in Edge
        /\ WasGiven(req[r].edge, req[r].scopes)
    BY SMTT(30) DEF IInv, TypeOK, CallOK, ApprovePendingConsentRequest, Request
  <1>2. /\ UNCHANGED <<open, grant>>
        /\ grant' \in [Edge -> Grant] /\ GrantsKept
    BY DEF ApprovePendingConsentRequest, IInv, TypeOK, GrantsKept
  <1>3. CASE Pending(r)
    <2>1. req' = [req EXCEPT ![r].status = "approved"] /\ Goto(c, "free")
      BY <1>3 DEF ApprovePendingConsentRequest
    <2>2. /\ call' \in [Call \cup Poller -> CallState]
          /\ \A d \in Call \cup Poller : d # c => call'[d] = call[d]
          /\ call'[c].pc = "free" /\ call'[c].id = r
          /\ call'[c].todo = call[c].todo /\ call'[c].ask = call[c].ask
          /\ call'[c].last = call[c].last
      BY <2>1, GotoMoves DEF PC
    <2>3. grant'[req[r].edge].state # "none"
      BY <1>1, <1>2 DEF IInv, GivenAgrees, WasGiven
    <2>4. /\ req' \in [ReqId -> Request]
          /\ open' \in [OpenKey -> ReqId \cup {NoReq}]
          /\ ReqKept
          /\ Marked' /\ MarkersPointAtRequests' /\ ApprovedHasGrant'
      BY Zenon, <1>1, <1>2, <1>3, <2>1, <2>3, FlipStep
    <2>5. ASSUME GivenGrows PROVE CallOK(c)'
      <3>1. \A x \in call[c].todo : /\ req'[x].status # "none"
                                    /\ WasGiven(req[x].edge, req[x].scopes)'
        BY <2>4, <2>5, TodoKept
      <3>2. Resolved(r)'
        BY <1>1, <2>1, <2>2 DEF IInv, TypeOK, Resolved, Request
      <3>3. call[c].last
        BY DEF IInv, CallOK, ApprovePendingConsentRequest
      <3> QED BY <1>1, <2>2, <3>1, <3>2, <3>3 DEF CallOK
    <2> QED BY <1>2, <2>2, <2>4, <2>5, Assemble
  <1>4. CASE ~ Pending(r)
    <2>1. UNCHANGED store /\ Return(c)
      BY <1>2, <1>4 DEF ApprovePendingConsentRequest, store
    <2> QED BY <2>1, Returns, ReadStep
  <1> QED BY <1>3, <1>4

\* POST /v1/consents, revocation and expiry change grants only.
LEMMA GrantsKeep ==
  ASSUME IInv, History, NEW e \in Edge, Grants(e)
  PROVE  IInv' /\ ReqKept
  <1>1. grant \in [Edge -> Grant] /\ grant[e] \in Grant
    BY DEF IInv, TypeOK
  <1>2. ASSUME NEW sc \in Narrowed, PostConsent(e, sc) PROVE IInv' /\ ReqKept
    <2>1. sc \in SUBSET Scope
      BY NarrowedAreScopes
    <2>2. grant' = GrantWritten(e, sc) /\ UNCHANGED <<req, open, call>>
      BY <1>2 DEF PostConsent
    <2> QED BY <2>1, <2>2, FreshGrantStep, GrantStep
  <1>3. CASE RevokeConsent(e)
    <2>1. grant' = [grant EXCEPT ![e].state = "revoked"]
      BY <1>3 DEF RevokeConsent
    <2>2. grant' \in [Edge -> Grant] /\ GrantsKept
      BY <1>1, <2>1 DEF Grant, GrantsKept
    <2> QED BY <1>3, <2>2, GrantStep DEF RevokeConsent
  <1>4. CASE GrantExpires(e)
    <2>1. grant' = [grant EXCEPT ![e].expired = TRUE]
      BY <1>4 DEF GrantExpires
    <2>2. grant' \in [Edge -> Grant] /\ GrantsKept
      BY Zenon, <1>1, <2>1 DEF Grant, GrantsKept
    <2> QED BY <1>4, <2>2, GrantStep DEF GrantExpires
  <1> QED BY <1>2, <1>3, <1>4 DEF Grants

\* A handler that dies leaves the table as it is.
LEMMA HandlerDiesKeeps ==
  ASSUME IInv, History, NEW c \in Call \cup Poller, HandlerDies(c)
  PROVE  IInv' /\ ReqKept
  BY Returns, ReadStep DEF HandlerDies

-----------------------------------------------------------------------------
(* The inductive invariant                                                   *)

\* The empty table satisfies the invariant.
LEMMA InitIInv == Init => IInv
  <1> SUFFICES ASSUME Init PROVE IInv
    OBVIOUS
  <1>1. (CHOOSE e \in Edge : TRUE) \in Edge
    BY EdgesExist
  <1>2. AbsentRequest \in Request /\ AbsentRequest.status = "none"
    BY <1>1 DEF AbsentRequest, Request, ReqStatus
  <1>3. NoGrant \in Grant /\ NoGrant.state = "none"
    BY DEF NoGrant, Grant
  <1>4. TypeOK
    BY <1>2, <1>3, IdleType DEF Init, TypeOK
  <1>5. \A r \in ReqId : req[r].status = "none"
    BY <1>2 DEF Init
  <1>6. \A c \in Call \cup Poller : CallOK(c)
    BY Zenon DEF Init, CallOK, Idle
  <1> QED BY <1>3, <1>4, <1>5, <1>6
          DEF Init, IInv, Marked, MarkersPointAtRequests, GivenAgrees,
              ApprovedHasGrant, Pending

\* Every step keeps the invariant and every resolved request.
LEMMA NextKeeps ==
  ASSUME IInv, Next
  PROVE  IInv' /\ ReqKept
  <1>1. History
    BY DEF Next
  <1>2. ASSUME NEW c \in Call, Create(c) PROVE IInv' /\ ReqKept
    BY <1>1, <1>2, CreateFindKeeps, CreateApprovedKeeps, CreateTxnKeeps,
       CreateConflictKeeps, ReadMarkerKeeps, ReadOpenRequestKeeps,
       DeleteStaleMarkerKeeps DEF Create
  <1>3. ASSUME NEW c \in Call, Resolve(c) PROVE IInv' /\ ReqKept
    BY <1>1, <1>3, ApprovePivotKeeps, DenyPivotKeeps, SweepQueryKeeps,
       SweepFlipKeeps, SweepFreeKeeps DEF Resolve
  <1>4. ASSUME NEW c \in Call \cup Poller, Poll(c) \/ HandlerDies(c)
        PROVE  IInv' /\ ReqKept
    BY <1>1, <1>4, BackstopFindKeeps, ApprovePendingKeeps,
       FreeOpenMarkerKeeps, HandlerDiesKeeps DEF Poll
  <1>5. ASSUME NEW e \in Edge, Grants(e) PROVE IInv' /\ ReqKept
    BY <1>1, <1>5, GrantsKeep
  <1> QED BY <1>2, <1>3, <1>4, <1>5 DEF Next

\* A step that changes nothing keeps the invariant.
LEMMA StutterKeeps ==
  ASSUME IInv, UNCHANGED vars
  PROVE  IInv'
  BY Zenon DEF vars, IInv, TypeOK, Marked, MarkersPointAtRequests, GivenAgrees,
         ApprovedHasGrant, CallOK, Pending, Resolved, WasGiven

\* IInv holds of every reachable state of the table and its handlers.
THEOREM InductiveInvariant == Spec => []IInv
  <1>1. IInv /\ [Next]_vars => IInv'
    BY NextKeeps, StutterKeeps
  <1> QED BY InitIInv, <1>1, PTL DEF Spec

\* Every reachable state is well typed; in particular no handler retries a
\* conflicting transaction more often than its budget.
THEOREM TypeCorrect == Spec => []TypeOK
  <1>1. IInv => TypeOK
    BY DEF IInv
  <1> QED BY InductiveInvariant, <1>1, PTL

\* CreateConsentRequest never opens a second pending request on one key.
THEOREM OneOpenRequest == Spec => []OneOpenRequestPerKey
  <1>1. IInv => OneOpenRequestPerKey
    BY DEF IInv, Marked, OneOpenRequestPerKey
  <1> QED BY InductiveInvariant, <1>1, PTL

\* No request is ever approved on an edge without a consent record.
THEOREM ApprovedGranted == Spec => []ApprovedHasGrant
  <1>1. IInv => ApprovedHasGrant
    BY DEF IInv
  <1> QED BY InductiveInvariant, <1>1, PTL

\* No resolver, sweep or backstop ever changes a resolved request.
THEOREM ResolvedFinal == Spec => ResolvedIsFinal
  <1> DEFINE Final == \A r \in ReqId :
                        req[r].status \in {"approved", "denied"}
                          => req'[r] = req[r]
  <1>1. IInv /\ [Next]_vars => [Final]_vars
    <2>1. ASSUME IInv, Next PROVE Final
      BY <2>1, NextKeeps DEF ReqKept, Resolved
    <2> QED BY <2>1
  <1>2. Spec => [][Final]_vars
    BY InductiveInvariant, <1>1, PTL DEF Spec
  <1> QED BY <1>2 DEF ResolvedIsFinal

\* A step that touches the grants is a user's decision, a revocation or an
\* expiry: every other action leaves the CON items alone.
LEMMA WhoWritesGrants ==
  ASSUME Next
  PROVE  \/ grant' = grant
         \/ \E c \in Call, r \in ReqId :
              \E sc \in Narrowed \cup {req[r].scopes} : ApprovePivot(c, r, sc)
         \/ \E e \in Edge : Grants(e)
  <1>1. ASSUME NEW c \in Call, Create(c) PROVE grant' = grant
    BY <1>1 DEF Create, CreateFind, CreateApprovedConsentRequest, CreateTxn,
                CreateTxnCondFailed, CreateTxnConflict, ReadMarker,
                ReadOpenRequest, DeleteStaleMarker, store
  <1>2. ASSUME NEW c \in Call, Resolve(c)
        PROVE  \/ grant' = grant
               \/ \E r \in ReqId : \E sc \in Narrowed \cup {req[r].scopes} :
                    ApprovePivot(c, r, sc)
    BY <1>2 DEF Resolve, DenyPivot, SweepFlip, SweepQuery, SweepFree, store
  <1>3. ASSUME NEW c \in Call \cup Poller, Poll(c) \/ HandlerDies(c)
        PROVE  grant' = grant
    BY <1>3 DEF Poll, BackstopFind, ApprovePendingConsentRequest,
                FreeOpenMarker, HandlerDies, store
  <1> QED BY <1>1, <1>2, <1>3 DEF Next

\* A revoked consent comes back only with a user's decision: no flip of the
\* sweep or of the backstop, however old the grant it read, brings it back.
THEOREM RevokedStaysRevoked == Spec => RevokedUntilDecided
  <1> DEFINE Decided(e) ==
        \/ \E sc \in Narrowed : PostConsent(e, sc)
        \/ \E c \in Call, r \in ReqId, sc \in SUBSET Scope :
             req[r].edge = e /\ Pending(r) /\ ApprovePivot(c, r, sc)
  <1> DEFINE Kept == \A e \in Edge :
        grant[e].state = "revoked" /\ grant'[e].state # "revoked"
          => Decided(e)
  <1>1. ASSUME IInv, Next PROVE Kept
    <2> SUFFICES ASSUME NEW e \in Edge, grant[e].state = "revoked",
                        grant'[e].state # "revoked"
                 PROVE  Decided(e)
      OBVIOUS
    <2>1. /\ grant \in [Edge -> Grant]
          /\ \A r \in ReqId : req[r].scopes \in SUBSET Scope
      BY <1>1 DEF IInv, TypeOK, Request
    <2>2. ASSUME NEW c \in Call, NEW r \in ReqId,
                 NEW sc \in Narrowed \cup {req[r].scopes},
                 ApprovePivot(c, r, sc)
          PROVE  Decided(e)
      <3>1. sc \in SUBSET Scope /\ Pending(r)
        BY <2>1, <2>2, NarrowedAreScopes DEF ApprovePivot, PivotCond
      <3>2. req[r].edge = e
        BY <2>1, <2>2 DEF ApprovePivot, GrantWritten
      <3> QED BY <2>2, <3>1, <3>2
    <2>3. ASSUME NEW f \in Edge, Grants(f) PROVE Decided(e)
      <3>1. ~ RevokeConsent(f)
        BY <2>1 DEF RevokeConsent, Grant
      <3>2. ~ GrantExpires(f)
        BY <2>1, SMTT(30) DEF GrantExpires, Grant
      <3>3. PICK sc \in Narrowed : PostConsent(f, sc)
        BY <2>3, <3>1, <3>2 DEF Grants
      <3>4. f = e
        BY <2>1, <3>3 DEF PostConsent, GrantWritten
      <3> QED BY <3>3, <3>4
    <2> QED BY <1>1, <2>2, <2>3, WhoWritesGrants
  <1>2. IInv /\ [Next]_vars => [Kept]_vars
    BY <1>1
  <1>3. Spec => [][Kept]_vars
    BY InductiveInvariant, <1>2, PTL DEF Spec
  <1> QED BY <1>3 DEF RevokedUntilDecided

-----------------------------------------------------------------------------
(* The store implements the broker                                           *)

\* Nothing new is given unless a grant is written.
LEMMA NothingGiven ==
  ASSUME IInv, History,
         \A e \in Edge : grant'[e].state = "granted" =>
                           /\ grant[e].state = "granted"
                           /\ grant'[e].scopes = grant[e].scopes
  PROVE  given' = given
  <1>1. given \in [Edge -> SUBSET SUBSET Scope]
    BY DEF IInv, TypeOK
  <1>2. \A e \in Edge : (IF grant'[e].state = "granted"
                         THEN given[e] \cup {grant'[e].scopes}
                         ELSE given[e]) = given[e]
    BY Zenon DEF IInv, GivenAgrees
  <1>3. given' = [e \in Edge |-> given[e]]
    BY Zenon, <1>2 DEF History
  <1> QED BY <1>1, <1>3

\* Handlers that read, free markers or stop are invisible to the broker.
LEMMA Invisible ==
  ASSUME IInv, History, UNCHANGED <<req, grant>>
  PROVE  UNCHANGED Broker!vars
  BY NothingGiven DEF Broker!vars

\* The create transaction is the broker's Queue.
LEMMA CreateTxnQueues ==
  ASSUME IInv, History, NEW c \in Call, NEW r \in ReqId, CreateTxn(c, r)
  PROVE  Broker!Next
  <1> DEFINE ask == call[c].ask
  <1>1. ask \in Ask /\ Ask = Broker!Ask
    BY DEF IInv, TypeOK, CallState, Ask, Broker!Ask
  <1>2. \A o \in ReqId : Pending(o) => KeyOf(req[o]) # AskKey(c)
    BY NoReqIsNoReq DEF IInv, Marked, CreateTxn, MarkerAbsent
  <1>3. \A o \in ReqId :
          req[o].status = "pending" =>
            Broker!KeyOf(req[o]) # Broker!OpenRequestKey(ask.edge, ask.agent)
    BY <1>2 DEF Pending, KeyOf, AskKey, OpenRequestKey, Broker!KeyOf,
                Broker!OpenRequestKey
  <1>4. req' = [req EXCEPT ![r] = Broker!NewRequest(ask, "pending")]
    BY DEF CreateTxn, NewRequest, Broker!NewRequest
  <1>5. UNCHANGED <<grant, given>>
    BY NothingGiven DEF CreateTxn
  <1>6. Broker!Queue(r, ask)
    BY Zenon, <1>3, <1>4, <1>5 DEF CreateTxn, Broker!Queue
  <1> QED BY <1>1, <1>6 DEF Broker!Next

\* A request recorded as approved asks for what was given before.
LEMMA CreateApprovedQueues ==
  ASSUME IInv, History, NEW c \in Call, NEW r \in ReqId,
         CreateApprovedConsentRequest(c, r)
  PROVE  Broker!Next
  <1> DEFINE ask == call[c].ask
  <1>1. ask \in Ask /\ Ask = Broker!Ask
    BY DEF IInv, TypeOK, CallState, Ask, Broker!Ask
  <1>2. Broker!WasGiven(ask.edge, ask.scopes)
    BY DEF IInv, CallOK, CreateApprovedConsentRequest, WasGiven, Covered,
           Broker!WasGiven, Broker!Covered
  <1>3. req' = [req EXCEPT ![r] = Broker!NewRequest(ask, "approved")]
    BY DEF CreateApprovedConsentRequest, NewRequest, Broker!NewRequest
  <1>4. UNCHANGED <<grant, given>>
    BY NothingGiven DEF CreateApprovedConsentRequest
  <1>5. Broker!QueueApproved(r, ask)
    BY Zenon, <1>2, <1>3, <1>4
       DEF CreateApprovedConsentRequest, Broker!QueueApproved
  <1> QED BY <1>1, <1>5 DEF Broker!Next

\* Writing a grant is the broker's WriteGrant.
LEMMA GrantIsWritten ==
  ASSUME IInv, History, NEW e \in Edge, NEW sc \in SUBSET Scope,
         grant' = GrantWritten(e, sc)
  PROVE  Broker!WriteGrant(e, sc)
  <1>1. /\ given \in [Edge -> SUBSET SUBSET Scope]
        /\ grant \in [Edge -> Grant]
    BY DEF IInv, TypeOK
  <1>2. grant' = [grant EXCEPT ![e] = Broker!FreshGrant(sc)]
    BY DEF GrantWritten, FreshGrant, Broker!FreshGrant
  <1>3. grant'[e].state = "granted" /\ grant'[e].scopes = sc
    BY FreshGrantStep
  <1>4. \A x \in Edge : x # e => grant'[x] = grant[x]
    BY <1>1, <1>2
  <1>5. \A x \in Edge : (IF grant'[x].state = "granted"
                         THEN given[x] \cup {grant'[x].scopes} ELSE given[x])
                        = IF x = e THEN given[x] \cup {sc} ELSE given[x]
    BY Zenon, <1>3, <1>4 DEF IInv, GivenAgrees
  <1>6. given' = [x \in Edge |-> IF x = e THEN given[x] \cup {sc} ELSE given[x]]
    BY Zenon, <1>5 DEF History
  <1>7. given' = [given EXCEPT ![e] = @ \cup {sc}]
    BY Zenon, <1>1, <1>6
  <1> QED BY <1>2, <1>7 DEF Broker!WriteGrant

\* The approve transaction is the broker's Approve, with nothing swept yet.
LEMMA ApprovePivotApproves ==
  ASSUME IInv, History, NEW c \in Call, NEW r \in ReqId,
         NEW sc \in Narrowed \cup {req[r].scopes}, ApprovePivot(c, r, sc)
  PROVE  Broker!Next
  <1>1. req \in [ReqId -> Request] /\ req[r] \in Request
    BY DEF IInv, TypeOK
  <1>2. req[r].edge \in Edge /\ sc \in SUBSET Scope
    BY <1>1, NarrowedAreScopes DEF Request
  <1>3. Broker!WriteGrant(req[r].edge, sc)
    BY <1>2, GrantIsWritten DEF ApprovePivot
  <1>4. req' = [req EXCEPT ![r] = [req[r] EXCEPT !.status = "approved"]]
    BY <1>1 DEF ApprovePivot
  <1>5. req' = [o \in ReqId |-> IF o \in {} \cup {r}
                                THEN [req[o] EXCEPT !.status = "approved"]
                                ELSE req[o]]
    BY Zenon, <1>1, <1>4
  <1>6. Broker!Approve(r, sc, {})
    BY Zenon, <1>3, <1>5 DEF ApprovePivot, PivotCond, Pending, Broker!Approve
  <1>7. {} \in SUBSET ReqId
    OBVIOUS
  <1> QED BY <1>2, <1>6, <1>7 DEF Broker!Next

\* The sweep and the backstop approve only what was given before.
LEMMA FlipIsCovered ==
  ASSUME IInv, History, NEW r \in ReqId, Pending(r),
         WasGiven(req[r].edge, req[r].scopes),
         req' = [req EXCEPT ![r].status = "approved"], grant' = grant
  PROVE  Broker!Next
  <1>1. UNCHANGED <<grant, given>>
    BY NothingGiven
  <1>2. Broker!WasGiven(req[r].edge, req[r].scopes)
    BY DEF WasGiven, Covered, Broker!WasGiven, Broker!Covered
  <1>3. Broker!ApproveCovered(r)
    BY <1>1, <1>2 DEF Pending, Broker!ApproveCovered
  <1> QED BY <1>3 DEF Broker!Next

\* Grants are written, revoked and expire in the store as in the broker.
LEMMA GrantsAreGrants ==
  ASSUME IInv, History, NEW e \in Edge, Grants(e)
  PROVE  Broker!Next
  <1>1. grant \in [Edge -> Grant] /\ grant[e] \in Grant
    BY DEF IInv, TypeOK
  <1>2. ASSUME NEW sc \in Narrowed, PostConsent(e, sc) PROVE Broker!Next
    <2>1. sc \in SUBSET Scope
      BY NarrowedAreScopes
    <2>2. Broker!WriteGrant(e, sc) /\ UNCHANGED req
      BY <1>2, <2>1, GrantIsWritten DEF PostConsent
    <2> QED BY <2>1, <2>2 DEF Broker!Next, Broker!PostConsent
  <1>3. CASE RevokeConsent(e)
    <2>1. grant' = [grant EXCEPT ![e].state = "revoked"]
      BY <1>3 DEF RevokeConsent
    <2>2. given' = given
      BY <1>1, <2>1, NothingGiven DEF Grant
    <2>3. Broker!Revoke(e)
      BY <1>3, <2>1, <2>2 DEF RevokeConsent, Broker!Revoke
    <2> QED BY <2>3 DEF Broker!Next
  <1>4. CASE GrantExpires(e)
    <2>1. grant' = [grant EXCEPT ![e].expired = TRUE]
      BY <1>4 DEF GrantExpires
    <2>2. given' = given
      BY <1>1, <2>1, NothingGiven DEF Grant
    <2>3. Broker!Expire(e)
      BY <1>4, <2>1, <2>2 DEF GrantExpires, Broker!Expire
    <2> QED BY <2>3 DEF Broker!Next
  <1> QED BY <1>2, <1>3, <1>4 DEF Grants

\* Every step of the store is a step of the broker, or invisible to it.
LEMMA NextImplements ==
  ASSUME IInv, Next
  PROVE  Broker!Next \/ UNCHANGED Broker!vars
  <1>1. History
    BY DEF Next
  <1>2. ASSUME NEW c \in Call, Create(c)
        PROVE  Broker!Next \/ UNCHANGED Broker!vars
    <2>1. ASSUME NEW ask \in Asks, CreateFind(c, ask)
          PROVE  UNCHANGED Broker!vars
      BY <1>1, <2>1, Invisible DEF CreateFind, store
    <2>2. ASSUME \/ CreateTxnCondFailed(c) \/ CreateTxnConflict(c)
                 \/ ReadMarker(c) \/ ReadOpenRequest(c) \/ DeleteStaleMarker(c)
          PROVE  UNCHANGED Broker!vars
      BY <1>1, <2>2, Invisible
         DEF CreateTxnCondFailed, CreateTxnConflict, ReadMarker,
             ReadOpenRequest, DeleteStaleMarker, store
    <2> QED BY <1>1, <1>2, <2>1, <2>2, CreateTxnQueues, CreateApprovedQueues
            DEF Create
  <1>3. ASSUME NEW c \in Call, Resolve(c)
        PROVE  Broker!Next \/ UNCHANGED Broker!vars
    <2>1. ASSUME NEW r \in ReqId, DenyPivot(c, r) PROVE Broker!Next
      <3>1. given' = given
        BY <1>1, <2>1, NothingGiven DEF DenyPivot
      <3>2. Broker!Deny(r)
        BY <2>1, <3>1 DEF DenyPivot, PivotCond, Pending, Broker!Deny
      <3> QED BY <3>2 DEF Broker!Next
    <2>2. ASSUME NEW o \in ReqId, SweepFlip(c, o)
          PROVE  Broker!Next \/ UNCHANGED Broker!vars
      <3>1. CASE Pending(o)
        <4>1. WasGiven(req[o].edge, req[o].scopes)
          BY <2>2 DEF IInv, CallOK, SweepFlip
        <4>2. /\ req' = [req EXCEPT ![o].status = "approved"]
              /\ grant' = grant
          BY <2>2, <3>1 DEF SweepFlip
        <4> QED BY Zenon, <1>1, <3>1, <4>1, <4>2, FlipIsCovered
      <3>2. CASE ~ Pending(o)
        BY <1>1, <2>2, <3>2, Invisible DEF SweepFlip
      <3> QED BY <3>1, <3>2
    <2>3. ASSUME SweepQuery(c) \/ SweepFree(c) PROVE UNCHANGED Broker!vars
      BY Zenon, <1>1, <2>3, Invisible DEF SweepQuery, SweepFree, store
    <2> QED BY <1>1, <1>3, <2>1, <2>2, <2>3, ApprovePivotApproves DEF Resolve
  <1>4. ASSUME NEW c \in Call \cup Poller, Poll(c) \/ HandlerDies(c)
        PROVE  Broker!Next \/ UNCHANGED Broker!vars
    <2>1. ASSUME NEW r \in ReqId, BackstopFind(c, r)
          PROVE  UNCHANGED Broker!vars
      BY <1>1, <2>1, Invisible DEF BackstopFind, store
    <2>2. CASE ApprovePendingConsentRequest(c)
      <3>1. CASE Pending(call[c].id)
        <4>1. /\ call[c].id \in ReqId
              /\ WasGiven(req[call[c].id].edge, req[call[c].id].scopes)
          BY <2>2 DEF IInv, CallOK, ApprovePendingConsentRequest
        <4>2. /\ req' = [req EXCEPT ![call[c].id].status = "approved"]
              /\ grant' = grant
          BY <2>2, <3>1 DEF ApprovePendingConsentRequest
        <4> QED BY Zenon, <1>1, <3>1, <4>1, <4>2, FlipIsCovered
      <3>2. CASE ~ Pending(call[c].id)
        BY <1>1, <2>2, <3>2, Invisible DEF ApprovePendingConsentRequest
      <3> QED BY <3>1, <3>2
    <2>3. ASSUME FreeOpenMarker(c) \/ HandlerDies(c)
          PROVE  UNCHANGED Broker!vars
      BY <1>1, <2>3, Invisible DEF FreeOpenMarker, HandlerDies, store
    <2> QED BY <1>4, <2>1, <2>2, <2>3 DEF Poll
  <1>5. ASSUME NEW e \in Edge, Grants(e) PROVE Broker!Next
    BY <1>1, <1>5, GrantsAreGrants
  <1> QED BY <1>2, <1>3, <1>4, <1>5 DEF Next

\* The DynamoDB store under the registry's handlers implements the consent
\* broker: crashes, lost marker deletes, stale index reads and late flips
\* included, it shows only what ConsentBroker allows.
THEOREM Implements == Spec => RefinesBroker
  <1>1. Init => Broker!Init
    BY DEF Init, Broker!Init, AbsentRequest, Broker!AbsentRequest, NoGrant,
           Broker!NoGrant
  <1>2. IInv /\ [Next]_vars => [Broker!Next]_(Broker!vars)
    <2>1. ASSUME UNCHANGED vars PROVE UNCHANGED Broker!vars
      BY <2>1 DEF vars, Broker!vars
    <2> QED BY <2>1, NextImplements
  <1> QED BY InductiveInvariant, <1>1, <1>2, PTL
          DEF Spec, RefinesBroker, Broker!Spec
=============================================================================
