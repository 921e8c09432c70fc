---------------------------- MODULE ConsentDynamo ---------------------------
(* The consent broker over the DynamoDB store                                *)
(* (internal/registry/dynamostore/store.go) under the registry's HTTP        *)
(* handlers (cmd/registry/main.go).  One step is one DynamoDB request, so a  *)
(* handler is several steps and the handlers in Call interleave.  The table  *)
(* holds the CREQ items (req), the OPEN markers (open) and the CON items     *)
(* (grant); it survives a crash of the registry, the handlers do not.        *)
EXTENDS ConsentTypes, Naturals

CONSTANTS
  Call,      \* handler invocations that may be in flight at once
  Poller,    \* Keycloak's completion poller: one GET in flight at a time
  Asks,      \* the bodies POST /v1/consent-requests is sent
  Narrowed,  \* scope lists an approval or POST /v1/consents may name
  Expiring,  \* edges whose parent template sets a consentTTL
  txnConflictBudget

ASSUME AsksAreAsks == Asks \subseteq Ask
ASSUME NarrowedAreScopes == Narrowed \subseteq SUBSET Scope
ASSUME ExpiringAreEdges == Expiring \subseteq Edge
ASSUME BudgetIsPositive == txnConflictBudget \in Nat \ {0}

VARIABLES
  req,      \* ReqId -> Request: CREQ# items
  open,     \* OpenKey -> ReqId or NoReq: OPEN# markers
  grant,    \* Edge -> Grant: CON# items
  call,     \* Call \cup Poller -> the handler's local state
  given     \* history: Edge -> the scope sets ever granted on it

store == <<req, open, grant>>
vars == <<req, open, grant, call, given>>

PC == {"idle", "putApproved", "txn", "readMarker", "readReq", "delMarker",
       "free", "sweepQuery", "sweep", "sweepFree", "flip"}

\* ask: the request being created, or the edge and scopes of the grant an
\* approval wrote; id: the request (or marker) at hand; todo: siblings the
\* sweep has still to visit; last: the handler ends after freeing the marker.
CallState == [pc : PC, ask : Ask, id : ReqId \cup {NoReq},
              todo : SUBSET ReqId, tries : 0 .. (txnConflictBudget - 1),
              last : BOOLEAN]

Idle == [pc |-> "idle",
         ask |-> [edge |-> CHOOSE e \in Edge : TRUE, agent |-> NoAgent,
                  scopes |-> {}],
         id |-> NoReq, todo |-> {}, tries |-> 0, last |-> FALSE]

Pending(r) == req[r].status = "pending"

TypeOK ==
  /\ req \in [ReqId -> Request]
  /\ open \in [OpenKey -> ReqId \cup {NoReq}]
  /\ grant \in [Edge -> Grant]
  /\ call \in [Call \cup Poller -> CallState]
  /\ given \in [Edge -> SUBSET SUBSET Scope]

Init ==
  /\ req = [r \in ReqId |-> AbsentRequest]
  /\ open = [k \in OpenKey |-> NoReq]
  /\ grant = [e \in Edge |-> NoGrant]
  /\ call = [c \in Call \cup Poller |-> Idle]
  /\ given = [e \in Edge |-> {}]

\* Handler c goes on with new as its local state.
Become(c, new) == call' = [call EXCEPT ![c] = new]
Goto(c, pc) == Become(c, [call[c] EXCEPT !.pc = pc])
Return(c) == Become(c, Idle)
AskKey(c) == OpenRequestKey(call[c].ask.edge, call[c].ask.agent)

-----------------------------------------------------------------------------
(* POST /v1/consent-requests                                                 *)

\* FindConsent (a strongly consistent read) decides between recording an
\* already approved request and queueing a pending one.
CreateFind(c, ask) ==
  /\ call[c].pc = "idle"
  /\ Become(c, [Idle EXCEPT !.pc = IF EvaluateConsent(grant[ask.edge],
                                                      ask.scopes)
                                   THEN "putApproved" ELSE "txn",
                            !.ask = ask])
  /\ UNCHANGED store

CreateApprovedConsentRequest(c, r) ==
  /\ call[c].pc = "putApproved"
  /\ req[r].status = "none"
  /\ req' = [req EXCEPT ![r] = NewRequest(call[c].ask, "approved")]
  /\ Return(c)
  /\ UNCHANGED <<open, grant>>

\* The condition attribute_not_exists on the OPEN marker.
MarkerAbsent(key) == open[key] = NoReq

\* One transaction: put the OPEN marker if there is none, and the CREQ item.
CreateTxn(c, r) ==
  /\ call[c].pc = "txn"
  /\ MarkerAbsent(AskKey(c))
  /\ req[r].status = "none"
  /\ req' = [req EXCEPT ![r] = NewRequest(call[c].ask, "pending")]
  /\ open' = [open EXCEPT ![AskKey(c)] = r]
  /\ Return(c)
  /\ UNCHANGED grant

CreateTxnCondFailed(c) ==
  /\ call[c].pc = "txn"
  /\ ~ MarkerAbsent(AskKey(c))
  /\ Goto(c, "readMarker")
  /\ UNCHANGED store

\* The next attempt, or the error after the last one.
RetryForever(c) ==
  Become(c, [call[c] EXCEPT !.pc = "txn", !.id = NoReq, !.tries = @ + 1])

Retry(c) ==
  IF call[c].tries + 1 < txnConflictBudget
  THEN Become(c, [call[c] EXCEPT !.pc = "txn", !.id = NoReq, !.tries = @ + 1])
  ELSE Return(c)

CreateTxnConflict(c) ==
  /\ call[c].pc = "txn"
  /\ Retry(c)
  /\ UNCHANGED store

\* readOpenRequest, first read: the marker (gone: nothing to delete, retry).
ReadMarker(c) ==
  /\ call[c].pc = "readMarker"
  /\ IF open[AskKey(c)] = NoReq
     THEN Retry(c)
     ELSE Become(c, [call[c] EXCEPT !.pc = "readReq", !.id = open[AskKey(c)]])
  /\ UNCHANGED store

\* readOpenRequest, second read: a pending request is returned as the
\* duplicate; anything else makes the marker stale.
ReadOpenRequest(c) ==
  /\ call[c].pc = "readReq"
  /\ IF Pending(call[c].id) THEN Return(c) ELSE Goto(c, "delMarker")
  /\ UNCHANGED store

\* Conditional delete: only a marker that still points at id is removed.
MarkerWithoutUnguarded(key, id) == [open EXCEPT ![key] = NoReq]

MarkerWithout(key, id) ==
  [open EXCEPT ![key] = IF @ = id THEN NoReq ELSE @]

DeleteStaleMarker(c) ==
  /\ call[c].pc = "delMarker"
  /\ open' = MarkerWithout(AskKey(c), call[c].id)
  /\ Retry(c)
  /\ UNCHANGED <<req, grant>>

-----------------------------------------------------------------------------
(* POST /v1/consent-requests/{id}/approve and .../deny                       *)

\* The transaction of an approval: the request leaves pending and the grant
\* is written, or neither.  A request already resolved is returned unchanged,
\* which is no step.  Its own open marker is freed next.
PivotCondDropped(r) == req[r].status # "none"

PivotCond(r) == Pending(r)

GrantNotWritten(e, sc) == grant

GrantWritten(e, sc) == [grant EXCEPT ![e] = FreshGrant(sc)]

ApprovePivot(c, r, sc) ==
  /\ call[c].pc = "idle"
  /\ PivotCond(r)
  /\ req' = [req EXCEPT ![r].status = "approved"]
  /\ grant' = GrantWritten(req[r].edge, sc)
  /\ Become(c, [Idle EXCEPT !.pc = "free", !.id = r,
                            !.ask = [edge |-> req[r].edge,
                                     agent |-> req[r].agent,
                                     scopes |-> sc]])
  /\ UNCHANGED open

DenyPivot(c, r) ==
  /\ call[c].pc = "idle"
  /\ PivotCond(r)
  /\ req' = [req EXCEPT ![r].status = "denied"]
  /\ Become(c, [Idle EXCEPT !.pc = "free", !.id = r, !.last = TRUE,
                            !.ask = [edge |-> req[r].edge,
                                     agent |-> req[r].agent,
                                     scopes |-> {}]])
  /\ UNCHANGED <<open, grant>>

\* freeOpenMarker is best effort: an error is logged and the handler goes on.
FreeOpenMarker(c) ==
  /\ call[c].pc = "free"
  /\ \/ open' = MarkerWithout(AskKey(c), call[c].id)
     \/ UNCHANGED open
  /\ IF call[c].last THEN Return(c) ELSE Goto(c, "sweepQuery")
  /\ UNCHANGED <<req, grant>>

\* The sweep's query is on an index that may lag, so it sees any part of the
\* pending siblings.  (A resolved one it still shows as pending is skipped by
\* the conditional write.)  Coverage is judged against the handler's own copy
\* of the grant, taken when it was written.
SiblingsOfAnyScope(c) ==
  {o \in ReqId : /\ Pending(o)
                 /\ o # call[c].id
                 /\ req[o].edge = call[c].ask.edge}

Siblings(c) ==
  {o \in ReqId : /\ Pending(o)
                 /\ o # call[c].id
                 /\ req[o].edge = call[c].ask.edge
                 /\ Covered(req[o].scopes, call[c].ask.scopes)}

SweepQuery(c) ==
  /\ call[c].pc = "sweepQuery"
  /\ \E seen \in SUBSET Siblings(c) :
       IF seen = {} THEN Return(c)
       ELSE Become(c, [call[c] EXCEPT !.pc = "sweep", !.todo = seen])
  /\ UNCHANGED store

\* One sibling: flip it if it is still pending, then free its marker.
SweepFlip(c, o) ==
  /\ call[c].pc = "sweep"
  /\ o \in call[c].todo
  /\ IF Pending(o)
     THEN /\ req' = [req EXCEPT ![o].status = "approved"]
          /\ Become(c, [call[c] EXCEPT !.pc = "sweepFree", !.id = o,
                                       !.todo = @ \ {o}])
     ELSE /\ IF call[c].todo = {o} THEN Return(c)
             ELSE Become(c, [call[c] EXCEPT !.todo = @ \ {o}])
          /\ UNCHANGED req
  /\ UNCHANGED <<open, grant>>

SweepFree(c) ==
  /\ call[c].pc = "sweepFree"
  /\ \/ open' = MarkerWithout(KeyOf(req[call[c].id]), call[c].id)
     \/ UNCHANGED open
  /\ IF call[c].todo = {} THEN Return(c) ELSE Goto(c, "sweep")
  /\ UNCHANGED <<req, grant>>

-----------------------------------------------------------------------------
(* GET /v1/consent-requests/{id} with its read-time backstop                 *)

\* The request is pending and the strongly consistent grant covers it now;
\* otherwise the read changes nothing, which is no step.
BackstopFindExact(c, r) ==
  /\ call[c].pc = "idle"
  /\ Pending(r)
  /\ EvaluateConsent(grant[req[r].edge], req[r].scopes)
  /\ grant[req[r].edge].scopes = req[r].scopes
  /\ Become(c, [Idle EXCEPT !.pc = "flip", !.id = r, !.last = TRUE,
                            !.ask = [edge |-> req[r].edge,
                                     agent |-> req[r].agent,
                                     scopes |-> req[r].scopes]])
  /\ UNCHANGED store

BackstopFind(c, r) ==
  /\ call[c].pc = "idle"
  /\ Pending(r)
  /\ EvaluateConsent(grant[req[r].edge], req[r].scopes)
  /\ Become(c, [Idle EXCEPT !.pc = "flip", !.id = r, !.last = TRUE,
                            !.ask = [edge |-> req[r].edge,
                                     agent |-> req[r].agent,
                                     scopes |-> req[r].scopes]])
  /\ UNCHANGED store

\* ApprovePendingConsentRequest: a conditional flip that never writes a grant.
ApprovePendingRegranting(c) ==
  /\ call[c].pc = "flip"
  /\ IF Pending(call[c].id)
     THEN /\ req' = [req EXCEPT ![call[c].id].status = "approved"]
          /\ grant' = GrantWritten(call[c].ask.edge, call[c].ask.scopes)
          /\ Goto(c, "free")
     ELSE Return(c) /\ UNCHANGED <<req, grant>>
  /\ UNCHANGED open

ApprovePendingConsentRequest(c) ==
  /\ call[c].pc = "flip"
  /\ IF Pending(call[c].id)
     THEN /\ req' = [req EXCEPT ![call[c].id].status = "approved"]
          /\ Goto(c, "free")
     ELSE Return(c) /\ UNCHANGED req
  /\ UNCHANGED <<open, grant>>

-----------------------------------------------------------------------------
(* POST /v1/consents, POST /v1/consents/{id}/revoke, time, failures          *)

PostConsent(e, sc) ==
  /\ grant' = GrantWritten(e, sc)
  /\ UNCHANGED <<req, open, call>>

RevokeConsent(e) ==
  /\ grant[e].state # "none"
  /\ grant' = [grant EXCEPT ![e].state = "revoked"]
  /\ UNCHANGED <<req, open, call>>

GrantExpires(e) ==
  /\ e \in Expiring
  /\ grant[e].state # "none"
  /\ ~ grant[e].expired
  /\ grant' = [grant EXCEPT ![e].expired = TRUE]
  /\ UNCHANGED <<req, open, call>>

\* A DynamoDB error ends the handler, and a registry crash ends any handler.
HandlerDies(c) ==
  /\ call[c].pc # "idle"
  /\ Return(c)
  /\ UNCHANGED store

-----------------------------------------------------------------------------
Create(c) ==
  \/ \E ask \in Asks : CreateFind(c, ask)
  \/ \E r \in ReqId : CreateApprovedConsentRequest(c, r) \/ CreateTxn(c, r)
  \/ CreateTxnCondFailed(c) \/ CreateTxnConflict(c)
  \/ ReadMarker(c) \/ ReadOpenRequest(c) \/ DeleteStaleMarker(c)

Resolve(c) ==
  \/ \E r \in ReqId : \/ \E sc \in Narrowed \cup {req[r].scopes} :
                           ApprovePivot(c, r, sc)
                      \/ DenyPivot(c, r)
                      \/ SweepFlip(c, r)
  \/ SweepQuery(c) \/ SweepFree(c)

Poll(c) ==
  \/ \E r \in ReqId : BackstopFind(c, r)
  \/ ApprovePendingConsentRequest(c)
  \/ FreeOpenMarker(c)

Grants(e) ==
  \/ \E sc \in Narrowed : PostConsent(e, sc)
  \/ RevokeConsent(e)
  \/ GrantExpires(e)

\* The history variable follows from the step alone.
History ==
  given' = [e \in Edge |-> IF grant'[e].state = "granted"
                           THEN given[e] \cup {grant'[e].scopes}
                           ELSE given[e]]

Next ==
  /\ \/ \E c \in Call : Create(c) \/ Resolve(c)
     \/ \E c \in Call \cup Poller : Poll(c) \/ HandlerDies(c)
     \/ \E e \in Edge : Grants(e)
  /\ History

Spec == Init /\ [][Next]_vars

\* The poller runs on a timer and asks for every request it tracks; its GETs
\* may fail, but not every time.  Nothing else is assumed to happen.
PollerFairness ==
  \A p \in Poller :
    /\ \A r \in ReqId : SF_vars(BackstopFind(p, r) /\ History)
    /\ SF_vars(ApprovePendingConsentRequest(p) /\ History)
    /\ WF_vars(FreeOpenMarker(p) /\ History)

LiveSpec == Spec /\ PollerFairness

-----------------------------------------------------------------------------
(* Safety                                                                    *)

\* One open key never has two pending requests, whatever create, approve,
\* deny, sweep, stale-marker cleanup and failures interleave: the claim the
\* marker transaction and the id-guarded deletes of the store exist for.
OneOpenRequestPerKey ==
  \A r, o \in ReqId : Pending(r) /\ Pending(o) /\ KeyOf(req[r]) = KeyOf(req[o])
                        => r = o

\* No approved request without a consent record on its edge: "there is never
\* an approved-request-without-a-grant state" (the approve transaction).
ApprovedHasGrant ==
  \A r \in ReqId : req[r].status = "approved" =>
                      grant[req[r].edge].state # "none"

\* A resolved request never changes again, however late a second resolver,
\* the sweep or the backstop arrives with what it read before.
ResolvedIsFinal ==
  [][\A r \in ReqId : req[r].status \in {"approved", "denied"} =>
                         req'[r] = req[r]]_vars

\* A revoked consent comes back only with a user's decision: POST /v1/consents,
\* or the approval of a request that was pending on that edge.  The backstop
\* and the sweep, which approve on an older read, never bring it back.
RevokedUntilDecided ==
  [][\A e \in Edge :
       grant[e].state = "revoked" /\ grant'[e].state # "revoked" =>
         \/ \E sc \in Narrowed : PostConsent(e, sc)
         \/ \E c \in Call, r \in ReqId, sc \in SUBSET Scope :
              req[r].edge = e /\ Pending(r) /\ ApprovePivot(c, r, sc)]_vars

\* Everything the store does is what the broker promises.
Broker == INSTANCE ConsentBroker
RefinesBroker == Broker!Spec

-----------------------------------------------------------------------------
(* Liveness                                                                  *)

\* A request the sweep missed does not stay pending while a live grant covers
\* it: "the sweep miss self-heals on the very next poll".
StrandedRequestHeals ==
  \A r \in ReqId :
    (Pending(r) /\ EvaluateConsent(grant[req[r].edge], req[r].scopes)) ~>
      ~ (Pending(r) /\ EvaluateConsent(grant[req[r].edge], req[r].scopes))
=============================================================================
