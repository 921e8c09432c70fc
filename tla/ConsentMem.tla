----------------------------- MODULE ConsentMem -----------------------------
(* The consent broker over the registry's in-memory store                    *)
(* (cmd/registry/main.go).  Each store method holds one mutex and is one     *)
(* step; a handler that calls two of them takes two steps, between which     *)
(* other handlers run.                                                       *)
EXTENDS ConsentTypes

CONSTANTS
  Call,      \* handler invocations that may be in flight at once
  Asks,      \* the bodies POST /v1/consent-requests is sent
  Narrowed,  \* scope lists an approval or POST /v1/consents may name
  Expiring   \* edges whose parent template sets a consentTTL

ASSUME MemAsksAreAsks == Asks \subseteq Ask
ASSUME MemNarrowedAreScopes == Narrowed \subseteq SUBSET Scope
ASSUME MemExpiringAreEdges == Expiring \subseteq Edge
ASSUME CallsAreNoRequests == Call \cap ReqId = {}

VARIABLES
  req,         \* consentRequests
  open,        \* openRequests
  grant,       \* consents
  call,        \* Call -> the handler's local state
  given,       \* history: Edge -> the scope sets ever granted on it
  afterRevoke  \* history: creates begun, and requests they queued, after a
               \* revocation of their edge that still stands

vars == <<req, open, grant, call, given, afterRevoke>>

CallState == [pc : {"idle", "putApproved", "create", "flip"}, ask : Ask,
              id : ReqId \cup {NoReq}]

Idle == [pc |-> "idle",
         ask |-> [edge |-> CHOOSE e \in Edge : TRUE, agent |-> NoAgent,
                  scopes |-> {}],
         id |-> NoReq]

Pending(r) == req[r].status = "pending"
Return(c) == call' = [call EXCEPT ![c] = Idle]

Init ==
  /\ req = [r \in ReqId |-> AbsentRequest]
  /\ open = [k \in OpenKey |-> NoReq]
  /\ grant = [e \in Edge |-> NoGrant]
  /\ call = [c \in Call |-> Idle]
  /\ given = [e \in Edge |-> {}]
  /\ afterRevoke = {}

TypeOK ==
  /\ req \in [ReqId -> Request]
  /\ open \in [OpenKey -> ReqId \cup {NoReq}]
  /\ grant \in [Edge -> Grant]
  /\ call \in [Call -> CallState]
  /\ given \in [Edge -> SUBSET SUBSET Scope]
  /\ afterRevoke \in SUBSET (Call \cup ReqId)

-----------------------------------------------------------------------------
\* POST /v1/consent-requests: findConsent, then one of the two creates.
CreateFind(c, ask) ==
  /\ call[c].pc = "idle"
  /\ call' = [call EXCEPT ![c] =
                [pc |-> IF EvaluateConsent(grant[ask.edge], ask.scopes)
                        THEN "putApproved" ELSE "create",
                 ask |-> ask, id |-> NoReq]]
  /\ UNCHANGED <<req, open, grant>>

createApprovedConsentRequest(c, r) ==
  /\ call[c].pc = "putApproved"
  /\ req[r].status = "none"
  /\ req' = [req EXCEPT ![r] = NewRequest(call[c].ask, "approved")]
  /\ Return(c)
  /\ UNCHANGED <<open, grant>>

\* The request a create is answered with when the key is already open.
OpenRequest(key) == {r \in ReqId : r = open[key] /\ Pending(r)}

createConsentRequest(c, r) ==
  /\ call[c].pc = "create"
  /\ Return(c)
  /\ LET key == OpenRequestKey(call[c].ask.edge, call[c].ask.agent)
     IN  IF OpenRequest(key) # {}
         THEN UNCHANGED <<req, open>>
         ELSE /\ req[r].status = "none"
              /\ req' = [req EXCEPT ![r] = NewRequest(call[c].ask, "pending")]
              /\ open' = [open EXCEPT ![key] = r]
  /\ UNCHANGED grant

\* Requests RS are approved, or denied, and their open keys freed.
ResolveKeepingKeys(RS, st) ==
  /\ req' = [r \in ReqId |-> IF r \in RS THEN [req[r] EXCEPT !.status = st]
                             ELSE req[r]]
  /\ UNCHANGED open

Resolve(RS, st) ==
  /\ req' = [r \in ReqId |-> IF r \in RS THEN [req[r] EXCEPT !.status = st]
                             ELSE req[r]]
  /\ open' = [k \in OpenKey |-> IF k \in {KeyOf(req[r]) : r \in RS}
                                THEN NoReq ELSE open[k]]

\* resolveConsentRequest, deny: one locked section.
DenyAsRevoked(c, r) ==
  /\ call[c].pc = "idle"
  /\ Pending(r)
  /\ Resolve({r}, "revoked")
  /\ UNCHANGED <<grant, call>>

Deny(c, r) ==
  /\ call[c].pc = "idle"
  /\ Pending(r)
  /\ Resolve({r}, "denied")
  /\ UNCHANGED <<grant, call>>

\* The other requests waiting on r's edge that a grant of sc covers.
SweptOfAnyEdge(r, sc) ==
  {o \in ReqId \ {r} : Pending(o) /\ Covered(req[o].scopes, sc)}

Swept(r, sc) ==
  {o \in ReqId \ {r} : /\ Pending(o)
                       /\ req[o].edge = req[r].edge
                       /\ Covered(req[o].scopes, sc)}

\* resolveConsentRequest, approve: the request, the grant and the sweep of
\* every covered sibling in one locked section.
Approve(c, r, sc) ==
  /\ call[c].pc = "idle"
  /\ Pending(r)
  /\ Resolve({r} \cup Swept(r, sc), "approved")
  /\ grant' = [grant EXCEPT ![req[r].edge] = FreshGrant(sc)]
  /\ UNCHANGED call

\* GET /v1/consent-requests/{id}: getConsentRequest said pending, findConsent
\* decides now, approvePendingConsentRequest follows later.
BackstopFindAnyGrant(c, r) ==
  /\ call[c].pc = "idle"
  /\ Pending(r)
  /\ EvaluateConsentIgnoringRevocation(grant[req[r].edge], req[r].scopes)
  /\ call' = [call EXCEPT ![c] = [Idle EXCEPT !.pc = "flip", !.id = r]]
  /\ UNCHANGED <<req, open, grant>>

BackstopFind(c, r) ==
  /\ call[c].pc = "idle"
  /\ Pending(r)
  /\ EvaluateConsent(grant[req[r].edge], req[r].scopes)
  /\ call' = [call EXCEPT ![c] = [Idle EXCEPT !.pc = "flip", !.id = r]]
  /\ UNCHANGED <<req, open, grant>>

approvePendingConsentRequest(c) ==
  /\ call[c].pc = "flip"
  /\ Return(c)
  /\ IF Pending(call[c].id) THEN Resolve({call[c].id}, "approved")
     ELSE UNCHANGED <<req, open>>
  /\ UNCHANGED grant

upsertConsent(e, sc) ==
  /\ grant' = [grant EXCEPT ![e] = FreshGrant(sc)]
  /\ UNCHANGED <<req, open, call>>

revokeConsent(e) ==
  /\ grant[e].state # "none"
  /\ grant' = [grant EXCEPT ![e].state = "revoked"]
  /\ UNCHANGED <<req, open, call>>

GrantExpires(e) ==
  /\ e \in Expiring
  /\ grant[e].state # "none"
  /\ ~ grant[e].expired
  /\ grant' = [grant EXCEPT ![e].expired = TRUE]
  /\ UNCHANGED <<req, open, call>>

StaysRevoked(e) == grant[e].state = "revoked" /\ grant'[e].state = "revoked"

\* The history variables follow from the step alone.
History ==
  /\ given' = [e \in Edge |-> IF grant'[e].state = "granted"
                              THEN given[e] \cup {grant'[e].scopes}
                              ELSE given[e]]
  /\ afterRevoke' =
       {c \in Call : /\ call'[c].pc # "idle"
                     /\ StaysRevoked(call'[c].ask.edge)
                     /\ \/ c \in afterRevoke
                        \/ call[c].pc = "idle" /\ call'[c].pc = "create"}
       \cup
       {r \in ReqId : /\ req'[r].status = "pending"
                      /\ StaysRevoked(req'[r].edge)
                      /\ \/ r \in afterRevoke
                         \/ /\ req[r].status = "none"
                            /\ \E c \in Call \cap afterRevoke :
                                 createConsentRequest(c, r)}

Next ==
  /\ \/ \E c \in Call :
          \/ \E ask \in Asks : CreateFind(c, ask)
          \/ \E r \in ReqId :
               \/ createApprovedConsentRequest(c, r)
               \/ createConsentRequest(c, r)
               \/ \E sc \in Narrowed \cup {req[r].scopes} : Approve(c, r, sc)
               \/ Deny(c, r)
               \/ BackstopFind(c, r)
          \/ approvePendingConsentRequest(c)
     \/ \E e \in Edge : \/ \E sc \in Narrowed : upsertConsent(e, sc)
                        \/ revokeConsent(e)
                        \/ GrantExpires(e)
  /\ History

Spec == Init /\ [][Next]_vars

-----------------------------------------------------------------------------
\* A key is open exactly while a request on it is pending: no marker outlives
\* its request and no pending request loses its marker.
OpenIffPending ==
  \A k \in OpenKey :
    /\ open[k] # NoReq => Pending(open[k]) /\ KeyOf(req[open[k]]) = k
    /\ \A r \in ReqId : Pending(r) /\ KeyOf(req[r]) = k => open[k] = r

\* The handlers over this store do only what the broker promises.
Broker == INSTANCE ConsentBroker
RefinesBroker == Broker!Spec

\* "The next spawn of that edge re-prompts the user": while a revocation of
\* the edge's consent stands, no request asked for after it is approved; it
\* takes the user's decision, here or on a sibling, that grants anew.
RevokedEdgeReprompts ==
  [][\A r \in ReqId \cap afterRevoke :
       req'[r].status = "approved" => grant'[req[r].edge].state # "revoked"]_vars
=============================================================================
