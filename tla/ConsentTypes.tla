---------------------------- MODULE ConsentTypes ----------------------------
(* The data of the registry's consent broker, shared by the abstract broker  *)
(* and by the two stores that implement it (internal/registry/consent.go).   *)
(*                                                                           *)
(* An edge stands for a (userId, parentType, childType) triple.  A request   *)
(* carries the agent it was raised for, or NoAgent when the caller did not   *)
(* say.  Scopes are model values.  A grant's expiry instant is abstracted to *)
(* the flag "expired", set by the passage of time.                           *)

CONSTANTS
  Edge,      \* (user, parentType, childType) triples
  Agent,     \* agent ids
  NoAgent,   \* the empty agentId
  Scope,     \* OAuth scopes
  ReqId,     \* consent request ids genID may mint
  NoReq      \* "no request id"

ASSUME EdgesExist == Edge # {}
ASSUME NoAgentIsNoAgent == NoAgent \notin Agent
ASSUME NoReqIsNoReq == NoReq \notin ReqId

ReqStatus == {"none", "pending", "approved", "denied"}

Request == [status : ReqStatus, edge : Edge, agent : Agent \cup {NoAgent},
            scopes : SUBSET Scope]

\* What POST /v1/consent-requests is asked for.
Ask == [edge : Edge, agent : Agent \cup {NoAgent}, scopes : SUBSET Scope]

\* state "none": no consent record is stored for the edge.
Grant == [state : {"none", "granted", "revoked"}, scopes : SUBSET Scope,
          expired : BOOLEAN]

NoGrant == [state |-> "none", scopes |-> {}, expired |-> FALSE]

AbsentRequest ==
  [status |-> "none", edge |-> CHOOSE e \in Edge : TRUE, agent |-> NoAgent,
   scopes |-> {}]

NewRequest(ask, st) ==
  [status |-> st, edge |-> ask.edge, agent |-> ask.agent,
   scopes |-> ask.scopes]

\* A fresh grant: whatever the record held, it is live again.
FreshGrant(sc) == [state |-> "granted", scopes |-> sc, expired |-> FALSE]

OpenKey == ({"agent"} \X Agent) \cup ({"edge"} \X Edge)

\* The key under which at most one request may be open: the agent if it is
\* known, else the edge.  Two agents on one edge have two keys.
OpenRequestKey(e, a) ==
  IF a # NoAgent THEN <<"agent", a>> ELSE <<"edge", e>>

\* The first scope asked for that the grant lacks decides; none lacking covers.
Covered(asked, granted) == asked \subseteq granted

\* A consent record covers a request for scopes sc right now.
EvaluateConsentIgnoringRevocation(g, sc) ==
  g.state # "none" /\ ~ g.expired /\ Covered(sc, g.scopes)

EvaluateConsent(g, sc) ==
  /\ g.state = "granted"
  /\ ~ g.expired
  /\ Covered(sc, g.scopes)

KeyOf(r) == OpenRequestKey(r.edge, r.agent)
=============================================================================
