---------------------------- MODULE ConsentBroker ---------------------------
(* What the consent API of the registry promises, whatever store is behind   *)
(* it.  Every request is pending, approved or denied; a resolved request     *)
(* never changes again; one open key holds at most one pending request; a    *)
(* grant is written only with a user's decision (an approval, or a direct    *)
(* POST /v1/consents); and a request is approved without its own decision    *)
(* only if its edge was, at some time, given a grant that covers it.         *)
EXTENDS ConsentTypes

VARIABLES
  req,     \* ReqId -> Request
  grant,   \* Edge -> Grant
  given    \* Edge -> the scope sets ever granted on it

vars == <<req, grant, given>>

Init ==
  /\ req = [r \in ReqId |-> AbsentRequest]
  /\ grant = [e \in Edge |-> NoGrant]
  /\ given = [e \in Edge |-> {}]

WasGiven(e, sc) == \E g \in given[e] : Covered(sc, g)

Queue(r, ask) ==
  /\ req[r].status = "none"
  /\ \A o \in ReqId : req[o].status = "pending" =>
                        KeyOf(req[o]) # OpenRequestKey(ask.edge, ask.agent)
  /\ req' = [req EXCEPT ![r] = NewRequest(ask, "pending")]
  /\ UNCHANGED <<grant, given>>

QueueApproved(r, ask) ==
  /\ req[r].status = "none"
  /\ WasGiven(ask.edge, ask.scopes)
  /\ req' = [req EXCEPT ![r] = NewRequest(ask, "approved")]
  /\ UNCHANGED <<grant, given>>

WriteGrant(e, sc) ==
  /\ grant' = [grant EXCEPT ![e] = FreshGrant(sc)]
  /\ given' = [given EXCEPT ![e] = @ \cup {sc}]

\* A user approves r for scopes sc; the requests in swept, which wait on the
\* same edge and are covered by what was just granted, are approved with it.
Approve(r, sc, swept) ==
  /\ req[r].status = "pending"
  /\ \A o \in swept : /\ req[o].status = "pending"
                      /\ req[o].edge = req[r].edge
                      /\ Covered(req[o].scopes, sc)
  /\ req' = [o \in ReqId |-> IF o \in swept \cup {r}
                             THEN [req[o] EXCEPT !.status = "approved"]
                             ELSE req[o]]
  /\ WriteGrant(req[r].edge, sc)

Deny(r) ==
  /\ req[r].status = "pending"
  /\ req' = [req EXCEPT ![r].status = "denied"]
  /\ UNCHANGED <<grant, given>>

ApproveCovered(r) ==
  /\ req[r].status = "pending"
  /\ WasGiven(req[r].edge, req[r].scopes)
  /\ req' = [req EXCEPT ![r].status = "approved"]
  /\ UNCHANGED <<grant, given>>

PostConsent(e, sc) == WriteGrant(e, sc) /\ UNCHANGED req

Revoke(e) ==
  /\ grant[e].state # "none"
  /\ grant' = [grant EXCEPT ![e].state = "revoked"]
  /\ UNCHANGED <<req, given>>

Expire(e) ==
  /\ grant[e].state # "none"
  /\ grant' = [grant EXCEPT ![e].expired = TRUE]
  /\ UNCHANGED <<req, given>>

Next ==
  \/ \E r \in ReqId :
       \/ \E ask \in Ask : Queue(r, ask) \/ QueueApproved(r, ask)
       \/ \E sc \in SUBSET Scope, swept \in SUBSET ReqId :
            Approve(r, sc, swept)
       \/ Deny(r)
       \/ ApproveCovered(r)
  \/ \E e \in Edge :
       \/ \E sc \in SUBSET Scope : PostConsent(e, sc)
       \/ Revoke(e)
       \/ Expire(e)

Spec == Init /\ [][Next]_vars
=============================================================================
