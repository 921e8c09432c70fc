------------------------ MODULE ConsentDynamoReprompt -----------------------
(* The DynamoDB consent broker with one more history variable: the create    *)
(* handlers that began, and the requests they queued, after the consent of   *)
(* their edge was revoked and while it stays revoked.                        *)
EXTENDS ConsentDynamo

VARIABLE afterRevoke   \* a subset of Call \cup ReqId

StaysRevoked(e) == grant[e].state = "revoked" /\ grant'[e].state = "revoked"

RepromptInit == Init /\ afterRevoke = {}

RepromptNext ==
  /\ Next
  /\ afterRevoke' =
       {c \in Call :
          /\ call'[c].pc # "idle"
          /\ StaysRevoked(call'[c].ask.edge)
          /\ c \in afterRevoke \/ (call[c].pc = "idle" /\ call'[c].pc = "txn")}
       \cup
       {r \in ReqId :
          /\ req'[r].status = "pending"
          /\ StaysRevoked(req'[r].edge)
          /\ r \in afterRevoke \/ \E c \in Call \cap afterRevoke :
                                    CreateTxn(c, r)}

RepromptSpec == RepromptInit /\ [][RepromptNext]_<<vars, afterRevoke>>

\* Once a consent is revoked "the next spawn of that edge re-prompts the
\* user" (the revoke handler): while the revocation stands, no request asked
\* for after it is approved.
RevokedEdgeReprompts ==
  [][\A r \in ReqId \cap afterRevoke :
       req'[r].status = "approved" =>
         grant'[req[r].edge].state # "revoked"]_<<vars, afterRevoke>>
=============================================================================
