--------------------------- MODULE MobileGateway ---------------------------
(* The mobile gateway: phones register their push tokens, open event streams *)
(* and are told of a consent request by the registry's webhook, which the    *)
(* gateway fans out to the user's streams and devices.  A push that fails    *)
(* because the provider no longer knows the token prunes the device.         *)
(* internal/mobilegateway (gateway.go, notify.go, store.go, fcmapns.go and   *)
(* dynamostore).                                                             *)
EXTENDS Naturals, FiniteSets

CONSTANTS
  User,
  Phone,         \* device registrations: newID makes each one new
  Owner,         \* the user each one is registered by
  Webhook,       \* calls of /internal/notify that may overlap
  Stream,        \* GET /me/stream connections
  MaxStreams,    \* maxStreamsPerUser
  StreamBuffer   \* capacity of a subscriber's channel

NoUserId == "none"

ASSUME GatewayBounds == /\ MaxStreams \in Nat \ {0} /\ StreamBuffer \in Nat \ {0}
                        /\ {NoUserId, "closed"} \cap User = {} /\ Owner \in [Phone -> User]

VARIABLES
  devices,   \* the device store, keyed by (user, id)
  phone,     \* what the owner did with each registration
  expired,   \* registrations whose token the provider no longer knows
  webhook,   \* the calls of notify
  stream,    \* the Hub: who each stream is subscribed for, what it has queued
  hitches    \* bound: failed sends and store calls, restarts to come

gatewayVars == <<devices, phone, expired, webhook, stream, hitches>>

NoCall == [at |-> "idle", user |-> NoUserId, todo |-> {}, due |-> {}]
NoStream == [user |-> NoUserId, queued |-> 0]
Closed == [user |-> "closed", queued |-> 0]   \* never opened in this run

GatewayTypeOK ==
  /\ devices \subseteq Phone /\ expired \subseteq Phone
  /\ phone \in [Phone -> {"new", "kept", "unsure", "deleted"}]
  /\ webhook \in [Webhook -> [at : {"idle", "listing", "sending", "done"},
                              user : User \cup {NoUserId}, todo : SUBSET Phone,
                              due : SUBSET Phone]]
  /\ stream \in [Stream -> [user : User \cup {NoUserId, "closed"}, queued : 0 .. StreamBuffer]]
  /\ hitches \in Nat

GatewayInit(n, phones, streams) ==
  /\ devices = {} /\ expired = {}
  /\ phone = [d \in Phone |-> IF d \in phones THEN "new" ELSE "deleted"]
  /\ webhook = [c \in Webhook |-> NoCall]
  /\ stream = [s \in Stream |-> IF s \in streams THEN NoStream ELSE Closed]
  /\ hitches = n

Hitch == hitches > 0 /\ hitches' = hitches - 1

----------------------------------------------------------------------------
\* The device store: Put, Delete (only in the partition of the user who asks)
\* and ListByUser.
Put(d) == devices \cup {d}
Delete(u, d) == devices \ {x \in {d} : Owner[x] = u}
ListByUser(u) == {d \in devices : Owner[d] = u}

\* registerDevice: a new id under the token's user.  A Put that failed may
\* have landed; the app only knows it was not answered.
RegisterDevice(d) ==
  /\ phone[d] = "new"
  /\ \/ /\ devices' = Put(d)
        /\ phone' = [phone EXCEPT ![d] = "kept"]
        /\ UNCHANGED hitches
     \/ /\ Hitch
        /\ devices' \in {devices, Put(d)}
        /\ phone' = [phone EXCEPT ![d] = "unsure"]
  /\ UNCHANGED <<expired, webhook, stream>>

\* deleteDevice: anyone may name any id.
DeleteDevice(u, d) ==
  /\ phone[d] \in {"kept", "unsure"}
  /\ devices' = Delete(u, d)
  /\ phone' = [phone EXCEPT ![d] = IF Owner[d] = u THEN "deleted" ELSE @]
  /\ UNCHANGED <<expired, webhook, stream, hitches>>

\* The app is removed from the phone, and the provider drops its token.
TokenExpires(d) ==
  /\ phone[d] \in {"kept", "unsure"} /\ d \notin expired
  /\ expired' = expired \cup {d}
  /\ UNCHANGED <<devices, phone, webhook, stream, hitches>>

----------------------------------------------------------------------------
\* Hub.Publish: every stream of the user gets the event; a full one drops it.
Publish(u) ==
  stream' = [s \in Stream |->
               IF stream[s].user = u /\ stream[s].queued < StreamBuffer
               THEN [stream[s] EXCEPT !.queued = @ + 1] ELSE stream[s]]

\* notify: publish to the streams, then list the devices, then send to each.
\* due (history): the phones the user had registered when the call came, less
\* the ones sent to.
NotifyBegins(c, u) ==
  /\ webhook[c].at \in {"idle", "done"}
  /\ Publish(u)
  /\ webhook' = [webhook EXCEPT ![c] =
       [at |-> "listing", user |-> u, todo |-> {},
        due |-> {d \in Phone : Owner[d] = u /\ phone[d] = "kept"}]]
  /\ UNCHANGED <<devices, phone, expired, hitches>>

\* ListByUser, a consistent read; if it fails nothing is sent.
NotifyLists(c) ==
  LET u == webhook[c].user IN
  /\ webhook[c].at = "listing"
  /\ \/ /\ webhook' = [webhook EXCEPT ![c].at = "sending",
                                      ![c].todo = ListByUser(u)]
        /\ UNCHANGED hitches
     \/ Hitch /\ webhook' = [webhook EXCEPT ![c] = NoCall]
  /\ UNCHANGED <<devices, phone, expired, stream>>

\* What send makes of the answers of FCM and APNs and of their token sources.
SendAnswers(d) == {"ok", "transient"} \cup {a \in {"unregistered"} : d \in expired}

PrunesAny(answer) == answer # "ok"

Prunes(answer) == answer = "unregistered"

NotifySends(c) ==
  /\ webhook[c].at = "sending"
  /\ \E d \in webhook[c].todo : \E answer \in SendAnswers(d) :
       /\ webhook' = [webhook EXCEPT ![c].todo = @ \ {d}, ![c].due = @ \ {d}]
       /\ \/ /\ devices' = IF Prunes(answer) THEN Delete(webhook[c].user, d)
                           ELSE devices
             /\ IF answer = "transient" THEN Hitch ELSE UNCHANGED hitches
          \/ answer = "unregistered" /\ Hitch /\ UNCHANGED devices
  /\ UNCHANGED <<phone, expired, stream>>

NotifyEnds(c) ==
  /\ webhook[c].at = "sending" /\ webhook[c].todo = {}
  /\ webhook' = [webhook EXCEPT ![c].at = "done"]
  /\ UNCHANGED <<devices, phone, expired, stream, hitches>>

----------------------------------------------------------------------------
\* Subscribe, the stream's loop, and its end by the client or by StreamTTL.
Subscribe(s, u) ==
  /\ stream[s] = NoStream
  /\ Cardinality({x \in Stream : stream[x].user = u}) < MaxStreams
  /\ stream' = [stream EXCEPT ![s].user = u]
  /\ UNCHANGED <<devices, phone, expired, webhook, hitches>>

StreamWrites(s) ==
  /\ stream[s].queued > 0
  /\ stream' = [stream EXCEPT ![s].queued = @ - 1]
  /\ UNCHANGED <<devices, phone, expired, webhook, hitches>>

StreamEnds(s) ==
  /\ stream[s] \notin {NoStream, Closed}
  /\ stream' = [stream EXCEPT ![s] = NoStream]
  /\ UNCHANGED <<devices, phone, expired, webhook, hitches>>

\* The store is DynamoDB's; what is in memory is gone.
GatewayRestarts ==
  /\ Hitch
  /\ webhook' = [c \in Webhook |-> NoCall]
  /\ stream' = [s \in Stream |-> IF stream[s] = Closed THEN Closed ELSE NoStream]
  /\ UNCHANGED <<devices, phone, expired>>

GatewayNext ==
  \/ \E d \in Phone : RegisterDevice(d) \/ TokenExpires(d)
  \/ \E d \in Phone, u \in User : DeleteDevice(u, d)
  \/ \E c \in Webhook, u \in User : NotifyBegins(c, u)
  \/ \E c \in Webhook : NotifyLists(c) \/ NotifySends(c) \/ NotifyEnds(c)
  \/ \E s \in Stream, u \in User : Subscribe(s, u)
  \/ \E s \in Stream : StreamWrites(s) \/ StreamEnds(s)
  \/ GatewayRestarts

----------------------------------------------------------------------------
\* When notify answers, every phone its user had registered before the call
\* was sent the prompt, or has been deleted by its user or lost its token
\* since: no earlier failed send, no overlapping call and no other user's
\* request took a working phone out of the fan-out ("Prune tokens the provider
\* says are dead ...; other failures are transient").
PhonesReached ==
  \A c \in Webhook : webhook[c].at = "done" =>
    \A d \in webhook[c].due : d \in expired \/ phone[d] = "deleted"

============================================================================
