-------------------------- MODULE SubstrateEntries --------------------------
(* An organization's substrate: the customer cluster its agents run on.  The *)
(* control plane issues it an identity (a leaf), keeps a record of it, and   *)
(* writes the SPIRE entries that turn the leaf's node into SVIDs: one for    *)
(* the substrate-agent itself (Boot) and one per workload.  Connecting again *)
(* is a rotation.  One organization; cmd/orchestrator/substrate.go,          *)
(* internal/substrate.  The SPIRE server and agent are external.             *)
EXTENDS AgentRegistry

CONSTANTS
  Leaf, NoLeaf,   \* identities the issuer can issue
  Boot,           \* the substrate-agent's own SPIFFE id
  Admin           \* concurrent connect and disconnect requests

ASSUME EntryIds == Boot \notin Agent /\ NoLeaf \notin Leaf

VARIABLES
  record,      \* OrgRecord.Substrate: status and certificate
  issued,      \* leaves issued so far
  delivered,   \* leaves whose connect answered 201
  entry,       \* SPIRE registration entries: <<id, parent leaf>>
  node,        \* attested x509pop nodes
  wired,       \* the entry service is published (initGRPCBrokerWithRetry)
  admin,       \* connect and disconnect requests in flight
  doomed,      \* per request: the entries its sweep listed
  mixed,       \* history: requests that overlapped another one
  calm,        \* history: leaf of the last connect, if nothing overlapped it
  mounted,     \* leaf installed in the customer cluster
  svid         \* the substrate-agent holds a valid SVID

entryVars == <<record, issued, delivered, entry, node, wired, admin, doomed,
               mixed, calm, mounted, svid>>

Leaves == Leaf \cup {NoLeaf}
AdminIdle == [op |-> "none", pc |-> "idle", leaf |-> NoLeaf]
NoSubstrate == [status |-> "none", leaf |-> NoLeaf]

EntriesTypeOK ==
  /\ record \in [status : {"none", "pending", "active"}, leaf : Leaves]
  /\ issued \in SUBSET Leaf /\ delivered \in SUBSET issued
  /\ entry \in SUBSET ((Agent \cup {Boot}) \X Leaf)
  /\ node \in SUBSET Leaf
  /\ wired \in BOOLEAN /\ svid \in BOOLEAN
  /\ admin \in [Admin -> [op : {"none", "connect", "disconnect"},
                          pc : {"idle", "record", "list", "delete",
                                "fallback", "evict", "provision"},
                          leaf : Leaves]]
  /\ doomed \in [Admin -> SUBSET ((Agent \cup {Boot}) \X Leaf)]
  /\ mixed \in SUBSET Admin
  /\ calm \in Leaves /\ mounted \in Leaves

\* A substrate never connected, or one that is up on its first leaf.
EntriesInit(first) ==
  /\ record = IF first = NoLeaf THEN NoSubstrate
              ELSE [status |-> "active", leaf |-> first]
  /\ issued = {first} \ {NoLeaf} /\ delivered = issued
  /\ entry = {Boot} \X issued
  /\ node = issued
  /\ wired \in IF first = NoLeaf THEN BOOLEAN ELSE {TRUE}
  /\ admin = [x \in Admin |-> AdminIdle]
  /\ doomed = [x \in Admin |-> {}]
  /\ mixed = {} /\ calm = first
  /\ mounted = first
  /\ svid = (first # NoLeaf)

-----------------------------------------------------------------------------
(* Requests                                                                  *)

InFlightAdmin == {x \in Admin : admin[x].pc # "idle"}

\* Every entry is deleted by the id it was listed under: one deleted and
\* written again meanwhile is out of reach of an older listing.
Erase(gone) ==
  /\ entry' = entry \ gone
  /\ doomed' = [x \in Admin |-> doomed[x] \ gone]

\* Broker.CreateEntry, DeleteEntry (whatever the parent) and
\* EvictNodesUnderPrefix, of which any part may fail.
CreateEntry(id, leaf) == entry' = entry \cup {<<id, leaf>>}
DeleteEntry(id) == Erase({id} \X Leaf)
EvictNodesUnderPrefix(keep) == \E gone \in SUBSET (node \ {keep}) : node' = node \ gone

\* Requests and leaves are interchangeable: the next unused one is taken.
AdminBegins(x, op, leaf) ==
  /\ admin[x].pc = "idle" /\ x = CHOOSE y \in Admin : admin[y].pc = "idle"
  /\ admin' = [admin EXCEPT ![x] = [op |-> op, pc |-> "record", leaf |-> leaf]]
  /\ mixed' = IF InFlightAdmin = {} THEN mixed
              ELSE mixed \cup InFlightAdmin \cup {x}
  /\ calm' = NoLeaf

AdminGoes(x, pc) == admin' = [admin EXCEPT ![x].pc = pc] /\ UNCHANGED mixed
AdminEnds(x) == admin' = [admin EXCEPT ![x] = AdminIdle] /\ mixed' = mixed \ {x}

ConnectIssue(x) ==
  /\ Leaf # issued
  /\ LET l == CHOOSE l \in Leaf : l \notin issued IN
       issued' = issued \cup {l} /\ AdminBegins(x, "connect", l)
  /\ UNCHANGED <<record, delivered, entry, node, wired, doomed, mounted, svid>>

DisconnectBegins(x) ==
  /\ record.status # "none"
  /\ AdminBegins(x, "disconnect", NoLeaf)
  /\ UNCHANGED <<record, issued, delivered, entry, node, wired, doomed,
                 mounted, svid>>

\* putSubstrateRecord or deleteSubstrateRecord.  A failed call may have
\* landed; it ends the request.
AdminRecord(x) ==
  /\ admin[x].pc = "record"
  /\ LET written == IF admin[x].op = "disconnect" THEN NoSubstrate
                    ELSE [status |-> "pending", leaf |-> admin[x].leaf]
     IN  \/ record' = written /\ AdminGoes(x, "list")
         \/ record' \in {record, written} /\ AdminEnds(x)
  /\ UNCHANGED <<issued, delivered, entry, node, wired, doomed, calm, mounted,
                 svid>>

SweepListWorkloads(x) ==
  /\ admin[x].pc = "list" /\ wired
  /\ doomed' = [doomed EXCEPT ![x] = {e \in entry : e[1] # Boot}]
  /\ AdminGoes(x, "delete")
  /\ UNCHANGED <<record, issued, delivered, entry, node, wired, calm, mounted,
                 svid>>

\* InvalidateOrgNodeEntries, first half: list under the organization's prefix.
SweepList(x) ==
  /\ admin[x].pc = "list" /\ wired
  /\ \/ doomed' = [doomed EXCEPT ![x] = entry] /\ AdminGoes(x, "delete")
     \/ UNCHANGED doomed /\ AdminGoes(x, "fallback")
  /\ UNCHANGED <<record, issued, delivered, entry, node, wired, calm, mounted,
                 svid>>

\* No entry service yet: the bootstrap entry is left out and the request
\* succeeds.
AdminUnwired(x) ==
  /\ admin[x].pc = "list" /\ ~wired
  /\ delivered' = delivered \cup ({admin[x].leaf} \ {NoLeaf})
  /\ AdminEnds(x)
  /\ UNCHANGED <<record, issued, entry, node, wired, doomed, calm, mounted,
                 svid>>

\* Second half: the batch delete, of which any part may fail.
SweepDelete(x) ==
  /\ admin[x].pc = "delete"
  /\ \E gone \in SUBSET doomed[x] :
       /\ Erase(gone)
       /\ \/ gone = doomed[x] /\ AdminGoes(x, "evict")
          \/ AdminGoes(x, "fallback")
  /\ UNCHANGED <<record, issued, delivered, node, wired, calm, mounted, svid>>

\* Bootstrap-only fallback.  Failing it fails a connect, not a disconnect.
SweepFallback(x) ==
  /\ admin[x].pc = "fallback"
  /\ \/ DeleteEntry(Boot) /\ AdminGoes(x, "evict")
     \/ /\ UNCHANGED <<entry, doomed>>
        /\ IF admin[x].op = "connect" THEN AdminEnds(x)
           ELSE AdminGoes(x, "evict")
  /\ UNCHANGED <<record, issued, delivered, node, wired, calm, mounted, svid>>

\* EvictSupersededOrgNodes, best effort; a disconnect keeps none.
EvictNodes(x) ==
  /\ admin[x].pc = "evict"
  /\ EvictNodesUnderPrefix(admin[x].leaf)
  /\ IF admin[x].op = "connect" THEN AdminGoes(x, "provision")
     ELSE AdminEnds(x)
  /\ UNCHANGED <<record, issued, delivered, entry, wired, doomed, calm,
                 mounted, svid>>

\* ProvisionSubstrateAgentEntry, and the 201 that hands the leaf over.
Provision(x) ==
  /\ admin[x].pc = "provision"
  /\ \/ /\ CreateEntry(Boot, admin[x].leaf)
        /\ delivered' = delivered \cup {admin[x].leaf}
        /\ calm' = IF x \in mixed THEN NoLeaf ELSE admin[x].leaf
     \/ UNCHANGED <<entry, delivered, calm>>
  /\ AdminEnds(x)
  /\ UNCHANGED <<record, issued, node, wired, doomed, mounted, svid>>

EntryServiceUp ==
  /\ ~wired /\ wired' = TRUE
  /\ UNCHANGED <<record, issued, delivered, entry, node, admin, doomed, mixed,
                 calm, mounted, svid>>

AdminStep(x) ==
  \/ ConnectIssue(x) \/ DisconnectBegins(x) \/ AdminRecord(x)
  \/ SweepList(x) \/ AdminUnwired(x) \/ SweepDelete(x) \/ SweepFallback(x)
  \/ EvictNodes(x) \/ Provision(x)

-----------------------------------------------------------------------------
(* SPIRE in the customer cluster, and the Entry API it opens                 *)

Renewable == mounted \in node /\ <<Boot, mounted>> \in entry

Attest ==
  /\ mounted # NoLeaf /\ mounted \notin node
  /\ node' = node \cup {mounted}
  /\ UNCHANGED <<record, issued, delivered, entry, wired, admin, doomed, mixed,
                 calm, mounted, svid>>

FetchSvid ==
  /\ ~svid /\ Renewable /\ svid' = TRUE
  /\ UNCHANGED <<record, issued, delivered, entry, node, wired, admin, doomed,
                 mixed, calm, mounted>>

\* A cached SVID lapses once SPIRE no longer renews it.
SvidLapses ==
  /\ svid /\ ~Renewable /\ svid' = FALSE
  /\ UNCHANGED <<record, issued, delivered, entry, node, wired, admin, doomed,
                 mixed, calm, mounted>>

SpireStep == Attest \/ FetchSvid \/ SvidLapses

\* authEntryCaller: the service is up, the SVID is the substrate-agent's and
\* the organization has a substrate record (of whichever leaf).
EntryCallerAuthorized == wired /\ svid /\ record.status # "none"

\* authorizeWorkload: a record of the organization names the agent.  (That the
\* identity, the parent and the selectors are well formed and the
\* organization's own is the shape of an entry here.)
AuthorizeWorkload(a) == status[a] # "none"

\* CreateWorkloadEntry and DeleteWorkloadEntry: the record must exist for a
\* create; the parent is the caller's own node.
CreateWorkloadEntry(a) ==
  /\ EntryCallerAuthorized /\ AuthorizeWorkload(a)
  /\ CreateEntry(a, mounted)
  /\ UNCHANGED <<record, issued, delivered, node, wired, admin, doomed, mixed,
                 calm, mounted, svid>>

DeleteWorkloadEntry(a) ==
  /\ EntryCallerAuthorized
  /\ DeleteEntry(a)
  /\ UNCHANGED <<record, issued, delivered, node, wired, admin, mixed, calm,
                 mounted, svid>>

\* POST /v1/orgs/{id}/substrate/activate
ActivateRecord ==
  /\ record' = IF record.status = "none" THEN record
               ELSE [record EXCEPT !.status = "active"]
  /\ UNCHANGED <<issued, delivered, entry, node, wired, admin, doomed, mixed,
                 calm, mounted, svid>>

-----------------------------------------------------------------------------
\* After a connect that no other connect or disconnect overlapped, the
\* substrate-agent can attest under the recorded leaf and under no other:
\* the sweep, its fallback and the provisioning leave exactly one bootstrap
\* entry, whatever failed on the way (substrate.go, connect).
RotationLeavesOneIdentity ==
  calm # NoLeaf =>
    /\ record.leaf = calm
    /\ {l \in Leaf : <<Boot, l>> \in entry} = {calm}
=============================================================================
