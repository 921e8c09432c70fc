# Spawnly in TLA+

Spawnly runs AI agents on Kubernetes: each agent has its own identity, needs a
user's consent before sensitive sub-agents are spawned, and can be revoked with
everything it spawned. This directory holds TLA+ models of the parts where that
is hard to get right, the TLC configurations that check them and TLAPS proofs.

## The system and its parts

| part | code | model |
|---|---|---|
| consent broker: requests, verdicts, grants | `internal/registry/store.go`, `consent.go` | `ConsentTypes`, `ConsentBroker` (abstract) |
| its DynamoDB store and HTTP handlers | `internal/registry/dynamostore/store.go`, `cmd/registry/main.go` | `ConsentDynamo`, `ConsentDynamoReprompt`, `ConsentDynamoProofs` |
| its in-memory store | `cmd/registry/main.go` | `ConsentMem`, `ConsentMemProofs` |
| agent records, SpiceDB authority, revoke and resume cascades | `cmd/registry/main.go`, `store_adapter.go` | `AgentRegistry`, `AgentCascade`, `AgentProofs` |
| spawn and teardown | `cmd/orchestrator/main.go` | `AgentCluster`, `Teardown`, `AgentProofs` |
| templates, spawn policy, registration of remote agents | `cmd/registry/main.go`, `cmd/orchestrator/main.go` | `TemplateCatalog`, `ServiceProofs` |
| operator's reconciler | `internal/operator/reconciler.go` | `AgentCluster` |
| operator's stale sweep | `internal/operator/stalesweep.go`, `cmd/operator/main.go` | `StaleSweep`, `AgentProofs` |
| agent sidecar: registration, consent gate, tokens | `cmd/agent-sidecar` | `AgentCluster`, `SidecarTokens`, `SidecarTokensProofs` |
| CIBA completion in Keycloak; SDK token client | `keycloak/providers/.../ciba`, `sdks/go/token.go` | `SidecarTokens` |
| organizations, members, users, anchors, substrate records | `cmd/registry/orgs.go`, `users.go`, `anchor.go`, `substrate.go` | `Organizations`, `OrganizationMoves`, `OrganizationsProofs`, `MemberProofs` |
| accounts in Keycloak | `internal/orgdirectory/keycloak` | `AccountLifecycle` (abstract), `UserDirectory`, `OrganizationMoves` |
| organization guards and the suspension cascade over agents | `cmd/registry/orgs.go`, `main.go` | `AgentSuspension`, `AgentProofs` |
| substrates: connect and rotate, SPIRE entries, Entry API | `cmd/orchestrator/substrate.go`, `internal/substrate` | `SubstrateEntries` |
| substrates: channel, hub, reaper, substrate-agent | `cmd/orchestrator/substrate_*.go`, `cmd/substrate-agent` | `SubstrateDispatch`, `ServiceProofs` |
| mobile gateway | `internal/mobilegateway` | `MobileGateway`, `ServiceProofs` |
| dashboard sessions and redirects | `cmd/dashboard` | `DashboardSessions` |
| the rest | see "Not modelled" | |

How they meet: a user or a serving agent calls the orchestrator's `/spawn`, which
pre-registers a record in the registry and creates an `AgentWorkload`. The
operator turns it into a pod. The pod's sidecar registers the agent, which makes
the record active and writes the SpiceDB tuples, and for a gated agent opens a
consent request through Keycloak and waits. Revoke and resume walk the tree of
records. DELETE walks it and deletes workloads. The operator reports the ends of
pods, and its sweep fails records that have no workload.

`PROJECT.json` lists the components, the runs, the mutation of each property,
the source lines of each definition, and the hazards of the code. A hazard whose
property leaves a case out, or that has no property, says so in its note.

## Consent

**ConsentBroker** is the contract: a request is queued when its key has no open
one, a user approves or denies it, an approval writes the grant of the edge (user,
parent type, child type) and may approve other waiting requests the grant covers,
a request may be approved without asking when its scopes were granted at some time
(`given`), and grants are posted, revoked and expire.

**ConsentDynamo** takes one DynamoDB call per step. `req`, `open` and `grant` are
the `CREQ#`, `OPEN#` and `CON#` items; `call` is the local state of each handler
in flight; `given` is a history variable.

- `CreateFind` to `DeleteStaleMarker`: `POST /v1/consent-requests`, with the
  transaction that fails on its condition or on a conflict and the retry budget.
- `ApprovePivot`, `DenyPivot`, `FreeOpenMarker`, `SweepQuery`, `SweepFlip`,
  `SweepFree`: approve and deny. The sweep's index lags, so its query returns any
  subset of the siblings.
- `BackstopFind`, `ApprovePendingConsentRequest`: the read-time backstop of
  `GET /v1/consent-requests/{id}`.
- `PostConsent`, `RevokeConsent`, `GrantExpires`; `HandlerDies` ends a handler at
  any point, as an error or a crash does.

Operations that find nothing to do are stuttering steps. `retryOnTxnConflict`
around single calls is one step, since a refused attempt changes nothing.

**ConsentMem** is the store behind one mutex: each method is one step, so
approve with its sweep is atomic, but a create's look-up and its insert are two.

Checked: types, one pending request per key, no approved request without a
record, final verdicts, revocations that only a user's decision ends,
refinement of the broker by both stores, and that a request missed by a sweep is
approved by the poll that follows.

The code's comment that a revoked edge re-prompts does not hold of the DynamoDB
store (`consent_dynamo_reprompt`): an approver's sweep can outlast a revocation.
It does hold of the in-memory store (`consent_mem`).

`consent.go` calls the open request unique "per edge". The code keys it by agent
when the agent is known and by edge otherwise, which is what is modelled.

## Agents

**AgentRegistry** holds `status`, `dismissed` and `parent` of each record, and
whether the `enabled` tuple is in SpiceDB; every revocable permission is
intersected with that tuple. Self-registration (`RegisterRead`, `RegisterWrite`,
`RegisterTuple`), a terminal PATCH (`PatchStatus`, `PatchCleanup`) and a cascade
(`CascadeStart`, `SubtreeStep`, `NodeRead`, `NodeWrite`, `NodeTuple`) each take
one store or SpiceDB call per step. SpiceDB writes may fail where the code only
logs the error. `disturbed` is a history variable: the agents on which two
handlers overlapped or a tuple write was lost.

Subtrees are sets (`Below`, the least set that holds an agent's children and is
closed under children): the code visits parents before children, the model visits in
any order. This adds behaviours and removes none. The store is linearizable here;
the DynamoDB reads of agents are eventually consistent, which is listed as a
hazard. Owner and template tuples are left out; organization guards are in
`AgentSuspension`.

**AgentCascade** is the registry under any order of requests. **AgentCluster**
adds `/spawn`, the reconciler, Kubernetes and the sidecar, and has no behaviours
of its own: **StaleSweep** and **Teardown** compose it with the operator's sweep
(and a rebuild of the cluster) and with the DELETE handler. The operator lists
workloads through its cache; a swept record was registered from a pod the
operator created out of that cache, so the list is modelled as current.

**TemplateCatalog** is what a spawn asks first: which types exist, in which scope
(the global catalog or one organization), enabled or not, and which children their
agents may have, how deep and behind which consent. An edit is a read and a later
unconditional write; a spawn reads the type's template, then the parent's policy,
then writes its record. A read of a template may be one version behind
(`before`; `GetTemplate` is eventually consistent). `ever` is history. A body is a
status and a policy; the tenant id and the rest of a template are left out, and a
request refused for them is `CatalogCallFails`.

Checked: authority does not outlive the status that allows it; a revoke answers
with no pending or active agent left but those written while it ran; the sweep
fails an agent with a workload only if it was revoked before its workload
existed; a converged DELETE leaves only workloads created since its last pass
began; registration does not move an agent in the tree; every record is justified
by versions its own and its parent's template really had; edits stay in their scope
and delete only what is disabled. The last excepts a request that overwrites
something other than what it read: two overlapping creates of one name do move it
between scopes, and a delete can remove a template enabled since its check.

Three comments of the code claim more, and each has a run that refutes it:
`agent_register_race` (a revoked agent made active by a registration that had
read it earlier), `stale_sweep_race` (an agent revoked while pending is failed
although its workload exists), `teardown_race` (a spawn in flight survives a
DELETE that answered 204).

## Organizations and accounts

**AccountLifecycle** is the contract of an account: it is locked for a set of
independent reasons, one per suspending organization plus the platform's ban, and
open exactly while none is left. **UserDirectory** is the adapter: Keycloak's PUT
replaces the whole representation, so an edit is `EditGet`, `EditPut` and, after a
disable, `Logout`, under a mutex per user. Its mapping to the contract
(`RefinesAccounts`) counts a lock nobody recorded as the platform's.

**Organizations** runs the registry's handlers over it: `org` is the record, `kcOrg`
and `member` are Keycloak's, `tuple` is SpiceDB's, `uris` is the shared dashboard
client, `owner` and `live` are agents by owner. Every call is a step and may fail;
only the URI PUT may land and still be reported failed, which is the case the code
names. `req` is the state of each handler in flight.

Requests interfere in ways the code does not prevent, so most properties name an
exception, kept in history variables: `torn` (an organization whose requests
overlapped), `frayed` (a user and organization whose requests conflicted or whose
best-effort call failed), `clean` (nothing overlapped this request). What happens
inside the exceptions is in the notes of the hazards: a whole-record write undoes a
suspension it overlapped; a suspension crossing a removal strands its tag; two role
changes can drop both tuples; both limits of self-service signup can be passed.
`RefinesAccounts` and `ActiveAnchorProven` have no exception.

**AgentSuspension** adds to `AgentRegistry` the organization check of
pre-registration, registration and resume, and the cascade of a disable. `slipped`
holds the agents admitted before the flag went up, or made active since by a
sidecar's consent gate, which no guard looks at.

## Substrates

**SubstrateEntries**: `record` is the registry's substrate record, `entry` the SPIRE
entries (identity, parent leaf), `node` the attested nodes. A connect is
`ConnectIssue`, `AdminRecord`, `SweepList`, `SweepDelete` or `SweepFallback`,
`EvictNodes`, `Provision`; each may fail. The gate of the Entry API and the write
behind it are one step, and its two halves (entry service, SVID authenticator) are
one flag `wired`. A connect that finds it down succeeds without provisioning
(`AdminUnwired`); a comment defers that to a reconcile, which the code does not have.

**SubstrateDispatch**: the hub's `current` connection, the handler of each connection
(`srv`), frames in a bounded buffer (with the socket, one queue), spawns, dismissals
and the reaper that push them, and the substrate-agent, whose operations hold `opMu`
and take one call per step. Connections break, buffers fill, calls fail, either
side restarts.

## Tokens

**SidecarTokens** is one gated agent: `waitForGrant` and two `/token` callers over the
source's mutex, Keycloak's codes, tracker and poller, the user, the sidecar's
client-credentials cache and the SDK's cache. Time is a tick of the SDK's buffer (five
seconds); margins and lifetimes are in ticks. A lost answer to an opening leaves a
second prompt, which `OneOutstandingRequest` excepts. Scopes are dropped; the
sidecar's own restart is in `AgentCluster`.

## Gateway and dashboard

**MobileGateway**: devices in the DynamoDB store, streams, webhook calls that overlap.
**DashboardSessions**: a browser's tabs share the cookies of each host (`jar`);
sessions and pending logins are in the server's memory; Keycloak is external.
`Landing` is what the page does with its first answer. `NavigationSettles` excepts two
tabs that are both redirected for ever: each can undo the other's session.

## Runs

| run | instance | result |
|---|---|---|
| `consent_dynamo` | 1 edge, 2 agents, 2 scopes, 3 requests, 2 handlers, 2 attempts | pass |
| `consent_dynamo_live` | 2 requests, 1 handler, 1 poller, expiring grant | pass |
| `consent_dynamo_reprompt` | as `consent_dynamo` | refuted |
| `consent_mem` | 2 edges, 2 agents, 3 requests, 2 handlers | pass |
| `agent_cascade` | 3 agents, 1 of which starts, 1 cascade at a time | pass |
| `agent_register_race` | 1 agent | refuted |
| `stale_sweep` | 1 gated agent, 1 cascade at a time, 1 rebuild | pass |
| `stale_sweep_race` | 1 agent | refuted |
| `teardown` | 2 agents, at most 2 passes, one DELETE; or the catalog: 2 types, 2 organizations, 2 requests at a time | pass |
| `teardown_race` | 2 agents | refuted |
| `organizations` | 2 users, 2 organizations, 2 requests at a time, 15 mixes of 2-3 requests and 0-2 faults | pass |
| `platform` | one component per behaviour, bounds below | pass |

Why the bounds suffice for the cases of interest: three requests give a duplicate
on one key and a sibling on another; two handlers give every pairwise race, and
each handler is reused, so sequences are longer than two. Three agents give a
chain and a fork. One agent meets every race of the sweep, which treats each
record by itself. Two agents give a parent that spawns during its own teardown,
and two passes give one that deletes and one that finds nothing; the code allows
eight. `txnConflictBudget`, `MaxRebuilds`, `maxPasses`, `Started` and `Faults`
are the named bounds there. `teardown` identifies states that differ only in
SpiceDB's tuples, the cleanups that drop them, dismissals and history (`View`):
these guard no step but those that change them. Its other half is the catalog
(`focus`, as in `platform`): three edits from nothing, and from a seeded catalog two
edits, four spawns, or one edit and two spawns, with at most three records. Three
edits give a create, a disable and a delete or re-creation around it; three records
give a chain that meets its depth.

The types of the agents' variables are checked in `stale_sweep`, whose module
extends the registry and the cluster.

`organizations` checks that a suspension locks its members and only an enable lifts
it, that tags, tuples, agents and memberships agree when requests are over, that a
failed create leaves nothing, that organizations keep their URIs, that an active
anchor was proven, and `RefinesAccounts`. Two requests at once give every pair of a
mix; a third gives what follows an overlap. Mixes of three requests have no
failing calls, those with one or two failing calls have two requests, and of the
mixes over both organizations none has a failing call. Not every pair of operations is in a
mix: a mix holds those that touch the same state.

`platform` puts five components in one instance; `focus` picks the one that moves,
since they share no steps. Suspension: 2 agents, 4 requests. Substrate: 2 agents, 3
leaves, 2 connections, 2 administrators, a buffer of 1, and eleven `Scenes` that say
what happens and how often (a scene has at most two or three kinds of event).
Tokens: 2 requests and a token of 2 ticks, with 1 caller and one surprise, or 2
callers and a stored consent. Gateway: 2 phones of one user, 1 phone and a failure,
or 2 streams and a failure; 2 webhooks. Dashboard: 2 tabs with 3 visits, or 1 tab
with 3 and a mishap, a member and an administrator. These are bounds on what one behaviour does: events
of different scenes are not combined.

Symmetry is used only in runs of safety properties.

Deadlock is not checked: when every request id or agent is used up and no handler
is in flight an instance simply stops.

**Fairness** is assumed in two runs. In `consent_dynamo_live`, Keycloak's poller runs on
a timer and asks for each request it tracks, so its look-up and its flip happen
if they are possible again and again (strong fairness: single calls may fail, not
all of them). Users, handlers and failures are unconstrained.

In `platform`: `SubstrateFairness` says that goroutines run, the dialer and the
reconcile ticker keep firing, and SPIRE renews what its entries allow (weak
fairness); nobody has to connect or install. `TokensFairness`: time passes and
goroutines run, and a goroutine waiting for the mutex gets it although others keep
taking it (strong fairness of `waitForGrant`'s look at the source, `WaitBegins` or
`WaitChecks`: Go's mutex is starvation-free). `DashboardFairness`: browsers follow redirects and servers answer.
Faults are bounded in number, so liveness is claimed once they have stopped.

## Proofs

Every theorem holds for all values of the constants that satisfy the named `ASSUME`s
of the modules, so for any number of users, agents, requests and handlers and any
number of failures. The layout is the same everywhere: an invariant strong enough to
be inductive, one lemma per action or per kind of step, and the properties as
consequences. Each paragraph says what had to be added to the property, and why.

**`ConsentDynamoProofs`**: `TypeCorrect`, `OneOpenRequest`, `ApprovedGranted`,
`ResolvedFinal`, `RevokedStaysRevoked` and `Implements` (`Spec => Broker!Spec`). They
rest on `InductiveInvariant`, about `IInv`. That no two pending requests share a key
is not inductive: a create may run while a marker is missing. `IInv` says that the
marker of a pending request points at it (`Marked`), that no marker points at a
request that does not exist, that grants agree with what was given, and what a
handler still knows long after its read (`CallOK`): the request whose marker it will
delete is resolved, and what it will approve was granted. Frame lemmas (`ReadStep`,
`FlipStep`, `UnmarkStep`, `GrantStep`) cover the four kinds of step. For `Implements`,
every step is matched with one broker action or none (`NextImplements`).

**`ConsentMemProofs`**: the same for the in-memory store: `MemTypeCorrect`,
`KeysMatchRequests` (`OpenIffPending`), `RevokedEdgeAsksAgain`
(`RevokedEdgeReprompts`, which the DynamoDB store does not have) and `MemImplements`.
`IInv` adds to the match of keys and requests what a handler has found between its two
locked sections: what it will approve was given once, and the backstop's request was
not queued after a revocation that still stands (`CallOK`, `AfterRevokeOK`).

**`AgentProofs`**, for any tree, about four specifications that share the registry's
actions: what these preserve is proved once, of `RegistryAct`. First the registry on its
own (`CascadeSpec`) and with a suspension (`SuspensionSpec`).

- `TupleFollowsStatus` (`EnabledOnlyWhileLive`): `RInv` says that on an agent no two
  handlers met on, the tuple is behind the status only while the one handler in flight
  is about to write it (`Settled`).
- `RevokeCovers` (`RevokeCoversSubtree`): while the cascade walks, every child of a
  node it has listed is listed, queued, or has nothing below it but agents written
  since the cascade started; afterwards, what is still pending or active is a node to
  come or was written since (`Covers`). No induction over the tree is needed: `Below`
  is the least closed set, so it lies in any set that holds the root and is closed
  under children.
- `SuspensionIsComplete` (`SuspensionHolds`): whoever is pending or active while the
  flag is up slipped through, is a node of the cascade that runs, or is below a root
  the suspension has still to visit (`Sweeping`, `Due`). It needs that every record is
  below one that a person spawned (`Rooted`).

Then with the cluster around it.

- With the sweep (`StaleSpec`): `StaleTypeCorrect`, `TupleFollowsStatusInCluster`,
  `SweepSpares` (`SweepSparesUnlessRevokedEarly`). The sweep acts on a list that may be
  old; `StaleInv` says that whatever it lists, and whatever a resume may bring back,
  has had its workload or was revoked early (`Placed`), so an agent found without one
  will not get one.
- With the DELETE (`DeletionSpec`): `DeleteConverges` (`ConvergedLeavesOnlyNewborns`)
  and `ParentsAreFixed` (`LineageFixed`). `DeletionInv` is `Covers` again, for the
  agents that have no workload or one created since the pass began (`Passes`).

**`SidecarTokensProofs`**, for any number of callers and any lifetimes:
`DenialStays` (`DenialIsTerminal`), `OneRequest` (`OneOutstandingRequest`),
`HandedLive` (`HandedTokensLive`). All need that the mutex excludes (`Excludes`): a
caller past its look at the source would otherwise open a request or answer with a
token after another one's poll brought the denial (`NobodyAmidDenied`). `TokenInv`
adds that tokens are handed on with life to spare (`Spare`), and `RequestInv` that the
open request is the one the source polls or the one whose opening is under way, and
that it runs out no later than the source believes (`Owned`).

**`ServiceProofs`** is about three services with specifications of their own
(`CatalogSpec`, `GatewaySpec`, `SubstrateSpec`), whose initial states include those of
`teardown` and `platform`.

- `GuardsHold` (`CatalogGuardsHold`): a write only knows what its read found, so
  `CatalogInv` keeps the verdict of the read until then (`Warranted`).
- `SpawnsLawful` (`SpawnsFollowTheCatalog`): `ChainInv` says which versions of the two
  templates speak for a spawn at each of its steps (`Lawful`). A lineage is the least
  set closed under parents, so that a child's is its parent's and itself, and adding a
  record changes no other (`UpStep`, `UpKept`); parents are older than their children,
  which makes the count exact (`UpCount`).
- `FanOutReachesPhones` (`PhonesReached`): `GatewayInv` adds that a registered phone
  with a working token stays in the store whatever others do (`Stored`), and what a
  call in flight still owes (`Owed`).
- `HubCorrect` (`HubHoldsTheLiveChannel`) is inductive once the states of a connection
  are typed (`HubInv`); every step is reduced to one of six effects on the hub.
- `RotationCorrect` (`RotationLeavesOneIdentity`): `RotationInv` adds what a connect
  that nothing overlapped knows on its way (`Alone`): before it deletes, every
  bootstrap entry is among those it will delete; when it provisions none is left.
- `IdentityKept` (`WorkloadsKeepTheirIdentity`) and `NothingStranded`
  (`NoStrandedEntry`): entries and workloads are written by separate calls and differ
  in between; `WorkloadInv` says that the operation that holds `opMu` accounts for
  every difference.

**`OrganizationMoves`** proves of the directory alone `DirCorrect` (an edit about to
be written holds the account as it is, and no two edits hold one account, which is
what the mutex per user is for) and `DirectoryRefines` (`RefinesAccounts`; without
`EditOK` a PUT would write back reasons that have changed since its GET). It also
reduces the forty steps of the handlers to what the other two modules need: how a
request's point, record and arguments move (`Moves`, `RecMove`), what accepting one
does to those it overlaps with (`Begins`), which steps write which store (`Writers`),
which point of a create or a delete follows which (`CreateTable`, `DeleteTable`). Four
invariants that they share are shown inductive here:

- `RecordInv`: the record is read and written back whole, so what is in the store says
  nothing of what will be. It demands the anchor's proof also of every copy in flight,
  and that a request nothing has overlapped holds the record as it is (`WriterOK`,
  from `OverlapSeen`: two requests on one organization have both lost `clean`);
- `TouchInv`: conflicting requests have frayed what both touch (`ConflictSeen`);
- `UnwindInv`: what of a create that unwinds is already gone (`UnwoundOK`);
- `EditInv`: an edit of an account belongs to the request that began it (`EditOf`).

**`OrganizationsProofs`** proves `AnchorsProven` (`ActiveAnchorProven`),
`SuspensionsKept` (`OnlyEnableLiftsSuspension`), `OrganizationsRefine`
(`RefinesAccounts`, with all handlers around the directory), `UrisKept`
(`SatelliteUrisKept`) and `SuspensionsLock` (`SuspendedMembersLocked`).

- `UriInv` adds that editMu holds what the client lists (`UriMutex`), and that whoever
  left an organization without its URIs still has to write them or to take the record
  away (`Owing`).
- `SuspInv` follows a suspension that nothing overlaps: every member is locked and signed
  out, still to be visited, or in the edit under way (`DisableOK`). Once it has answered,
  the organization is closed until a request goes over its members again (`HeldOK`): what
  adds a member or starts an agent knows the flag (`FlagOK`), a removal lifts the lock
  only of who has left (`GoneOK`), and an account that is locked takes no login. That
  `torn` marks every overlap and every failure is `TornSeen`, `CleanSeen` and
  `FailureTears`; only a clean suspension takes the mark away, and it is alone then
  (`Untorn`).

**`MemberProofs`** proves `MembersAgree` (`AccessMeansMember`), `UnwoundClean`
(`UnwindLeavesNothing`) and `TagsOfMembers` (`TagMeansMember`).

- Membership is written to Keycloak, SpiceDB and the agents by separate calls, so the
  stores disagree while a request is between two of them. `MemberInv` says of every user
  and organization that nothing has frayed that only such a request accounts for a
  difference (`Loose`), and what each request at work on the pair relies on at its point
  (`RequestOK`): a grant that the user has joined, a removal that the role is gone, a
  create that it found no record that whatever is there is its own (`Fresh`). Two requests
  that are both at work on such a pair do not conflict, so one may be looked at alone
  (`Apart`).
- `TagInv` ties the tags to the flag: where nothing has frayed, an account carries the tag
  of an organization only while its record says disabled, and who carries it is a member
  or is just being taken out by a removal that still has to lift it (`TagPair`,
  `Leaving`). It needs that an enable and a delete have still to visit whoever is tagged (`LiftTag`).

Assumptions beside the types of constants: `PlatformIsNoOrg`, `NobodyIsNoUser`,
`WaiterIsNoCaller`, `NoAskIsNoRequest` and `CallsAreNoRequests` keep special values
apart from ordinary ones; `HandlersAreCascades`, `PatchesAreReports`,
`RebuildsAreBounded`, `MixesNameOrganizations`, `EntryIds`, `DispatchBounds`,
`GatewayBounds` and `CatalogBounds` say what the parameters range over.

Only model-checked is liveness (`StrandedRequestHeals`, `ClusterFollowsRecords`,
`VerdictReached`, `NavigationSettles`), which is out of the prover's reach.

## Not modelled

- Stateless checks and cryptography: credential verification, token exchange and
  actor chains, SPIFFE paths, selectors, certificate issuance, scopes.
- Text and schemas: SpiceDB schema extension, the identity mapper. The registration cap counts users inside Keycloak.
- The purge of a deleted user's consents; the SVID bearer's and Keycloak admin
  client's token caches (the latter only as failing calls); event logs.
- Eventually consistent reads of agents in DynamoDB (a lagging read of an ancestor
  would make `depth` count short).
- Remote (consumer-hosted) agents after their registration; the operator's services and identity injection.
- Proxied endpoints of dashboard and gateway, the mobile app, example agents, the
  Terraform provider and test tooling: forwarding, user interface, clients.
