-------------------------- MODULE AgentSuspension --------------------------
(* The agents' half of suspending an organization: the record is flagged     *)
(* first (cmd/registry/orgs.go), then every agent of the organization is     *)
(* revoked, root by root, by the cascade users share (revokeCascadeRoots).   *)
(* Spawns, self-registrations and resumes read the flag before they write,   *)
(* each in a step of its own.  A child inherits its parent's organization,   *)
(* so every agent here is in the organization.                               *)
EXTENDS AgentRegistry

CONSTANTS
  Suspender,         \* the handler that runs the suspension's cascades
  MaxAgentRequests   \* bound: requests that begin in a behaviour

ASSUME SuspenderIsAHandler == Suspender \in Handler /\ MaxAgentRequests \in Nat

VARIABLES
  disabled,   \* OrgRecord.Disabled
  passed,     \* agents whose spawn or registration has passed its guard
  asking,     \* agents whose sidecar waits for the user's consent
  suspend,    \* POST /v1/orgs/{id}/disable: progress over the agents
  begun,      \* requests begun so far
  slipped     \* history: agents of requests admitted before the flag, or
              \* made active by their own sidecar since

suspensionVars == <<disabled, passed, asking, suspend, begun, slipped>>

SuspendState == [pc : {"idle", "list", "roots", "done"}, roots : SUBSET Agent]
SuspendIdle == [pc |-> "idle", roots |-> {}]

SuspensionTypeOK ==
  /\ RegistryTypeOK
  /\ disabled \in BOOLEAN
  /\ passed \in SUBSET Agent
  /\ asking \in SUBSET Agent
  /\ suspend \in SuspendState
  /\ begun \in 0..MaxAgentRequests
  /\ slipped \in SUBSET Agent

SuspensionInit ==
  /\ RegistryInit
  /\ disabled = FALSE
  /\ passed = {}
  /\ asking = {}
  /\ suspend = SuspendIdle
  /\ begun = 0
  /\ slipped = {}

-----------------------------------------------------------------------------
(* The guarded requests                                                      *)

Begin == begun < MaxAgentRequests /\ begun' = begun + 1

PreregisterGuardOpen(a) ==
  /\ status[a] = "none" /\ a \notin passed
  /\ passed' = passed \cup {a}
  /\ Begin
  /\ UNCHANGED <<registryVars, disabled, asking, suspend, slipped>>

\* orgIsDisabled in the preregister handler: a 403, or on to the write.
PreregisterGuard(a) ==
  /\ status[a] = "none" /\ a \notin passed
  /\ ~disabled
  /\ passed' = passed \cup {a}
  /\ Begin
  /\ UNCHANGED <<registryVars, disabled, asking, suspend, slipped>>

PreregisterWrite(a) ==
  /\ status[a] = "none" /\ a \in passed
  /\ passed' = passed \ {a}
  /\ \E p \in {x \in Agent : status[x] # "none"} \cup {NoAgent} :
       Preregister(a, p)
  /\ UNCHANGED <<begun, disabled, asking, suspend, slipped>>

RegisterBegins(a) ==
  /\ status[a] # "none"
  /\ RegisterRead(a, NoAgent)
  /\ Begin
  /\ UNCHANGED <<disabled, passed, asking, suspend, slipped>>

\* orgIsDisabled in the self-registration, between its read and its write.
RegisterGuard(a) ==
  /\ reg[a].pc = "write" /\ a \notin passed
  /\ \/ /\ ~disabled
        /\ passed' = passed \cup {a}
        /\ UNCHANGED registryVars
     \/ /\ disabled
        /\ reg' = [reg EXCEPT ![a] = RegIdle]
        /\ UNCHANGED <<status, dismissed, parent, enabled, clean, casc, passed>>
        /\ Disturb({})
  /\ UNCHANGED <<begun, disabled, asking, suspend, slipped>>

RegisterLands(a) ==
  /\ a \in passed /\ reg[a].pc = "write"
  /\ RegisterWrite(a) \/ RegisterFails(a)
  /\ passed' = passed \ {a}
  /\ UNCHANGED <<begun, disabled, asking, suspend, slipped>>

RegisterEnds(a) == RegisterTuple(a) /\ UNCHANGED suspensionVars

\* The sidecar's consent gate PATCHes whatever the record says.
GateAsks(a) ==
  /\ status[a] = "active" /\ a \notin asking
  /\ PatchStatus(a, "awaiting-consent")
  /\ asking' = asking \cup {a}
  /\ Begin
  /\ UNCHANGED <<disabled, passed, suspend, slipped>>

GateGranted(a) ==
  /\ a \in asking
  /\ PatchStatus(a, "active")
  /\ asking' = asking \ {a}
  /\ slipped' = IF disabled THEN slipped \cup {a} ELSE slipped
  /\ UNCHANGED <<begun, disabled, passed, suspend>>

\* A user's resume reads the flag of the root's organization, once.
ResumeGuarded(h, root) ==
  /\ h # Suspender /\ ~disabled
  /\ CascadeStart(h, "resume", root)
  /\ Begin
  /\ UNCHANGED <<disabled, passed, asking, suspend, slipped>>

CascadeMoves(h) ==
  /\ h # Suspender
  /\ \/ \E n \in Agent : SubtreeStep(h, n) \/ NodeRead(h, n)
     \/ NodeWrite(h) \/ NodeTuple(h) \/ CascadeEnd(h)
  /\ UNCHANGED suspensionVars

-----------------------------------------------------------------------------
(* POST /v1/orgs/{id}/disable and .../enable                                 *)

\* What a resume that is past its guard may still write.
Resuming == UNION {Below(casc[h].root) :
                     h \in {x \in Handler : casc[x].op = "resume"}}

SuspendFlag ==
  /\ suspend.pc \in {"idle", "done"}
  /\ disabled' = TRUE
  /\ suspend' = [SuspendIdle EXCEPT !.pc = "list"]
  /\ slipped' = slipped \cup passed \cup Resuming
  /\ Begin
  /\ UNCHANGED <<registryVars, passed, asking>>

\* revokeCascadeRoots: one ListAgents decides the roots, those whose parent
\* is not in scope as well.
SuspendList ==
  /\ suspend.pc = "list"
  /\ LET scope == {a \in Agent : status[a] # "none"}
     IN  suspend' = [pc |-> "roots",
                     roots |-> {a \in scope : parent[a] \notin scope}]
  /\ UNCHANGED <<begun, registryVars, disabled, passed, asking, slipped>>

\* cascadeOverRoots
SuspendRoot(r) ==
  /\ suspend.pc = "roots" /\ r \in suspend.roots
  /\ CascadeStart(Suspender, "revoke", r)
  /\ suspend' = [suspend EXCEPT !.roots = @ \ {r}]
  /\ UNCHANGED <<begun, disabled, passed, asking, slipped>>

SuspendNode ==
  /\ \/ \E n \in Agent : SubtreeStep(Suspender, n) \/ NodeRead(Suspender, n)
     \/ NodeWrite(Suspender) \/ NodeTuple(Suspender)
  /\ UNCHANGED suspensionVars

\* The cascade of a root is over; a store error fails the whole request.
SuspendRootEnds ==
  /\ CascadeEnd(Suspender)
  /\ suspend' = IF casc[Suspender].pc = "nodes" /\ casc[Suspender].nodes = {}
                THEN suspend ELSE SuspendIdle
  /\ UNCHANGED <<begun, disabled, passed, asking, slipped>>

SuspendDone ==
  /\ suspend.pc = "roots" /\ suspend.roots = {}
  /\ casc[Suspender].pc = "idle"
  /\ suspend' = [suspend EXCEPT !.pc = "done"]
  /\ UNCHANGED <<begun, registryVars, disabled, passed, asking, slipped>>

\* Enabling lifts the flag and leaves the agents revoked.
EnableOrg ==
  /\ disabled /\ suspend.pc \in {"idle", "done"}
  /\ disabled' = FALSE
  /\ suspend' = SuspendIdle
  /\ slipped' = {}
  /\ UNCHANGED <<begun, registryVars, passed, asking>>

SuspensionNext ==
  \/ \E a \in Agent :
       \/ PreregisterGuard(a) \/ PreregisterWrite(a)
       \/ RegisterBegins(a) \/ RegisterGuard(a) \/ RegisterLands(a)
       \/ RegisterEnds(a) \/ GateAsks(a) \/ GateGranted(a) \/ SuspendRoot(a)
  \/ \E h \in Handler :
       CascadeMoves(h) \/ \E root \in Agent : ResumeGuarded(h, root)
  \/ SuspendFlag \/ SuspendList \/ SuspendNode \/ SuspendRootEnds
  \/ SuspendDone \/ EnableOrg

SuspensionSpec ==
  SuspensionInit /\ [][SuspensionNext]_<<registryVars, suspensionVars>>

-----------------------------------------------------------------------------
\* Once the disable has answered, no agent of the organization is pending or
\* active, unless its own spawn, registration or resume was admitted before
\* the flag went up or its sidecar's consent gate made it active since: the
\* guards and the cascade leave no gap between them (orgs.go, the disable
\* handler; main.go, the three guards).
SuspensionHolds ==
  disabled /\ suspend.pc = "done" =>
    \A a \in Agent : status[a] \in {"pending", "active"} => a \in slipped
=============================================================================
