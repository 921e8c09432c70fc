---------------------------- MODULE AgentCascade ----------------------------
(* The registry on its own, under any order of requests from the control     *)
(* plane and the sidecars: what a revoke cascade guarantees while records    *)
(* are pre-registered, registered, patched, revoked and resumed around it.   *)
EXTENDS AgentRegistry

CONSTANTS
  Patches,   \* the statuses sidecars and the operator PATCH
  Started    \* the agents whose pod starts: the others stay pre-registered

\* The sidecar reports active, awaiting-consent and failed, the operator
\* completed and failed; neither ever reports pending or revoked.
ASSUME PatchesAreReports ==
  Patches \subseteq {"active", "awaiting-consent"} \cup Exited

VARIABLE late   \* history: Handler -> agents others wrote since it started

cascadeVars == <<registryVars, late>>

CascadeTypeOK == RegistryTypeOK /\ late \in [Handler -> SUBSET Agent]

CascadeInit == RegistryInit /\ late = [h \in Handler |-> {}]

\* A fresh agent is spawned under a known parent, or none.
Spawn(a) ==
  /\ status[a] = "none"
  /\ \E p \in {x \in Agent : status[x] # "none"} \cup {NoAgent} :
       Preregister(a, p)

Request(a) ==
  \/ a \in Started /\ status[a] # "none" /\ RegisterRead(a, NoAgent)
  \/ RegisterWrite(a) \/ RegisterFails(a)
  \/ RegisterTuple(a)
  \/ a \in Started /\ \E st \in Patches : PatchStatus(a, st)
  \/ PatchCleanup(a)

OwnWrite(h, a) ==
  casc[h].cur = a /\ casc[h].pc = "write" /\ casc'[h].pc = "tuple"

CascadeHistory ==
  late' = [h \in Handler |->
             IF casc'[h].pc = "idle" THEN {}
             ELSE late[h] \cup {a \in Agent : status'[a] # status[a]
                                              /\ ~OwnWrite(h, a)}]

CascadeNext ==
  /\ \/ \E a \in Agent : Spawn(a) \/ Request(a)
     \/ \E h \in Handler : Cascade(h)
  /\ CascadeHistory

CascadeSpec == CascadeInit /\ [][CascadeNext]_cascadeVars

-----------------------------------------------------------------------------
\* A revoke that has handled every node it found answers 200 with no agent of
\* the subtree still pending or active, except those another request wrote
\* while the cascade ran (main.go, POST /v1/agents/{id}/revoke).
RevokeCoversSubtree ==
  \A h \in Handler :
    casc[h].op = "revoke" /\ casc[h].pc = "nodes" /\ casc[h].nodes = {}
      => \A a \in Below(casc[h].root) :
           status[a] \in {"pending", "active"} => a \in late[h]

\* A revoked agent is active again only through resume (main.go, the comment
\* on the refused re-registration).
RevokedUntilResume ==
  [][\A a \in Agent :
       status[a] = "revoked" /\ status'[a] = "active"
         => \E h \in Handler : casc[h].op = "resume" /\ casc[h].cur = a]_cascadeVars
=============================================================================
