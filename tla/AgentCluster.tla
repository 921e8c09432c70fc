---------------------------- MODULE AgentCluster ----------------------------
(* The cluster side of an agent's life, on top of AgentRegistry: the         *)
(* orchestrator's spawn handler, which pre-registers the record and then     *)
(* creates the AgentWorkload; the operator's reconciler, which turns a       *)
(* workload into a pod and reports its end to the registry; and the sidecar  *)
(* in the pod, which registers the agent and runs the consent gate.          *)
EXTENDS AgentRegistry

CONSTANTS
  Gated,      \* agents whose template needs the user's consent
  LongLived   \* agents whose Lifecycle is "long-lived"

VARIABLES
  spawn,    \* Agent -> progress of the /spawn that creates it
  cr,       \* Agent -> AgentWorkload: absent, live, being deleted, gone
  fin,      \* agents whose AgentWorkload carries the operator's finalizer
  phase,    \* Agent -> AgentWorkload.Status.Phase
  pod,      \* Agent -> its pod
  side      \* Agent -> the sidecar's place in run()

clusterVars == <<spawn, cr, fin, phase, pod, side>>

ClusterTypeOK ==
  /\ spawn \in [Agent -> {"none", "creating", "done"}]
  /\ cr \in [Agent -> {"none", "live", "deleting", "gone"}]
  /\ fin \in SUBSET Agent
  /\ phase \in [Agent -> {"", "Running", "Completed", "Failed"}]
  /\ pod \in [Agent -> {"none", "up", "succeeded", "failed", "gone"}]
  /\ side \in [Agent -> {"off", "boot", "registered", "waiting", "serving",
                         "denied"}]

ClusterInit ==
  /\ spawn = [a \in Agent |-> "none"]
  /\ cr = [a \in Agent |-> "none"]
  /\ fin = {}
  /\ phase = [a \in Agent |-> ""]
  /\ pod = [a \in Agent |-> "none"]
  /\ side = [a \in Agent |-> "off"]

-----------------------------------------------------------------------------
(* POST /spawn                                                               *)

\* A user spawns a root; a serving agent spawns a child, whatever its own
\* record's status is by then.
MaySpawn(p) == p = NoAgent \/ (p \in Agent /\ side[p] = "serving")

SpawnPreregister(a, p) ==
  /\ spawn[a] = "none"
  /\ p # a /\ MaySpawn(p)
  /\ Preregister(a, p)
  /\ spawn' = [spawn EXCEPT ![a] = "creating"]
  /\ UNCHANGED <<cr, fin, phase, pod, side>>

SpawnCreate(a) ==
  /\ spawn[a] = "creating"
  /\ spawn' = [spawn EXCEPT ![a] = "done"]
  /\ cr' = [cr EXCEPT ![a] = "live"]
  /\ UNCHANGED <<registryVars, fin, phase, pod, side>>

\* The orphaned record is dismissed, best effort.
SpawnCreateFails(a) ==
  /\ spawn[a] = "creating"
  /\ spawn' = [spawn EXCEPT ![a] = "done"]
  /\ \/ DismissAgent(a)
     \/ "registry" \in Faults /\ UNCHANGED registryVars
  /\ UNCHANGED <<cr, fin, phase, pod, side>>

Orchestrator ==
  \E a \in Agent : \/ \E p \in Agent \cup {NoAgent} : SpawnPreregister(a, p)
                   \/ SpawnCreate(a)
                   \/ SpawnCreateFails(a)

-----------------------------------------------------------------------------
(* The operator's reconciler                                                 *)

AddFinalizer(a) ==
  /\ cr[a] = "live" /\ a \notin fin
  /\ fin' = fin \cup {a}
  /\ UNCHANGED <<registryVars, spawn, cr, phase, pod, side>>

\* The pod is created at most once (its name is the workload's); the status
\* update may fail and be retried.
handleNew(a) ==
  /\ cr[a] = "live" /\ a \in fin /\ phase[a] = ""
  /\ pod' = [pod EXCEPT ![a] = IF @ = "none" THEN "up" ELSE @]
  /\ phase' \in {phase, [phase EXCEPT ![a] = "Running"]}
  /\ UNCHANGED <<registryVars, spawn, cr, fin, side>>

\* Registry.Fail and Registry.Complete: the error is dropped.  The update of
\* the workload that follows may fail, and the reconciler then comes back.
Report(a, st) == \/ PatchStatus(a, st)
                 \/ "registry" \in Faults /\ UNCHANGED registryVars

handleRunning(a) ==
  /\ cr[a] = "live" /\ a \in fin /\ phase[a] = "Running"
  /\ \/ /\ pod[a] = "failed"
        /\ Report(a, "failed")
        /\ phase' \in {phase, [phase EXCEPT ![a] = "Failed"]}
     \/ /\ pod[a] = "succeeded" /\ a \notin LongLived
        /\ Report(a, "completed")
        /\ phase' \in {phase, [phase EXCEPT ![a] = "Completed"]}
  /\ UNCHANGED <<spawn, cr, fin, pod, side>>

\* Torn down without evidence of failure is completed.
MarkFailed(a) == phase[a] \in {"", "Failed"} \/ pod[a] = "failed"

handleDeletion(a) ==
  /\ cr[a] = "deleting" /\ a \in fin
  /\ Report(a, IF MarkFailed(a) THEN "failed" ELSE "completed")
  /\ \/ fin' = fin \ {a} /\ cr' = [cr EXCEPT ![a] = "gone"]
     \/ UNCHANGED <<fin, cr>>
  /\ UNCHANGED <<spawn, phase, pod, side>>

Operator ==
  \E a \in Agent : \/ AddFinalizer(a) \/ handleNew(a)
                   \/ handleRunning(a) \/ handleDeletion(a)

-----------------------------------------------------------------------------
(* Kubernetes                                                                *)

\* A delete marks a workload with a finalizer and removes one without.
DeletedCR(a) == IF a \in fin THEN "deleting" ELSE "gone"

DeleteCR(a) ==
  /\ cr[a] = "live"
  /\ cr' = [cr EXCEPT ![a] = DeletedCR(a)]
  /\ UNCHANGED <<registryVars, spawn, fin, phase, pod, side>>

PodEnds(a) ==
  /\ pod[a] = "up"
  /\ \E end \in {"succeeded", "failed"} : pod' = [pod EXCEPT ![a] = end]
  /\ side' = [side EXCEPT ![a] = "off"]
  /\ UNCHANGED <<registryVars, spawn, cr, fin, phase>>

\* Garbage collection of the pod of a workload that is gone.
PodCollected(a) ==
  /\ cr[a] = "gone" /\ pod[a] \notin {"none", "gone"}
  /\ pod' = [pod EXCEPT ![a] = "gone"]
  /\ side' = [side EXCEPT ![a] = "off"]
  /\ UNCHANGED <<registryVars, spawn, cr, fin, phase>>

Kubernetes == \E a \in Agent : PodEnds(a) \/ PodCollected(a)

-----------------------------------------------------------------------------
(* The agent's sidecar                                                       *)

\* The kubelet starts the sidecar with the pod, and again whenever it exits.
SidecarStarts(a) ==
  /\ pod[a] = "up" /\ reg[a].pc = "idle"
  /\ side[a] = "off" \/ ("restart" \in Faults /\ side[a] # "boot")
  /\ side' = [side EXCEPT ![a] = "boot"]
  /\ UNCHANGED <<registryVars, spawn, cr, fin, phase, pod>>

\* A refused registration leaves the sidecar to be restarted, at "boot".
SidecarRegisters(a) ==
  /\ side[a] = "boot"
  /\ RegisterRead(a, NoAgent)
  /\ UNCHANGED clusterVars

SidecarRegistered(a) ==
  /\ RegisterTuple(a)
  /\ side' = [side EXCEPT ![a] = IF @ # "boot" THEN @
                                 ELSE IF a \in Gated THEN "registered"
                                 ELSE "serving"]
  /\ UNCHANGED <<spawn, cr, fin, phase, pod>>

SidecarPatches(a, from, st, to) ==
  /\ side[a] = from
  /\ Report(a, st)
  /\ side' = [side EXCEPT ![a] = to]
  /\ UNCHANGED <<spawn, cr, fin, phase, pod>>

\* The consent gate: ask, then the user's verdict; a serving agent may still
\* be denied when its token is renewed.
SidecarAsks(a) == SidecarPatches(a, "registered", "awaiting-consent", "waiting")
SidecarGranted(a) == SidecarPatches(a, "waiting", "active", "serving")
failConsent(a) ==
  \/ SidecarPatches(a, "waiting", "failed", "denied")
  \/ a \in Gated /\ SidecarPatches(a, "serving", "failed", "denied")

Sidecar ==
  \E a \in Agent : \/ SidecarStarts(a) \/ SidecarRegisters(a)
                   \/ SidecarRegistered(a) \/ SidecarAsks(a)
                   \/ SidecarGranted(a) \/ failConsent(a)

ClusterStep ==
  \/ Orchestrator \/ Operator \/ Kubernetes \/ Sidecar
  \/ RegistryStep /\ UNCHANGED clusterVars
=============================================================================
