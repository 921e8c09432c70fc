----------------------------- MODULE StaleSweep -----------------------------
(* The operator's stale sweep (internal/operator/stalesweep.go), beside the  *)
(* registry, the orchestrator, the reconciler and the sidecars it races.  It *)
(* lists the agents, then the AgentWorkloads, and fails every swept record   *)
(* that had no workload.                                                     *)
EXTENDS AgentCluster

CONSTANT MaxRebuilds   \* bound: how often the cluster is lost and rebuilt

ASSUME RebuildsAreBounded == MaxRebuilds \in Nat

VARIABLES
  sweep,      \* the sweep's progress and what it has listed
  rebuilds,   \* clusters lost so far
  early       \* history: agents revoked while they had no AgentWorkload

sweepVars == <<sweep, rebuilds, early>>
staleVars == <<registryVars, clusterVars, sweepVars>>

SweepState == [pc : {"idle", "listed", "failing"}, stale : SUBSET Agent]
SweepIdle == [pc |-> "idle", stale |-> {}]

StaleTypeOK ==
  /\ RegistryTypeOK
  /\ ClusterTypeOK
  /\ sweep \in SweepState
  /\ rebuilds \in 0..MaxRebuilds
  /\ early \in SUBSET Agent

StaleInit ==
  /\ RegistryInit
  /\ ClusterInit
  /\ sweep = SweepIdle
  /\ rebuilds = 0
  /\ early = {}

staleSweepStatuses == {"active", "awaiting-consent", "revoked"}

Backed == {a \in Agent : cr[a] \in {"live", "deleting"}}
Swept == {a \in Agent : status[a] \in staleSweepStatuses /\ ~dismissed[a]}

SweepListAgents ==
  /\ sweep.pc = "idle"
  /\ sweep' = [pc |-> "listed", stale |-> Swept]
  /\ UNCHANGED <<registryVars, clusterVars, rebuilds>>

\* The abort on a failed list dropped: the workloads read as none.
SweepListWorkloadsUnread ==
  /\ sweep.pc = "listed"
  /\ sweep' = [sweep EXCEPT !.pc = "failing"]
  /\ UNCHANGED <<registryVars, clusterVars, rebuilds>>

SweepListWorkloads ==
  /\ sweep.pc = "listed"
  /\ sweep' = [pc |-> "failing", stale |-> sweep.stale \ Backed]
  /\ UNCHANGED <<registryVars, clusterVars, rebuilds>>

\* Fail one stale agent; an error is logged and the agent skipped.
SweepFail(a) ==
  /\ sweep.pc = "failing" /\ a \in sweep.stale
  /\ sweep' = [sweep EXCEPT !.stale = @ \ {a}]
  /\ Report(a, "failed")
  /\ UNCHANGED <<clusterVars, rebuilds>>

\* The sweep ends, or aborts because a list failed or the operator stopped.
SweepEnd ==
  /\ sweep.pc # "idle"
  /\ sweep.pc = "failing" => sweep.stale = {}
  /\ sweep' = SweepIdle
  /\ UNCHANGED <<registryVars, clusterVars, rebuilds>>

\* The cluster is lost: workloads, pods and handlers in flight, the sweep
\* with them.  The registry's durable store survives.
Rebuild ==
  /\ rebuilds < MaxRebuilds
  /\ rebuilds' = rebuilds + 1
  /\ cr' = [a \in Agent |-> IF cr[a] = "none" THEN "none" ELSE "gone"]
  /\ pod' = [a \in Agent |-> IF pod[a] = "none" THEN "none" ELSE "gone"]
  /\ side' = [a \in Agent |-> "off"]
  /\ spawn' = [a \in Agent |-> IF spawn[a] = "creating" THEN "done"
                               ELSE spawn[a]]
  /\ fin' = {}
  /\ reg' = [a \in Agent |-> RegIdle]
  /\ clean' = {}
  /\ casc' = [h \in Handler |-> CascIdle]
  /\ disturbed' = disturbed \cup {a \in Agent : InFlight(a) # {}}
  /\ sweep' = SweepIdle
  /\ UNCHANGED <<status, dismissed, parent, enabled, phase>>

Sweep == SweepListAgents \/ SweepListWorkloads \/ SweepEnd
         \/ \E a \in Agent : SweepFail(a)

StaleHistory ==
  early' = early \cup {a \in Agent : status'[a] = "revoked" /\ cr[a] = "none"}

StaleNext ==
  /\ \/ ClusterStep /\ UNCHANGED <<sweep, rebuilds>>
     \/ /\ \E a \in Agent : \/ DeleteCR(a)
                            \/ DismissAgent(a) /\ UNCHANGED clusterVars
        /\ UNCHANGED <<sweep, rebuilds>>
     \/ Sweep
     \/ Rebuild
  /\ StaleHistory

StaleSpec == StaleInit /\ [][StaleNext]_staleVars

-----------------------------------------------------------------------------
\* The sweep fails agent a in this step.
FailedBySweep(a) == sweep.pc = "failing" /\ a \in sweep.stale \ sweep'.stale
                    /\ status[a] # "failed" /\ status'[a] = "failed"

\* The sweep's claim about itself: it never fails an agent whose workload
\* exists, because every swept status is reached after the workload is
\* created (stalesweep.go, Sweep).
SweepSparesBacked ==
  [][\A a \in Agent : FailedBySweep(a) => cr[a] # "live"]_staleVars

\* What does hold: only a record that was revoked before its workload was
\* created can be failed by the sweep while the workload exists.
SweepSparesUnlessRevokedEarly ==
  [][\A a \in Agent : FailedBySweep(a) /\ cr[a] = "live" => a \in early]_staleVars
=============================================================================
