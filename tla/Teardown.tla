------------------------------ MODULE Teardown ------------------------------
(* DELETE /v1/agents/{id} of the orchestrator, for agents placed on the      *)
(* platform: passes over the registry's subtree that delete every            *)
(* AgentWorkload, until a pass deletes none, while the pods being torn down  *)
(* spawn children.                                                           *)
EXTENDS AgentCluster

CONSTANT maxPasses   \* 8 in the code

ASSUME SomePass == maxPasses \in Nat \ {0}

VARIABLES
  del,    \* the DELETE handler
  born    \* history: workloads created since the current pass began

teardownVars == <<del, born>>
deletionVars == <<registryVars, clusterVars, teardownVars>>

DelState == [pc : {"idle", "walk", "nodes", "replied"},
             root : Agent \cup {NoAgent}, pass : 0..(maxPasses - 1),
             queue : SUBSET Agent, nodes : SUBSET Agent,
             deleted : BOOLEAN, failed : SUBSET Agent,
             end : {"", "converged", "stopped", "aborted"}]
DelIdle == [pc |-> "idle", root |-> NoAgent, pass |-> 0, queue |-> {},
            nodes |-> {}, deleted |-> FALSE, failed |-> {}, end |-> ""]

\* The loop is over: the answer is 204, or 207 with the failed nodes.  end
\* (history) says whether it was a pass that deleted nothing.
Answer(end) == [DelIdle EXCEPT !.pc = "replied", !.root = del.root,
                               !.failed = del.failed, !.end = end]

DeletionTypeOK ==
  /\ RegistryTypeOK
  /\ ClusterTypeOK
  /\ del \in DelState
  /\ born \in SUBSET Agent

DeletionInit == RegistryInit /\ ClusterInit /\ del = DelIdle /\ born = {}

-----------------------------------------------------------------------------
DeleteStart(root) ==
  /\ del.pc = "idle"
  /\ status[root] # "none"
  /\ del' = [DelIdle EXCEPT !.pc = "walk", !.root = root, !.queue = {root}]
  /\ UNCHANGED <<registryVars, clusterVars>>

\* The registry's subtree handler, one ListChildren at a time.
DeleteWalk(n) ==
  /\ del.pc = "walk" /\ n \in del.queue
  /\ LET seen == del.nodes \cup {n}
         rest == (del.queue \cup Children(n)) \ seen
     IN  del' = [del EXCEPT !.nodes = seen, !.queue = rest,
                            !.pc = IF rest = {} THEN "nodes" ELSE "walk"]
  /\ UNCHANGED <<registryVars, clusterVars>>

\* A registry error is a 502 on the first pass and ends the loop later on.
DeleteWalkFails ==
  /\ "registry" \in Faults
  /\ del.pc = "walk"
  /\ del' = IF del.pass = 0 THEN DelIdle
            ELSE Answer("stopped")
  /\ UNCHANGED <<registryVars, clusterVars>>

\* k8s.Delete of one node: accepted, not found, or an error.  Deleting a
\* workload that is already being deleted is accepted again.
DeleteNode(n) ==
  /\ del.pc = "nodes" /\ n \in del.nodes
  /\ \/ /\ cr[n] \in {"live", "deleting"}
        /\ cr' = [cr EXCEPT ![n] = DeletedCR(n)]
        /\ del' = [del EXCEPT !.nodes = @ \ {n}, !.deleted = TRUE]
     \/ /\ cr[n] \in {"none", "gone"}
        /\ del' = [del EXCEPT !.nodes = @ \ {n}]
        /\ UNCHANGED cr
     \/ /\ del' = [del EXCEPT !.nodes = @ \ {n}, !.failed = @ \cup {n}]
        /\ UNCHANGED cr
  /\ UNCHANGED <<registryVars, spawn, fin, phase, pod, side>>

DeletePassOnce ==
  /\ del.pc = "nodes" /\ del.nodes = {}
  /\ del' = Answer("converged")
  /\ UNCHANGED <<registryVars, clusterVars>>

\* The pass is over: nothing was deleted, no pass is left, or the handler
\* settles and goes again, unless its caller has gone away meanwhile.
DeletePass ==
  /\ del.pc = "nodes" /\ del.nodes = {}
  /\ IF ~del.deleted
     THEN del' = Answer("converged")
     ELSE IF del.pass = maxPasses - 1
     THEN del' = Answer("stopped")
     ELSE \/ del' = [del EXCEPT !.pc = "walk", !.pass = @ + 1,
                                !.deleted = FALSE, !.queue = {del.root}]
          \/ del' = [DelIdle EXCEPT !.pc = "replied", !.end = "aborted"]
  /\ UNCHANGED <<registryVars, clusterVars>>

Teardown ==
  \/ \E n \in Agent : DeleteStart(n) \/ DeleteWalk(n) \/ DeleteNode(n)
  \/ DeleteWalkFails \/ DeletePass

\* A pass starts when its walk does.
PassStarts == del'.pc = "walk" /\ (del.pc # "walk" \/ del'.pass # del.pass)

DeletionHistory ==
  born' = IF PassStarts THEN {}
          ELSE born \cup {a \in Agent : cr[a] = "none" /\ cr'[a] = "live"}

DeletionNext ==
  /\ \/ ClusterStep /\ UNCHANGED del
     \/ Teardown
  /\ DeletionHistory

DeletionSpec == DeletionInit /\ [][DeletionNext]_deletionVars

-----------------------------------------------------------------------------
Converged == del.pc = "replied" /\ del.end = "converged" /\ del.failed = {}

\* A DELETE that answers 204 because a pass deleted nothing leaves no
\* workload of the subtree, except one created since that pass began
\* (cmd/orchestrator/main.go, the settle loop).
ConvergedLeavesOnlyNewborns ==
  Converged => \A a \in Below(del.root) :
                 cr[a] \in {"live", "deleting"} => a \in born

\* The settle loop's comment: converged means nothing live is left to delete
\* or to spawn.
ConvergedLeavesNothing ==
  Converged => \A a \in Below(del.root) : cr[a] # "live"

\* Registration never creates a record nor changes who spawned the agent: the
\* orchestrator pre-registers before it creates the workload, and whatever
\* parent the sidecar's body names the record keeps its own.
LineageFixed ==
  [][\A a \in Agent : /\ reg[a].pc = "write" => status[a] # "none"
                      /\ status[a] # "none" => parent'[a] = parent[a]]_deletionVars
=============================================================================
