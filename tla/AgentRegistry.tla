---------------------------- MODULE AgentRegistry ---------------------------
(* The registry's agent records and the SpiceDB tuple that carries an        *)
(* agent's authority (cmd/registry/main.go).  A store method or a SpiceDB    *)
(* call is one step, so a handler that reads a record, writes it and then    *)
(* writes the tuple interleaves with the others.  Only the `enabled` tuple   *)
(* is kept: every revocable permission is intersected with it.               *)
EXTENDS Naturals

CONSTANTS
  Agent,     \* agent ids
  NoAgent,   \* the empty id
  Handler,   \* revoke and resume requests that may be in flight at once
  Faults     \* which of "spicedb", "registry", "restart" fail in an instance

ASSUME NoAgentIsNotAnAgent == NoAgent \notin Agent

\* InFlight tells the cascades from the two other kinds of request.
ASSUME HandlersAreCascades == {"register", "terminal"} \cap Handler = {}

VARIABLES
  status,     \* Agent -> AgentRecord.Status, "none" when there is no record
  dismissed,  \* Agent -> AgentRecord.Dismissed
  parent,     \* Agent -> AgentRecord.ParentID
  enabled,    \* Agent -> whether agent:<id>#enabled is in SpiceDB
  reg,        \* Agent -> progress of a POST /v1/agents for it
  clean,      \* agents whose terminal PATCH has still to drop the tuple
  casc,       \* Handler -> progress of a revoke or resume cascade
  disturbed   \* history: agents on which two handlers overlapped, or whose
              \* tuple was not written because SpiceDB or the registry failed

registryVars == <<status, dismissed, parent, enabled, reg, clean, casc,
                  disturbed>>

Exited == {"completed", "failed"}
Status == {"none", "pending", "active", "awaiting-consent", "revoked"}
          \cup Exited

RegState == [pc : {"idle", "write", "tuple"}, parent : Agent \cup {NoAgent}]
RegIdle == [pc |-> "idle", parent |-> NoAgent]

CascState == [op : {"none", "revoke", "resume"},
              root : Agent \cup {NoAgent},
              pc : {"idle", "walk", "nodes", "write", "tuple"},
              queue : SUBSET Agent, nodes : SUBSET Agent,
              cur : Agent \cup {NoAgent}]
CascIdle == [op |-> "none", root |-> NoAgent, pc |-> "idle", queue |-> {},
             nodes |-> {}, cur |-> NoAgent]

RegistryTypeOK ==
  /\ status \in [Agent -> Status]
  /\ dismissed \in [Agent -> BOOLEAN]
  /\ parent \in [Agent -> Agent \cup {NoAgent}]
  /\ enabled \in [Agent -> BOOLEAN]
  /\ reg \in [Agent -> RegState]
  /\ clean \in SUBSET Agent
  /\ casc \in [Handler -> CascState]
  /\ disturbed \in SUBSET Agent

RegistryInit ==
  /\ status = [a \in Agent |-> "none"]
  /\ dismissed = [a \in Agent |-> FALSE]
  /\ parent = [a \in Agent |-> NoAgent]
  /\ enabled = [a \in Agent |-> FALSE]
  /\ reg = [a \in Agent |-> RegIdle]
  /\ clean = {}
  /\ casc = [h \in Handler |-> CascIdle]
  /\ disturbed = {}

\* The handlers that stand between two writes of agent a.
InFlight(a) ==
  (IF reg[a].pc # "idle" THEN {"register"} ELSE {})
  \cup (IF a \in clean THEN {"terminal"} ELSE {})
  \cup {h \in Handler : casc[h].cur = a}

\* Conjoined to every registry action: lost are the agents whose tuple this
\* step failed to write.
Disturb(lost) ==
  disturbed' = disturbed \cup lost
               \cup {a \in Agent : \E x, y \in InFlight(a)' : x # y}

-----------------------------------------------------------------------------
\* POST /v1/agents/preregister
Preregister(a, p) ==
  /\ status' = [status EXCEPT ![a] = "pending"]
  /\ dismissed' = [dismissed EXCEPT ![a] = FALSE]
  /\ parent' = [parent EXCEPT ![a] = p]
  /\ UNCHANGED <<enabled, reg, clean, casc>>
  /\ Disturb({})

\* POST /v1/agents: read the record, refuse one whose authority was dropped,
\* and keep its lineage; a first registration without a record takes the
\* parent from the body.
RefusedStatus == {"completed", "failed", "revoked"}

RegisterReadFromBody(a, bodyParent) ==
  /\ reg[a].pc = "idle"
  /\ status[a] \notin RefusedStatus
  /\ reg' = [reg EXCEPT ![a] = [pc |-> "write", parent |-> bodyParent]]
  /\ UNCHANGED <<status, dismissed, parent, enabled, clean, casc>>
  /\ Disturb({})

RegisterRead(a, bodyParent) ==
  /\ reg[a].pc = "idle"
  /\ status[a] \notin RefusedStatus
  /\ reg' = [reg EXCEPT ![a] =
               [pc |-> "write",
                parent |-> IF status[a] = "none" THEN bodyParent
                           ELSE parent[a]]]
  /\ UNCHANGED <<status, dismissed, parent, enabled, clean, casc>>
  /\ Disturb({})

\* The whole record is written: Dismissed is not among the carried fields.
RegisterWrite(a) ==
  /\ reg[a].pc = "write"
  /\ status' = [status EXCEPT ![a] = "active"]
  /\ dismissed' = [dismissed EXCEPT ![a] = FALSE]
  /\ parent' = [parent EXCEPT ![a] = reg[a].parent]
  /\ reg' = [reg EXCEPT ![a].pc = "tuple"]
  /\ UNCHANGED <<enabled, clean, casc>>
  /\ Disturb({})

\* A store error fails the request before anything is written.
RegisterFails(a) ==
  /\ "registry" \in Faults
  /\ reg[a].pc = "write"
  /\ reg' = [reg EXCEPT ![a] = RegIdle]
  /\ UNCHANGED <<status, dismissed, parent, enabled, clean, casc>>
  /\ Disturb({})

\* A SpiceDB error is logged; the registration succeeds all the same.
RegisterTuple(a) ==
  /\ reg[a].pc = "tuple"
  /\ reg' = [reg EXCEPT ![a] = RegIdle]
  /\ UNCHANGED <<status, dismissed, parent, clean, casc>>
  /\ \/ enabled' = [enabled EXCEPT ![a] = TRUE] /\ Disturb({})
     \/ "spicedb" \in Faults /\ UNCHANGED enabled /\ Disturb({a})

\* PATCH /v1/agents/{id}: any status over any status; a terminal one goes on
\* to drop the tuple.
PatchStatus(a, st) ==
  /\ status[a] # "none"
  /\ status' = [status EXCEPT ![a] = st]
  /\ clean' = IF st \in Exited THEN clean \cup {a} ELSE clean
  /\ UNCHANGED <<dismissed, parent, enabled, reg, casc>>
  /\ Disturb({})

PatchCleanupNoTuple(a) ==
  /\ a \in clean
  /\ clean' = clean \ {a}
  /\ UNCHANGED <<status, dismissed, parent, enabled, reg, casc>>
  /\ Disturb({})

PatchCleanup(a) ==
  /\ a \in clean
  /\ clean' = clean \ {a}
  /\ UNCHANGED <<status, dismissed, parent, reg, casc>>
  /\ \/ enabled' = [enabled EXCEPT ![a] = FALSE] /\ Disturb({})
     \/ "spicedb" \in Faults /\ UNCHANGED enabled /\ Disturb({a})

\* POST /v1/agents/{id}/dismiss
DismissAgent(a) ==
  /\ status[a] # "none"
  /\ dismissed' = [dismissed EXCEPT ![a] = TRUE]
  /\ UNCHANGED <<status, parent, enabled, reg, clean, casc>>
  /\ Disturb({})

-----------------------------------------------------------------------------
(* POST /v1/agents/{id}/revoke and .../resume                                *)

ChildrenUpwards(a) == {parent[a]}

Children(a) == {c \in Agent : status[c] # "none" /\ parent[c] = a}

CascadeStart(h, op, root) ==
  /\ casc[h].pc = "idle"
  /\ status[root] # "none"
  /\ casc' = [casc EXCEPT ![h] = [CascIdle EXCEPT !.op = op, !.root = root,
                                     !.pc = "walk", !.queue = {root}]]
  /\ UNCHANGED <<status, dismissed, parent, enabled, reg, clean>>
  /\ Disturb({})

\* subtree: one ListChildren per step, each node visited once.
SubtreeStep(h, n) ==
  /\ casc[h].pc = "walk"
  /\ n \in casc[h].queue
  /\ LET seen == casc[h].nodes \cup {n}
         rest == (casc[h].queue \cup Children(n)) \ seen
     IN  casc' = [casc EXCEPT ![h].nodes = seen, ![h].queue = rest,
                              ![h].pc = IF rest = {} THEN "nodes" ELSE "walk"]
  /\ UNCHANGED <<status, dismissed, parent, enabled, reg, clean>>
  /\ Disturb({})

revocableActiveOnly == {"active"}
revocableStatus == {"active", "pending"}

\* revokeNode and resumeNode, first the GetAgent that decides...
NodeRead(h, n) ==
  /\ casc[h].pc = "nodes"
  /\ n \in casc[h].nodes
  /\ casc' = IF status[n] \in (IF casc[h].op = "revoke" THEN revocableStatus
                              ELSE {"revoked"})
             THEN [casc EXCEPT ![h].pc = "write", ![h].cur = n]
             ELSE [casc EXCEPT ![h].nodes = @ \ {n}]
  /\ UNCHANGED <<status, dismissed, parent, enabled, reg, clean>>
  /\ Disturb({})

\* ... then the unconditional status write ...
NodeWrite(h) ==
  /\ casc[h].pc = "write"
  /\ status' = [status EXCEPT ![casc[h].cur] =
                  IF casc[h].op = "revoke" THEN "revoked" ELSE "active"]
  /\ casc' = [casc EXCEPT ![h].pc = "tuple"]
  /\ UNCHANGED <<dismissed, parent, enabled, reg, clean>>
  /\ Disturb({})

\* ... and the enabled tuple, best effort.
NodeTuple(h) ==
  /\ casc[h].pc = "tuple"
  /\ casc' = [casc EXCEPT ![h].pc = "nodes", ![h].cur = NoAgent,
                          ![h].nodes = @ \ {casc[h].cur}]
  /\ UNCHANGED <<status, dismissed, parent, reg, clean>>
  /\ \/ /\ enabled' = [enabled EXCEPT ![casc[h].cur] = casc[h].op = "resume"]
        /\ Disturb({})
     \/ "spicedb" \in Faults /\ UNCHANGED enabled /\ Disturb({casc[h].cur})

\* The response, once every node is done; or a store error, which fails the
\* whole request at any earlier point.
CascadeEnd(h) ==
  /\ casc[h].pc # "idle"
  /\ casc' = [casc EXCEPT ![h] = CascIdle]
  /\ UNCHANGED <<status, dismissed, parent, enabled, reg, clean>>
  /\ Disturb(IF casc[h].pc = "tuple" THEN {casc[h].cur} ELSE {})

Cascade(h) ==
  \/ \E root \in Agent, op \in {"revoke", "resume"} : CascadeStart(h, op, root)
  \/ \E n \in Agent : SubtreeStep(h, n) \/ NodeRead(h, n)
  \/ NodeWrite(h) \/ NodeTuple(h) \/ CascadeEnd(h)

\* Steps of requests in flight, and the cascades people start.
RegistryStep ==
  \/ \E a \in Agent : RegisterWrite(a) \/ RegisterFails(a) \/ PatchCleanup(a)
  \/ \E h \in Handler : Cascade(h)

-----------------------------------------------------------------------------
\* The agents below root, root included: those in every set that holds root
\* and, with an agent, its children.
Below(root) ==
  {a \in Agent : \A S \in SUBSET Agent :
     root \in S /\ (\A x \in S : Children(x) \subseteq S) => a \in S}

\* The tuple that grants authority never outlives the status that allows it:
\* revoke, completion, failure and cleanup leave no agent enabled, unless two
\* handlers overlapped on it or SpiceDB failed.
EnabledOnlyWhileLive ==
  \A a \in Agent :
    enabled[a] /\ InFlight(a) = {} /\ a \notin disturbed
      => status[a] \in {"active", "awaiting-consent"}
=============================================================================
