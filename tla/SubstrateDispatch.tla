------------------------- MODULE SubstrateDispatch -------------------------
(* Running agents on a substrate.  The orchestrator preregisters an agent as *)
(* substrate-placed and pushes a frame down the organization's channel (the  *)
(* hub: in memory, newest connection wins, never blocks); the substrate-     *)
(* agent turns frames into local workloads (CRs) and their SPIRE entries.    *)
(* Nothing is queued durably: on every connection, and periodically, the     *)
(* substrate-agent converges on the registry's records.                      *)
(* cmd/orchestrator (substrate_channel, substrate_reaper, /spawn, dismiss)   *)
(* and cmd/substrate-agent.                                                  *)
EXTENDS SubstrateEntries, Sequences

CONSTANTS
  Conn, NoConn,    \* channel connections; an id is used again once it is gone
  SendBuffer,      \* bound: frames a connection holds (256 in the code)
  MaxPasses,       \* bound: walks of the reaper (8 in the code)
  Scenes           \* bounds: how often each Happening may occur, by scene

Happening == {"spawn", "dismiss", "reap", "pod", "admin", "install",
              "call", "channel", "stop", "restart", "offline"}

ASSUME DispatchBounds ==
  /\ NoConn \notin Conn
  /\ SendBuffer \in Nat \ {0} /\ MaxPasses \in Nat \ {0}
  /\ Scenes \subseteq [Happening -> Nat]

VARIABLES
  srv,         \* channelHandler, per connection
  cancelled,   \* connections whose context is cancelled
  current,     \* substrateHub.conns[org]
  wire,        \* frames sent and not yet read, per connection
  spawning,    \* POST /spawn, per agent
  killing,     \* the dismiss and the DELETE handlers' pushKill
  reap,        \* reapSubtree
  cr,          \* workloads in the customer cluster
  mine,        \* the connection the substrate-agent is reading
  synced,      \* reconcileOnConnect is over on that connection
  op,          \* the operation holding opMu
  intact,      \* history: converged on connect, and nothing failed since
  stained,     \* history: agents whose entry a failure may have stranded
  budget       \* happenings still to come

dispatchVars == <<srv, cancelled, current, wire, spawning, killing, reap, cr,
                  mine, synced, op, intact, stained, budget>>
serverVars == <<srv, cancelled, current, wire>>
callerVars == <<spawning, killing, reap>>
agentVars == <<cr, mine, synced, op, intact, stained>>

Frame == [kind : {"spawn", "kill"}, agent : Agent]
Killer == {"dismiss", "reap"}
NoPush == [pc |-> "idle", agent |-> NoAgent, conn |-> NoConn]
NoReap == [pc |-> "idle", root |-> NoAgent, todo |-> {}, done |-> {},
           grew |-> FALSE, pass |-> 0]
Nothing == [kind |-> "idle", ensure |-> {}, create |-> {}, delete |-> {},
            pc |-> "next", at |-> NoAgent]

DispatchTypeOK ==
  /\ EntriesTypeOK
  /\ srv \in [Conn -> {"none", "accepted", "registered", "serving", "gone"}]
  /\ cancelled \in SUBSET Conn
  /\ current \in Conn \cup {NoConn} /\ mine \in Conn \cup {NoConn}
  /\ \A c \in Conn : Len(wire[c]) <= SendBuffer
  /\ \A a \in Agent : spawning[a].pc \in {"idle", "place", "look", "send"}
  /\ \A k \in Killer : killing[k].pc \in {"idle", "look", "send"}
  /\ reap.pc \in {"idle", "walk", "nodes", "root"} /\ reap.pass \in 0..MaxPasses
  /\ cr \in SUBSET Agent /\ stained \in SUBSET Agent
  /\ op.kind \in {"idle", "connect", "periodic", "frame"}
  /\ op.pc \in {"list", "next", "workload", "undo", "remove"}
  /\ op.ensure \cup op.create \cup op.delete \subseteq Agent
  /\ synced \in BOOLEAN /\ intact \in BOOLEAN
  /\ budget \in [Happening -> Nat]

DispatchInit ==
  /\ srv = [c \in Conn |-> "none"] /\ cancelled = {} /\ current = NoConn
  /\ wire = [c \in Conn |-> <<>>]
  /\ spawning = [a \in Agent |-> NoPush]
  /\ killing = [k \in Killer |-> NoPush]
  /\ reap = NoReap
  /\ cr = {} /\ mine = NoConn /\ synced = FALSE /\ op = Nothing
  /\ intact = FALSE /\ stained = {}
  /\ budget \in Scenes

Spend(h) == budget[h] > 0 /\ budget' = [budget EXCEPT ![h] = @ - 1]

-----------------------------------------------------------------------------
(* The hub and the channel handler                                           *)

\* Both ends are done with c: nothing of it is left.
Forget(c) ==
  /\ srv' = [srv EXCEPT ![c] = "none"]
  /\ cancelled' = cancelled \ {c}
  /\ wire' = [wire EXCEPT ![c] = <<>>]

\* connectOnce dials and channelHandler passes the Entry API's gate.  Which
\* free id the connection gets makes no difference.
FreeConn == {c \in Conn : /\ srv[c] = "none"
                          /\ \A k \in Killer : killing[k].conn # c
                          /\ \A a \in Agent : spawning[a].conn # c}

Dial ==
  /\ mine = NoConn /\ EntryCallerAuthorized /\ FreeConn # {}
  /\ budget["offline"] = 0
  /\ LET c == CHOOSE x \in FreeConn : TRUE
     IN  mine' = c /\ srv' = [srv EXCEPT ![c] = "accepted"]
  /\ synced' = FALSE
  /\ UNCHANGED <<current, cancelled, wire, callerVars, cr, op, intact, stained,
                 budget, entryVars, registryVars>>

\* hub.register: the newest connection replaces, and cancels, the other.
HubRegister(c) ==
  /\ srv[c] = "accepted"
  /\ srv' = [srv EXCEPT ![c] = "registered"]
  /\ cancelled' = cancelled \cup ({current} \ {NoConn})
  /\ current' = c
  /\ UNCHANGED <<wire, callerVars, agentVars, budget, entryVars, registryVars>>

\* activateSubstrate, best effort; then the writer and the reader start.
ChannelServes(c) ==
  /\ srv[c] = "registered"
  /\ srv' = [srv EXCEPT ![c] = "serving"]
  /\ \/ ActivateRecord /\ UNCHANGED budget
     \/ UNCHANGED entryVars /\ Spend("call")
  /\ UNCHANGED <<cancelled, current, wire, callerVars, agentVars, registryVars>>

HubUnregisterAny(c) ==
  /\ srv[c] = "serving"
  /\ c \in cancelled \/ mine # c
  /\ IF mine # c THEN Forget(c)
     ELSE srv' = [srv EXCEPT ![c] = "gone"] /\ UNCHANGED <<cancelled, wire>>
  /\ current' = NoConn
  /\ UNCHANGED <<callerVars, agentVars, budget, entryVars, registryVars>>

\* The reader fails (cancelled, client gone, read timeout) and the handler
\* returns: unregister only clears the hub's own entry.
HubUnregister(c) ==
  /\ srv[c] = "serving"
  /\ c \in cancelled \/ mine # c
  /\ IF mine # c THEN Forget(c)
     ELSE srv' = [srv EXCEPT ![c] = "gone"] /\ UNCHANGED <<cancelled, wire>>
  /\ current' = IF current = c THEN NoConn ELSE current
  /\ UNCHANGED <<callerVars, agentVars, budget, entryVars, registryVars>>

\* A write or read error, or 90 s of silence, on a healthy connection.
ChannelBreaks(c) ==
  /\ srv[c] \in {"registered", "serving"} /\ c \notin cancelled
  /\ cancelled' = cancelled \cup {c}
  /\ Spend("channel")
  /\ UNCHANGED <<srv, current, wire, callerVars, agentVars, entryVars,
                 registryVars>>

\* hub.push, second half: enqueue on the connection looked up before.  A full
\* buffer cancels the connection; a cancelled one loses the frame.
HubSend(c, frame) ==
  IF c = NoConn \/ c \in cancelled \/ srv[c] \in {"none", "gone"}
  THEN UNCHANGED <<wire, cancelled>>
  ELSE IF Len(wire[c]) < SendBuffer
  THEN wire' = [wire EXCEPT ![c] = Append(@, frame)] /\ UNCHANGED cancelled
  ELSE cancelled' = cancelled \cup {c} /\ UNCHANGED wire

-----------------------------------------------------------------------------
(* The handlers that push                                                    *)

\* Workload names are fresh: which one comes next makes no difference.
Unused == {a \in Agent : status[a] = "none" /\ spawning[a].pc = "idle"}

\* POST /spawn: an active substrate takes the spawn ...
SpawnPlace(a) ==
  /\ a \in Unused /\ a = CHOOSE x \in Unused : TRUE
  /\ record.status = "active" /\ Spend("spawn")
  /\ spawning' = [spawning EXCEPT ![a].pc = "place"]
  /\ UNCHANGED <<serverVars, killing, reap, agentVars, entryVars,
                 registryVars>>

\* ... is preregistered (a failure ends it, with no frame) ...
SpawnRecord(a) ==
  /\ spawning[a].pc = "place"
  /\ \/ /\ \E p \in {x \in Agent : status[x] # "none"} \cup {NoAgent} :
             Preregister(a, p)
        /\ spawning' = [spawning EXCEPT ![a].pc = "look"]
        /\ UNCHANGED budget
     \/ /\ spawning' = [spawning EXCEPT ![a] = NoPush]
        /\ Spend("call") /\ UNCHANGED registryVars
  /\ UNCHANGED <<serverVars, killing, reap, agentVars, entryVars>>

\* ... and pushed: push reads the hub and enqueues in two steps.
SpawnLook(a) ==
  /\ spawning[a].pc = "look"
  /\ spawning' = [spawning EXCEPT ![a].pc = "send", ![a].conn = current]
  /\ UNCHANGED <<serverVars, killing, reap, agentVars, budget, entryVars,
                 registryVars>>

SpawnSend(a) ==
  /\ spawning[a].pc = "send"
  /\ HubSend(spawning[a].conn, [kind |-> "spawn", agent |-> a])
  /\ spawning' = [spawning EXCEPT ![a] = NoPush]
  /\ UNCHANGED <<srv, current, killing, reap, agentVars, budget, entryVars,
                 registryVars>>

Dismissal(k, a) ==
  /\ killing[k].pc = "idle" /\ status[a] # "none"
  /\ DismissAgent(a)
  /\ killing' = [killing EXCEPT ![k] = [NoPush EXCEPT !.pc = "look",
                                                      !.agent = a]]

\* POST /v1/agents/{id}/dismiss of a substrate-placed agent.
Dismiss(a) ==
  /\ Dismissal("dismiss", a) /\ Spend("dismiss")
  /\ UNCHANGED <<serverVars, spawning, reap, agentVars, entryVars>>

KillLook(k) ==
  /\ killing[k].pc = "look"
  /\ killing' = [killing EXCEPT ![k].pc = "send", ![k].conn = current]
  /\ UNCHANGED <<serverVars, spawning, reap, agentVars, budget, entryVars,
                 registryVars>>

KillSend(k) ==
  /\ killing[k].pc = "send"
  /\ HubSend(killing[k].conn, [kind |-> "kill", agent |-> killing[k].agent])
  /\ killing' = [killing EXCEPT ![k] = NoPush]
  /\ UNCHANGED <<srv, current, spawning, reap, agentVars, budget, entryVars,
                 registryVars>>

\* DELETE /v1/agents/{id}: reapSubtree walks, dismisses and kills until a
\* pass dismisses nothing new.
ReapBegins(root) ==
  /\ reap.pc = "idle" /\ status[root] # "none" /\ Spend("reap")
  /\ reap' = [NoReap EXCEPT !.pc = "walk", !.root = root]
  /\ UNCHANGED <<serverVars, spawning, killing, agentVars, entryVars,
                 registryVars>>

ReapWalk ==
  /\ reap.pc = "walk"
  /\ \/ /\ reap' = [reap EXCEPT !.pc = "nodes", !.grew = FALSE,
                                !.todo = Below(reap.root) \ reap.done]
        /\ UNCHANGED budget
     \/ reap' = [reap EXCEPT !.pc = "root"] /\ Spend("call")
  /\ UNCHANGED <<serverVars, spawning, killing, agentVars, entryVars,
                 registryVars>>

ReapNode(a) ==
  /\ \/ reap.pc = "nodes" /\ a \in reap.todo
     \/ reap.pc = "root" /\ a = reap.root /\ a \notin reap.done
  /\ \/ /\ Dismissal("reap", a)
        /\ reap' = [reap EXCEPT !.todo = @ \ {a}, !.done = @ \cup {a},
                                !.grew = TRUE]
        /\ UNCHANGED budget
     \/ /\ killing["reap"].pc = "idle" /\ Spend("call")
        /\ reap' = IF reap.pc = "root" THEN NoReap
                   ELSE [reap EXCEPT !.todo = @ \ {a}]
        /\ UNCHANGED <<killing, registryVars>>
  /\ UNCHANGED <<serverVars, spawning, agentVars, entryVars>>

ReapPassEnds ==
  /\ reap.pc = "nodes" /\ reap.todo = {} /\ killing["reap"].pc = "idle"
  /\ reap' = IF reap.grew /\ reap.pass + 1 < MaxPasses
             THEN [reap EXCEPT !.pc = "walk", !.pass = @ + 1]
             ELSE [reap EXCEPT !.pc = "root"]
  /\ UNCHANGED <<serverVars, spawning, killing, agentVars, budget, entryVars,
                 registryVars>>

ReapEnds ==
  /\ reap.pc = "root" /\ reap.root \in reap.done
  /\ killing["reap"].pc = "idle"
  /\ reap' = NoReap
  /\ UNCHANGED <<serverVars, spawning, killing, agentVars, budget, entryVars,
                 registryVars>>

-----------------------------------------------------------------------------
(* The substrate-agent.  One operation at a time holds opMu: a frame, or a   *)
(* convergence, which is a list of things to ensure, create and delete.      *)

\* GET /v1/substrate/agents: the records the organization has there.
listAgents == {a \in Agent : status[a] # "none"}

shouldRun(a) == ~dismissed[a] /\ status[a] \notin {"completed", "failed"}

ReconcileCRsOnly(kind) ==
  LET want == {a \in listAgents : shouldRun(a)}
  IN  [Nothing EXCEPT
         !.kind = kind,
         !.create = {a \in want \ cr : status[a] # "revoked"},
         !.delete = cr \ want]

\* reconcile and ensureEntryFor, from the records and the local CRs.
Reconcile(kind) ==
  LET want == {a \in listAgents : shouldRun(a)}
  IN  [Nothing EXCEPT
         !.kind = kind,
         !.ensure = IF kind = "connect" THEN want \cap cr ELSE {},
         !.create = {a \in want \ cr : status[a] # "revoked"},
         !.delete = cr \ want]

ConvergeOnConnectOnly ==
  /\ op = Nothing /\ mine # NoConn /\ ~synced
  /\ op' = [Nothing EXCEPT !.kind = "connect", !.pc = "list"]
  /\ UNCHANGED <<serverVars, callerVars, cr, mine, synced, intact, stained,
                 budget, entryVars, registryVars>>

\* converge takes opMu: on connect, before any frame is read; then on a timer.
ConvergeBegins ==
  /\ op = Nothing /\ mine # NoConn
  /\ op' = [Nothing EXCEPT !.kind = IF synced THEN "periodic" ELSE "connect",
                           !.pc = "list"]
  /\ UNCHANGED <<serverVars, callerVars, cr, mine, synced, intact, stained,
                 budget, entryVars, registryVars>>

\* ListDesired through the gate, and the local list; an error ends it.
ConvergeList ==
  /\ op.pc = "list"
  /\ \/ /\ EntryCallerAuthorized
        /\ op' = Reconcile(op.kind)
        /\ intact' = (intact \/ op.kind = "connect")
        /\ UNCHANGED <<synced, budget>>
     \/ /\ op' = Nothing
        /\ synced' = (synced \/ op.kind = "connect")
        /\ intact' = FALSE
        /\ IF EntryCallerAuthorized THEN Spend("call") ELSE UNCHANGED budget
  /\ UNCHANGED <<serverVars, callerVars, cr, mine, stained, entryVars,
                 registryVars>>

\* handleDown: frames are read in order, after the reconcile on connect.
HandleDown ==
  /\ op = Nothing /\ mine # NoConn /\ synced
  /\ srv[mine] \in {"serving", "gone"} /\ wire[mine] # <<>>
  /\ wire' = [wire EXCEPT ![mine] = Tail(@)]
  /\ LET f == Head(wire[mine])
         o == [Nothing EXCEPT !.kind = "frame"]
     IN  op' = IF f.kind = "spawn" THEN [o EXCEPT !.create = {f.agent}]
               ELSE [o EXCEPT !.delete = {f.agent} \cap cr]
  /\ UNCHANGED <<srv, cancelled, current, callerVars, cr, mine, synced, intact,
                 stained, budget, entryVars, registryVars>>

\* A refusal by the gate is no fault of ours to bound.
Refused == IF EntryCallerAuthorized THEN Spend("call") ELSE UNCHANGED budget

EnsureEntry(a) ==
  /\ op.pc = "next" /\ a \in op.ensure
  /\ op' = [op EXCEPT !.ensure = @ \ {a}]
  /\ \/ CreateWorkloadEntry(a) /\ UNCHANGED <<intact, budget>>
     \/ intact' = FALSE /\ Refused /\ UNCHANGED entryVars
  /\ UNCHANGED <<serverVars, callerVars, cr, mine, synced, stained,
                 registryVars>>

\* materialize: the entry, then the CR; the entry is rolled back if the CR
\* cannot be created.  Creating either again is harmless.
MaterializeEntry(a) ==
  /\ op.pc = "next" /\ op.ensure = {} /\ a \in op.create
  /\ \/ /\ CreateWorkloadEntry(a)
        /\ op' = [op EXCEPT !.pc = "workload", !.at = a]
        /\ UNCHANGED <<intact, budget>>
     \/ /\ op' = [op EXCEPT !.create = @ \ {a}]
        /\ intact' = FALSE /\ Refused /\ UNCHANGED entryVars
  /\ UNCHANGED <<serverVars, callerVars, cr, mine, synced, stained,
                 registryVars>>

Done(a) == [op EXCEPT !.pc = "next", !.at = NoAgent, !.create = @ \ {a},
                      !.delete = @ \ {a}]

MaterializeWorkload ==
  /\ op.pc = "workload"
  /\ \/ cr' = cr \cup {op.at} /\ op' = Done(op.at) /\ UNCHANGED <<intact, budget>>
     \/ /\ op' = [op EXCEPT !.pc = "undo"]
        /\ intact' = FALSE /\ Spend("call") /\ UNCHANGED cr
  /\ UNCHANGED <<serverVars, callerVars, mine, synced, stained, entryVars,
                 registryVars>>

RollbackForgotten(a) ==
  /\ op.pc = "undo" /\ a = op.at
  /\ op' = Done(a)
  /\ UNCHANGED <<serverVars, callerVars, cr, mine, synced, intact, stained,
                 budget, entryVars, registryVars>>

Rollback(a) ==
  /\ op.pc = "undo" /\ a = op.at
  /\ op' = Done(a)
  /\ \/ DeleteWorkloadEntry(a) /\ UNCHANGED <<stained, budget>>
     \/ stained' = stained \cup {a} /\ Refused /\ UNCHANGED entryVars
  /\ UNCHANGED <<serverVars, callerVars, cr, mine, synced, intact,
                 registryVars>>

\* teardown: the entry, then the CR; a failure leaves the rest for later.
TeardownEntry(a) ==
  /\ op.pc = "next" /\ op.ensure \cup op.create = {} /\ a \in op.delete
  /\ \/ /\ DeleteWorkloadEntry(a)
        /\ op' = [op EXCEPT !.pc = "remove", !.at = a]
        /\ UNCHANGED <<intact, budget>>
     \/ /\ op' = Done(a)
        /\ intact' = FALSE /\ Refused /\ UNCHANGED entryVars
  /\ UNCHANGED <<serverVars, callerVars, cr, mine, synced, stained,
                 registryVars>>

TeardownWorkload ==
  /\ op.pc = "remove"
  /\ op' = Done(op.at)
  /\ \/ cr' = cr \ {op.at} /\ UNCHANGED <<intact, budget>>
     \/ intact' = FALSE /\ Spend("call") /\ UNCHANGED cr
  /\ UNCHANGED <<serverVars, callerVars, mine, synced, stained, entryVars,
                 registryVars>>

OpEnds ==
  /\ op.kind # "idle" /\ op.pc = "next"
  /\ op.ensure \cup op.create \cup op.delete = {}
  /\ op' = Nothing
  /\ synced' = (synced \/ op.kind = "connect")
  /\ UNCHANGED <<serverVars, callerVars, cr, mine, intact, stained, budget,
                 entryVars, registryVars>>

\* The client's end of its connection is closed.
HangUp ==
  /\ mine' = NoConn /\ synced' = FALSE
  /\ IF mine # NoConn /\ srv[mine] = "gone" THEN Forget(mine)
     ELSE UNCHANGED <<srv, cancelled, wire>>

\* The read fails: connectOnce returns and serve dials again.  A periodic
\* convergence is another goroutine's.
NoticeClosed ==
  /\ mine # NoConn /\ op.kind \in {"idle", "periodic"}
  /\ mine \in cancelled \/ srv[mine] = "gone"
  /\ HangUp
  /\ UNCHANGED <<current, callerVars, cr, op, intact, stained, budget,
                 entryVars, registryVars>>

\* The process stops amid an operation and starts again.
AgentStops ==
  /\ HangUp /\ op' = Nothing
  /\ intact' = FALSE
  /\ stained' = stained \cup ({op.at} \ {NoAgent})

AgentCrash ==
  /\ op # Nothing
  /\ AgentStops /\ Spend("stop")
  /\ UNCHANGED <<current, callerVars, cr, entryVars, registryVars>>

\* The customer installs a leaf: the bundle's pods start again under it.
Install(l) ==
  /\ l \in delivered \ {mounted}
  /\ AgentStops /\ Spend("install")
  /\ mounted' = l /\ svid' = FALSE
  /\ UNCHANGED <<current, callerVars, cr, registryVars, record,
                 issued, delivered, entry, node, wired, admin, doomed, mixed,
                 calm>>

\* The orchestrator restarts: its requests, connections and hub are gone, and
\* the entry service is yet to be published again.
OrchestratorCrash ==
  /\ Spend("restart")
  /\ srv' = [c \in Conn |-> IF c = mine THEN "gone" ELSE "none"]
  /\ wire' = [c \in Conn |-> IF c = mine THEN wire[c] ELSE <<>>]
  /\ cancelled' = {} /\ current' = NoConn
  /\ spawning' = [a \in Agent |-> NoPush]
  /\ killing' = [k \in Killer |-> NoPush]
  /\ reap' = NoReap
  /\ admin' = [x \in Admin |-> AdminIdle] /\ mixed' = {}
  /\ doomed' = [x \in Admin |-> {}] /\ wired' = FALSE
  /\ UNCHANGED <<agentVars, registryVars, record, issued, delivered,
                 entry, node, calm, mounted, svid>>

-----------------------------------------------------------------------------
\* A connect or disconnect, beside which what the substrate-agent converged
\* on is no longer settled.
AdminMoves(x) ==
  /\ AdminStep(x)
  /\ IF admin[x].pc = "idle" THEN Spend("admin") ELSE UNCHANGED budget
  /\ intact' = FALSE
  /\ UNCHANGED <<serverVars, callerVars, cr, mine, synced, op, stained,
                 registryVars>>

SpireMoves ==
  /\ SpireStep \/ EntryServiceUp
  /\ UNCHANGED <<dispatchVars, registryVars>>

\* The pod's sidecar registers, and reports what becomes of it.
PodMoves(a) ==
  /\ a \in cr
  /\ \/ /\ \/ status[a] = "pending" /\ RegisterRead(a, NoAgent)
           \/ status[a] = "active" /\ PatchStatus(a, "completed")
        /\ Spend("pod")
     \/ RegisterWrite(a) /\ UNCHANGED budget
     \/ RegisterTuple(a) /\ UNCHANGED budget
  /\ UNCHANGED <<serverVars, callerVars, agentVars, entryVars>>

ChannelMoves(c) ==
  HubRegister(c) \/ ChannelServes(c) \/ HubUnregister(c)

CallerMoves ==
  \/ \E a \in Agent : SpawnRecord(a) \/ SpawnLook(a) \/ SpawnSend(a)
  \/ \E a \in Agent : ReapNode(a)
  \/ \E k \in Killer : KillLook(k) \/ KillSend(k)
  \/ ReapWalk \/ ReapPassEnds \/ ReapEnds

OpMoves ==
  \/ ConvergeList \/ MaterializeWorkload \/ TeardownWorkload
  \/ \E a \in Agent : \/ EnsureEntry(a) \/ MaterializeEntry(a) \/ Rollback(a)
                       \/ TeardownEntry(a)
  \/ OpEnds

Unforeseen ==
  \/ AgentCrash \/ OrchestratorCrash
  \/ \E c \in Conn : ChannelBreaks(c)

Running ==
  \/ Dial \/ \E c \in Conn : ChannelMoves(c)
  \/ CallerMoves \/ OpMoves \/ ConvergeBegins \/ HandleDown \/ NoticeClosed
  \/ SpireMoves

SubstrateNext ==
  \/ Running \/ Unforeseen
  \/ \E a \in Agent :
       SpawnPlace(a) \/ Dismiss(a) \/ ReapBegins(a) \/ PodMoves(a)
  \/ \E x \in Admin : AdminMoves(x)
  \/ \E l \in Leaf : Install(l)

substrateVars == <<dispatchVars, entryVars, registryVars>>

-----------------------------------------------------------------------------
\* A connection whose handler is registered and not cancelled is the one the
\* hub pushes to: the teardown of a replaced connection, however late, never
\* evicts its successor (substrate_channel.go, register and unregister).
HubHoldsTheLiveChannel ==
  \A c \in Conn :
    srv[c] \in {"registered", "serving"} /\ c \notin cancelled => current = c

\* Once a reconcile on connect has gone through, every workload of the cluster
\* keeps an entry under the installed leaf, across the rotation that swept
\* them and whatever frames follow, until a call fails or the substrate is
\* connected or disconnected again (agent.go, reconcileOnConnect).
WorkloadsKeepTheirIdentity ==
  intact /\ op = Nothing => \A a \in cr : <<a, mounted>> \in entry

\* No entry outlives its workload, or precedes one that never came, unless a
\* rollback failed or the process stopped between the two calls: those are
\* left to the sweep of the next connect (agent.go, materialize).
NoStrandedEntry ==
  op = Nothing =>
    \A a \in Agent : (\E l \in Leaf : <<a, l>> \in entry) =>
      a \in cr \/ a \in stained

\* The cluster is up, and its substrate-agent can obtain an SVID and pass the
\* gate, given time.
Reachable ==
  /\ budget["offline"] = 0
  /\ wired /\ record.status # "none" /\ <<Boot, mounted>> \in entry

\* The records are the source of truth: whatever frames were lost, reordered
\* or cut off by a crash, once a record settles the cluster runs the agent if
\* and only if it should (agent.go, reconcileOnce).
ClusterFollowsRecords ==
  \A a \in Agent :
    /\ <>[](Reachable /\ ~(a \in listAgents /\ shouldRun(a))) => <>[](a \notin cr)
    /\ <>[](Reachable /\ a \in listAgents /\ shouldRun(a) /\ status[a] # "revoked")
         => <>[](a \in cr)
=============================================================================
