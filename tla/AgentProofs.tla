---------------------------- MODULE AgentProofs -----------------------------
(* What is proved about the agents' records and workloads: the registry      *)
(* under any order of requests (AgentCascade), with the suspension of an     *)
(* organization beside it (AgentSuspension), the stale sweep beside          *)
(* everything else that touches them (StaleSweep), and the teardown of a     *)
(* subtree (Teardown). The four specifications share the registry's actions, *)
(* so what the actions preserve is proved once, of RegistryAct, and the      *)
(* invariants of the four rest on it.                                        *)
EXTENDS AgentCascade, AgentSuspension, StaleSweep, Teardown, TLAPS

\* A leaf that names no prover is one for Zenon.
USE ZenonT(30)

-----------------------------------------------------------------------------
(* Subtrees                                                                  *)

\* Below in terms of the children of every agent alone, so that what is
\* proved of it holds before a step and after it.
Reach(K, r) ==
  {a \in Agent : \A S \in SUBSET Agent :
     r \in S /\ (\A x \in S : K[x] \subseteq S) => a \in S}

Kids == [a \in Agent |-> Children(a)]

\* Below is Reach over the children the records show, in both states.
LEMMA BelowIsReach ==
  ASSUME NEW r \in Agent
  PROVE  Below(r) = Reach(Kids, r) /\ Below(r)' = Reach(Kids', r)
  BY DEF Below, Reach, Kids

\* The root of a subtree is in it.
LEMMA ReachRoot ==
  ASSUME NEW K, NEW r \in Agent
  PROVE  r \in Reach(K, r)
  BY DEF Reach

\* A child of an agent of the subtree is in it.
LEMMA ReachClosed ==
  ASSUME NEW K \in [Agent -> SUBSET Agent], NEW r \in Agent,
         NEW x \in Reach(K, r), NEW c \in K[x]
  PROVE  c \in Reach(K, r)
  BY DEF Reach

\* Every closed set that holds the root holds the subtree.
LEMMA ReachLeast ==
  ASSUME NEW K, NEW r \in Agent, NEW S \in SUBSET Agent, r \in S,
         \A x \in S : K[x] \subseteq S
  PROVE  Reach(K, r) \subseteq S
  BY DEF Reach

\* The subtree of an agent of a subtree is part of it.
LEMMA ReachTrans ==
  ASSUME NEW K \in [Agent -> SUBSET Agent], NEW r \in Agent,
         NEW c \in Reach(K, r)
  PROVE  Reach(K, c) \subseteq Reach(K, r)
  <1>1. Reach(K, r) \in SUBSET Agent /\ c \in Agent
    BY DEF Reach
  <1>2. \A x \in Reach(K, r) : K[x] \subseteq Reach(K, r)
    BY <1>1, ReachClosed
  <1> QED BY <1>1, <1>2, ReachLeast

\* A walk that has visited every child it found, except those whose whole
\* subtree is in T, has visited the subtree, except for what is in T.
LEMMA WalkCovers ==
  ASSUME NEW K \in [Agent -> SUBSET Agent], NEW r \in Agent,
         NEW V \in SUBSET Agent, NEW T \in SUBSET Agent, r \in V,
         \A n \in V : \A c \in K[n] : c \in V \/ Reach(K, c) \subseteq T
  PROVE  Reach(K, r) \subseteq V \cup T
  <1> DEFINE S == V \cup {y \in Agent : Reach(K, y) \subseteq T}
  <1>1. S \in SUBSET Agent /\ r \in S
    OBVIOUS
  <1>2. ASSUME NEW x \in S, NEW c \in K[x] PROVE c \in S
    <2>1. c \in Agent
      OBVIOUS
    <2>2. CASE x \in V
      BY <2>1, <2>2
    <2>3. CASE Reach(K, x) \subseteq T
      <3>1. c \in Reach(K, x)
        BY <1>1, ReachRoot, ReachClosed
      <3> QED BY <2>1, <2>3, <3>1, <1>1, ReachTrans
    <2> QED BY <2>2, <2>3
  <1>3. Reach(K, r) \subseteq S
    <2> HIDE DEF S
    <2> QED BY <1>1, <1>2, ReachLeast
  <1>4. \A y \in Agent : y \in Reach(K, y)
    BY ReachRoot
  <1> QED BY <1>3, <1>4

\* More children make larger subtrees.
LEMMA ReachGrows ==
  ASSUME NEW K \in [Agent -> SUBSET Agent], NEW L \in [Agent -> SUBSET Agent],
         \A x \in Agent : K[x] \subseteq L[x], NEW r \in Agent
  PROVE  Reach(K, r) \subseteq Reach(L, r)
  BY DEF Reach

\* A new leaf a: the subtrees gain at most a.
LEMMA ReachLeaf ==
  ASSUME NEW K \in [Agent -> SUBSET Agent], NEW L \in [Agent -> SUBSET Agent],
         NEW a \in Agent, L[a] = {},
         \A x \in Agent : L[x] \subseteq K[x] \cup {a}, NEW r \in Agent
  PROVE  Reach(L, r) \subseteq Reach(K, r) \cup {a}
  <1>1. \A x \in Reach(K, r) : K[x] \subseteq Reach(K, r)
    BY ReachClosed
  <1>2. Reach(K, r) \cup {a} \in SUBSET Agent /\ r \in Reach(K, r)
    BY ReachRoot DEF Reach
  <1> DEFINE S == Reach(K, r) \cup {a}
  <1>3. S \in SUBSET Agent /\ r \in S /\ \A x \in S : L[x] \subseteq S
    BY <1>1, <1>2
  <1> HIDE DEF S
  <1>4. Reach(L, r) \subseteq S
    BY <1>3, ReachLeast
  <1> QED BY <1>4 DEF S

-----------------------------------------------------------------------------
(* The registry's invariant                                                  *)

\* What is ever PATCHed, and the statuses that allow an agent its tuple.
Live == {"active", "awaiting-consent"}
Reports == Live \cup Exited

\* A registration that ends before its write.
RegisterDrops(a) ==
  /\ reg[a].pc = "write"
  /\ reg' = [reg EXCEPT ![a] = RegIdle]
  /\ UNCHANGED <<status, dismissed, parent, enabled, clean, casc>>
  /\ Disturb({})

\* Every step any of the four specifications lets the registry take, but for
\* the loss of the cluster.
AgentAct(a) ==
  \/ \E p \in Agent \cup {NoAgent} :
       /\ status[a] = "none" /\ p # a /\ (p # NoAgent => status[p] # "none")
       /\ Preregister(a, p)
  \/ status[a] # "none" /\ RegisterRead(a, NoAgent)
  \/ RegisterWrite(a) \/ RegisterDrops(a) \/ RegisterTuple(a)
  \/ \E st \in Reports : PatchStatus(a, st)
  \/ PatchCleanup(a) \/ DismissAgent(a)

RegistryAct ==
  (\E a \in Agent : AgentAct(a)) \/ (\E h \in Handler : Cascade(h))

\* Parents have records; only agents with a record register, hold a tuple or
\* are cleaned up; a registration carries the lineage of the record.
Lineage ==
  \A a \in Agent :
    /\ status[a] # "none" /\ parent[a] # NoAgent => status[parent[a]] # "none"
    /\ reg[a].pc # "idle" \/ enabled[a] \/ a \in clean => status[a] # "none"
    /\ reg[a].pc = "write" => reg[a].parent = parent[a]

\* A cascade knows what it does and to whom, and only ever meets records.
CascOK(h) ==
  /\ casc[h].pc = "idle" => casc[h] = CascIdle
  /\ casc[h].pc # "idle" => casc[h].op # "none" /\ casc[h].root # NoAgent
  /\ casc[h].pc \in {"write", "tuple"} => casc[h].cur \in casc[h].nodes
  /\ casc[h].pc \notin {"write", "tuple"} => casc[h].cur = NoAgent
  /\ \A a \in casc[h].queue \cup casc[h].nodes : status[a] # "none"

\* At most one handler stands between two writes of agent b.
Apart(b) ==
  /\ reg[b].pc # "idle" => b \notin clean
  /\ \A h \in Handler : casc[h].cur = b => reg[b].pc = "idle" /\ b \notin clean
  /\ \A g, h \in Handler : casc[g].cur = b /\ casc[h].cur = b => g = h

\* The status and the tuple of an agent no two handlers met on: the tuple may
\* be behind only while the one handler in flight is about to write it.
Settled(b) ==
  b \notin disturbed =>
    /\ Apart(b)
    /\ enabled[b] => \/ status[b] \in Live \/ b \in clean
                     \/ \E h \in Handler : casc[h].cur = b /\ casc[h].pc = "tuple"
    /\ reg[b].pc = "tuple" => status[b] \in Live
    /\ \A h \in Handler : casc[h].cur = b /\ casc[h].pc = "tuple"
                          /\ casc[h].op = "resume" => status[b] \in Live

RInv ==
  /\ RegistryTypeOK
  /\ Lineage
  /\ \A h \in Handler : CascOK(h)
  /\ \A b \in Agent : Settled(b)

\* InFlight counts what Apart says, before a step and after it.
LEMMA ApartMeans ==
  ASSUME NEW b \in Agent
  PROVE  /\ (\A x, y \in InFlight(b) : x = y) <=> Apart(b)
         /\ (\A x, y \in InFlight(b)' : x = y) <=> Apart(b)'
  <1>1. "register" \notin Handler /\ "terminal" \notin Handler
    BY HandlersAreCascades
  <1>2. (\A x, y \in InFlight(b) : x = y) <=> Apart(b)
    <2>1. \A x : x \in InFlight(b) <=>
               \/ x = "register" /\ reg[b].pc # "idle"
               \/ x = "terminal" /\ b \in clean
               \/ x \in Handler /\ casc[x].cur = b
      BY DEF InFlight
    <2>2. ASSUME \A x, y \in InFlight(b) : x = y PROVE Apart(b)
      BY <1>1, <2>1, <2>2 DEF Apart
    <2>3. ASSUME Apart(b), NEW x \in InFlight(b), NEW y \in InFlight(b)
          PROVE  x = y
      BY <1>1, <2>1, <2>3, SMTT(30) DEF Apart
    <2> QED BY <2>2, <2>3
  <1>3. (\A x, y \in InFlight(b)' : x = y) <=> Apart(b)'
    <2>1. \A x : x \in InFlight(b)' <=>
               \/ x = "register" /\ reg'[b].pc # "idle"
               \/ x = "terminal" /\ b \in clean'
               \/ x \in Handler /\ casc'[x].cur = b
      BY DEF InFlight
    <2>2. ASSUME \A x, y \in InFlight(b)' : x = y PROVE Apart(b)'
      BY <1>1, <2>1, <2>2 DEF Apart
    <2>3. ASSUME Apart(b)', NEW x \in InFlight(b)', NEW y \in InFlight(b)'
          PROVE  x = y
      BY <1>1, <2>1, <2>3, SMTT(30) DEF Apart
    <2> QED BY <2>2, <2>3
  <1> QED BY <1>2, <1>3

\* An agent that stays undisturbed has one handler in flight at most.
LEMMA DisturbSays ==
  ASSUME NEW lost, Disturb(lost)
  PROVE  \A b \in Agent : b \notin disturbed' =>
           b \notin disturbed /\ b \notin lost /\ Apart(b)'
  <1> TAKE b \in Agent
  <1> HAVE b \notin disturbed'
  <1>1. b \notin disturbed /\ b \notin lost
        /\ \A x, y \in InFlight(b)' : x = y
    BY DEF Disturb
  <1> QED BY <1>1, ApartMeans

\* Disturb only ever adds agents.
LEMMA DisturbType ==
  ASSUME NEW lost \in SUBSET Agent, disturbed \in SUBSET Agent, Disturb(lost)
  PROVE  disturbed' \in SUBSET Agent
  BY DEF Disturb

\* The idle states are typed, and nobody is in flight in them.
LEMMA Idles ==
  /\ RegIdle \in RegState /\ RegIdle.pc = "idle"
  /\ CascIdle \in CascState /\ CascIdle.cur = NoAgent /\ CascIdle.pc = "idle"
  /\ CascIdle.op = "none"
  BY DEF RegIdle, RegState, CascIdle, CascState

\* POST /v1/agents/preregister of an agent without a record.
LEMMA PreregisterKeeps ==
  ASSUME RInv, NEW a \in Agent, NEW p \in Agent \cup {NoAgent},
         status[a] = "none", p # a, p # NoAgent => status[p] # "none",
         Preregister(a, p)
  PROVE  RInv'
  <1>1. RegistryTypeOK'
    BY DisturbType DEF RInv, RegistryTypeOK, Preregister, Status
  <1>2. Lineage'
    BY NoAgentIsNotAnAgent DEF RInv, RegistryTypeOK, Lineage, Preregister
  <1>3. ASSUME NEW h \in Handler PROVE CascOK(h)'
    BY DEF RInv, RegistryTypeOK, CascOK, Preregister, CascState
  <1>4. ASSUME NEW b \in Agent PROVE Settled(b)'
    <2>1. b \notin disturbed' => b \notin disturbed /\ Apart(b)'
      BY DisturbSays DEF Preregister
    <2>2. \A h \in Handler : casc[h].cur # a
      BY NoAgentIsNotAnAgent DEF RInv, CascOK
    <2> QED BY <2>1, <2>2, SMTT(30)
       DEF RInv, RegistryTypeOK, Lineage, Preregister, Settled
  <1> QED BY <1>1, <1>2, <1>3, <1>4 DEF RInv

\* POST /v1/agents, the read.
LEMMA RegisterReadKeeps ==
  ASSUME RInv, NEW a \in Agent, status[a] # "none", RegisterRead(a, NoAgent)
  PROVE  RInv'
  <1>0. reg' = [reg EXCEPT ![a] = [pc |-> "write", parent |-> parent[a]]]
    BY DEF RegisterRead
  <1>1. RegistryTypeOK'
    BY <1>0, DisturbType, SMTT(30)
    DEF RInv, RegistryTypeOK, RegisterRead, RegState
  <1>2. Lineage'
    BY <1>0, SMTT(30) DEF RInv, RegistryTypeOK, Lineage, RegisterRead
  <1>3. ASSUME NEW h \in Handler PROVE CascOK(h)'
    BY DEF RInv, CascOK, RegisterRead
  <1>4. ASSUME NEW b \in Agent PROVE Settled(b)'
    <2>1. b \notin disturbed' => b \notin disturbed /\ Apart(b)'
      BY DisturbSays DEF RegisterRead
    <2> QED BY <1>0, <2>1, SMTT(30) DEF RInv, RegistryTypeOK, RegisterRead, Settled
  <1> QED BY <1>1, <1>2, <1>3, <1>4 DEF RInv

\* POST /v1/agents, the write of the record.
LEMMA RegisterWriteKeeps ==
  ASSUME RInv, NEW a \in Agent, RegisterWrite(a)
  PROVE  RInv'
  <1>0. /\ reg[a] \in RegState /\ reg[a].parent = parent[a]
        /\ status[a] # "none"
    BY DEF RInv, RegistryTypeOK, Lineage, RegisterWrite
  <1>1. RegistryTypeOK'
    BY <1>0, DisturbType
    DEF RInv, RegistryTypeOK, RegisterWrite, RegState, Status
  <1>2. Lineage'
    BY <1>0 DEF RInv, RegistryTypeOK, Lineage, RegisterWrite, RegState
  <1>3. ASSUME NEW h \in Handler PROVE CascOK(h)'
    BY DEF RInv, RegistryTypeOK, CascState, CascOK, RegisterWrite
  <1>4. ASSUME NEW b \in Agent PROVE Settled(b)'
    <2>1. b \notin disturbed' => b \notin disturbed /\ Apart(b)'
      BY DisturbSays DEF RegisterWrite
    <2> QED BY <1>0, <2>1, SMTT(30)
            DEF RInv, RegistryTypeOK, RegisterWrite, Settled, RegState, Live
  <1> QED BY <1>1, <1>2, <1>3, <1>4 DEF RInv

\* A registration that ends before its write.
LEMMA RegisterDropsKeeps ==
  ASSUME RInv, NEW a \in Agent, RegisterDrops(a)
  PROVE  RInv'
  <1>1. RegistryTypeOK'
    BY DisturbType, Idles DEF RInv, RegistryTypeOK, RegisterDrops
  <1>2. Lineage'
    BY Idles DEF RInv, RegistryTypeOK, Lineage, RegisterDrops
  <1>3. ASSUME NEW h \in Handler PROVE CascOK(h)'
    BY DEF RInv, CascOK, RegisterDrops
  <1>4. ASSUME NEW b \in Agent PROVE Settled(b)'
    <2>1. b \notin disturbed' => b \notin disturbed /\ Apart(b)'
      BY DisturbSays DEF RegisterDrops
    <2> QED BY <2>1, Idles DEF RInv, RegistryTypeOK, RegisterDrops, Settled
  <1> QED BY <1>1, <1>2, <1>3, <1>4 DEF RInv

\* POST /v1/agents, the tuple.
LEMMA RegisterTupleKeeps ==
  ASSUME RInv, NEW a \in Agent, RegisterTuple(a)
  PROVE  RInv'
  <1>0. /\ status[a] # "none"
        /\ enabled' \in {enabled, [enabled EXCEPT ![a] = TRUE]}
        /\ \E lost \in SUBSET {a} : Disturb(lost)
    BY DEF RInv, Lineage, RegisterTuple
  <1>1. RegistryTypeOK'
    BY <1>0, DisturbType, Idles DEF RInv, RegistryTypeOK, RegisterTuple
  <1>2. Lineage'
    BY <1>0, Idles DEF RInv, RegistryTypeOK, Lineage, RegisterTuple
  <1>3. ASSUME NEW h \in Handler PROVE CascOK(h)'
    BY DEF RInv, CascOK, RegisterTuple
  <1>4. ASSUME NEW b \in Agent PROVE Settled(b)'
    <2>1. b \notin disturbed' => b \notin disturbed /\ Apart(b)'
      BY <1>0, DisturbSays
    <2>2. a \notin disturbed => status[a] \in Live
      BY DEF RInv, Settled, RegisterTuple
    <2> QED BY <1>0, <2>1, <2>2, Idles, SMTT(30)
            DEF RInv, RegistryTypeOK, RegisterTuple, Settled
  <1> QED BY <1>1, <1>2, <1>3, <1>4 DEF RInv

\* PATCH /v1/agents/{id}, the status.
LEMMA PatchStatusKeeps ==
  ASSUME RInv, NEW a \in Agent, NEW st \in Reports, PatchStatus(a, st)
  PROVE  RInv'
  <1>0. st \in Status /\ st # "none" /\ (st \in Live \/ st \in Exited)
    BY DEF Reports, Live, Exited, Status
  <1>1. RegistryTypeOK'
    BY <1>0, DisturbType DEF RInv, RegistryTypeOK, PatchStatus
  <1>2. Lineage'
    BY <1>0 DEF RInv, RegistryTypeOK, Lineage, PatchStatus
  <1>3. ASSUME NEW h \in Handler PROVE CascOK(h)'
    BY <1>0 DEF RInv, RegistryTypeOK, CascState, CascOK, PatchStatus
  <1>4. ASSUME NEW b \in Agent PROVE Settled(b)'
    <2>1. b \notin disturbed' => b \notin disturbed /\ Apart(b)'
      BY DisturbSays DEF PatchStatus
    <2> QED BY <1>0, <2>1, SMTT(30)
            DEF RInv, RegistryTypeOK, PatchStatus, Settled, Apart
  <1> QED BY <1>1, <1>2, <1>3, <1>4 DEF RInv

\* PATCH /v1/agents/{id}, the tuple of a terminal status.
LEMMA PatchCleanupKeeps ==
  ASSUME RInv, NEW a \in Agent, PatchCleanup(a)
  PROVE  RInv'
  <1>0. /\ enabled' \in {enabled, [enabled EXCEPT ![a] = FALSE]}
        /\ \/ enabled' = [enabled EXCEPT ![a] = FALSE] /\ Disturb({})
           \/ enabled' = enabled /\ Disturb({a})
    BY DEF PatchCleanup
  <1>1. RegistryTypeOK'
    BY <1>0, DisturbType DEF RInv, RegistryTypeOK, PatchCleanup
  <1>2. Lineage'
    BY <1>0 DEF RInv, RegistryTypeOK, Lineage, PatchCleanup
  <1>3. ASSUME NEW h \in Handler PROVE CascOK(h)'
    BY DEF RInv, CascOK, PatchCleanup
  <1>4. ASSUME NEW b \in Agent PROVE Settled(b)'
    <2>1. b \notin disturbed' => b \notin disturbed /\ Apart(b)'
      BY <1>0, DisturbSays
    <2>2. a \notin disturbed' => enabled' = [enabled EXCEPT ![a] = FALSE]
      BY <1>0, DisturbSays
    <2> QED BY <1>0, <2>1, <2>2, SMTT(30)
            DEF RInv, RegistryTypeOK, PatchCleanup, Settled
  <1> QED BY <1>1, <1>2, <1>3, <1>4 DEF RInv

\* POST /v1/agents/{id}/dismiss
LEMMA DismissKeeps ==
  ASSUME RInv, NEW a \in Agent, DismissAgent(a)
  PROVE  RInv'
  <1>1. RegistryTypeOK'
    BY DisturbType DEF RInv, RegistryTypeOK, DismissAgent
  <1>2. Lineage'
    BY DEF RInv, Lineage, DismissAgent
  <1>3. ASSUME NEW h \in Handler PROVE CascOK(h)'
    BY DEF RInv, CascOK, DismissAgent
  <1>4. ASSUME NEW b \in Agent PROVE Settled(b)'
    <2>1. b \notin disturbed' => b \notin disturbed /\ Apart(b)'
      BY DisturbSays DEF DismissAgent
    <2> QED BY <2>1 DEF RInv, DismissAgent, Settled
  <1> QED BY <1>1, <1>2, <1>3, <1>4 DEF RInv

\* A cascade that stands between two nodes, before the step and after it,
\* disturbs nobody: only its own progress changes.
LEMMA CascadeOnly ==
  ASSUME RInv, NEW h \in Handler, NEW new \in CascState,
         casc' = [casc EXCEPT ![h] = new], CascOK(h)',
         UNCHANGED <<status, dismissed, parent, enabled, reg, clean>>,
         \E lost \in SUBSET Agent :
           /\ Disturb(lost)
           /\ casc[h].pc = "tuple" => casc[h].cur \in lost,
         new.pc # "tuple"
  PROVE  RInv'
  <1>1. RegistryTypeOK'
    BY DisturbType DEF RInv, RegistryTypeOK
  <1>2. Lineage'
    BY DEF RInv, Lineage
  <1>3. ASSUME NEW g \in Handler PROVE CascOK(g)'
    BY DEF RInv, RegistryTypeOK, CascOK
  <1>4. ASSUME NEW b \in Agent PROVE Settled(b)'
    <2>1. b \notin disturbed' =>
            /\ b \notin disturbed /\ Apart(b)'
            /\ ~ (casc[h].pc = "tuple" /\ casc[h].cur = b)
      BY DisturbSays
    <2> QED BY <2>1 DEF RInv, RegistryTypeOK, Settled
  <1> QED BY <1>1, <1>2, <1>3, <1>4 DEF RInv

\* The start of a cascade.
LEMMA CascadeStartKeeps ==
  ASSUME RInv, NEW h \in Handler, NEW root \in Agent,
         NEW op \in {"revoke", "resume"}, CascadeStart(h, op, root)
  PROVE  RInv'
  <1> DEFINE new == [CascIdle EXCEPT !.op = op, !.root = root, !.pc = "walk",
                                     !.queue = {root}]
  <1>1. /\ new \in CascState /\ new.pc = "walk" /\ new.op = op
        /\ new.root = root /\ new.cur = NoAgent /\ new.queue = {root}
        /\ new.nodes = {}
    BY DEF CascIdle, CascState
  <1>2. casc' = [casc EXCEPT ![h] = new] /\ casc[h].pc = "idle"
        /\ status[root] # "none"
    BY DEF CascadeStart
  <1> HIDE DEF new
  <1>3. CascOK(h)'
    BY <1>1, <1>2, NoAgentIsNotAnAgent
    DEF RInv, RegistryTypeOK, CascOK, CascadeStart
  <1> QED BY <1>1, <1>2, <1>3, CascadeOnly DEF CascadeStart

\* One ListChildren of a cascade's walk.
LEMMA SubtreeStepKeeps ==
  ASSUME RInv, NEW h \in Handler, NEW n \in Agent, SubtreeStep(h, n)
  PROVE  RInv'
  <1> DEFINE seen == casc[h].nodes \cup {n}
             rest == (casc[h].queue \cup Children(n)) \ seen
             new == [casc[h] EXCEPT !.nodes = seen, !.queue = rest,
                       !.pc = IF rest = {} THEN "nodes" ELSE "walk"]
  <1>0. casc[h] \in CascState
    BY DEF RInv, RegistryTypeOK
  <1>1. casc' = [casc EXCEPT ![h] = new] /\ casc[h].pc = "walk"
        /\ n \in casc[h].queue /\ status' = status
    BY <1>0 DEF SubtreeStep, RInv, RegistryTypeOK, CascState
  <1>2. seen \in SUBSET Agent /\ rest \in SUBSET Agent
        /\ \A a \in seen \cup rest : status[a] # "none"
    BY <1>0, <1>1 DEF CascState, Children, RInv, CascOK
  <1>3. /\ new \in CascState /\ new.pc \in {"nodes", "walk"}
        /\ new.op = casc[h].op /\ new.root = casc[h].root
        /\ new.cur = casc[h].cur /\ new.queue = rest /\ new.nodes = seen
    BY <1>0, <1>2 DEF CascState
  <1> HIDE DEF new, seen, rest
  <1>4. CascOK(h)'
    BY <1>1, <1>2, <1>3 DEF RInv, RegistryTypeOK, CascOK
  <1> QED BY <1>1, <1>3, <1>4, CascadeOnly DEF SubtreeStep

\* revokeNode and resumeNode, the read.
LEMMA NodeReadKeeps ==
  ASSUME RInv, NEW h \in Handler, NEW n \in Agent, NodeRead(h, n)
  PROVE  RInv'
  <1>0. casc[h] \in CascState /\ casc[h].pc = "nodes" /\ n \in casc[h].nodes
    BY DEF RInv, RegistryTypeOK, NodeRead
  <1> DEFINE new == IF status[n] \in (IF casc[h].op = "revoke"
                                      THEN revocableStatus ELSE {"revoked"})
                    THEN [casc[h] EXCEPT !.pc = "write", !.cur = n]
                    ELSE [casc[h] EXCEPT !.nodes = @ \ {n}]
  <1>1. casc' = [casc EXCEPT ![h] = new] /\ status' = status
    BY <1>0 DEF NodeRead, RInv, RegistryTypeOK, CascState
  <1>2. /\ new \in CascState /\ new.op = casc[h].op
        /\ new.root = casc[h].root /\ new.queue = casc[h].queue
        /\ \/ new.pc = "write" /\ new.cur = n /\ new.nodes = casc[h].nodes
           \/ /\ new.pc = "nodes" /\ new.cur = casc[h].cur
              /\ new.nodes = casc[h].nodes \ {n}
    BY <1>0 DEF CascState
  <1> HIDE DEF new
  <1>3. CascOK(h)'
    BY <1>0, <1>1, <1>2 DEF RInv, RegistryTypeOK, CascOK
  <1>4. /\ UNCHANGED <<status, dismissed, parent, enabled, reg, clean>>
        /\ Disturb({})
    BY DEF NodeRead
  <1> QED BY <1>0, <1>1, <1>2, <1>3, <1>4, CascadeOnly

\* The response of a cascade, or the store error that ends it.
LEMMA CascadeEndKeeps ==
  ASSUME RInv, NEW h \in Handler, CascadeEnd(h)
  PROVE  RInv'
  <1>1. casc' = [casc EXCEPT ![h] = CascIdle]
    BY DEF CascadeEnd
  <1>2. CascOK(h)'
    BY <1>1 DEF RInv, RegistryTypeOK, CascOK, CascIdle
  <1>3. casc[h].pc = "tuple" => casc[h].cur \in Agent
    BY DEF RInv, RegistryTypeOK, CascOK, CascState
  <1>4. \E lost \in SUBSET Agent :
          Disturb(lost) /\ (casc[h].pc = "tuple" => casc[h].cur \in lost)
    BY <1>3 DEF CascadeEnd
  <1>5. UNCHANGED <<status, dismissed, parent, enabled, reg, clean>>
    BY DEF CascadeEnd
  <1> QED BY <1>1, <1>2, <1>4, <1>5, Idles, CascadeOnly

\* revokeNode and resumeNode, the status write.
LEMMA NodeWriteKeeps ==
  ASSUME RInv, NEW h \in Handler, NodeWrite(h)
  PROVE  RInv'
  <1> DEFINE a == casc[h].cur
             st == IF casc[h].op = "revoke" THEN "revoked" ELSE "active"
             new == [casc[h] EXCEPT !.pc = "tuple"]
  <1>0. /\ casc[h] \in CascState /\ casc[h].pc = "write"
        /\ a \in Agent /\ a \in casc[h].nodes /\ status[a] # "none"
    BY DEF RInv, RegistryTypeOK, CascOK, CascState, NodeWrite
  <1>1. /\ casc' = [casc EXCEPT ![h] = new]
        /\ status' = [status EXCEPT ![a] = st]
        /\ UNCHANGED <<dismissed, parent, enabled, reg, clean>>
        /\ Disturb({})
    BY <1>0 DEF NodeWrite, RInv, RegistryTypeOK
  <1>2. /\ new \in CascState /\ new.op = casc[h].op
        /\ new.root = casc[h].root /\ new.queue = casc[h].queue
        /\ new.pc = "tuple" /\ new.cur = a /\ new.nodes = casc[h].nodes
    BY <1>0 DEF CascState
  <1>3. st \in Status /\ st # "none" /\ (casc[h].op = "resume" => st \in Live)
    BY DEF Status, Live
  <1> HIDE DEF a, st, new
  <1>4. RegistryTypeOK'
    <2>1. disturbed' \in SUBSET Agent
      BY <1>0, <1>1, DisturbType DEF RInv, RegistryTypeOK
    <2> QED BY <1>0, <1>1, <1>2, <1>3, <2>1 DEF RInv, RegistryTypeOK
  <1>5. Lineage'
    BY <1>0, <1>1, <1>3 DEF RInv, RegistryTypeOK, Lineage
  <1>6. ASSUME NEW g \in Handler PROVE CascOK(g)'
    BY <1>0, <1>1, <1>2, <1>3, SMTT(30) DEF RInv, RegistryTypeOK, CascOK, CascState, a
  <1>7. ASSUME NEW b \in Agent PROVE Settled(b)'
    <2>1. b \notin disturbed' => b \notin disturbed /\ Apart(b)'
      BY <1>1, DisturbSays
    <2>2. CASE b = a
      <3>1. b \notin disturbed' => reg[b].pc = "idle"
                                   /\ \A g \in Handler : casc[g].cur = b => g = h
        BY <1>0, <2>1, <2>2, SMTT(30) DEF RInv, Settled, Apart, a
      <3> QED BY <1>0, <1>1, <1>2, <1>3, <2>1, <2>2, <3>1, SMTT(30)
              DEF RInv, RegistryTypeOK, Settled
    <2>3. CASE b # a
      BY <1>0, <1>1, <1>2, <2>1, <2>3, SMTT(30)
      DEF RInv, RegistryTypeOK, Settled, a
    <2> QED BY <2>2, <2>3
  <1> QED BY <1>4, <1>5, <1>6, <1>7 DEF RInv

\* revokeNode and resumeNode, the tuple.
LEMMA NodeTupleKeeps ==
  ASSUME RInv, NEW h \in Handler, NodeTuple(h)
  PROVE  RInv'
  <1> DEFINE a == casc[h].cur
             new == [casc[h] EXCEPT !.pc = "nodes", !.cur = NoAgent,
                                    !.nodes = @ \ {a}]
             on == casc[h].op = "resume"
  <1>0. /\ casc[h] \in CascState /\ casc[h].pc = "tuple"
        /\ a \in Agent /\ a \in casc[h].nodes /\ status[a] # "none"
    BY DEF RInv, RegistryTypeOK, CascOK, CascState, NodeTuple
  <1>1. /\ casc' = [casc EXCEPT ![h] = new]
        /\ \/ enabled' = [enabled EXCEPT ![a] = on] /\ Disturb({})
           \/ enabled' = enabled /\ Disturb({a})
        /\ UNCHANGED <<status, dismissed, parent, reg, clean>>
    BY <1>0 DEF NodeTuple, RInv, RegistryTypeOK, CascState
  <1>2. /\ new \in CascState /\ new.op = casc[h].op
        /\ new.root = casc[h].root /\ new.queue = casc[h].queue
        /\ new.pc = "nodes" /\ new.cur = NoAgent
        /\ new.nodes = casc[h].nodes \ {a}
    BY <1>0 DEF CascState
  <1>3. on \in BOOLEAN /\ (on <=> casc[h].op = "resume")
    OBVIOUS
  <1> HIDE DEF a, new, on
  <1>4. RegistryTypeOK'
    <2>1. disturbed' \in SUBSET Agent
      BY <1>0, <1>1, DisturbType DEF RInv, RegistryTypeOK
    <2> QED BY <1>0, <1>1, <1>2, <1>3, <2>1 DEF RInv, RegistryTypeOK
  <1>5. Lineage'
    BY <1>0, <1>1, <1>3 DEF RInv, RegistryTypeOK, Lineage
  <1>6. ASSUME NEW g \in Handler PROVE CascOK(g)'
    BY <1>0, <1>1, <1>2 DEF RInv, RegistryTypeOK, CascOK
  <1>7. ASSUME NEW b \in Agent PROVE Settled(b)'
    <2>1. b \notin disturbed' => b \notin disturbed /\ Apart(b)'
      BY <1>1, DisturbSays
    <2>2. b \notin disturbed' => (b = a => enabled' = [enabled EXCEPT ![a] = on])
      BY <1>1, DisturbSays
    <2>3. CASE b = a
      <3>1. b \notin disturbed' => (on => status[b] \in Live)
        BY <1>0, <1>3, <2>1, <2>3 DEF RInv, Settled, a
      <3>2. b \notin disturbed' =>
              reg[b].pc = "idle" /\ \A g \in Handler : casc[g].cur = b => g = h
        BY <1>0, <2>1, <2>3, SMTT(30) DEF RInv, Settled, Apart, a
      <3> QED BY <1>0, <1>1, <1>2, <1>3, <2>1, <2>2, <2>3, <3>1, <3>2, SMTT(30)
              DEF RInv, RegistryTypeOK, Settled
    <2>4. CASE b # a
      BY <1>0, <1>1, <1>2, <2>1, <2>4, SMTT(30)
      DEF RInv, RegistryTypeOK, Settled, a
    <2> QED BY <2>3, <2>4
  <1> QED BY <1>4, <1>5, <1>6, <1>7 DEF RInv

\* RInv holds when no agent has a record, and every step of the registry
\* keeps it.
LEMMA RegistryInitHolds ==
  ASSUME RegistryInit
  PROVE  RInv
  <1>1. RegistryTypeOK
    BY Idles DEF RegistryInit, RegistryTypeOK, Status
  <1>2. Lineage
    BY Idles DEF RegistryInit, Lineage
  <1>3. \A h \in Handler : CascOK(h)
    BY DEF RegistryInit, CascOK, CascIdle
  <1>4. \A b \in Agent : Settled(b)
    BY Idles, NoAgentIsNotAnAgent DEF RegistryInit, Settled, Apart
  <1> QED BY <1>1, <1>2, <1>3, <1>4 DEF RInv

\* One step of any registry handler keeps the registry's invariant.
LEMMA RegistryActKeeps ==
  ASSUME RInv, RegistryAct
  PROVE  RInv'
  <1>1. ASSUME NEW a \in Agent, AgentAct(a) PROVE RInv'
    BY <1>1, PreregisterKeeps, RegisterReadKeeps, RegisterWriteKeeps,
       RegisterDropsKeeps, RegisterTupleKeeps, PatchStatusKeeps,
       PatchCleanupKeeps, DismissKeeps DEF AgentAct
  <1>2. ASSUME NEW h \in Handler, Cascade(h) PROVE RInv'
    BY <1>2, CascadeStartKeeps, SubtreeStepKeeps, NodeReadKeeps,
       NodeWriteKeeps, NodeTupleKeeps, CascadeEndKeeps DEF Cascade
  <1> QED BY <1>1, <1>2 DEF RegistryAct

\* A step that changes none of the registry's variables keeps it too.
LEMMA RegistryStutters ==
  ASSUME RInv, UNCHANGED registryVars
  PROVE  RInv'
  <1>1. RegistryTypeOK' /\ Lineage'
    BY DEF registryVars, RInv, RegistryTypeOK, Lineage
  <1>2. \A h \in Handler : CascOK(h)'
    BY DEF registryVars, RInv, CascOK
  <1>3. \A b \in Agent : Settled(b)'
    BY SMTT(30) DEF registryVars, RInv, Settled, Apart
  <1> QED BY <1>1, <1>2, <1>3 DEF RInv

\* An agent between requests is enabled only in a status that allows it.
LEMMA SettledIsLive ==
  ASSUME RInv
  PROVE  EnabledOnlyWhileLive
  <1> SUFFICES ASSUME NEW a \in Agent, enabled[a], InFlight(a) = {},
                      a \notin disturbed
               PROVE  status[a] \in {"active", "awaiting-consent"}
    BY DEF EnabledOnlyWhileLive
  <1>1. a \notin clean /\ \A h \in Handler : casc[h].cur # a
    BY DEF InFlight
  <1> QED BY <1>1 DEF RInv, Settled, Live

-----------------------------------------------------------------------------
(* How the tree of agents grows                                              *)

\* Agent x gets its record in this step.
Fresh(x) == status[x] = "none" /\ status'[x] # "none"

\* A step gives existing agents no parents and takes none away: what is new
\* in a subtree got its record in this step.
TreeStep ==
  /\ \A n \in Agent : /\ Children(n) \subseteq Children(n)'
                      /\ \A c \in Children(n)' : c \in Children(n) \/ Fresh(c)
  /\ \A r \in Agent : /\ Below(r) \subseteq Below(r)'
                      /\ \A x \in Below(r)' : x \in Below(r) \/ Fresh(x)

\* The children of an agent are agents, before the step and after it.
LEMMA KidsType == Kids \in [Agent -> SUBSET Agent] /\
                  Kids' \in [Agent -> SUBSET Agent]
  BY DEF Kids, Children

\* The facts about subtrees, for the records themselves.
LEMMA BelowFacts ==
  ASSUME NEW r \in Agent
  PROVE  /\ r \in Below(r) /\ Below(r) \subseteq Agent
         /\ \A x \in Below(r) : Children(x) \subseteq Below(r)
                                /\ Below(x) \subseteq Below(r)
  <1>1. Below(r) = Reach(Kids, r) /\ Below(r) \subseteq Agent
    BY BelowIsReach DEF Reach
  <1>2. \A x \in Agent : Below(x) = Reach(Kids, x) /\ Kids[x] = Children(x)
    BY BelowIsReach DEF Kids
  <1> QED BY <1>1, <1>2, KidsType, ReachRoot, ReachClosed, ReachTrans, SMTT(30)

\* Neither a record nor its parent goes away, and a record appears only when
\* it is pre-registered.
LEMMA RecordsKept ==
  ASSUME RInv, RegistryAct
  PROVE  \/ /\ parent' = parent
            /\ \A x \in Agent : status'[x] = "none" <=> status[x] = "none"
         \/ \E a \in Agent, p \in Agent \cup {NoAgent} :
              /\ status[a] = "none" /\ p # a /\ (p # NoAgent => status[p] # "none")
              /\ Preregister(a, p)
  <1>1. ASSUME NEW a \in Agent, RegisterWrite(a)
        PROVE  /\ parent' = parent
               /\ \A x \in Agent : status'[x] = "none" <=> status[x] = "none"
    BY <1>1 DEF RInv, RegistryTypeOK, Lineage, RegisterWrite
  <1>2. ASSUME NEW a \in Agent, NEW st \in Reports, PatchStatus(a, st)
        PROVE  /\ parent' = parent
               /\ \A x \in Agent : status'[x] = "none" <=> status[x] = "none"
    BY <1>2 DEF RInv, RegistryTypeOK, PatchStatus, Reports, Live, Exited
  <1>3. ASSUME NEW h \in Handler, NodeWrite(h)
        PROVE  /\ parent' = parent
               /\ \A x \in Agent : status'[x] = "none" <=> status[x] = "none"
    <2>1. casc[h].cur \in Agent /\ status[casc[h].cur] # "none"
      BY <1>3 DEF RInv, RegistryTypeOK, CascOK, CascState, NodeWrite
    <2> QED BY <1>3, <2>1 DEF RInv, RegistryTypeOK, NodeWrite
  <1>4. ASSUME NEW h \in Handler, Cascade(h)
        PROVE  /\ parent' = parent
               /\ \A x \in Agent : status'[x] = "none" <=> status[x] = "none"
    BY <1>3, <1>4 DEF Cascade, CascadeStart, SubtreeStep, NodeRead, NodeTuple,
                      CascadeEnd
  <1> QED BY <1>1, <1>2, <1>4 DEF RegistryAct, AgentAct, RegisterRead,
             RegisterDrops, RegisterTuple, PatchCleanup, DismissAgent

\* A step that adds no record changes no subtree.
LEMMA SameTree ==
  ASSUME parent' = parent,
         \A x \in Agent : status'[x] = "none" <=> status[x] = "none"
  PROVE  TreeStep
  <1>1. \A n \in Agent : Children(n)' = Children(n)
    BY DEF Children
  <1>2. Kids' = Kids
    BY <1>1 DEF Kids
  <1> QED BY <1>1, <1>2, BelowIsReach DEF TreeStep

\* No agent without a record has children.
LEMMA Unborn ==
  ASSUME RInv, NEW x \in Agent, status[x] = "none"
  PROVE  Below(x) = {x}
  <1>1. Kids[x] = {}
    BY NoAgentIsNotAnAgent DEF RInv, Lineage, Kids, Children
  <1> DEFINE S == {x}
  <1>2. S \in SUBSET Agent /\ x \in S /\ \A y \in S : Kids[y] \subseteq S
    BY <1>1
  <1>3. Reach(Kids, x) \subseteq S
    <2> HIDE DEF S
    <2> QED BY <1>2, ReachLeast
  <1> QED BY <1>3, BelowIsReach, BelowFacts

\* A new record is a leaf of the tree.
LEMMA NewLeaf ==
  ASSUME RInv, NEW a \in Agent, NEW p \in Agent \cup {NoAgent},
         status[a] = "none", p # a, Preregister(a, p)
  PROVE  /\ TreeStep
         /\ \A r \in Agent : p \in Below(r) => a \in Below(r)'
  <1>1. /\ status' = [status EXCEPT ![a] = "pending"]
        /\ parent' = [parent EXCEPT ![a] = p]
        /\ status \in [Agent -> Status] /\ parent \in [Agent -> Agent \cup {NoAgent}]
    BY DEF Preregister, RInv, RegistryTypeOK
  <1>2. Fresh(a)
    BY <1>1 DEF Fresh
  <1>3. \A n \in Agent : /\ Children(n) \subseteq Children(n)'
                         /\ Children(n)' \subseteq Children(n) \cup {a}
                         /\ p = n => a \in Children(n)'
    BY <1>1 DEF Children
  <1>4. Children(a)' = {}
    BY <1>1, NoAgentIsNotAnAgent DEF Children, RInv, Lineage
  <1>5. \A n \in Agent : Kids[n] = Children(n) /\ Kids'[n] = Children(n)'
    BY DEF Kids
  <1>6. \A r \in Agent : Below(r) \subseteq Below(r)'
    <2> TAKE r \in Agent
    <2>1. Reach(Kids, r) \subseteq Reach(Kids', r)
      BY <1>3, <1>5, KidsType, ReachGrows, SMTT(30)
    <2> QED BY <2>1, BelowIsReach
  <1>7. \A r \in Agent : Below(r)' \subseteq Below(r) \cup {a}
    <2> TAKE r \in Agent
    <2>1. Reach(Kids', r) \subseteq Reach(Kids, r) \cup {a}
      BY <1>3, <1>4, <1>5, KidsType, ReachLeaf, SMTT(30)
    <2> QED BY <2>1, BelowIsReach
  <1>8. ASSUME NEW r \in Agent, p \in Below(r) PROVE a \in Below(r)'
    <2>1. p \in Agent /\ p \in Reach(Kids', r)
      BY <1>6, <1>8, BelowFacts, BelowIsReach
    <2>2. a \in Kids'[p]
      BY <1>3, <1>5, <2>1
    <2> QED BY <2>1, <2>2, KidsType, ReachClosed, BelowIsReach, SMTT(30)
  <1>9. TreeStep
    BY <1>2, <1>3, <1>6, <1>7 DEF TreeStep
  <1> QED BY <1>8, <1>9

\* Every step of the registry is a tree step.
LEMMA TreeGrows ==
  ASSUME RInv, RegistryAct \/ UNCHANGED registryVars
  PROVE  TreeStep
  <1>1. CASE UNCHANGED registryVars
    BY <1>1, SameTree DEF registryVars
  <1>2. CASE RegistryAct
    BY <1>2, RecordsKept, SameTree, NewLeaf
  <1> QED BY <1>1, <1>2

\* An agent whose subtree was in T, or that has just got its record, has its
\* subtree in U when U keeps T and gains the fresh agents.
LEMMA SubtreeKept ==
  ASSUME RInv, TreeStep, NEW c \in Agent, NEW T, NEW U, T \subseteq U,
         Below(c) \subseteq T \/ Fresh(c), \A x \in Agent : Fresh(x) => x \in U
  PROVE  Below(c)' \subseteq U
  <1>1. \A x \in Below(c)' : x \in Agent /\ (x \in Below(c) \/ Fresh(x))
    BY DEF TreeStep, Below
  <1>2. Fresh(c) => Below(c) = {c}
    BY Unborn DEF Fresh
  <1> QED BY <1>1, <1>2

\* A walk of the records themselves: once every child found is visited, the
\* subtree is, except for what is in T.
LEMMA WalkOver ==
  ASSUME NEW r \in Agent, NEW V \in SUBSET Agent, NEW T \in SUBSET Agent,
         r \in V,
         \A n \in V : \A c \in Children(n) : c \in V \/ Below(c) \subseteq T
  PROVE  Below(r) \subseteq V \cup T
  <1>1. \A n \in V : \A c \in Kids[n] :
          c \in V \/ Reach(Kids, c) \subseteq T
    <2> TAKE n \in V
    <2> TAKE c \in Kids[n]
    <2>1. c \in Agent /\ c \in Children(n)
      BY DEF Kids, Children
    <2> QED BY <2>1, BelowIsReach
  <1> QED BY <1>1, KidsType, WalkCovers, BelowIsReach, SMTT(30)

\* What a step of the programs around the registry may do to it.
RegistryMoves == RegistryAct \/ UNCHANGED registryVars

\* Such a step preserves the registry's invariant and only adds leaves.
LEMMA MovesKeep ==
  ASSUME RInv, RegistryMoves
  PROVE  RInv' /\ TreeStep
  BY RegistryActKeeps, RegistryStutters, TreeGrows DEF RegistryMoves

-----------------------------------------------------------------------------
(* The revoke cascade covers its subtree                                     *)

\* What the walk has found so far, and what the nodes still to do amount to:
\* an agent of the subtree that may still be pending or active is a node to
\* come, or was written by another request since the cascade started.
Covers(h, r) ==
  casc[h].op = "revoke" /\ casc[h].root = r =>
    /\ casc[h].pc = "walk" =>
         /\ r \in casc[h].nodes \cup casc[h].queue
         /\ \A n \in casc[h].nodes : \A c \in Children(n) :
              c \in casc[h].nodes \cup casc[h].queue
              \/ Below(c) \subseteq late[h]
    /\ casc[h].pc \in {"nodes", "write", "tuple"} =>
         \A a \in Below(r) : status[a] \in revocableStatus
                               => a \in casc[h].nodes \cup late[h]
    /\ casc[h].pc = "tuple" =>
         (status[casc[h].cur] \in revocableStatus => casc[h].cur \in late[h])

CascadeInv ==
  /\ RInv
  /\ late \in [Handler -> SUBSET Agent]
  /\ \A h \in Handler, r \in Agent : Covers(h, r)

\* Requests and cascades are steps of the registry.
LEMMA CascadeActs ==
  ASSUME CascadeNext
  PROVE  RegistryAct
  <1>1. ASSUME NEW a \in Agent, Spawn(a) PROVE AgentAct(a)
    <2>1. PICK p \in {x \in Agent : status[x] # "none"} \cup {NoAgent} :
            status[a] = "none" /\ Preregister(a, p)
      BY <1>1 DEF Spawn
    <2>2. p \in Agent \cup {NoAgent} /\ p # a
          /\ (p # NoAgent => status[p] # "none")
      BY <2>1, NoAgentIsNotAnAgent
    <2> QED BY <2>1, <2>2 DEF AgentAct
  <1>2. ASSUME NEW a \in Agent, Request(a) PROVE AgentAct(a)
    <2>1. RegisterFails(a) => RegisterDrops(a)
      BY DEF RegisterFails, RegisterDrops
    <2>2. Patches \subseteq Reports
      BY PatchesAreReports DEF Reports, Live
    <2> QED BY <1>2, <2>1, <2>2 DEF Request, AgentAct
  <1> QED BY <1>1, <1>2 DEF CascadeNext, RegistryAct

\* What a handler that goes on knows of the others' writes afterwards.
LEMMA LateStep ==
  ASSUME CascadeInv, CascadeHistory, NEW h \in Handler
  PROVE  /\ late' \in [Handler -> SUBSET Agent]
         /\ casc'[h].pc # "idle" =>
              /\ late[h] \subseteq late'[h]
              /\ \A a \in Agent : status'[a] # status[a] /\ ~ OwnWrite(h, a)
                                    => a \in late'[h]
  BY DEF CascadeInv, CascadeHistory

\* A step of another request.
LEMMA CoversOther ==
  ASSUME CascadeInv, CascadeHistory, TreeStep, NEW h \in Handler,
         casc'[h] = casc[h], NEW r \in Agent
  PROVE  Covers(h, r)'
  <1> SUFFICES ASSUME casc[h].op = "revoke", casc[h].root = r
               PROVE  Covers(h, r)'
    BY DEF Covers
  <1>0. casc[h].pc # "idle" /\ casc[h] \in CascState
    <2>1. casc[h] \in CascState /\ CascOK(h)
      BY DEF CascadeInv, RInv, RegistryTypeOK
    <2> QED BY <2>1, Idles DEF CascOK
  <1>1. /\ late[h] \subseteq late'[h]
        /\ \A a \in Agent : status'[a] # status[a] => a \in late'[h]
    BY <1>0, LateStep DEF OwnWrite
  <1>2. \A x \in Agent : Fresh(x) => x \in late'[h]
    BY <1>1 DEF Fresh
  <1>3. CASE casc[h].pc = "walk"
    <2>1. ASSUME NEW n \in casc[h].nodes, NEW c \in Children(n)',
                 c \notin casc[h].nodes \cup casc[h].queue
          PROVE  Below(c)' \subseteq late'[h]
      <3>1. n \in Agent /\ c \in Agent
        BY <1>0 DEF CascState, Children
      <3>2. Below(c) \subseteq late[h] \/ Fresh(c)
        BY <1>3, <2>1, <3>1 DEF CascadeInv, Covers, TreeStep
      <3> QED BY <1>1, <1>2, <3>1, <3>2, SubtreeKept DEF CascadeInv
    <2> QED BY <1>3, <2>1 DEF CascadeInv, Covers
  <1>4. CASE casc[h].pc # "walk"
    <2>1. ASSUME NEW a \in Below(r)', status'[a] \in revocableStatus
          PROVE  a \in casc[h].nodes \cup late'[h]
      <3>1. a \in Agent /\ (a \in Below(r) \/ Fresh(a))
        BY DEF TreeStep, Below
      <3> QED BY <1>0, <1>1, <1>2, <1>4, <2>1, <3>1
              DEF CascadeInv, Covers, CascState
    <2>2. casc[h].pc = "tuple" /\ status'[casc[h].cur] \in revocableStatus
            => casc[h].cur \in late'[h]
      <3>1. casc[h].pc = "tuple" => casc[h].cur \in Agent
        BY <1>0 DEF CascadeInv, RInv, CascOK, CascState
      <3> QED BY <1>1, <3>1 DEF CascadeInv, Covers
    <2> QED BY <1>4, <2>1, <2>2 DEF Covers
  <1> QED BY <1>3, <1>4

\* A step of the cascade itself that writes no record: the tree is as it was.
LEMMA Unmoved ==
  ASSUME UNCHANGED <<status, parent>>
  PROVE  \A r \in Agent : Below(r)' = Below(r) /\ Children(r)' = Children(r)
  <1>1. \A n \in Agent : Children(n)' = Children(n)
    BY DEF Children
  <1> QED BY <1>1 DEF Below, Children

\* A revoke that starts has its root in the queue.
LEMMA CoversStart ==
  ASSUME CascadeInv, NEW h \in Handler, NEW root \in Agent,
         NEW op \in {"revoke", "resume"}, CascadeStart(h, op, root),
         NEW r \in Agent
  PROVE  Covers(h, r)'
  <1>1. /\ casc'[h].pc = "walk" /\ casc'[h].nodes = {}
        /\ casc'[h].queue = {root} /\ casc'[h].root = root
    BY DEF CascadeStart, CascadeInv, RInv, RegistryTypeOK, CascIdle
  <1> QED BY <1>1 DEF Covers

\* Listing a node's children puts them into the queue the walk still has.
LEMMA CoversWalk ==
  ASSUME CascadeInv, CascadeHistory, NEW h \in Handler, NEW n \in Agent,
         SubtreeStep(h, n), NEW r \in Agent
  PROVE  Covers(h, r)'
  <1> SUFFICES ASSUME casc'[h].op = "revoke", casc'[h].root = r
               PROVE  Covers(h, r)'
    BY DEF Covers
  <1> DEFINE seen == casc[h].nodes \cup {n}
             rest == (casc[h].queue \cup Children(n)) \ seen
  <1>1. casc[h] \in CascState /\ casc \in [Handler -> CascState]
    BY DEF CascadeInv, RInv, RegistryTypeOK
  <1>2. /\ casc[h].pc = "walk" /\ n \in casc[h].queue
        /\ casc'[h].nodes = seen /\ casc'[h].queue = rest
        /\ casc'[h].pc = IF rest = {} THEN "nodes" ELSE "walk"
        /\ casc'[h].op = casc[h].op /\ casc'[h].root = casc[h].root
        /\ UNCHANGED <<status, parent>>
    BY <1>1 DEF SubtreeStep, CascState
  <1>3. seen \in SUBSET Agent /\ late[h] \in SUBSET Agent
        /\ late[h] \subseteq late'[h]
    BY <1>1, <1>2, LateStep DEF CascState, CascadeInv
  <1>4. /\ r \in seen \cup rest
        /\ \A m \in seen : \A c \in Children(m) :
             c \in seen \cup rest \/ Below(c) \subseteq late[h]
    BY <1>2 DEF CascadeInv, Covers
  <1> HIDE DEF seen, rest
  <1>5. CASE rest = {}
    <2>1. Below(r) \subseteq seen \cup late[h]
      BY <1>3, <1>4, <1>5, WalkOver, SMTT(30)
    <2> QED BY <1>2, <1>3, <1>5, <2>1, Unmoved DEF Covers
  <1>6. CASE rest # {}
    <2>1. \A m \in seen : Children(m)' = Children(m)
      BY <1>2, <1>3, Unmoved
    <2>2. \A m \in seen : \A c \in Children(m) : c \in Agent
      BY DEF Children
    <2>3. \A m \in seen : \A c \in Children(m)' :
            c \in seen \cup rest \/ Below(c)' \subseteq late'[h]
      <3>1. \A c \in Agent : Below(c)' = Below(c)
        BY <1>2, Unmoved
      <3> QED BY <1>3, <1>4, <2>1, <2>2, <3>1
    <2> QED BY <1>2, <1>4, <1>6, <2>3 DEF Covers
  <1> QED BY <1>5, <1>6

\* A node is dropped after its read only when it is not revocable.
LEMMA CoversRead ==
  ASSUME CascadeInv, CascadeHistory, NEW h \in Handler, NEW n \in Agent,
         NodeRead(h, n), NEW r \in Agent
  PROVE  Covers(h, r)'
  <1> SUFFICES ASSUME casc'[h].op = "revoke", casc'[h].root = r
               PROVE  Covers(h, r)'
    BY DEF Covers
  <1>1. casc[h] \in CascState /\ casc \in [Handler -> CascState]
    BY DEF CascadeInv, RInv, RegistryTypeOK
  <1>2. /\ casc[h].pc = "nodes" /\ n \in casc[h].nodes
        /\ casc'[h].op = casc[h].op /\ casc'[h].root = casc[h].root
        /\ \/ casc'[h].pc = "write" /\ casc'[h].nodes = casc[h].nodes
           \/ /\ casc'[h].pc = "nodes" /\ casc'[h].nodes = casc[h].nodes \ {n}
              /\ casc[h].op = "revoke" => status[n] \notin revocableStatus
        /\ UNCHANGED <<status, parent>>
    BY <1>1 DEF NodeRead, CascState
  <1>3. late[h] \subseteq late'[h]
    BY <1>2, LateStep
  <1> QED BY <1>2, <1>3, Unmoved DEF CascadeInv, Covers

\* The write leaves the current node revoked, whatever it was before.
LEMMA CoversWrite ==
  ASSUME CascadeInv, CascadeHistory, TreeStep, NEW h \in Handler,
         NodeWrite(h), NEW r \in Agent
  PROVE  Covers(h, r)'
  <1> SUFFICES ASSUME casc'[h].op = "revoke", casc'[h].root = r
               PROVE  Covers(h, r)'
    BY DEF Covers
  <1>1. casc[h] \in CascState /\ casc \in [Handler -> CascState]
        /\ status \in [Agent -> Status]
    BY DEF CascadeInv, RInv, RegistryTypeOK
  <1>2. /\ casc[h].pc = "write" /\ casc'[h].pc = "tuple"
        /\ casc'[h].op = casc[h].op /\ casc'[h].root = casc[h].root
        /\ casc'[h].nodes = casc[h].nodes /\ casc'[h].cur = casc[h].cur
    BY <1>1 DEF NodeWrite, CascState
  <1>3. /\ casc[h].cur \in Agent
        /\ status' = [status EXCEPT ![casc[h].cur] = "revoked"]
    BY <1>1, <1>2 DEF NodeWrite, CascadeInv, RInv, CascOK, CascState
  <1>4. late[h] \subseteq late'[h]
    BY <1>2, LateStep
  <1>5. \A a \in Below(r)' : a \in Agent /\ (a \in Below(r) \/ Fresh(a))
    BY DEF TreeStep, Below
  <1>6. \A a \in Agent : ~ Fresh(a) \/ a = casc[h].cur
    BY <1>1, <1>3 DEF Fresh
  <1>7. status'[casc[h].cur] \notin revocableStatus
    BY <1>1, <1>3 DEF revocableStatus
  <1> QED BY <1>1, <1>2, <1>3, <1>4, <1>5, <1>6, <1>7 DEF CascadeInv, Covers

\* After its tuple the current node, written already, leaves the list.
LEMMA CoversTuple ==
  ASSUME CascadeInv, CascadeHistory, NEW h \in Handler, NodeTuple(h),
         NEW r \in Agent
  PROVE  Covers(h, r)'
  <1> SUFFICES ASSUME casc'[h].op = "revoke", casc'[h].root = r
               PROVE  Covers(h, r)'
    BY DEF Covers
  <1>1. casc[h] \in CascState /\ casc \in [Handler -> CascState]
    BY DEF CascadeInv, RInv, RegistryTypeOK
  <1>2. /\ casc[h].pc = "tuple" /\ casc'[h].pc = "nodes"
        /\ casc'[h].op = casc[h].op /\ casc'[h].root = casc[h].root
        /\ casc'[h].nodes = casc[h].nodes \ {casc[h].cur}
        /\ UNCHANGED <<status, parent>>
    BY <1>1 DEF NodeTuple, CascState
  <1>3. late[h] \subseteq late'[h]
    BY <1>2, LateStep
  <1>4. Below(r)' = Below(r)
    BY <1>2, Unmoved
  <1>5. /\ \A a \in Below(r) : status[a] \in revocableStatus
                                => a \in casc[h].nodes \cup late[h]
        /\ status[casc[h].cur] \in revocableStatus => casc[h].cur \in late[h]
    BY <1>2 DEF CascadeInv, Covers
  <1>6. \A a \in Below(r)' : status'[a] \in revocableStatus
                               => a \in casc'[h].nodes \cup late'[h]
    BY <1>2, <1>3, <1>4, <1>5
  <1> QED BY <1>2, <1>6 DEF Covers

\* A cascade that ended owes nothing.
LEMMA CoversEnd ==
  ASSUME CascadeInv, NEW h \in Handler, CascadeEnd(h), NEW r \in Agent
  PROVE  Covers(h, r)'
  <1>1. casc'[h] = CascIdle
    BY DEF CascadeEnd, CascadeInv, RInv, RegistryTypeOK
  <1>2. casc'[h].op # "revoke"
    BY <1>1, Idles
  <1> QED BY <1>2 DEF Covers

\* Every step of the registry under cascades keeps CascadeInv.
LEMMA CascadeNextKeeps ==
  ASSUME CascadeInv, CascadeNext
  PROVE  CascadeInv'
  <1>1. RegistryAct /\ CascadeHistory /\ RInv
    BY CascadeActs DEF CascadeNext, CascadeInv
  <1>2. RInv' /\ TreeStep
    BY <1>1, RegistryActKeeps, TreeGrows
  <1>3. late' \in [Handler -> SUBSET Agent]
    BY <1>1 DEF CascadeInv, CascadeHistory
  <1>4. ASSUME NEW h \in Handler, NEW r \in Agent PROVE Covers(h, r)'
    <2>1. CASE casc'[h] = casc[h]
      BY <1>1, <1>2, <2>1, CoversOther
    <2>2. ASSUME NEW a \in Agent, Spawn(a) \/ Request(a)
          PROVE  casc'[h] = casc[h]
      BY <2>2 DEF Spawn, Request, Preregister, RegisterRead, RegisterWrite,
                  RegisterFails, RegisterTuple, PatchStatus, PatchCleanup
    <2>3. ASSUME NEW g \in Handler, Cascade(g), g # h
          PROVE  casc'[h] = casc[h]
      BY <1>1, <2>3 DEF RInv, RegistryTypeOK, Cascade, CascadeStart,
                        SubtreeStep, NodeRead, NodeWrite, NodeTuple, CascadeEnd
    <2>4. CASE Cascade(h)
      BY <1>1, <1>2, <2>4, CoversStart, CoversWalk, CoversRead, CoversWrite,
         CoversTuple, CoversEnd DEF Cascade
    <2> QED BY <2>1, <2>2, <2>3, <2>4 DEF CascadeNext
  <1> QED BY <1>2, <1>3, <1>4 DEF CascadeInv

\* A step that changes none of the cascade's variables keeps CascadeInv.
LEMMA CascadeStutters ==
  ASSUME CascadeInv, UNCHANGED cascadeVars
  PROVE  CascadeInv'
  <1>1. RInv'
    BY RegistryStutters DEF cascadeVars, CascadeInv
  <1>2. \A r \in Agent : Below(r)' = Below(r) /\ Children(r)' = Children(r)
    BY Unmoved DEF cascadeVars, registryVars
  <1>3. ASSUME NEW h \in Handler, NEW r \in Agent PROVE Covers(h, r)'
    <2>1. Covers(h, r) /\ casc' = casc /\ late' = late /\ status' = status
      BY DEF CascadeInv, cascadeVars, registryVars
    <2>2. casc[h].nodes \subseteq Agent
          /\ \A n \in Agent : Children(n) \subseteq Agent
      BY DEF CascadeInv, RInv, RegistryTypeOK, CascState, Children
    <2> QED BY <1>2, <2>1, <2>2, SMTT(30) DEF Covers
  <1> QED BY <1>1, <1>3 DEF CascadeInv, cascadeVars

\* CascadeInv holds of every reachable state of the registry on its own.
THEOREM CascadeInvariant == CascadeSpec => []CascadeInv
  <1>1. CascadeInit => CascadeInv
    <2>1. CascadeInit => RInv /\ late \in [Handler -> SUBSET Agent]
      BY RegistryInitHolds DEF CascadeInit
    <2>2. CascadeInit => \A h \in Handler : casc[h].op = "none"
      BY SMTT(30) DEF CascadeInit, RegistryInit, CascIdle
    <2> QED BY <2>1, <2>2 DEF CascadeInv, Covers
  <1>2. CascadeInv /\ [CascadeNext]_cascadeVars => CascadeInv'
    BY CascadeNextKeeps, CascadeStutters
  <1> QED BY <1>1, <1>2, PTL DEF CascadeSpec

\* Revoke, completion, failure and cleanup leave no agent its tuple, whatever
\* requests interleave, unless two of them overlapped on it or SpiceDB failed.
THEOREM TupleFollowsStatus == CascadeSpec => []EnabledOnlyWhileLive
  <1>1. CascadeInv => EnabledOnlyWhileLive
    BY SettledIsLive DEF CascadeInv
  <1> QED BY CascadeInvariant, <1>1, PTL

\* A revoke that has handled every node it found leaves no agent of the
\* subtree pending or active, except those others wrote meanwhile: children
\* spawned behind the walk included, however deep the tree.
THEOREM RevokeCovers == CascadeSpec => []RevokeCoversSubtree
  <1>1. ASSUME CascadeInv PROVE RevokeCoversSubtree
    <2> SUFFICES ASSUME NEW h \in Handler, casc[h].op = "revoke",
                        casc[h].pc = "nodes", casc[h].nodes = {},
                        NEW a \in Below(casc[h].root),
                        status[a] \in {"pending", "active"}
                 PROVE  a \in late[h]
      BY DEF RevokeCoversSubtree
    <2>1. casc[h].root \in Agent
      BY <1>1 DEF CascadeInv, RInv, RegistryTypeOK, CascOK, CascState
    <2> QED BY <1>1, <2>1 DEF CascadeInv, Covers, revocableStatus
  <1> QED BY CascadeInvariant, <1>1, PTL

-----------------------------------------------------------------------------
(* The suspension of an organization                                         *)

\* Every record is below one that was spawned by a person.
Rooted ==
  \A a \in Agent : status[a] # "none" =>
    \E r \in Agent : /\ status[r] # "none" /\ parent[r] = NoAgent
                     /\ a \in Below(r)

\* A resume stays within its subtree; one that was admitted before the flag
\* has its whole subtree among the agents that slipped through.
ResumeOK(h, r) ==
  casc[h].op = "resume" /\ casc[h].root = r =>
    /\ casc[h].queue \cup casc[h].nodes \subseteq Below(r)
    /\ disabled => Below(r) \subseteq slipped

\* What the suspension's own cascade has still to do.
Doing(a) ==
  \/ casc[Suspender].pc = "walk" /\ \E r \in Agent : /\ casc[Suspender].root = r
                                                     /\ a \in Below(r)
  \/ casc[Suspender].pc \in {"nodes", "write", "tuple"}
     /\ a \in casc[Suspender].nodes

Due(a) == a \in slipped \/ Doing(a) \/ \E r \in suspend.roots : a \in Below(r)

\* The walk over the current root, as in Covers.
Walks(r) ==
  casc[Suspender].pc = "walk" /\ casc[Suspender].root = r =>
    /\ r \in casc[Suspender].nodes \cup casc[Suspender].queue
    /\ \A n \in casc[Suspender].nodes : \A c \in Children(n) :
         c \in casc[Suspender].nodes \cup casc[Suspender].queue
         \/ Below(c) \subseteq slipped

Sweeping ==
  /\ \A r \in Agent : Walks(r)
  /\ casc[Suspender].pc = "tuple" =>
       (status[casc[Suspender].cur] \in revocableStatus
          => casc[Suspender].cur \in slipped)
  /\ suspend.pc = "roots" =>
       \A a \in Agent : status[a] \in revocableStatus => Due(a)
  /\ suspend.pc = "done" =>
       \A a \in Agent : status[a] \in revocableStatus => a \in slipped

\* Only the suspension revokes, one root at a time, with the flag up.
Flagged ==
  /\ suspend.pc # "idle" => disabled
  /\ casc[Suspender].pc # "idle" =>
       suspend.pc = "roots" /\ casc[Suspender].op = "revoke"
  /\ disabled => passed \subseteq slipped

SuspensionInv ==
  /\ RInv /\ Rooted /\ SuspensionTypeOK /\ Flagged
  /\ \A h \in Handler : h # Suspender => casc[h].op # "revoke"
  /\ \A h \in Handler, r \in Agent : ResumeOK(h, r)
  /\ Sweeping

\* Spawning keeps every record rooted.
LEMMA RootedKept ==
  ASSUME RInv, Rooted, RegistryMoves
  PROVE  Rooted'
  <1>1. TreeStep
    BY TreeGrows DEF RegistryMoves
  <1>2. CASE /\ parent' = parent
             /\ \A x \in Agent : status'[x] = "none" <=> status[x] = "none"
    BY <1>1, <1>2 DEF Rooted, TreeStep
  <1>3. ASSUME NEW b \in Agent, NEW p \in Agent \cup {NoAgent},
               status[b] = "none", p # b, p # NoAgent => status[p] # "none",
               Preregister(b, p)
        PROVE  Rooted'
    <2>1. /\ \A x \in Agent : status[x] # "none" =>
                              status'[x] = status[x] /\ parent'[x] = parent[x]
          /\ \A x \in Agent : status'[x] # "none" => status[x] # "none" \/ x = b
          /\ status'[b] = "pending" /\ parent'[b] = p
      BY <1>3 DEF Preregister, RInv, RegistryTypeOK
    <2>2. ASSUME NEW a \in Agent, status[a] # "none"
          PROVE  \E r \in Agent : /\ status'[r] # "none" /\ parent'[r] = NoAgent
                                  /\ a \in Below(r)'
      <3>1. PICK r \in Agent : /\ status[r] # "none" /\ parent[r] = NoAgent
                               /\ a \in Below(r)
        BY <2>2 DEF Rooted
      <3> QED BY <1>1, <2>1, <3>1 DEF TreeStep
    <2>3. \E r \in Agent : /\ status'[r] # "none" /\ parent'[r] = NoAgent
                           /\ b \in Below(r)'
      <3>1. CASE p = NoAgent
        <4>1. b \in Below(b) /\ Below(b) \subseteq Below(b)'
          BY <1>1, BelowFacts DEF TreeStep
        <4> QED BY <2>1, <3>1, <4>1
      <3>2. CASE p # NoAgent
        <4>1. p \in Agent /\ status[p] # "none"
          BY <1>3, <3>2
        <4>2. PICK r \in Agent : /\ status[r] # "none" /\ parent[r] = NoAgent
                                 /\ p \in Below(r)
          BY <4>1 DEF Rooted
        <4>3. b \in Below(r)'
          BY <1>3, <4>2, NewLeaf
        <4> QED BY <2>1, <4>2, <4>3
      <3> QED BY <3>1, <3>2
    <2> QED BY <2>1, <2>2, <2>3 DEF Rooted
  <1>4. CASE UNCHANGED registryVars
    BY <1>2, <1>4 DEF registryVars
  <1> QED BY <1>2, <1>3, <1>4, RecordsKept DEF RegistryMoves

\* Everything the specification does to the registry is a step of it.
LEMMA SuspensionActs ==
  ASSUME SuspensionNext
  PROVE  RegistryMoves
  <1>1. ASSUME NEW a \in Agent, PreregisterWrite(a) PROVE AgentAct(a)
    <2>1. PICK p \in {x \in Agent : status[x] # "none"} \cup {NoAgent} :
            status[a] = "none" /\ Preregister(a, p)
      BY <1>1 DEF PreregisterWrite
    <2>2. p \in Agent \cup {NoAgent} /\ p # a
          /\ (p # NoAgent => status[p] # "none")
      BY <2>1, NoAgentIsNotAnAgent
    <2> QED BY <2>1, <2>2 DEF AgentAct
  <1>2. ASSUME NEW a \in Agent, RegisterBegins(a) PROVE AgentAct(a)
    BY <1>2 DEF RegisterBegins, AgentAct
  <1>3. ASSUME NEW a \in Agent, RegisterGuard(a)
        PROVE  AgentAct(a) \/ UNCHANGED registryVars
    <2>1. RegisterDrops(a) \/ UNCHANGED registryVars
      BY <1>3 DEF RegisterGuard, RegisterDrops
    <2> QED BY <2>1 DEF AgentAct
  <1>4. ASSUME NEW a \in Agent, RegisterLands(a) \/ RegisterEnds(a)
        PROVE  AgentAct(a)
    <2>1. RegisterFails(a) => RegisterDrops(a)
      BY DEF RegisterFails, RegisterDrops
    <2> QED BY <1>4, <2>1 DEF RegisterLands, RegisterEnds, AgentAct
  <1>5. ASSUME NEW a \in Agent, GateAsks(a) \/ GateGranted(a)
        PROVE  AgentAct(a)
    <2>1. "active" \in Reports /\ "awaiting-consent" \in Reports
      BY DEF Reports, Live
    <2> QED BY <1>5, <2>1 DEF GateAsks, GateGranted, AgentAct
  <1>6. ASSUME NEW h \in Handler, NEW root \in Agent,
               CascadeMoves(h) \/ ResumeGuarded(h, root)
        PROVE  Cascade(h)
    BY <1>6 DEF CascadeMoves, ResumeGuarded, Cascade
  <1>7. ASSUME NEW a \in Agent, SuspendRoot(a) \/ SuspendNode \/ SuspendRootEnds
        PROVE  Cascade(Suspender)
    BY <1>7 DEF SuspendRoot, SuspendNode, SuspendRootEnds, Cascade
  <1>8. Suspender \in Handler
    BY SuspenderIsAHandler
  <1>9. CASE SuspendFlag \/ SuspendList \/ SuspendDone \/ EnableOrg
    BY <1>9 DEF SuspendFlag, SuspendList, SuspendDone, EnableOrg, RegistryMoves
  <1>10. CASE \E a \in Agent :
               \/ PreregisterGuard(a) \/ PreregisterWrite(a)
               \/ RegisterBegins(a) \/ RegisterGuard(a) \/ RegisterLands(a)
               \/ RegisterEnds(a) \/ GateAsks(a) \/ GateGranted(a)
               \/ SuspendRoot(a)
    BY <1>1, <1>2, <1>3, <1>4, <1>5, <1>7, <1>8, <1>10
       DEF RegistryMoves, RegistryAct, PreregisterGuard
  <1>11. CASE \E h \in Handler : CascadeMoves(h)
    BY <1>11 DEF CascadeMoves, Cascade, RegistryMoves, RegistryAct
  <1>12. CASE \E h \in Handler, root \in Agent : ResumeGuarded(h, root)
    BY <1>6, <1>12 DEF RegistryMoves, RegistryAct
  <1>13. CASE SuspendNode \/ SuspendRootEnds
    BY <1>8, <1>13 DEF SuspendNode, SuspendRootEnds, Cascade, RegistryMoves,
                       RegistryAct
  <1> QED BY <1>9, <1>10, <1>11, <1>12, <1>13 DEF SuspensionNext

\* With the flag up, an agent that becomes pending or active slipped through.
Admits ==
  \A a \in Agent :
    \/ status'[a] \in revocableStatus /\ status[a] \notin revocableStatus
    \/ Fresh(a)
    => a \in slipped'

\* A step of another request leaves the suspension's progress as it was.
LEMMA SweepingOther ==
  ASSUME SuspensionInv, TreeStep, disabled => Admits, slipped \subseteq slipped',
         suspend' = suspend, casc'[Suspender] = casc[Suspender]
  PROVE  Sweeping'
  <1>1. CASE ~ disabled
    <2>1. suspend.pc = "idle" /\ casc[Suspender].pc = "idle"
      BY <1>1 DEF SuspensionInv, Flagged
    <2> QED BY <2>1 DEF Sweeping, Walks
  <1>2. CASE disabled
    <2>0. RInv /\ Sweeping /\ suspend \in SuspendState
          /\ casc[Suspender] \in CascState /\ CascOK(Suspender)
      BY SuspenderIsAHandler DEF SuspensionInv, SuspensionTypeOK, RInv,
                                 RegistryTypeOK
    <2>1. /\ \A a \in Agent : /\ status'[a] \in revocableStatus
                              /\ status[a] \notin revocableStatus
                              => a \in slipped'
          /\ \A a \in Agent : Fresh(a) => a \in slipped'
      BY <1>2 DEF Admits
    <2>2. ASSUME NEW r \in Agent PROVE Walks(r)'
      <3>1. ASSUME casc[Suspender].pc = "walk", casc[Suspender].root = r,
                   NEW n \in casc[Suspender].nodes, NEW c \in Children(n)',
                   c \notin casc[Suspender].nodes \cup casc[Suspender].queue
            PROVE  Below(c)' \subseteq slipped'
        <4>1. n \in Agent /\ c \in Agent
          BY <2>0 DEF CascState, Children
        <4>2. Below(c) \subseteq slipped \/ Fresh(c)
          BY <2>0, <3>1, <4>1 DEF Sweeping, Walks, TreeStep
        <4> QED BY <2>0, <2>1, <4>1, <4>2, SubtreeKept
      <3> QED BY <2>0, <3>1 DEF Sweeping, Walks
    <2>3. casc[Suspender].pc = "tuple"
            /\ status'[casc[Suspender].cur] \in revocableStatus
            => casc[Suspender].cur \in slipped'
      <3>1. casc[Suspender].pc = "tuple" => casc[Suspender].cur \in Agent
        BY <2>0 DEF CascOK, CascState
      <3> QED BY <2>0, <2>1, <3>1 DEF Sweeping
    <2>4. ASSUME NEW a \in Agent, Due(a) PROVE Due(a)'
      <3>1. Doing(a) => Doing(a)'
        BY DEF Doing, TreeStep
      <3>2. \A r \in suspend.roots : r \in Agent /\ Below(r) \subseteq Below(r)'
        BY <2>0 DEF SuspendState, TreeStep
      <3> QED BY <2>4, <3>1, <3>2 DEF Due
    <2>5. \A a \in Agent : a \in slipped' => Due(a)'
      BY DEF Due
    <2> QED BY <2>0, <2>1, <2>2, <2>3, <2>4, <2>5 DEF Sweeping
  <1> QED BY <1>1, <1>2

\* A resume that does not move keeps to its subtree.
LEMMA ResumeOther ==
  ASSUME SuspensionInv, TreeStep, disabled => Admits, slipped \subseteq slipped',
         disabled' = disabled, NEW h \in Handler, casc'[h] = casc[h],
         NEW r \in Agent
  PROVE  ResumeOK(h, r)'
  <1> SUFFICES ASSUME casc[h].op = "resume", casc[h].root = r
               PROVE  ResumeOK(h, r)'
    BY DEF ResumeOK
  <1>1. RInv /\ ResumeOK(h, r)
    BY DEF SuspensionInv
  <1>2. casc[h].queue \cup casc[h].nodes \subseteq Below(r)'
    BY <1>1 DEF ResumeOK, TreeStep
  <1>3. disabled => Below(r)' \subseteq slipped'
    BY <1>1, SubtreeKept DEF ResumeOK, Admits
  <1> QED BY <1>2, <1>3 DEF ResumeOK

\* A step of a resume in flight, with the flag up or down.
LEMMA ResumeMoves ==
  ASSUME SuspensionInv, TreeStep, NEW h \in Handler, CascadeMoves(h)
  PROVE  /\ disabled => Admits
         /\ \A r \in Agent : ResumeOK(h, r)'
         /\ \A g \in Handler : g # h => casc'[g] = casc[g]
         /\ casc'[h].op # "revoke"
  <1>0. /\ RInv /\ casc \in [Handler -> CascState] /\ casc[h] \in CascState
        /\ status \in [Agent -> Status] /\ CascOK(h) /\ h # Suspender
        /\ casc[h].op # "revoke" /\ UNCHANGED <<disabled, slipped>>
    BY DEF SuspensionInv, RInv, RegistryTypeOK, CascadeMoves, suspensionVars
  <1>1. casc[h].pc # "idle" /\ casc[h].op = "resume" /\ casc[h].root \in Agent
    <2>1. casc[h].pc # "idle"
      BY DEF CascadeMoves, SubtreeStep, NodeRead, NodeWrite, NodeTuple, CascadeEnd
    <2> QED BY <1>0, <2>1 DEF CascOK, CascState
  <1>2. \A g \in Handler : g # h => casc'[g] = casc[g]
    BY <1>0 DEF CascadeMoves, SubtreeStep, NodeRead, NodeWrite, NodeTuple,
                CascadeEnd
  <1>3. \/ casc'[h] = CascIdle
        \/ /\ casc'[h].op = casc[h].op /\ casc'[h].root = casc[h].root
           /\ casc'[h].queue \cup casc'[h].nodes \subseteq
                casc[h].queue \cup casc[h].nodes
                \cup UNION {Children(n) : n \in casc[h].queue}
    <2>1. ASSUME NEW n \in Agent, SubtreeStep(h, n)
          PROVE  /\ casc'[h].op = casc[h].op /\ casc'[h].root = casc[h].root
                 /\ casc'[h].queue \cup casc'[h].nodes \subseteq
                      casc[h].queue \cup casc[h].nodes
                      \cup UNION {Children(m) : m \in casc[h].queue}
      <3>1. /\ casc'[h].op = casc[h].op /\ casc'[h].root = casc[h].root
            /\ n \in casc[h].queue
            /\ casc'[h].queue \subseteq casc[h].queue \cup Children(n)
            /\ casc'[h].nodes = casc[h].nodes \cup {n}
        BY <1>0, <2>1 DEF SubtreeStep, CascState
      <3>2. Children(n) \subseteq UNION {Children(m) : m \in casc[h].queue}
        BY <3>1
      <3> QED BY <3>1, <3>2
    <2>2. ASSUME NEW n \in Agent, NodeRead(h, n)
          PROVE  /\ casc'[h].op = casc[h].op /\ casc'[h].root = casc[h].root
                 /\ casc'[h].queue \cup casc'[h].nodes \subseteq
                      casc[h].queue \cup casc[h].nodes
      BY <1>0, <2>2 DEF NodeRead, CascState
    <2>3. ASSUME NodeWrite(h) \/ NodeTuple(h)
          PROVE  /\ casc'[h].op = casc[h].op /\ casc'[h].root = casc[h].root
                 /\ casc'[h].queue \cup casc'[h].nodes \subseteq
                      casc[h].queue \cup casc[h].nodes
      BY <1>0, <2>3, SMTT(30) DEF NodeWrite, NodeTuple, CascState
    <2>4. CascadeEnd(h) => casc'[h] = CascIdle
      BY <1>0 DEF CascadeEnd
    <2> QED BY <2>1, <2>2, <2>3, <2>4 DEF CascadeMoves
  <1>4. casc[h].queue \cup casc[h].nodes \subseteq Below(casc[h].root)
        /\ (disabled => Below(casc[h].root) \subseteq slipped)
    BY <1>1 DEF SuspensionInv, ResumeOK
  <1>5. disabled => Admits
    <2>1. \/ status' = status
          \/ /\ status' = [status EXCEPT ![casc[h].cur] = "active"]
             /\ casc[h].cur \in casc[h].nodes
      BY <1>0, <1>1 DEF CascadeMoves, SubtreeStep, NodeRead, NodeWrite,
                        NodeTuple, CascadeEnd, CascOK
    <2>2. \A a \in Agent : status'[a] = status[a] \/ a \in casc[h].nodes
      BY <1>0, <2>1
    <2> QED BY <1>0, <1>4, <2>2 DEF Admits, Fresh
  <1>6. ASSUME NEW r \in Agent PROVE ResumeOK(h, r)'
    <2> SUFFICES ASSUME casc'[h].op = "resume", casc'[h].root = r
                 PROVE  ResumeOK(h, r)'
      BY DEF ResumeOK
    <2>1. casc[h].root = r /\ casc'[h] # CascIdle
      BY <1>3, SMTT(30) DEF CascIdle
    <2>2. UNION {Children(n) : n \in casc[h].queue} \subseteq Below(r)
      <3>1. \A n \in casc[h].queue : Children(n) \subseteq Below(r)
        BY <1>4, <2>1, BelowFacts
      <3> QED BY <3>1
    <2>3. casc'[h].queue \cup casc'[h].nodes \subseteq Below(r)'
      BY <1>3, <1>4, <2>1, <2>2 DEF TreeStep
    <2>4. disabled => Below(r)' \subseteq slipped'
      BY <1>0, <1>4, <1>5, <2>1, SubtreeKept DEF Admits
    <2> QED BY <1>0, <2>3, <2>4 DEF ResumeOK
  <1>7. casc'[h].op # "revoke"
    BY <1>1, <1>3, Idles
  <1> QED BY <1>2, <1>5, <1>6, <1>7

\* What the suspension's own cascade does, one step at a time: the walk, ...
LEMMA SweepingWalk ==
  ASSUME SuspensionInv, NEW n \in Agent, SubtreeStep(Suspender, n),
         UNCHANGED suspensionVars
  PROVE  Sweeping'
  <1> DEFINE S == Suspender
             seen == casc[S].nodes \cup {n}
             rest == (casc[S].queue \cup Children(n)) \ seen
  <1>1. casc \in [Handler -> CascState] /\ casc[S] \in CascState /\ S \in Handler
        /\ CascOK(S) /\ slipped \in SUBSET Agent /\ Sweeping /\ Flagged
    BY SuspenderIsAHandler DEF SuspensionInv, SuspensionTypeOK, RInv,
                               RegistryTypeOK
  <1>2. /\ casc[S].pc = "walk" /\ n \in casc[S].queue
        /\ casc'[S].nodes = seen /\ casc'[S].queue = rest
        /\ casc'[S].pc = IF rest = {} THEN "nodes" ELSE "walk"
        /\ casc'[S].root = casc[S].root
        /\ UNCHANGED <<status, parent, suspend, slipped>>
    BY <1>1 DEF SubtreeStep, CascState, suspensionVars
  <1>3. PICK r \in Agent : casc[S].root = r
    BY <1>1, <1>2 DEF CascOK, CascState
  <1>4. /\ r \in seen \cup rest /\ seen \in SUBSET Agent
        /\ \A m \in seen : \A c \in Children(m) :
             c \in seen \cup rest \/ Below(c) \subseteq slipped
    BY <1>1, <1>2, <1>3 DEF Sweeping, Walks, CascState
  <1>5. suspend.pc = "roots"
    BY <1>1, <1>2 DEF Flagged
  <1>6. \A m \in Agent : Below(m)' = Below(m) /\ Children(m)' = Children(m)
    BY <1>2, Unmoved
  <1>7. suspend.roots \subseteq Agent
    BY DEF SuspensionInv, SuspensionTypeOK, SuspendState
  <1> HIDE DEF seen, rest
  <1>8. CASE rest = {}
    <2>1. Below(r) \subseteq seen \cup slipped
      BY <1>1, <1>4, <1>8, WalkOver
    <2>2. ASSUME NEW a \in Agent, Due(a) PROVE Due(a)'
      <3>1. CASE Doing(a)
        <4>1. a \in Below(r)
          BY <1>2, <1>3, <3>1 DEF Doing
        <4> QED BY <1>2, <1>8, <2>1, <4>1 DEF Due, Doing
      <3> QED BY <1>2, <1>6, <1>7, <2>2, <3>1 DEF Due
    <2> QED BY <1>1, <1>2, <1>5, <1>8, <2>2 DEF Sweeping, Walks
  <1>9. CASE rest # {}
    <2>1. ASSUME NEW q \in Agent PROVE Walks(q)'
      <3>1. \A m \in seen : \A c \in Children(m) : c \in Agent
        BY DEF Children
      <3>2. \A m \in seen : \A c \in Children(m)' :
              c \in seen \cup rest \/ Below(c)' \subseteq slipped'
        BY <1>2, <1>4, <1>6, <3>1, SMTT(30)
      <3> QED BY <1>2, <1>3, <1>4, <3>2 DEF Walks
    <2>2. ASSUME NEW a \in Agent, Due(a) PROVE Due(a)'
      <3>1. Doing(a) => Doing(a)'
        BY <1>2, <1>6, <1>9 DEF Doing
      <3> QED BY <1>2, <1>6, <1>7, <2>2, <3>1 DEF Due
    <2> QED BY <1>1, <1>2, <1>5, <1>9, <2>1, <2>2 DEF Sweeping
  <1> QED BY <1>8, <1>9

\* ... the read that decides about a node, its write and its tuple.
LEMMA SweepingNode ==
  ASSUME SuspensionInv, TreeStep, NEW n \in Agent, UNCHANGED suspensionVars,
         \/ NodeRead(Suspender, n)
         \/ NodeWrite(Suspender) \/ NodeTuple(Suspender)
  PROVE  Sweeping'
  <1> DEFINE S == Suspender
  <1>1. /\ casc \in [Handler -> CascState] /\ casc[S] \in CascState
        /\ S \in Handler /\ CascOK(S) /\ Sweeping /\ Flagged
        /\ status \in [Agent -> Status]
    BY SuspenderIsAHandler DEF SuspensionInv, RInv, RegistryTypeOK
  <1>2. casc[S].pc \in {"nodes", "write", "tuple"}
    BY DEF NodeRead, NodeWrite, NodeTuple
  <1>3. /\ casc[S].op = "revoke" /\ suspend.pc = "roots"
        /\ UNCHANGED <<suspend, slipped>>
    BY <1>1, <1>2 DEF Flagged, suspensionVars
  <1>4. /\ casc'[S].pc \in {"nodes", "write", "tuple"}
        /\ casc'[S].pc = "tuple" => casc'[S].cur \in Agent
                                     /\ status'[casc'[S].cur] = "revoked"
        /\ \A a \in Agent : status'[a] = status[a] \/ status'[a] = "revoked"
        /\ \A a \in casc[S].nodes \ casc'[S].nodes :
             status[a] \in revocableStatus => a \in slipped
    <2>1. CASE NodeRead(S, n)
      BY <1>1, <1>3, <2>1 DEF NodeRead, CascState
    <2>2. CASE NodeWrite(S)
      <3>1. casc[S].cur \in Agent
        BY <1>1, <2>2 DEF CascOK, CascState, NodeWrite
      <3> QED BY <1>1, <1>3, <2>2, <3>1 DEF NodeWrite, CascState
    <2>3. CASE NodeTuple(S)
      BY <1>1, <1>3, <2>3 DEF NodeTuple, CascState, Sweeping
    <2> QED BY <2>1, <2>2, <2>3
  <1>5. ASSUME NEW a \in Agent, Due(a), status'[a] \in revocableStatus
        PROVE  Due(a)'
    <2>1. status[a] \in revocableStatus
      BY <1>4, <1>5 DEF revocableStatus
    <2>2. \A r \in suspend.roots : r \in Agent /\ Below(r) \subseteq Below(r)'
      BY DEF SuspensionInv, SuspensionTypeOK, SuspendState, TreeStep
    <2>3. Doing(a) => a \in casc[S].nodes
      BY <1>2 DEF Doing
    <2> QED BY <1>3, <1>4, <1>5, <2>1, <2>2, <2>3 DEF Due, Doing
  <1>6. \A a \in Agent : status'[a] \in revocableStatus
                           => status[a] \in revocableStatus
    BY <1>4 DEF revocableStatus
  <1> QED BY <1>1, <1>3, <1>4, <1>5, <1>6 DEF Sweeping, Walks, revocableStatus

\* The cascade of the next root begins, and that of a root ends.
LEMMA SweepingRoot ==
  ASSUME SuspensionInv, NEW r \in Agent, SuspendRoot(r) \/ SuspendRootEnds
  PROVE  Sweeping'
  <1> DEFINE S == Suspender
  <1>1. /\ casc \in [Handler -> CascState] /\ casc[S] \in CascState
        /\ S \in Handler /\ Sweeping /\ Flagged
        /\ suspend \in SuspendState
    BY SuspenderIsAHandler DEF SuspensionInv, SuspensionTypeOK, RInv,
                               RegistryTypeOK
  <1>2. CASE SuspendRoot(r)
    <2>1. /\ casc[S].pc = "idle" /\ casc'[S].pc = "walk" /\ casc'[S].root = r
          /\ casc'[S].queue = {r} /\ casc'[S].nodes = {}
          /\ suspend.pc = "roots" /\ suspend'.pc = "roots"
          /\ suspend'.roots = suspend.roots \ {r}
          /\ UNCHANGED <<status, parent, slipped>>
      BY <1>1, <1>2 DEF SuspendRoot, CascadeStart, CascIdle, SuspendState
    <2>2. \A m \in Agent : Below(m)' = Below(m)
      BY <2>1, Unmoved
    <2>3. ASSUME NEW a \in Agent, Due(a) PROVE Due(a)'
      <3>1. ~ Doing(a)
        BY <2>1 DEF Doing
      <3>2. \A q \in suspend.roots : q \in Agent
        BY <1>1 DEF SuspendState
      <3> QED BY <2>1, <2>2, <2>3, <3>1, <3>2, SMTT(30) DEF Due, Doing
    <2> QED BY <1>1, <2>1, <2>3 DEF Sweeping, Walks
  <1>3. CASE SuspendRootEnds
    <2>1. casc[S].pc # "idle" /\ casc'[S].pc = "idle"
          /\ UNCHANGED <<status, parent, slipped>>
      BY <1>1, <1>3 DEF SuspendRootEnds, CascadeEnd, CascIdle
    <2>2. CASE suspend' = SuspendIdle
      BY <2>1, <2>2 DEF SuspendIdle, Sweeping, Walks
    <2>3. CASE suspend' = suspend /\ casc[S].pc = "nodes" /\ casc[S].nodes = {}
      <3>1. ASSUME NEW a \in Agent, Due(a) PROVE Due(a)'
        <4>1. ~ Doing(a)
          BY <2>3 DEF Doing
        <4>2. \A q \in suspend.roots : q \in Agent /\ Below(q)' = Below(q)
          BY <1>1, <2>1, Unmoved DEF SuspendState
        <4> QED BY <2>1, <2>3, <3>1, <4>1, <4>2 DEF Due
      <3>2. suspend.pc = "roots"
        BY <1>1, <2>1 DEF Flagged
      <3> QED BY <1>1, <2>1, <2>3, <3>1, <3>2 DEF Sweeping, Walks
    <2> QED BY <1>3, <2>2, <2>3 DEF SuspendRootEnds
  <1> QED BY <1>2, <1>3

\* The steps of the suspension itself: the flag, the list, the answer.
LEMMA SweepingAside ==
  ASSUME SuspensionInv, SuspendFlag \/ SuspendList \/ SuspendDone \/ EnableOrg
  PROVE  Sweeping'
  <1> DEFINE S == Suspender
  <1>1. Sweeping /\ Flagged /\ Rooted /\ UNCHANGED <<status, parent, casc>>
    BY DEF SuspensionInv, SuspendFlag, SuspendList, SuspendDone, EnableOrg,
           registryVars
  <1>2. CASE SuspendFlag \/ EnableOrg
    <2>1. casc[S].pc = "idle" /\ suspend'.pc \in {"idle", "list"}
      BY <1>1, <1>2, SMTT(30) DEF SuspendFlag, EnableOrg, SuspendIdle, Flagged
    <2> QED BY <1>1, <2>1 DEF Sweeping, Walks
  <1>3. CASE SuspendList
    <2>1. casc[S].pc = "idle"
      BY <1>1, <1>3 DEF SuspendList, Flagged
    <2>2. /\ suspend'.pc = "roots"
          /\ \A r \in Agent : status[r] # "none" /\ parent[r] = NoAgent
                               => r \in suspend'.roots
      BY <1>3, NoAgentIsNotAnAgent DEF SuspendList
    <2>3. ASSUME NEW a \in Agent, status[a] \in revocableStatus PROVE Due(a)'
      <3>1. status[a] # "none"
        BY <2>3 DEF revocableStatus
      <3>2. PICK r \in Agent : /\ status[r] # "none" /\ parent[r] = NoAgent
                               /\ a \in Below(r)
        BY <1>1, <3>1 DEF Rooted
      <3>3. Below(r)' = Below(r)
        BY <1>1, Unmoved
      <3> QED BY <2>2, <3>2, <3>3 DEF Due
    <2> QED BY <1>1, <2>1, <2>2, <2>3 DEF Sweeping, Walks
  <1>4. CASE SuspendDone
    <2>1. /\ casc[S].pc = "idle" /\ suspend.pc = "roots" /\ suspend.roots = {}
          /\ suspend'.pc = "done" /\ slipped' = slipped
      BY <1>4 DEF SuspendDone, SuspensionInv, SuspensionTypeOK, SuspendState
    <2>2. \A a \in Agent : Due(a) => a \in slipped
      BY <2>1 DEF Due, Doing
    <2> QED BY <1>1, <2>1, <2>2 DEF Sweeping, Walks
  <1> QED BY <1>2, <1>3, <1>4

\* The requests the guards admit, and the sidecar's consent gate.
AgentRequest(a) ==
  \/ PreregisterGuard(a) \/ PreregisterWrite(a)
  \/ RegisterBegins(a) \/ RegisterGuard(a) \/ RegisterLands(a)
  \/ RegisterEnds(a) \/ GateAsks(a) \/ GateGranted(a)

\* None of them gets past the flag unless it had passed its guard before, or
\* is the consent gate's.
LEMMA RequestsSlip ==
  ASSUME SuspensionInv, NEW a \in Agent, AgentRequest(a)
  PROVE  /\ UNCHANGED <<casc, suspend, disabled>> /\ slipped \subseteq slipped'
         /\ disabled => Admits /\ passed' \subseteq slipped'
  <1>0. /\ disabled => passed \subseteq slipped
        /\ status \in [Agent -> Status]
    BY DEF SuspensionInv, Flagged, RInv, RegistryTypeOK
  <1>1. CASE PreregisterGuard(a) \/ RegisterBegins(a) \/ RegisterGuard(a)
             \/ RegisterEnds(a)
    <2>1. /\ UNCHANGED <<casc, suspend, disabled, slipped, status>>
          /\ disabled => passed' = passed
      BY <1>1 DEF PreregisterGuard, RegisterBegins, RegisterRead,
         RegisterGuard, RegisterEnds, RegisterTuple, registryVars,
         suspensionVars
    <2> QED BY <1>0, <2>1 DEF Admits, Fresh
  <1>2. CASE PreregisterWrite(a)
    <2>1. /\ UNCHANGED <<casc, suspend, disabled, slipped>>
          /\ a \in passed /\ passed' = passed \ {a}
          /\ status' = [status EXCEPT ![a] = "pending"]
      BY <1>2 DEF PreregisterWrite, Preregister
    <2> QED BY <1>0, <2>1 DEF Admits, Fresh
  <1>3. CASE RegisterLands(a)
    <2>1. /\ UNCHANGED <<casc, suspend, disabled, slipped>>
          /\ a \in passed /\ passed' = passed \ {a}
          /\ status' = status \/ status' = [status EXCEPT ![a] = "active"]
      BY <1>3 DEF RegisterLands, RegisterWrite, RegisterFails
    <2> QED BY <1>0, <2>1 DEF Admits, Fresh
  <1>4. CASE GateAsks(a)
    <2>1. /\ UNCHANGED <<casc, suspend, disabled, slipped, passed>>
          /\ status[a] # "none"
          /\ status' = [status EXCEPT ![a] = "awaiting-consent"]
      BY <1>4 DEF GateAsks, PatchStatus
    <2> QED BY <1>0, <2>1 DEF Admits, Fresh, revocableStatus
  <1>5. CASE GateGranted(a)
    <2>1. /\ UNCHANGED <<casc, suspend, disabled, passed>>
          /\ slipped' = IF disabled THEN slipped \cup {a} ELSE slipped
          /\ status' = [status EXCEPT ![a] = "active"]
      BY <1>5 DEF GateGranted, PatchStatus
    <2> QED BY <1>0, <2>1 DEF Admits, Fresh
  <1> QED BY <1>1, <1>2, <1>3, <1>4, <1>5 DEF AgentRequest

\* Who takes which step.
SuspenderStep ==
  \/ \E r \in Agent : SuspendRoot(r)
  \/ SuspendNode \/ SuspendRootEnds

\* The steps of a suspension, grouped by who takes them.
LEMMA SuspensionCases ==
  ASSUME SuspensionNext
  PROVE  \/ \E a \in Agent : AgentRequest(a)
         \/ \E h \in Handler : CascadeMoves(h)
         \/ \E h \in Handler, root \in Agent : ResumeGuarded(h, root)
         \/ SuspenderStep
         \/ SuspendFlag \/ SuspendList \/ SuspendDone \/ EnableOrg
  BY DEF SuspensionNext, AgentRequest, SuspenderStep

\* The specification's own variables stay well typed.
LEMMA SuspensionTypes ==
  ASSUME SuspensionInv, SuspensionNext, RInv'
  PROVE  SuspensionTypeOK'
  <1>0. /\ disabled \in BOOLEAN /\ passed \in SUBSET Agent
        /\ asking \in SUBSET Agent /\ slipped \in SUBSET Agent
        /\ suspend \in SuspendState /\ begun \in 0..MaxAgentRequests
        /\ MaxAgentRequests \in Nat
    BY SuspenderIsAHandler DEF SuspensionInv, SuspensionTypeOK
  <1>1. begun' \in 0..MaxAgentRequests
    <2>1. begun' = begun \/ Begin
      BY DEF SuspensionNext, PreregisterGuard, PreregisterWrite,
         RegisterBegins, RegisterGuard, RegisterLands, RegisterEnds, GateAsks,
         GateGranted, SuspendRoot, CascadeMoves, ResumeGuarded, SuspendFlag,
         SuspendList, SuspendNode, SuspendRootEnds, SuspendDone, EnableOrg,
         suspensionVars
    <2> QED BY <1>0, <2>1, SMTT(30) DEF Begin
  <1>2. CASE \E a \in Agent : AgentRequest(a)
    <2>1. PICK a \in Agent : AgentRequest(a)
      BY <1>2
    <2>2. UNCHANGED <<disabled, suspend>>
      BY <2>1 DEF AgentRequest, PreregisterGuard, PreregisterWrite,
         RegisterBegins, RegisterGuard, RegisterLands, RegisterEnds, GateAsks,
         GateGranted, suspensionVars
    <2>3. /\ passed' \subseteq passed \cup {a} /\ asking' \subseteq asking \cup {a}
          /\ slipped' \subseteq slipped \cup {a}
      BY <2>1 DEF AgentRequest, PreregisterGuard, PreregisterWrite,
         RegisterBegins, RegisterGuard, RegisterLands, RegisterEnds, GateAsks,
         GateGranted, suspensionVars
    <2> QED BY <1>0, <1>1, <2>2, <2>3 DEF SuspensionTypeOK, RInv
  <1>3. CASE \/ \E h \in Handler : CascadeMoves(h)
             \/ \E h \in Handler, root \in Agent : ResumeGuarded(h, root)
    BY <1>0, <1>1, <1>3 DEF CascadeMoves, ResumeGuarded, suspensionVars,
                            SuspensionTypeOK, RInv
  <1>4. CASE SuspenderStep
    <2>1. suspend' \in SuspendState
      BY <1>0, <1>4, SMTT(30) DEF SuspenderStep, SuspendRoot, SuspendNode,
         SuspendRootEnds, suspensionVars, SuspendState, SuspendIdle
    <2>2. UNCHANGED <<disabled, passed, asking, slipped>>
      BY <1>4 DEF SuspenderStep, SuspendRoot, SuspendNode, SuspendRootEnds,
                  suspensionVars
    <2> QED BY <1>0, <1>1, <2>1, <2>2 DEF SuspensionTypeOK, RInv
  <1>5. CASE SuspendFlag \/ SuspendList \/ SuspendDone \/ EnableOrg
    <2>1. suspend' \in SuspendState
      BY <1>0, <1>5, SMTT(30) DEF SuspendFlag, SuspendList, SuspendDone, EnableOrg,
                        SuspendState, SuspendIdle
    <2>2. Resuming \subseteq Agent
      BY DEF Resuming, Below
    <2>3. /\ disabled' \in BOOLEAN /\ UNCHANGED <<passed, asking>>
          /\ slipped' \in SUBSET Agent
      BY <1>0, <1>5, <2>2 DEF SuspendFlag, SuspendList, SuspendDone, EnableOrg
    <2> QED BY <1>0, <1>1, <2>1, <2>3 DEF SuspensionTypeOK, RInv
  <1> QED BY <1>2, <1>3, <1>4, <1>5, SuspensionCases

\* A resume that passes its guard begins with the flag down; the suspension
\* moves no resume; the flag counts every resume in flight as slipped.
LEMMA ResumeRest ==
  ASSUME SuspensionInv, TreeStep, NEW h \in Handler, NEW r \in Agent
  PROVE  /\ \A g \in Handler, root \in Agent :
              ResumeGuarded(g, root) => ResumeOK(h, r)'
         /\ SuspenderStep => ResumeOK(h, r)'
         /\ SuspendFlag \/ SuspendList \/ SuspendDone \/ EnableOrg
              => ResumeOK(h, r)'
  <1>0. /\ casc \in [Handler -> CascState] /\ RInv
        /\ \A g \in Handler : casc[g] \in CascState /\ CascOK(g)
        /\ ResumeOK(h, r) /\ Flagged /\ Suspender \in Handler
    BY SuspenderIsAHandler DEF SuspensionInv, RInv, RegistryTypeOK
  <1>1. ASSUME NEW g \in Handler, NEW root \in Agent, ResumeGuarded(g, root)
        PROVE  ResumeOK(h, r)'
    <2>1. ~ disabled /\ UNCHANGED <<disabled, slipped>>
      BY <1>1 DEF ResumeGuarded
    <2>2. CASE h # g
      <3>1. casc'[h] = casc[h]
        BY <1>0, <1>1, <2>2 DEF ResumeGuarded, CascadeStart
      <3> QED BY <2>1, <3>1, ResumeOther
    <2>3. CASE h = g
      <3>1. /\ casc'[h].root = root /\ casc'[h].queue = {root}
            /\ casc'[h].nodes = {}
        BY <1>0, <1>1, <2>3 DEF ResumeGuarded, CascadeStart, CascIdle
      <3>2. root \in Below(root) /\ Below(root) \subseteq Below(root)'
        BY BelowFacts DEF TreeStep
      <3> QED BY <2>1, <3>1, <3>2 DEF ResumeOK
    <2> QED BY <2>2, <2>3
  <1>2. ASSUME SuspenderStep PROVE ResumeOK(h, r)'
    <2>1. /\ UNCHANGED <<disabled, slipped>>
          /\ h # Suspender => casc'[h] = casc[h]
      BY <1>0, <1>2 DEF SuspenderStep, SuspendRoot, SuspendNode,
         SuspendRootEnds, suspensionVars, CascadeStart, SubtreeStep, NodeRead,
         NodeWrite, NodeTuple, CascadeEnd
    <2>2. CASE h = Suspender
      <3>1. casc[h].op = "revoke" \/ casc[h].op = "none"
        <4>1. CascOK(h)
          BY <1>0
        <4> QED BY <1>0, <2>2, <4>1, Idles DEF Flagged, CascOK
      <3>2. casc'[h].op = casc[h].op \/ casc'[h].op \in {"revoke", "none"}
        <4>0. casc \in [Handler -> CascState] /\ casc[h] \in CascState
          BY <1>0
        <4>1. CASE SuspendNode
          <5>1. ASSUME NEW n \in Agent, SubtreeStep(h, n) \/ NodeRead(h, n)
                PROVE  casc'[h].op = casc[h].op
            BY <4>0, <5>1, SMTT(30) DEF SubtreeStep, NodeRead, CascState
          <5>2. NodeWrite(h) \/ NodeTuple(h) => casc'[h].op = casc[h].op
            BY <4>0, SMTT(30) DEF NodeWrite, NodeTuple, CascState
          <5> QED BY <2>2, <4>1, <5>1, <5>2 DEF SuspendNode
        <4>2. ASSUME NEW q \in Agent, SuspendRoot(q)
              PROVE  casc'[h].op = "revoke"
          BY <2>2, <4>0, <4>2 DEF SuspendRoot, CascadeStart, CascIdle
        <4>3. SuspendRootEnds => casc'[h].op = "none"
          BY <2>2, <4>0, SMTT(30) DEF SuspendRootEnds, CascadeEnd, CascIdle
        <4> QED BY <1>2, <4>1, <4>2, <4>3 DEF SuspenderStep
      <3> QED BY <3>1, <3>2 DEF ResumeOK
    <2>3. CASE h # Suspender
      <3>1. \A a \in Agent : ~ Fresh(a)
        <4>1. (SuspendNode /\ NodeWrite(Suspender)) \/ status' = status
          BY <1>2 DEF SuspenderStep, SuspendRoot, SuspendNode,
             SuspendRootEnds, CascadeStart, SubtreeStep, NodeRead, NodeTuple,
             CascadeEnd
        <4>2. NodeWrite(Suspender) => status[casc[Suspender].cur] # "none"
          BY <1>0 DEF CascOK, NodeWrite
        <4> QED BY <1>0, <4>1, <4>2 DEF Fresh, NodeWrite, RInv, RegistryTypeOK
      <3> QED BY <1>0, <2>1, <2>3, <3>1, SubtreeKept DEF ResumeOK, TreeStep
    <2> QED BY <2>2, <2>3
  <1>3. ASSUME SuspendFlag \/ SuspendList \/ SuspendDone \/ EnableOrg
        PROVE  ResumeOK(h, r)'
    <2>1. UNCHANGED <<status, parent, casc>>
      BY <1>3 DEF SuspendFlag, SuspendList, SuspendDone, EnableOrg,
                  registryVars
    <2>2. Below(r)' = Below(r)
      BY <2>1, Unmoved
    <2>3. SuspendFlag /\ casc[h].op = "resume" /\ casc[h].root = r
            => Below(r) \subseteq slipped'
      BY DEF SuspendFlag, Resuming
    <2>4. SuspendFlag \/ ~ disabled' \/ UNCHANGED <<disabled, slipped>>
      BY <1>3 DEF SuspendList, SuspendDone, EnableOrg
    <2> QED BY <1>0, <2>1, <2>2, <2>3, <2>4 DEF ResumeOK
  <1> QED BY <1>1, <1>2, <1>3

\* The flag goes up before anything is revoked, and stays up until the
\* suspension is over; other handlers never revoke.
LEMMA FlaggedKept ==
  ASSUME SuspensionInv, SuspensionNext, TreeStep
  PROVE  /\ Flagged'
         /\ \A h \in Handler : h # Suspender => casc'[h].op # "revoke"
  <1>0. /\ casc \in [Handler -> CascState] /\ Suspender \in Handler
        /\ casc[Suspender] \in CascState /\ suspend \in SuspendState
        /\ Flagged
        /\ \A h \in Handler : h # Suspender => casc[h].op # "revoke"
    BY SuspenderIsAHandler DEF SuspensionInv, SuspensionTypeOK, RInv,
                               RegistryTypeOK
  <1>1. ASSUME NEW a \in Agent, AgentRequest(a)
        PROVE  /\ Flagged'
               /\ \A h \in Handler : h # Suspender => casc'[h].op # "revoke"
    BY <1>0, <1>1, RequestsSlip DEF Flagged
  <1>2. ASSUME NEW g \in Handler, CascadeMoves(g)
        PROVE  /\ Flagged'
               /\ \A h \in Handler : h # Suspender => casc'[h].op # "revoke"
    BY <1>0, <1>2, ResumeMoves DEF Flagged, CascadeMoves, suspensionVars
  <1>3. ASSUME NEW g \in Handler, NEW root \in Agent, ResumeGuarded(g, root)
        PROVE  /\ Flagged'
               /\ \A h \in Handler : h # Suspender => casc'[h].op # "revoke"
    <2>1. /\ g # Suspender /\ casc'[g].op = "resume"
          /\ \A h \in Handler : h # g => casc'[h] = casc[h]
          /\ UNCHANGED <<disabled, passed, suspend, slipped>>
      BY <1>0, <1>3 DEF ResumeGuarded, CascadeStart, CascIdle
    <2> QED BY <1>0, <2>1 DEF Flagged
  <1>4. CASE SuspenderStep
    <2>1. /\ UNCHANGED <<disabled, passed, slipped>>
          /\ \A h \in Handler : h # Suspender => casc'[h] = casc[h]
      BY <1>0, <1>4 DEF SuspenderStep, SuspendRoot, SuspendNode,
         SuspendRootEnds, suspensionVars, CascadeStart, SubtreeStep, NodeRead,
         NodeWrite, NodeTuple, CascadeEnd
    <2>2. \/ casc'[Suspender].pc = "idle"
             /\ (suspend' = suspend \/ suspend' = SuspendIdle)
          \/ suspend.pc = "roots" /\ suspend'.pc = "roots"
             /\ casc'[Suspender].op = "revoke"
      <3>1. CASE SuspendRootEnds
        BY <1>0, <3>1 DEF SuspendRootEnds, CascadeEnd, CascIdle
      <3>2. ASSUME NEW r \in Agent, SuspendRoot(r)
            PROVE  suspend.pc = "roots" /\ suspend'.pc = "roots"
                   /\ casc'[Suspender].op = "revoke"
        BY <1>0, <3>2 DEF SuspendRoot, CascadeStart, CascIdle, SuspendState
      <3>3. CASE SuspendNode
        <4>1. casc[Suspender].pc # "idle" /\ suspend' = suspend
          BY <3>3 DEF SuspendNode, SubtreeStep, NodeRead, NodeWrite,
                      NodeTuple, suspensionVars
        <4>2. ASSUME NEW n \in Agent,
                     SubtreeStep(Suspender, n) \/ NodeRead(Suspender, n)
              PROVE  casc'[Suspender].op = casc[Suspender].op
          BY <1>0, <4>2, SMTT(30) DEF SubtreeStep, NodeRead, CascState
        <4>3. NodeWrite(Suspender) \/ NodeTuple(Suspender)
                => casc'[Suspender].op = casc[Suspender].op
          BY <1>0, SMTT(30) DEF NodeWrite, NodeTuple, CascState
        <4> QED BY <1>0, <3>3, <4>1, <4>2, <4>3 DEF SuspendNode, Flagged
      <3> QED BY <1>4, <3>1, <3>2, <3>3 DEF SuspenderStep
    <2> QED BY <1>0, <2>1, <2>2, SMTT(30) DEF Flagged, SuspendIdle
  <1>5. CASE SuspendFlag \/ SuspendList \/ SuspendDone \/ EnableOrg
    <2>1. casc' = casc /\ casc[Suspender].pc = "idle" /\ passed' = passed
      BY <1>0, <1>5 DEF SuspendFlag, SuspendList, SuspendDone, EnableOrg,
                        registryVars, Flagged
    <2>2. /\ suspend'.pc # "idle" => disabled'
          /\ disabled' => passed \subseteq slipped'
      BY <1>0, <1>5, SMTT(30) DEF SuspendFlag, SuspendList, SuspendDone, EnableOrg,
                        SuspendIdle, Flagged
    <2> QED BY <1>0, <2>1, <2>2 DEF Flagged
  <1> QED BY <1>1, <1>2, <1>3, <1>4, <1>5, SuspensionCases

\* A step of the suspension's specification keeps its invariant.
LEMMA SuspensionNextKeeps ==
  ASSUME SuspensionInv, SuspensionNext
  PROVE  SuspensionInv'
  <1>0. RInv /\ Rooted /\ RegistryMoves
    BY SuspensionActs DEF SuspensionInv
  <1>1. RInv' /\ TreeStep /\ Rooted'
    BY <1>0, MovesKeep, RootedKept
  <1>2. /\ SuspensionTypeOK' /\ Flagged'
        /\ \A h \in Handler : h # Suspender => casc'[h].op # "revoke"
    BY <1>1, SuspensionTypes, FlaggedKept
  <1>3. Suspender \in Handler /\ casc \in [Handler -> CascState]
    BY <1>0, SuspenderIsAHandler DEF RInv, RegistryTypeOK
  <1>4. CASE \E a \in Agent : AgentRequest(a)
    <2>1. /\ UNCHANGED <<casc, suspend, disabled>> /\ slipped \subseteq slipped'
          /\ disabled => Admits
      BY <1>4, RequestsSlip
    <2>2. Sweeping' /\ \A h \in Handler, r \in Agent : ResumeOK(h, r)'
      BY <1>1, <2>1, SweepingOther, ResumeOther
    <2> QED BY <1>1, <1>2, <2>2 DEF SuspensionInv
  <1>5. CASE \E h \in Handler : CascadeMoves(h)
    <2>1. PICK g \in Handler : CascadeMoves(g)
      BY <1>5
    <2>2. UNCHANGED suspensionVars /\ g # Suspender
      BY <2>1 DEF CascadeMoves
    <2>3. Sweeping'
      BY <1>1, <1>3, <2>1, <2>2, ResumeMoves, SweepingOther
         DEF suspensionVars
    <2>4. ASSUME NEW h \in Handler, NEW r \in Agent PROVE ResumeOK(h, r)'
      BY <1>1, <2>1, <2>2, ResumeMoves, ResumeOther DEF suspensionVars
    <2> QED BY <1>1, <1>2, <2>3, <2>4 DEF SuspensionInv
  <1>6. CASE \E h \in Handler, root \in Agent : ResumeGuarded(h, root)
    <2>1. PICK g \in Handler, root \in Agent : ResumeGuarded(g, root)
      BY <1>6
    <2>2. /\ ~ disabled /\ suspend' = suspend /\ slipped' = slipped
          /\ casc'[Suspender] = casc[Suspender]
      BY <1>3, <2>1 DEF ResumeGuarded, CascadeStart
    <2>3. Sweeping'
      BY <1>1, <2>2, SweepingOther
    <2>4. \A h \in Handler, r \in Agent : ResumeOK(h, r)'
      BY <1>1, <2>1, ResumeRest
    <2> QED BY <1>1, <1>2, <2>3, <2>4 DEF SuspensionInv
  <1>7. CASE SuspenderStep
    <2>0. PICK b \in Agent : TRUE
      <3>1. (\E r \in Agent : SuspendRoot(r)) \/ casc[Suspender].pc # "idle"
        BY <1>7 DEF SuspenderStep, SuspendNode, SuspendRootEnds, SubtreeStep,
                    NodeRead, NodeWrite, NodeTuple, CascadeEnd
      <3>2. casc[Suspender].pc # "idle" => casc[Suspender].root \in Agent
        BY <1>0, <1>3 DEF RInv, CascOK, CascState
      <3> QED BY <3>1, <3>2
    <2>1. Sweeping'
      <3>1. ASSUME NEW n \in Agent,
                   SubtreeStep(Suspender, n), UNCHANGED suspensionVars
            PROVE  Sweeping'
        BY <3>1, SweepingWalk
      <3>2. ASSUME NEW n \in Agent, UNCHANGED suspensionVars,
                   \/ NodeRead(Suspender, n)
                   \/ NodeWrite(Suspender) \/ NodeTuple(Suspender)
            PROVE  Sweeping'
        BY <1>1, <3>2, SweepingNode
      <3>3. ASSUME NEW r \in Agent, SuspendRoot(r) \/ SuspendRootEnds
            PROVE  Sweeping'
        BY <3>3, SweepingRoot
      <3> QED BY <1>7, <2>0, <3>1, <3>2, <3>3 DEF SuspenderStep, SuspendNode
    <2>2. \A h \in Handler, r \in Agent : ResumeOK(h, r)'
      BY <1>1, <1>7, ResumeRest
    <2> QED BY <1>1, <1>2, <2>1, <2>2 DEF SuspensionInv
  <1>8. CASE SuspendFlag \/ SuspendList \/ SuspendDone \/ EnableOrg
    BY <1>1, <1>2, <1>8, SweepingAside, ResumeRest DEF SuspensionInv
  <1> QED BY <1>4, <1>5, <1>6, <1>7, <1>8, SuspensionCases

\* Nothing happens: nothing is lost.
LEMMA SuspensionStutters ==
  ASSUME SuspensionInv, UNCHANGED <<registryVars, suspensionVars>>
  PROVE  SuspensionInv'
  <1>0. UNCHANGED <<status, parent, casc, disabled, passed, asking, suspend,
                    begun, slipped>>
    BY DEF registryVars, suspensionVars
  <1>1. RInv' /\ TreeStep /\ Rooted'
    BY MovesKeep, RootedKept DEF SuspensionInv, RegistryMoves
  <1>2. Admits
    BY <1>0 DEF Admits, Fresh
  <1>3. Sweeping' /\ \A h \in Handler, r \in Agent : ResumeOK(h, r)'
    BY <1>0, <1>1, <1>2, SweepingOther, ResumeOther
  <1>4. SuspensionTypeOK' /\ Flagged'
    BY <1>0, <1>1 DEF SuspensionInv, SuspensionTypeOK, Flagged, RInv
  <1> QED BY <1>0, <1>1, <1>3, <1>4 DEF SuspensionInv

\* SuspensionInv holds of every reachable state of the registry with a
\* suspension.
THEOREM SuspensionInvariant == SuspensionSpec => []SuspensionInv
  <1>1. SuspensionInit => SuspensionInv
    <2> SUFFICES ASSUME SuspensionInit PROVE SuspensionInv
      OBVIOUS
    <2>1. RInv
      BY RegistryInitHolds DEF SuspensionInit
    <2>2. \A h \in Handler : casc[h].pc = "idle" /\ casc[h].op = "none"
      BY DEF SuspensionInit, RegistryInit, CascIdle
    <2>3. suspend \in SuspendState /\ suspend.pc = "idle"
      BY DEF SuspensionInit, SuspendIdle, SuspendState
    <2>0. 0 \in 0..MaxAgentRequests
      BY SuspenderIsAHandler, SMTT(30)
    <2>4. SuspensionTypeOK
      BY <2>0, <2>1, <2>3
         DEF SuspensionInit, SuspensionTypeOK, RInv
    <2>5. Rooted
      BY DEF SuspensionInit, RegistryInit, Rooted
    <2>6. ~ disabled
      BY DEF SuspensionInit
    <2> QED BY <2>1, <2>2, <2>3, <2>4, <2>5, <2>6, SuspenderIsAHandler
            DEF SuspensionInv, Flagged, Sweeping, Walks, ResumeOK
  <1>2. SuspensionInv /\ [SuspensionNext]_<<registryVars, suspensionVars>>
          => SuspensionInv'
    BY SuspensionNextKeeps, SuspensionStutters
  <1> QED BY <1>1, <1>2, PTL DEF SuspensionSpec

\* Once the disable has answered, no agent of the organization is pending or
\* active, except those whose request was admitted before the flag went up
\* and those a consent gate made active since, whatever else is in flight.
THEOREM SuspensionIsComplete == SuspensionSpec => []SuspensionHolds
  <1>1. SuspensionInv => SuspensionHolds
    BY DEF SuspensionInv, Sweeping, SuspensionHolds, revocableStatus
  <1> QED BY SuspensionInvariant, <1>1, PTL

-----------------------------------------------------------------------------
(* The cluster around the registry                                           *)

\* A record comes before its workload, the workload before its pod, the pod
\* before its sidecar, and only a sidecar registers.
ClusterOK(a) ==
  /\ spawn[a] = "none" <=> status[a] = "none"
  /\ cr[a] # "none" => spawn[a] = "done"
  /\ pod[a] # "none" => cr[a] # "none"
  /\ side[a] # "off" => pod[a] # "none"
  /\ reg[a].pc # "idle" => cr[a] # "none"

ClusterInv ==
  /\ RInv
  /\ ClusterTypeOK
  /\ \A a \in Agent : ClusterOK(a)

\* Before the first spawn there is no CR, no sidecar and no record.
LEMMA ClusterInitHolds ==
  ASSUME RegistryInit, ClusterInit
  PROVE  ClusterInv
  BY RegistryInitHolds, Idles
  DEF RegistryInit, ClusterInit, ClusterInv, ClusterTypeOK, ClusterOK

\* A status the operator or a sidecar reports is a PATCH of the registry.
LEMMA ReportActs ==
  ASSUME NEW a \in Agent, NEW st \in Reports, Report(a, st)
  PROVE  RegistryMoves
  BY DEF Report, RegistryMoves, RegistryAct, AgentAct

\* A report creates and removes no record and touches no registration.
LEMMA ReportKeeps ==
  ASSUME ClusterInv, NEW a \in Agent, NEW st \in Reports, Report(a, st)
  PROVE  \A b \in Agent : /\ status'[b] = "none" <=> status[b] = "none"
                          /\ reg'[b] = reg[b]
  BY DEF Report, PatchStatus, registryVars, ClusterInv, RInv, RegistryTypeOK,
         Reports, Live, Exited

\* The registry's own steps, without the guards its callers add.
LEMMA RegistryStepActs ==
  ASSUME RegistryStep
  PROVE  RegistryAct
  <1>1. \A a \in Agent : RegisterFails(a) => RegisterDrops(a)
    BY DEF RegisterFails, RegisterDrops
  <1> QED BY <1>1 DEF RegistryStep, RegistryAct, AgentAct

\* What the orchestrator does to the registry is what its handlers allow.
LEMMA OrchestratorActs ==
  ASSUME ClusterInv, Orchestrator
  PROVE  RegistryMoves
  <1>1. ASSUME NEW a \in Agent, NEW p \in Agent \cup {NoAgent},
               SpawnPreregister(a, p)
        PROVE  RegistryAct
    <2>1. status[a] = "none" /\ p # a /\ Preregister(a, p)
      BY <1>1 DEF SpawnPreregister, ClusterInv, ClusterOK
    <2>2. p # NoAgent => status[p] # "none"
      BY <1>1 DEF SpawnPreregister, MaySpawn, ClusterInv, ClusterOK
    <2> QED BY <2>1, <2>2 DEF RegistryAct, AgentAct
  <1>2. ASSUME NEW a \in Agent, SpawnCreate(a) \/ SpawnCreateFails(a)
        PROVE  RegistryMoves
    BY <1>2 DEF SpawnCreate, SpawnCreateFails, RegistryMoves, RegistryAct,
                AgentAct
  <1> QED BY <1>1, <1>2 DEF Orchestrator, RegistryMoves

\* So is what the operator does: it only reports statuses.
LEMMA OperatorActs ==
  ASSUME Operator
  PROVE  RegistryMoves
  <1>1. "failed" \in Reports /\ "completed" \in Reports
    BY DEF Reports, Exited
  <1>2. ASSUME NEW a \in Agent, AddFinalizer(a) \/ handleNew(a)
        PROVE  RegistryMoves
    BY <1>2 DEF AddFinalizer, handleNew, RegistryMoves
  <1>3. ASSUME NEW a \in Agent, handleRunning(a) \/ handleDeletion(a)
        PROVE  RegistryMoves
    BY <1>1, <1>3, ReportActs DEF handleRunning, handleDeletion
  <1> QED BY <1>2, <1>3 DEF Operator

\* And what a sidecar does: its self-registration and its consent reports.
LEMMA SidecarActs ==
  ASSUME ClusterInv, Sidecar
  PROVE  RegistryMoves
  <1>1. /\ "failed" \in Reports /\ "active" \in Reports
        /\ "awaiting-consent" \in Reports
    BY DEF Reports, Exited, Live
  <1>2. ASSUME NEW a \in Agent, SidecarStarts(a) PROVE RegistryMoves
    BY <1>2 DEF SidecarStarts, RegistryMoves
  <1>3. ASSUME NEW a \in Agent, SidecarRegisters(a) PROVE RegistryMoves
    <2>1. status[a] # "none" /\ RegisterRead(a, NoAgent)
      BY <1>3 DEF SidecarRegisters, ClusterInv, ClusterOK
    <2> QED BY <2>1 DEF RegistryMoves, RegistryAct, AgentAct
  <1>4. ASSUME NEW a \in Agent, SidecarRegistered(a) PROVE RegistryMoves
    BY <1>4 DEF SidecarRegistered, RegistryMoves, RegistryAct, AgentAct
  <1>5. ASSUME NEW a \in Agent,
               SidecarAsks(a) \/ SidecarGranted(a) \/ failConsent(a)
        PROVE  RegistryMoves
    BY <1>1, <1>5, ReportActs
    DEF SidecarAsks, SidecarGranted, failConsent, SidecarPatches
  <1> QED BY <1>2, <1>3, <1>4, <1>5 DEF Sidecar

\* Every step of the cluster moves the registry by one of its handlers.
LEMMA ClusterActs ==
  ASSUME ClusterInv, ClusterStep
  PROVE  RegistryMoves
  <1>1. CASE Kubernetes
    BY <1>1 DEF Kubernetes, PodEnds, PodCollected, RegistryMoves
  <1> QED BY <1>1, OrchestratorActs, OperatorActs, SidecarActs,
             RegistryStepActs DEF ClusterStep, RegistryMoves

\* The orchestrator.
LEMMA OrchestratorKeeps ==
  ASSUME ClusterInv, Orchestrator
  PROVE  ClusterTypeOK' /\ \A b \in Agent : ClusterOK(b)'
  <1>1. ASSUME NEW a \in Agent, NEW p \in Agent \cup {NoAgent},
               SpawnPreregister(a, p)
        PROVE  ClusterTypeOK' /\ \A b \in Agent : ClusterOK(b)'
    BY <1>1 DEF SpawnPreregister, Preregister, ClusterInv, RInv,
                RegistryTypeOK, ClusterTypeOK, ClusterOK
  <1>2. ASSUME NEW a \in Agent, SpawnCreate(a)
        PROVE  ClusterTypeOK' /\ \A b \in Agent : ClusterOK(b)'
    BY <1>2 DEF SpawnCreate, registryVars, ClusterInv, ClusterTypeOK, ClusterOK
  <1>3. ASSUME NEW a \in Agent, SpawnCreateFails(a)
        PROVE  ClusterTypeOK' /\ \A b \in Agent : ClusterOK(b)'
    BY <1>3 DEF SpawnCreateFails, DismissAgent, registryVars, ClusterInv,
                ClusterTypeOK, ClusterOK
  <1> QED BY <1>1, <1>2, <1>3 DEF Orchestrator

\* The operator and Kubernetes.
LEMMA OperatorKeeps ==
  ASSUME ClusterInv, Operator \/ Kubernetes
  PROVE  ClusterTypeOK' /\ \A b \in Agent : ClusterOK(b)'
  <1>0. "failed" \in Reports /\ "completed" \in Reports
    BY DEF Reports, Exited
  <1>1. ASSUME NEW a \in Agent, AddFinalizer(a)
        PROVE  ClusterTypeOK' /\ \A b \in Agent : ClusterOK(b)'
    BY <1>1 DEF AddFinalizer, registryVars, ClusterInv, ClusterTypeOK, ClusterOK
  <1>2. ASSUME NEW a \in Agent, handleNew(a)
        PROVE  ClusterTypeOK' /\ \A b \in Agent : ClusterOK(b)'
    <2>1. /\ UNCHANGED <<status, reg, spawn, cr, fin, side>> /\ cr[a] = "live"
          /\ phase' \in {phase, [phase EXCEPT ![a] = "Running"]}
      BY <1>2 DEF handleNew, registryVars
    <2>2. PICK up \in {"up", pod[a]} :
            pod' = [pod EXCEPT ![a] = up] /\ (pod[a] = "none" => up = "up")
      BY <1>2 DEF handleNew
    <2>3. ClusterTypeOK'
      BY <2>1, <2>2 DEF ClusterInv, ClusterTypeOK
    <2>4. \A b \in Agent : /\ pod'[b] # "none" => pod[b] # "none" \/ b = a
                           /\ pod[b] # "none" => pod'[b] # "none"
      BY <2>2 DEF ClusterInv, ClusterTypeOK
    <2>5. \A b \in Agent : ClusterOK(b)'
      BY <2>1, <2>4 DEF ClusterInv, ClusterOK
    <2> QED BY <2>3, <2>5
  <1>3. ASSUME NEW a \in Agent, handleRunning(a)
        PROVE  ClusterTypeOK' /\ \A b \in Agent : ClusterOK(b)'
    <2>1. \A b \in Agent : /\ status'[b] = "none" <=> status[b] = "none"
                           /\ reg'[b] = reg[b]
      BY <1>0, <1>3, ReportKeeps DEF handleRunning
    <2>2. /\ UNCHANGED <<spawn, cr, fin, pod, side>>
          /\ phase' \in {phase, [phase EXCEPT ![a] = "Failed"],
                        [phase EXCEPT ![a] = "Completed"]}
      BY <1>3 DEF handleRunning
    <2>3. ClusterTypeOK'
      BY <2>2 DEF ClusterInv, ClusterTypeOK
    <2> QED BY <2>1, <2>2, <2>3, SMTT(30) DEF ClusterInv, ClusterOK
  <1>4. ASSUME NEW a \in Agent, handleDeletion(a)
        PROVE  ClusterTypeOK' /\ \A b \in Agent : ClusterOK(b)'
    <2>1. \A b \in Agent : /\ status'[b] = "none" <=> status[b] = "none"
                           /\ reg'[b] = reg[b]
      BY <1>0, <1>4, ReportKeeps DEF handleDeletion
    <2>2. /\ UNCHANGED <<spawn, phase, pod, side>> /\ cr[a] = "deleting"
          /\ fin' \in {fin, fin \ {a}}
          /\ cr' \in {cr, [cr EXCEPT ![a] = "gone"]}
      BY <1>4 DEF handleDeletion
    <2>3. ClusterTypeOK' /\ \A b \in Agent : cr'[b] = "none" <=> cr[b] = "none"
      BY <2>2 DEF ClusterInv, ClusterTypeOK
    <2> QED BY <2>1, <2>2, <2>3, SMTT(30) DEF ClusterInv, ClusterOK
  <1>5. ASSUME NEW a \in Agent, PodEnds(a) \/ PodCollected(a)
        PROVE  ClusterTypeOK' /\ \A b \in Agent : ClusterOK(b)'
    <2>1. /\ UNCHANGED <<status, reg, spawn, cr, fin, phase>>
          /\ pod[a] # "none" /\ side' = [side EXCEPT ![a] = "off"]
          /\ \E end \in {"succeeded", "failed", "gone"} :
               pod' = [pod EXCEPT ![a] = end]
      BY <1>5 DEF PodEnds, PodCollected, registryVars
    <2>2. PICK end \in {"succeeded", "failed", "gone"} :
            pod' = [pod EXCEPT ![a] = end]
      BY <2>1
    <2>3. ClusterTypeOK'
      BY <2>1, <2>2 DEF ClusterInv, ClusterTypeOK
    <2>4. \A b \in Agent : /\ pod'[b] = "none" <=> pod[b] = "none"
                           /\ side'[b] # "off" => side[b] # "off"
      BY <2>1, <2>2 DEF ClusterInv, ClusterTypeOK
    <2>5. \A b \in Agent : ClusterOK(b)'
      BY <2>1, <2>4 DEF ClusterInv, ClusterOK
    <2> QED BY <2>3, <2>5
  <1> QED BY <1>1, <1>2, <1>3, <1>4, <1>5 DEF Operator, Kubernetes

\* The sidecar.
LEMMA SidecarKeeps ==
  ASSUME ClusterInv, Sidecar
  PROVE  ClusterTypeOK' /\ \A b \in Agent : ClusterOK(b)'
  <1>0. /\ "failed" \in Reports /\ "active" \in Reports
        /\ "awaiting-consent" \in Reports
    BY DEF Reports, Exited, Live
  <1>1. ASSUME NEW a \in Agent, SidecarStarts(a)
        PROVE  ClusterTypeOK' /\ \A b \in Agent : ClusterOK(b)'
    BY <1>1 DEF SidecarStarts, registryVars, ClusterInv, ClusterTypeOK, ClusterOK
  <1>2. ASSUME NEW a \in Agent, SidecarRegisters(a)
        PROVE  ClusterTypeOK' /\ \A b \in Agent : ClusterOK(b)'
    BY <1>2 DEF SidecarRegisters, RegisterRead, clusterVars, ClusterInv, RInv,
                RegistryTypeOK, ClusterTypeOK, ClusterOK
  <1>3. ASSUME NEW a \in Agent, SidecarRegistered(a)
        PROVE  ClusterTypeOK' /\ \A b \in Agent : ClusterOK(b)'
    <2>1. status' = status /\ reg' = [reg EXCEPT ![a] = RegIdle]
          /\ reg[a].pc = "tuple"
      BY <1>3 DEF SidecarRegistered, RegisterTuple
    <2>2. PICK s \in {side[a], "registered", "serving"} :
            side' = [side EXCEPT ![a] = s] /\ (s = side[a] \/ side[a] = "boot")
      BY <1>3 DEF SidecarRegistered
    <2>3. /\ UNCHANGED <<spawn, cr, fin, phase, pod>>
          /\ \A b \in Agent : side'[b] # "off" => side[b] # "off"
      BY <1>3, <2>2 DEF SidecarRegistered, ClusterInv, ClusterTypeOK
    <2>4. ClusterTypeOK'
      BY <2>2, <2>3 DEF ClusterInv, ClusterTypeOK
    <2>5. \A b \in Agent : reg'[b].pc # "idle" => reg[b].pc # "idle"
      BY <2>1, Idles DEF ClusterInv, RInv, RegistryTypeOK
    <2>6. \A b \in Agent : ClusterOK(b)'
      BY <2>1, <2>3, <2>5 DEF ClusterInv, ClusterOK
    <2> QED BY <2>4, <2>6
  <1>4. ASSUME NEW a \in Agent, NEW st \in Reports,
               NEW from \in {"registered", "waiting", "serving"},
               NEW to \in {"waiting", "serving", "denied"},
               SidecarPatches(a, from, st, to)
        PROVE  ClusterTypeOK' /\ \A b \in Agent : ClusterOK(b)'
    <2>1. \A b \in Agent : /\ status'[b] = "none" <=> status[b] = "none"
                           /\ reg'[b] = reg[b]
      BY <1>4, ReportKeeps DEF SidecarPatches
    <2>2. /\ UNCHANGED <<spawn, cr, fin, phase, pod>> /\ side[a] # "off"
          /\ side' = [side EXCEPT ![a] = to]
      BY <1>4 DEF SidecarPatches
    <2>3. ClusterTypeOK'
      BY <2>2 DEF ClusterInv, ClusterTypeOK
    <2>4. \A b \in Agent : side'[b] # "off" => side[b] # "off"
      BY <2>2 DEF ClusterInv, ClusterTypeOK
    <2>5. \A b \in Agent : ClusterOK(b)'
      BY <2>1, <2>2, <2>4 DEF ClusterInv, ClusterOK
    <2> QED BY <2>3, <2>5
  <1> QED BY <1>0, <1>1, <1>2, <1>3, <1>4
          DEF Sidecar, SidecarAsks, SidecarGranted, failConsent

\* The requests in flight at the registry.
LEMMA RegistryStepKeeps ==
  ASSUME ClusterInv, RegistryStep, UNCHANGED clusterVars
  PROVE  ClusterTypeOK' /\ \A b \in Agent : ClusterOK(b)'
  <1>1. \A b \in Agent : status'[b] = "none" <=> status[b] = "none"
    <2>1. RInv /\ RegistryAct
      BY RegistryStepActs DEF ClusterInv
    <2>2. ~ \E a \in Agent, p \in Agent \cup {NoAgent} :
              status[a] = "none" /\ Preregister(a, p)
      <3> SUFFICES ASSUME NEW a \in Agent, status[a] = "none",
                          NEW p \in Agent \cup {NoAgent}, Preregister(a, p)
                   PROVE  FALSE
        OBVIOUS
      <3>1. status'[a] # status[a] /\ reg' = reg /\ casc' = casc
            /\ status'[a] = "pending" /\ clean' = clean
        BY <2>1 DEF Preregister, RInv, RegistryTypeOK
      <3>2. ASSUME NEW b \in Agent, RegisterWrite(b) \/ RegisterFails(b)
            PROVE  FALSE
        BY <2>1, <3>1, <3>2, Idles
        DEF RegisterWrite, RegisterFails, RInv, RegistryTypeOK, RegState
      <3>3. ASSUME NEW b \in Agent, PatchCleanup(b) PROVE FALSE
        BY <3>1, <3>3 DEF PatchCleanup
      <3>4. ASSUME NEW h \in Handler, NodeWrite(h) PROVE FALSE
        BY <2>1, <3>1, <3>4 DEF NodeWrite, RInv, RegistryTypeOK, CascState
      <3>5. ASSUME NEW h \in Handler, Cascade(h) PROVE FALSE
        BY <3>1, <3>4, <3>5 DEF Cascade, CascadeStart, SubtreeStep, NodeRead,
                                NodeTuple, CascadeEnd
      <3> QED BY <3>2, <3>3, <3>5 DEF RegistryStep
    <2> QED BY <2>1, <2>2, RecordsKept
  <1>2. \A b \in Agent : reg'[b].pc # "idle" => reg[b].pc # "idle"
    <2>1. ASSUME NEW b \in Agent, RegisterWrite(b) \/ RegisterFails(b)
          PROVE  \A c \in Agent : reg'[c].pc # "idle" => reg[c].pc # "idle"
      BY <2>1 DEF RegisterWrite, RegisterFails, ClusterInv, RInv,
                  RegistryTypeOK
    <2> QED BY <2>1 DEF RegistryStep, PatchCleanup, Cascade, CascadeStart,
               SubtreeStep, NodeRead, NodeWrite, NodeTuple, CascadeEnd
  <1> QED BY <1>1, <1>2 DEF ClusterInv, ClusterTypeOK, ClusterOK, clusterVars

\* Every step of the cluster keeps the invariant and the tree's lineage.
LEMMA ClusterKeeps ==
  ASSUME ClusterInv, ClusterStep
  PROVE  ClusterInv' /\ TreeStep
  <1>1. RInv' /\ TreeStep
    BY ClusterActs, MovesKeep DEF ClusterInv
  <1> QED BY <1>1, OrchestratorKeeps, OperatorKeeps, SidecarKeeps,
             RegistryStepKeeps DEF ClusterStep, ClusterInv

\* The loss of the cluster, and a delete of a workload, keep the invariant.
LEMMA RebuildKeeps ==
  ASSUME ClusterInv, Rebuild
  PROVE  ClusterInv'
  <1>1. /\ UNCHANGED <<status, dismissed, parent, enabled, phase>>
        /\ reg' = [a \in Agent |-> RegIdle] /\ clean' = {}
        /\ casc' = [h \in Handler |-> CascIdle]
        /\ disturbed' = disturbed \cup {a \in Agent : InFlight(a) # {}}
        /\ cr' = [a \in Agent |-> IF cr[a] = "none" THEN "none" ELSE "gone"]
        /\ pod' = [a \in Agent |-> IF pod[a] = "none" THEN "none" ELSE "gone"]
        /\ side' = [a \in Agent |-> "off"] /\ fin' = {}
        /\ spawn' = [a \in Agent |-> IF spawn[a] = "creating" THEN "done"
                                     ELSE spawn[a]]
    BY DEF Rebuild
  <1>2. RInv'
    <2>1. RegistryTypeOK'
      BY <1>1, Idles DEF ClusterInv, RInv, RegistryTypeOK
    <2>2. Lineage'
      BY <1>1, Idles DEF ClusterInv, RInv, Lineage
    <2>3. \A h \in Handler : CascOK(h)'
      BY <1>1 DEF CascOK, CascIdle
    <2>4. ASSUME NEW b \in Agent PROVE Settled(b)'
      <3>1. b \notin disturbed' =>
              /\ b \notin disturbed /\ b \notin clean
              /\ \A h \in Handler : casc[h].cur # b
        BY <1>1 DEF InFlight
      <3> QED BY <1>1, <3>1, Idles, NoAgentIsNotAnAgent
              DEF ClusterInv, RInv, Settled, Apart
    <2> QED BY <2>1, <2>2, <2>3, <2>4 DEF RInv
  <1>3. ClusterTypeOK'
    BY <1>1 DEF ClusterInv, ClusterTypeOK
  <1>4. \A b \in Agent : ClusterOK(b)'
    BY <1>1, Idles DEF ClusterInv, ClusterTypeOK, ClusterOK
  <1> QED BY <1>2, <1>3, <1>4 DEF ClusterInv

\* Deleting a CR marks it and leaves the registry alone.
LEMMA DeleteCRKeeps ==
  ASSUME ClusterInv, NEW a \in Agent, DeleteCR(a)
  PROVE  ClusterInv'
  <1>1. RInv'
    BY RegistryStutters DEF DeleteCR, ClusterInv
  <1>2. ClusterTypeOK' /\ \A b \in Agent : cr'[b] = "none" <=> cr[b] = "none"
    BY DEF DeleteCR, DeletedCR, ClusterInv, ClusterTypeOK
  <1>3. \A b \in Agent : ClusterOK(b)'
    BY <1>2 DEF DeleteCR, registryVars, ClusterInv, ClusterOK
  <1> QED BY <1>1, <1>2, <1>3 DEF ClusterInv

\* A registry step that touches no registration and leaves the cluster alone.
LEMMA AsideKeeps ==
  ASSUME ClusterInv, RegistryMoves, UNCHANGED clusterVars,
         \A b \in Agent : /\ status'[b] = "none" <=> status[b] = "none"
                          /\ reg'[b] = reg[b]
  PROVE  ClusterInv'
  <1>1. RInv'
    BY MovesKeep DEF ClusterInv
  <1>2. ClusterTypeOK'
    BY DEF ClusterInv, ClusterTypeOK, clusterVars
  <1>3. \A b \in Agent : ClusterOK(b)'
    BY SMTT(30) DEF ClusterInv, ClusterOK, clusterVars
  <1> QED BY <1>1, <1>2, <1>3 DEF ClusterInv

-----------------------------------------------------------------------------
(* The stale sweep                                                           *)

\* A workload that exists leaves a trace, one that is gone stays gone, and a
\* new one is live.
CrKept == \A a \in Agent : /\ cr[a] # "none" => cr'[a] # "none"
                           /\ cr[a] = "none" => cr'[a] \in {"none", "live"}
                           /\ cr[a] = "gone" => cr'[a] = "gone"

Resumes(h, a) ==
  casc[h].op = "resume" /\ casc[h].pc = "write" /\ casc[h].cur = a

\* A record becomes active or awaiting-consent by its own sidecar, which runs
\* in its workload's pod, or by a resume; a resume reads a revoked record.
LiveNews ==
  \A a \in Agent : status'[a] \in Live =>
    status[a] \in Live \/ cr[a] # "none" \/ \E h \in Handler : Resumes(h, a)

ResumeNews ==
  \A h \in Handler, a \in Agent :
    Resumes(h, a)' => Resumes(h, a) \/ status[a] = "revoked"

\* Every step of the cluster keeps the trace of a workload.
LEMMA ClusterCrKept ==
  ASSUME ClusterInv, ClusterStep
  PROVE  CrKept
  <1>1. ASSUME NEW a \in Agent, SpawnCreate(a) PROVE CrKept
    BY <1>1 DEF SpawnCreate, CrKept, ClusterInv, ClusterTypeOK, ClusterOK
  <1>2. ASSUME NEW a \in Agent, handleDeletion(a) PROVE CrKept
    BY <1>2 DEF handleDeletion, CrKept, ClusterInv, ClusterTypeOK
  <1>3. CASE cr' = cr
    BY <1>3 DEF CrKept
  <1>4. CASE Orchestrator
    BY <1>1, <1>3, <1>4 DEF Orchestrator, SpawnPreregister, SpawnCreateFails
  <1>5. CASE Operator
    BY <1>2, <1>3, <1>5 DEF Operator, AddFinalizer, handleNew, handleRunning
  <1>6. CASE Kubernetes
    BY <1>3, <1>6 DEF Kubernetes, PodEnds, PodCollected
  <1>7. CASE Sidecar
    BY <1>3, <1>7 DEF Sidecar, SidecarStarts, SidecarRegisters, clusterVars,
       SidecarRegistered, SidecarAsks, SidecarGranted, failConsent,
       SidecarPatches
  <1>8. CASE UNCHANGED clusterVars
    BY <1>3, <1>8 DEF clusterVars
  <1> QED BY <1>4, <1>5, <1>6, <1>7, <1>8 DEF ClusterStep

\* The end of an agent makes no record active and starts no resume.
LEMMA ReportNews ==
  ASSUME ClusterInv, NEW a \in Agent, NEW st \in Reports, Report(a, st),
         st \in Exited \/ cr[a] # "none"
  PROVE  LiveNews /\ ResumeNews
  <1>1. casc' = casc /\ (status' = status \/ status' = [status EXCEPT ![a] = st])
    BY DEF Report, PatchStatus, registryVars
  <1>2. st \in Exited => st \notin Live
    BY DEF Exited, Live
  <1>3. status \in [Agent -> Status]
    BY DEF ClusterInv, RInv, RegistryTypeOK
  <1>4. LiveNews
    BY <1>1, <1>2, <1>3 DEF LiveNews
  <1>5. ResumeNews
    BY <1>1 DEF ResumeNews, Resumes
  <1> QED BY <1>4, <1>5

\* A step that moves no status and no cascade makes nothing live.
LEMMA Quietly ==
  ASSUME UNCHANGED <<status, casc>>
  PROVE  LiveNews /\ ResumeNews
  BY DEF LiveNews, ResumeNews, Resumes

\* What the registry's steps can bring to life, and which resumes they start.
LEMMA RegistryStepNews ==
  ASSUME ClusterInv, RegistryStep
  PROVE  LiveNews /\ ResumeNews
  <1>0. status \in [Agent -> Status] /\ casc \in [Handler -> CascState]
    BY DEF ClusterInv, RInv, RegistryTypeOK
  <1>1. ASSUME NEW a \in Agent, RegisterWrite(a) PROVE LiveNews /\ ResumeNews
    <2>1. cr[a] # "none"
      BY <1>1 DEF RegisterWrite, ClusterInv, ClusterOK
    <2> QED BY <1>0, <1>1, <2>1 DEF RegisterWrite, LiveNews, ResumeNews, Resumes
  <1>2. ASSUME NEW a \in Agent, RegisterFails(a) \/ PatchCleanup(a)
        PROVE  LiveNews /\ ResumeNews
    BY <1>2, Quietly DEF RegisterFails, PatchCleanup
  <1>3. ASSUME NEW h \in Handler, NEW root \in Agent,
               NEW op \in {"revoke", "resume"}, CascadeStart(h, op, root)
        PROVE  LiveNews /\ ResumeNews
    BY <1>0, <1>3 DEF CascadeStart, CascIdle, LiveNews, ResumeNews, Resumes
  <1>4. ASSUME NEW h \in Handler, NEW n \in Agent, SubtreeStep(h, n)
        PROVE  LiveNews /\ ResumeNews
    <2>1. /\ casc'[h].pc \in {"nodes", "walk"} /\ status' = status
          /\ \A g \in Handler : g # h => casc'[g] = casc[g]
      BY <1>0, <1>4 DEF SubtreeStep, CascState
    <2> QED BY <2>1 DEF LiveNews, ResumeNews, Resumes
  <1>5. ASSUME NEW h \in Handler, NEW n \in Agent, NodeRead(h, n)
        PROVE  LiveNews /\ ResumeNews
    <2>1. /\ status' = status /\ \A g \in Handler : g # h => casc'[g] = casc[g]
          /\ \/ casc'[h].pc = "nodes"
             \/ /\ casc'[h].cur = n /\ casc'[h].op = casc[h].op
                /\ casc[h].op # "revoke" => status[n] = "revoked"
      BY <1>0, <1>5 DEF NodeRead, CascState
    <2> QED BY <2>1 DEF LiveNews, ResumeNews, Resumes
  <1>6. ASSUME NEW h \in Handler, NodeWrite(h) PROVE LiveNews /\ ResumeNews
    <2>1. /\ casc[h].cur \in Agent /\ casc[h].op \in {"revoke", "resume"}
          /\ casc[h].pc = "write" /\ casc[h] \in CascState
      BY <1>0, <1>6 DEF NodeWrite, ClusterInv, RInv, CascOK, CascState
    <2>2. /\ casc'[h].pc = "tuple"
          /\ \A g \in Handler : g # h => casc'[g] = casc[g]
      BY <1>0, <1>6, <2>1 DEF NodeWrite, CascState
    <2>3. LiveNews
      BY <1>0, <1>6, <2>1 DEF NodeWrite, LiveNews, Resumes, Live
    <2> QED BY <2>2, <2>3 DEF ResumeNews, Resumes
  <1>7. ASSUME NEW h \in Handler, NodeTuple(h) \/ CascadeEnd(h)
        PROVE  LiveNews /\ ResumeNews
    <2>1. /\ status' = status /\ casc'[h].pc # "write"
          /\ \A g \in Handler : g # h => casc'[g] = casc[g]
      BY <1>0, <1>7, SMTT(30) DEF NodeTuple, CascadeEnd, CascState, CascIdle
    <2> QED BY <2>1 DEF LiveNews, ResumeNews, Resumes
  <1> QED BY <1>1, <1>2, <1>3, <1>4, <1>5, <1>6, <1>7 DEF RegistryStep, Cascade

\* The same for every step of the cluster.
LEMMA ClusterNews ==
  ASSUME ClusterInv, ClusterStep
  PROVE  LiveNews /\ ResumeNews
  <1>0. /\ "failed" \in Reports /\ "completed" \in Reports
        /\ "active" \in Reports /\ "awaiting-consent" \in Reports
        /\ "failed" \in Exited /\ "completed" \in Exited
    BY DEF Reports, Exited, Live
  <1>1. ASSUME NEW a \in Agent, NEW p \in Agent \cup {NoAgent},
               SpawnPreregister(a, p)
        PROVE  LiveNews /\ ResumeNews
    BY <1>1 DEF SpawnPreregister, Preregister, LiveNews, ResumeNews, Resumes,
                Live, ClusterInv, RInv, RegistryTypeOK
  <1>2. CASE Orchestrator
    BY <1>1, <1>2, Quietly DEF Orchestrator, SpawnCreate, SpawnCreateFails,
                               DismissAgent, registryVars
  <1>3. CASE Operator
    BY <1>0, <1>3, Quietly, ReportNews
    DEF Operator, AddFinalizer, handleNew, handleRunning, handleDeletion,
        registryVars
  <1>4. CASE Kubernetes
    BY <1>4, Quietly DEF Kubernetes, PodEnds, PodCollected, registryVars
  <1>5. ASSUME NEW a \in Agent, NEW st \in Reports, NEW to,
               NEW from \in {"registered", "waiting", "serving"},
               SidecarPatches(a, from, st, to)
        PROVE  LiveNews /\ ResumeNews
    <2>1. cr[a] # "none" /\ Report(a, st)
      BY <1>5 DEF SidecarPatches, ClusterInv, ClusterOK
    <2> QED BY <2>1, ReportNews
  <1>6. CASE Sidecar
    BY <1>0, <1>5, <1>6, Quietly
    DEF Sidecar, SidecarStarts, SidecarRegisters, RegisterRead,
        SidecarRegistered, RegisterTuple, SidecarAsks, SidecarGranted,
        failConsent, registryVars
  <1> QED BY <1>2, <1>3, <1>4, <1>6, RegistryStepNews DEF ClusterStep

\* A record the sweep would fail has, or had, a workload, or was revoked
\* before it got one; what the sweep is about to fail has lost its workload.
Placed(a) == cr[a] # "none" \/ a \in early

StaleInv ==
  /\ ClusterInv
  /\ sweep \in SweepState
  /\ rebuilds \in 0..MaxRebuilds
  /\ early \in SUBSET Agent
  /\ \A a \in Agent : status[a] \in staleSweepStatuses => Placed(a)
  /\ \A h \in Handler, a \in Agent : Resumes(h, a) => Placed(a)
  /\ sweep.pc = "listed" => \A a \in sweep.stale : Placed(a)
  /\ sweep.pc = "failing" =>
       \A a \in sweep.stale : cr[a] = "gone" \/ a \in early

\* What the sweep's own state has to satisfy for the invariant to go on.
LEMMA StaleFrame ==
  ASSUME StaleInv, ClusterInv', CrKept, LiveNews, ResumeNews, StaleHistory,
         sweep' \in SweepState, rebuilds' \in 0..MaxRebuilds,
         \/ sweep'.pc = sweep.pc /\ sweep'.stale \subseteq sweep.stale
         \/ sweep'.pc = "idle"
         \/ sweep'.pc = "listed" /\ sweep'.stale \subseteq Swept
         \/ /\ sweep.pc = "listed" /\ sweep'.pc = "failing" /\ cr' = cr
            /\ sweep'.stale \subseteq sweep.stale \ Backed
  PROVE  StaleInv'
  <1>1. /\ early' \in SUBSET Agent /\ early \subseteq early'
        /\ \A a \in Agent : status'[a] = "revoked" /\ cr[a] = "none"
                              => a \in early'
    BY DEF StaleHistory, StaleInv
  <1>2. \A a \in Agent : Placed(a) => Placed(a)'
    BY <1>1 DEF Placed, CrKept
  <1>3. \A a \in Agent : status[a] \in staleSweepStatuses => Placed(a)
    BY DEF StaleInv
  <1>4. ASSUME NEW a \in Agent, status'[a] \in staleSweepStatuses
        PROVE  Placed(a)'
    <2>1. CASE status'[a] = "revoked"
      BY <1>1, <2>1 DEF Placed, CrKept
    <2>2. CASE status'[a] \in Live
      <3>1. Placed(a)
        BY <1>3, <2>2 DEF LiveNews, StaleInv, staleSweepStatuses, Live, Placed
      <3> QED BY <1>2, <3>1
    <2> QED BY <1>4, <2>1, <2>2 DEF staleSweepStatuses, Live
  <1>5. ASSUME NEW h \in Handler, NEW a \in Agent, Resumes(h, a)'
        PROVE  Placed(a)'
    <2>1. Placed(a)
      BY <1>3, <1>5 DEF ResumeNews, StaleInv, staleSweepStatuses
    <2> QED BY <1>2, <2>1
  <1>6. sweep'.stale \subseteq Agent /\ sweep.stale \subseteq Agent
    BY DEF StaleInv, SweepState
  <1>7. ASSUME sweep'.pc = "listed", NEW a \in sweep'.stale PROVE Placed(a)'
    <2>1. Placed(a)
      BY <1>3, <1>7 DEF StaleInv, Swept
    <2> QED BY <1>2, <1>6, <2>1
  <1>8. ASSUME sweep'.pc = "failing", NEW a \in sweep'.stale
        PROVE  cr'[a] = "gone" \/ a \in early'
    <2>1. CASE sweep.pc = "failing" /\ a \in sweep.stale
      BY <1>1, <1>6, <2>1 DEF StaleInv, CrKept
    <2>2. CASE sweep.pc = "listed" /\ a \in sweep.stale \ Backed /\ cr' = cr
      BY <1>1, <1>6, <2>2 DEF StaleInv, Backed, Placed, ClusterInv,
                              ClusterTypeOK
    <2> QED BY <1>8, <2>1, <2>2
  <1> QED BY <1>1, <1>4, <1>5, <1>7, <1>8 DEF StaleInv

\* Every step of the sweep, and of the cluster around it, keeps StaleInv.
LEMMA StaleNextKeeps ==
  ASSUME StaleInv, StaleNext
  PROVE  StaleInv'
  <1>0. /\ StaleHistory /\ ClusterInv /\ sweep \in SweepState
        /\ rebuilds \in 0..MaxRebuilds
    BY DEF StaleNext, StaleInv
  <1>1. CASE ClusterStep /\ UNCHANGED <<sweep, rebuilds>>
    <2>1. ClusterInv' /\ CrKept /\ LiveNews /\ ResumeNews
      BY <1>0, <1>1, ClusterKeeps, ClusterCrKept, ClusterNews
    <2> QED BY <1>0, <1>1, <2>1, StaleFrame
  <1>2. ASSUME NEW a \in Agent, DeleteCR(a), UNCHANGED <<sweep, rebuilds>>
        PROVE  StaleInv'
    <2>1. ClusterInv' /\ LiveNews /\ ResumeNews
      BY <1>0, <1>2, DeleteCRKeeps, Quietly DEF DeleteCR, registryVars
    <2>2. CrKept
      BY <1>0, <1>2 DEF DeleteCR, DeletedCR, CrKept, ClusterInv, ClusterTypeOK
    <2> QED BY <1>0, <1>2, <2>1, <2>2, StaleFrame
  <1>3. ASSUME NEW a \in Agent, DismissAgent(a), UNCHANGED clusterVars,
               UNCHANGED <<sweep, rebuilds>>
        PROVE  StaleInv'
    <2>1. RegistryMoves
      BY <1>3 DEF RegistryMoves, RegistryAct, AgentAct
    <2>2. ClusterInv'
      BY <1>0, <1>3, <2>1, AsideKeeps DEF DismissAgent
    <2>3. LiveNews /\ ResumeNews /\ CrKept
      BY <1>3, Quietly DEF DismissAgent, CrKept, clusterVars
    <2> QED BY <1>0, <1>3, <2>2, <2>3, StaleFrame
  <1>4. ASSUME UNCHANGED <<registryVars, clusterVars, rebuilds>>
        PROVE  ClusterInv' /\ LiveNews /\ ResumeNews /\ CrKept /\ cr' = cr
               /\ rebuilds' \in 0..MaxRebuilds
    <2>1. ClusterInv'
      BY <1>0, <1>4, AsideKeeps DEF RegistryMoves, registryVars
    <2> QED BY <1>0, <1>4, <2>1, Quietly DEF registryVars, clusterVars, CrKept
  <1>5. CASE SweepListAgents
    <2>1. sweep' = [pc |-> "listed", stale |-> Swept]
      BY <1>5 DEF SweepListAgents
    <2>2. /\ sweep' \in SweepState /\ sweep'.pc = "listed"
          /\ sweep'.stale \subseteq Swept
      BY <2>1 DEF SweepState, Swept
    <2> QED BY <1>0, <1>4, <1>5, <2>2, StaleFrame DEF SweepListAgents
  <1>6. CASE SweepListWorkloads
    <2>1. /\ sweep' = [pc |-> "failing", stale |-> sweep.stale \ Backed]
          /\ sweep.pc = "listed"
      BY <1>6 DEF SweepListWorkloads
    <2>2. /\ sweep' \in SweepState /\ sweep'.pc = "failing"
          /\ sweep'.stale \subseteq sweep.stale \ Backed
      BY <1>0, <2>1 DEF SweepState
    <2> QED BY <1>0, <1>4, <1>6, <2>1, <2>2, StaleFrame DEF SweepListWorkloads
  <1>7. CASE SweepEnd
    <2>1. sweep' \in SweepState /\ sweep'.pc = "idle"
      BY <1>7 DEF SweepEnd, SweepIdle, SweepState
    <2> QED BY <1>0, <1>4, <1>7, <2>1, StaleFrame DEF SweepEnd
  <1>8. ASSUME NEW a \in Agent, SweepFail(a) PROVE StaleInv'
    <2>1. "failed" \in Reports /\ "failed" \in Exited /\ Report(a, "failed")
      BY <1>8 DEF Reports, Exited, SweepFail
    <2>2. LiveNews /\ ResumeNews
      BY <1>0, <2>1, ReportNews
    <2>3. RegistryMoves /\ \A b \in Agent :
             /\ status'[b] = "none" <=> status[b] = "none"
             /\ reg'[b] = reg[b]
      BY <1>0, <2>1, ReportActs, ReportKeeps
    <2>4. ClusterInv' /\ CrKept
      BY <1>0, <1>8, <2>3, AsideKeeps DEF SweepFail, CrKept, clusterVars
    <2>5. /\ sweep' \in SweepState /\ sweep'.pc = sweep.pc
          /\ sweep'.stale \subseteq sweep.stale /\ rebuilds' = rebuilds
      BY <1>0, <1>8 DEF SweepFail, SweepState
    <2> QED BY <1>0, <2>2, <2>4, <2>5, StaleFrame
  <1>9. CASE Rebuild
    <2>1. ClusterInv'
      BY <1>0, <1>9, RebuildKeeps
    <2>2. sweep' \in SweepState /\ sweep'.pc = "idle"
          /\ rebuilds' \in 0..MaxRebuilds
      BY <1>0, <1>9, RebuildsAreBounded, SMTT(30)
      DEF Rebuild, SweepIdle, SweepState
    <2>3. CrKept /\ LiveNews
      BY <1>9 DEF Rebuild, CrKept, LiveNews
    <2>4. ResumeNews
      BY <1>9 DEF Rebuild, ResumeNews, Resumes, CascIdle
    <2> QED BY <1>0, <2>1, <2>2, <2>3, <2>4, StaleFrame
  <1> QED BY <1>1, <1>2, <1>3, <1>5, <1>6, <1>7, <1>8, <1>9
          DEF StaleNext, Sweep

\* A step that changes none of the sweep's variables keeps StaleInv.
LEMMA StaleStutters ==
  ASSUME StaleInv, UNCHANGED staleVars
  PROVE  StaleInv'
  <1>1. ClusterInv'
    BY AsideKeeps DEF StaleInv, staleVars, registryVars, RegistryMoves
  <1> QED BY <1>1 DEF StaleInv, staleVars, sweepVars, registryVars,
             clusterVars, Placed, Resumes

\* StaleInv holds of every reachable state of the cluster with its sweep.
THEOREM StaleInvariant == StaleSpec => []StaleInv
  <1>1. StaleInit => StaleInv
    <2> SUFFICES ASSUME StaleInit PROVE StaleInv
      OBVIOUS
    <2>1. ClusterInv
      BY ClusterInitHolds DEF StaleInit
    <2>2. sweep \in SweepState /\ sweep.pc = "idle"
      BY DEF StaleInit, SweepIdle, SweepState
    <2>3. rebuilds \in 0..MaxRebuilds
      BY RebuildsAreBounded, SMTT(30) DEF StaleInit
    <2>4. \A h \in Handler, a \in Agent : ~ Resumes(h, a)
      BY DEF StaleInit, RegistryInit, Resumes, CascIdle
    <2>5. \A a \in Agent : status[a] \notin staleSweepStatuses
      BY DEF StaleInit, RegistryInit, staleSweepStatuses
    <2> QED BY <2>1, <2>2, <2>3, <2>4, <2>5 DEF StaleInit, StaleInv
  <1>2. StaleInv /\ [StaleNext]_staleVars => StaleInv'
    BY StaleNextKeeps, StaleStutters
  <1> QED BY <1>1, <1>2, PTL DEF StaleSpec

\* The registry, the cluster and the sweep stay well typed: among other
\* things every subtree walk stays among the agents.
THEOREM StaleTypeCorrect == StaleSpec => []StaleTypeOK
  <1>1. StaleInv => StaleTypeOK
    BY DEF StaleInv, StaleTypeOK, ClusterInv, RInv
  <1> QED BY StaleInvariant, <1>1, PTL

\* With orchestrator, operator, sidecars, sweep and rebuilds around it, the
\* enabled tuple still follows the status.
THEOREM TupleFollowsStatusInCluster == StaleSpec => []EnabledOnlyWhileLive
  <1>1. StaleInv => EnabledOnlyWhileLive
    BY SettledIsLive DEF StaleInv, ClusterInv
  <1> QED BY StaleInvariant, <1>1, PTL

\* The sweep fails no agent that has its workload, except one revoked before
\* the workload was created.
THEOREM SweepSpares == StaleSpec => SweepSparesUnlessRevokedEarly
  <1> DEFINE Spared == \A a \in Agent :
                         FailedBySweep(a) /\ cr[a] = "live" => a \in early
  <1>1. StaleInv /\ [StaleNext]_staleVars => [Spared]_staleVars
    BY DEF StaleInv, FailedBySweep
  <1>2. StaleSpec => [][Spared]_staleVars
    BY StaleInvariant, <1>1, PTL DEF StaleSpec
  <1> QED BY <1>2 DEF SweepSparesUnlessRevokedEarly

-----------------------------------------------------------------------------
(* The teardown of a subtree                                                 *)

\* The agents a pass need not delete: without a workload, or with one created
\* since the pass began.
QuietOnes == {a \in Agent : cr[a] \in {"none", "gone"} \/ a \in born}

\* What the current pass over the subtree of r has established.
Passes(r) ==
  del.root = r =>
    /\ del.pc = "walk" =>
         /\ r \in del.nodes \cup del.queue
         /\ \A n \in del.nodes : \A c \in Children(n) :
              c \in del.nodes \cup del.queue \/ Below(c) \subseteq QuietOnes
    /\ del.pc = "nodes" /\ ~ del.deleted /\ del.failed = {} =>
         Below(r) \subseteq del.nodes \cup QuietOnes
    /\ Converged => Below(r) \subseteq QuietOnes

DeletionInv ==
  /\ ClusterInv
  /\ del \in DelState
  /\ born \in SUBSET Agent
  /\ del.pc \in {"walk", "nodes"} \/ del.end = "converged" => del.root # NoAgent
  /\ \A r \in Agent : Passes(r)

\* While a pass goes on, what is quiet stays quiet, and an agent that gets its
\* record now has no workload yet.
LEMMA QuietStep ==
  ASSUME DeletionInv, DeletionHistory, CrKept, ~ PassStarts
  PROVE  /\ QuietOnes \subseteq QuietOnes'
         /\ \A x \in Agent : Fresh(x) => x \in QuietOnes'
  <1>1. born' = born \cup {a \in Agent : cr[a] = "none" /\ cr'[a] = "live"}
    BY DEF DeletionHistory
  <1>2. QuietOnes \subseteq QuietOnes'
    BY <1>1 DEF QuietOnes, CrKept
  <1>3. \A x \in Agent : Fresh(x) => x \in QuietOnes
    BY DEF Fresh, QuietOnes, DeletionInv, ClusterInv, ClusterOK
  <1> QED BY <1>2, <1>3

\* The history of agents created during a deletion names agents only.
LEMMA BornType ==
  ASSUME DeletionInv, DeletionHistory
  PROVE  born' \in SUBSET Agent
  BY DEF DeletionInv, DeletionHistory

\* A step of the cluster.
LEMMA PassesOther ==
  ASSUME DeletionInv, DeletionHistory, TreeStep, CrKept, del' = del,
         NEW r \in Agent
  PROVE  Passes(r)'
  <1>1. /\ QuietOnes \subseteq QuietOnes'
        /\ \A x \in Agent : Fresh(x) => x \in QuietOnes'
    BY QuietStep DEF PassStarts
  <1>2. Passes(r) /\ RInv
    BY DEF DeletionInv, ClusterInv
  <1>3. ASSUME Below(r) \subseteq del.nodes \cup QuietOnes
        PROVE  Below(r)' \subseteq del.nodes \cup QuietOnes'
    <2>1. \A x \in Below(r)' : x \in Agent /\ (x \in Below(r) \/ Fresh(x))
      BY DEF TreeStep, Below
    <2> QED BY <1>1, <1>3, <2>1
  <1>4. ASSUME Below(r) \subseteq QuietOnes
        PROVE  Below(r)' \subseteq QuietOnes'
    BY <1>1, <1>2, <1>4, SubtreeKept
  <1>5. ASSUME del.root = r, del.pc = "walk", NEW n \in del.nodes,
               NEW c \in Children(n)', c \notin del.nodes \cup del.queue
        PROVE  Below(c)' \subseteq QuietOnes'
    <2>1. n \in Agent /\ c \in Agent
      BY DEF DeletionInv, DelState, Children
    <2>2. Below(c) \subseteq QuietOnes \/ Fresh(c)
      BY <1>2, <1>5, <2>1 DEF Passes, TreeStep
    <2> QED BY <1>1, <1>2, <2>1, <2>2, SubtreeKept
  <1>6. Converged' <=> Converged
    BY DEF Converged
  <1> QED BY <1>2, <1>3, <1>4, <1>5, <1>6 DEF Passes

\* One ListChildren of the walk.
LEMMA PassesWalk ==
  ASSUME DeletionInv, DeletionHistory, NEW n \in Agent, DeleteWalk(n),
         NEW r \in Agent
  PROVE  Passes(r)'
  <1> SUFFICES ASSUME del'.root = r PROVE Passes(r)'
    BY DEF Passes
  <1> DEFINE seen == del.nodes \cup {n}
             rest == (del.queue \cup Children(n)) \ seen
  <1>1. del \in DelState
    BY DEF DeletionInv
  <1>2. /\ del.pc = "walk" /\ n \in del.queue
        /\ del'.nodes = seen /\ del'.queue = rest
        /\ del'.pc = IF rest = {} THEN "nodes" ELSE "walk"
        /\ del'.root = del.root /\ del'.pass = del.pass
        /\ UNCHANGED <<status, parent, cr>>
    BY <1>1 DEF DeleteWalk, DelState, registryVars, clusterVars
  <1>3. QuietOnes' = QuietOnes /\ QuietOnes \in SUBSET Agent
        /\ seen \in SUBSET Agent
    <2>1. ~ PassStarts
      BY <1>2 DEF PassStarts
    <2>2. born' = born
      BY <1>2, <2>1 DEF DeletionHistory, DeletionInv
    <2> QED BY <1>1, <1>2, <2>2 DEF QuietOnes, DelState
  <1>4. /\ r \in seen \cup rest
        /\ \A m \in seen : \A c \in Children(m) :
             c \in seen \cup rest \/ Below(c) \subseteq QuietOnes
    BY <1>2 DEF DeletionInv, Passes
  <1> HIDE DEF seen, rest
  <1>5. CASE rest = {}
    <2>1. Below(r) \subseteq seen \cup QuietOnes
      BY <1>3, <1>4, <1>5, WalkOver
    <2> QED BY <1>2, <1>3, <1>5, <2>1, Unmoved DEF Passes, Converged
  <1>6. CASE rest # {}
    <2>1. \A m \in seen : Children(m)' = Children(m)
      BY <1>2, <1>3, Unmoved
    <2>2. \A m \in seen : \A c \in Children(m) : c \in Agent
      BY DEF Children
    <2>3. \A m \in seen : \A c \in Children(m)' :
            c \in seen \cup rest \/ Below(c)' \subseteq QuietOnes'
      BY <1>2, <1>3, <1>4, <2>1, <2>2, Unmoved, SMTT(30)
    <2> QED BY <1>2, <1>4, <1>6, <2>3 DEF Passes, Converged
  <1> QED BY <1>5, <1>6

\* One k8s.Delete.
LEMMA PassesNode ==
  ASSUME DeletionInv, DeletionHistory, NEW n \in Agent, DeleteNode(n),
         NEW r \in Agent
  PROVE  Passes(r)'
  <1> SUFFICES ASSUME del'.root = r PROVE Passes(r)'
    BY DEF Passes
  <1>1. del \in DelState /\ cr \in [Agent -> {"none", "live", "deleting", "gone"}]
    BY DEF DeletionInv, ClusterInv, ClusterTypeOK
  <1>2. /\ del.pc = "nodes" /\ del'.pc = "nodes" /\ del'.root = del.root
        /\ del'.nodes = del.nodes \ {n}
        /\ UNCHANGED <<status, parent>>
        /\ \/ del'.deleted
           \/ del'.failed # {}
           \/ /\ cr[n] \in {"none", "gone"} /\ cr' = cr
              /\ del'.deleted = del.deleted /\ del'.failed = del.failed
    BY <1>1 DEF DeleteNode, DelState, registryVars
  <1>3. CASE del'.deleted \/ del'.failed # {}
    BY <1>2, <1>3 DEF Passes, Converged
  <1>4. CASE /\ cr[n] \in {"none", "gone"} /\ cr' = cr
             /\ del'.deleted = del.deleted /\ del'.failed = del.failed
    <2>1. born' = born /\ n \in QuietOnes
      BY <1>2, <1>4 DEF DeletionHistory, DeletionInv, PassStarts, QuietOnes
    <2>2. QuietOnes' = QuietOnes
      BY <1>4, <2>1 DEF QuietOnes
    <2>3. del.deleted \/ del.failed # {}
          \/ Below(r) \subseteq del.nodes \cup QuietOnes
      BY <1>2 DEF DeletionInv, Passes
    <2>4. del.deleted \/ del.failed # {}
          \/ Below(r)' \subseteq del'.nodes \cup QuietOnes'
      BY <1>2, <2>1, <2>2, <2>3, Unmoved
    <2> QED BY <1>2, <1>4, <2>4 DEF Passes, Converged
  <1> QED BY <1>2, <1>3, <1>4

\* The end of a pass, and the steps that begin or abandon the deletion.
LEMMA PassesEnd ==
  ASSUME DeletionInv, DeletionHistory, DeletePass, NEW r \in Agent
  PROVE  Passes(r)'
  <1> SUFFICES ASSUME del'.root = r PROVE Passes(r)'
    BY DEF Passes
  <1>1. del \in DelState /\ del.pc = "nodes" /\ del.nodes = {}
        /\ UNCHANGED <<status, parent, cr>>
    BY DEF DeletionInv, DeletePass, registryVars, clusterVars
  <1>2. CASE ~ del.deleted
    <2>1. del' = Answer("converged")
      BY <1>2 DEF DeletePass
    <2>2. /\ del'.pc = "replied" /\ del'.root = del.root
          /\ del'.failed = del.failed
      BY <2>1 DEF Answer, DelIdle
    <2>3. QuietOnes' = QuietOnes
      BY <1>1, <2>2 DEF DeletionHistory, PassStarts, DeletionInv, QuietOnes
    <2>4. del.failed = {} => Below(r) \subseteq QuietOnes
      BY <1>1, <1>2, <2>2 DEF DeletionInv, Passes
    <2> QED BY <1>1, <2>2, <2>3, <2>4, Unmoved DEF Passes, Converged
  <1>3. CASE del' = Answer("stopped")
    BY <1>3 DEF Answer, DelIdle, Passes, Converged
  <1>4. CASE del' = [DelIdle EXCEPT !.pc = "replied", !.end = "aborted"]
    BY <1>4 DEF DelIdle, Passes, Converged
  <1>5. CASE del' = [del EXCEPT !.pc = "walk", !.pass = @ + 1,
                                !.deleted = FALSE, !.queue = {del.root}]
    <2>1. /\ del'.pc = "walk" /\ del'.nodes = {} /\ del'.queue = {del.root}
          /\ del'.root = del.root
      BY <1>1, <1>5 DEF DelState
    <2> QED BY <2>1 DEF Passes, Converged
  <1> QED BY <1>2, <1>3, <1>4, <1>5 DEF DeletePass

\* A pass that starts or fails owes nothing yet.
LEMMA PassesRest ==
  ASSUME NEW r \in Agent, NEW root \in Agent,
         DeleteStart(root) \/ DeleteWalkFails
  PROVE  Passes(r)'
  <1>1. CASE DeleteStart(root)
    <2>1. /\ del'.pc = "walk" /\ del'.nodes = {} /\ del'.queue = {root}
          /\ del'.root = root
      BY <1>1 DEF DeleteStart, DelIdle
    <2> QED BY <2>1 DEF Passes, Converged
  <1>2. CASE DeleteWalkFails
    <2>1. del' = DelIdle \/ del' = Answer("stopped")
      BY <1>2 DEF DeleteWalkFails
    <2>2. DelIdle.pc = "idle" /\ DelIdle.end = ""
      BY DEF DelIdle
    <2>3. Answer("stopped").pc = "replied" /\ Answer("stopped").end = "stopped"
      BY DEF DelIdle, Answer
    <2> QED BY <2>1, <2>2, <2>3 DEF Passes, Converged
  <1> QED BY <1>1, <1>2

\* What the handler itself does to the cluster is to delete workloads.
LEMMA TeardownKeeps ==
  ASSUME ClusterInv, Teardown
  PROVE  ClusterInv' /\ UNCHANGED <<status, parent>>
  <1>1. ASSUME NEW n \in Agent, DeleteNode(n)
        PROVE  ClusterInv' /\ UNCHANGED <<status, parent>>
    <2>1. RInv'
      BY <1>1, RegistryStutters DEF DeleteNode, ClusterInv
    <2>2. ClusterTypeOK' /\ \A b \in Agent : cr'[b] = "none" <=> cr[b] = "none"
      BY <1>1 DEF DeleteNode, DeletedCR, ClusterInv, ClusterTypeOK
    <2>3. \A b \in Agent : ClusterOK(b)'
      BY <1>1, <2>2 DEF DeleteNode, registryVars, ClusterInv, ClusterOK
    <2> QED BY <1>1, <2>1, <2>2, <2>3 DEF ClusterInv, DeleteNode, registryVars
  <1>2. CASE UNCHANGED <<registryVars, clusterVars>>
    BY <1>2, AsideKeeps DEF registryVars, RegistryMoves
  <1> QED BY <1>1, <1>2 DEF Teardown, DeleteStart, DeleteWalk,
             DeleteWalkFails, DeletePass

\* The handler's own state stays well formed.
LEMMA DelTypes ==
  ASSUME DeletionInv, Teardown
  PROVE  /\ del' \in DelState
         /\ del'.pc \in {"walk", "nodes"} \/ del'.end = "converged"
              => del'.root # NoAgent
  <1>0. /\ del \in DelState
        /\ del.pc \in {"walk", "nodes"} => del.root # NoAgent
        /\ maxPasses \in Nat /\ 0 \in 0..(maxPasses - 1)
    BY SomePass, SMTT(30) DEF DeletionInv
  <1>1. ASSUME NEW n \in Agent, DeleteStart(n)
        PROVE  del' \in DelState /\ del'.root # NoAgent
    BY <1>0, <1>1, NoAgentIsNotAnAgent DEF DeleteStart, DelIdle, DelState
  <1>2. ASSUME NEW n \in Agent, DeleteWalk(n)
        PROVE  del' \in DelState /\ del'.root # NoAgent
    BY <1>0, <1>2 DEF DeleteWalk, DelState, Children
  <1>3. ASSUME NEW n \in Agent, DeleteNode(n)
        PROVE  del' \in DelState /\ del'.root # NoAgent
    <2>1. CASE del' = [del EXCEPT !.nodes = @ \ {n}, !.deleted = TRUE]
      BY <1>0, <1>3, <2>1 DEF DeleteNode, DelState
    <2>2. CASE del' = [del EXCEPT !.nodes = @ \ {n}]
      BY <1>0, <1>3, <2>2 DEF DeleteNode, DelState
    <2>3. CASE del' = [del EXCEPT !.nodes = @ \ {n}, !.failed = @ \cup {n}]
      BY <1>0, <1>3, <2>3 DEF DeleteNode, DelState
    <2> QED BY <1>3, <2>1, <2>2, <2>3 DEF DeleteNode
  <1>4. ASSUME NEW e \in {"converged", "stopped"}, del' = Answer(e)
        PROVE  del' \in DelState /\ del'.pc = "replied" /\ del'.end = e
               /\ del'.root = del.root
    BY <1>0, <1>4 DEF Answer, DelIdle, DelState
  <1>5. CASE DeleteWalkFails
    <2>1. DelIdle \in DelState /\ DelIdle.pc = "idle" /\ DelIdle.end = ""
      BY <1>0 DEF DelIdle, DelState
    <2> QED BY <1>4, <1>5, <2>1 DEF DeleteWalkFails
  <1>6. CASE DeletePass
    <2>1. CASE del' = [DelIdle EXCEPT !.pc = "replied", !.end = "aborted"]
      BY <1>0, <2>1 DEF DelIdle, DelState
    <2>2. CASE /\ del.pass # maxPasses - 1
               /\ del' = [del EXCEPT !.pc = "walk", !.pass = @ + 1,
                                     !.deleted = FALSE, !.queue = {del.root}]
      <3>0. del.pass \in 0..(maxPasses - 1)
        BY <1>0 DEF DelState
      <3>1. del.pass + 1 \in 0..(maxPasses - 1)
        BY <1>0, <2>2, <3>0, SMTT(30)
      <3>2. del.root \in Agent
        BY <1>0, <1>6 DEF DeletePass, DelState
      <3> QED BY <1>0, <2>2, <3>1, <3>2, NoAgentIsNotAnAgent DEF DelState
    <2> QED BY <1>0, <1>4, <1>6, <2>1, <2>2 DEF DeletePass
  <1> QED BY <1>1, <1>2, <1>3, <1>5, <1>6 DEF Teardown

\* A step of the cluster, or of the handler, keeps the invariant.
LEMMA DeletionNextKeeps ==
  ASSUME DeletionInv, DeletionNext
  PROVE  DeletionInv'
  <1>0. ClusterInv /\ DeletionHistory
    BY DEF DeletionInv, DeletionNext
  <1>1. born' \in SUBSET Agent
    BY <1>0, BornType
  <1>2. CASE ClusterStep /\ UNCHANGED del
    <2>1. ClusterInv' /\ TreeStep /\ CrKept
      BY <1>0, <1>2, ClusterKeeps, ClusterCrKept
    <2>2. \A r \in Agent : Passes(r)'
      BY <1>0, <1>2, <2>1, PassesOther
    <2> QED BY <1>1, <1>2, <2>1, <2>2 DEF DeletionInv
  <1>3. CASE Teardown
    <2>1. ClusterInv'
      BY <1>0, <1>3, TeardownKeeps
    <2>2. \A r \in Agent : Passes(r)'
      BY <1>0, <1>3, PassesWalk, PassesNode, PassesEnd, PassesRest
         DEF Teardown
    <2> QED BY <1>1, <1>3, <2>1, <2>2, DelTypes DEF DeletionInv
  <1> QED BY <1>2, <1>3 DEF DeletionNext

\* Nothing happens: nothing is lost.
LEMMA DeletionStutters ==
  ASSUME DeletionInv, UNCHANGED deletionVars
  PROVE  DeletionInv'
  <1>1. ClusterInv' /\ UNCHANGED <<status, parent, cr, del, born>>
    BY AsideKeeps DEF DeletionInv, deletionVars, registryVars, clusterVars,
                      teardownVars, RegistryMoves
  <1>2. QuietOnes' = QuietOnes
    BY <1>1 DEF QuietOnes
  <1>3. ASSUME NEW r \in Agent PROVE Passes(r)'
    <2>1. /\ \A n \in del.nodes : n \in Agent
          /\ \A n \in Agent : \A c \in Children(n) : c \in Agent
      BY DEF DeletionInv, DelState, Children
    <2>2. Passes(r)
      BY DEF DeletionInv
    <2> QED BY <1>1, <1>2, <2>1, <2>2, Unmoved, SMTT(30) DEF Passes, Converged
  <1> QED BY <1>1, <1>3 DEF DeletionInv

\* DeletionInv holds of every reachable state of the cluster with a DELETE.
THEOREM DeletionInvariant == DeletionSpec => []DeletionInv
  <1>1. DeletionInit => DeletionInv
    <2> SUFFICES ASSUME DeletionInit PROVE DeletionInv
      OBVIOUS
    <2>1. ClusterInv
      BY ClusterInitHolds DEF DeletionInit
    <2>0. 0 \in 0..(maxPasses - 1)
      BY SomePass, SMTT(30)
    <2>2. /\ del \in DelState /\ del.pc = "idle" /\ del.end = ""
          /\ born \in SUBSET Agent
      BY <2>0 DEF DeletionInit, DelIdle, DelState
    <2> QED BY <2>1, <2>2 DEF DeletionInv, Passes, Converged
  <1>2. DeletionInv /\ [DeletionNext]_deletionVars => DeletionInv'
    BY DeletionNextKeeps, DeletionStutters
  <1> QED BY <1>1, <1>2, PTL DEF DeletionSpec

\* A DELETE that converged leaves no workload of the subtree behind, except
\* those created since its last pass began, for any number of passes and
\* agents and however the pods being deleted go on spawning.
THEOREM DeleteConverges == DeletionSpec => []ConvergedLeavesOnlyNewborns
  <1>1. ASSUME DeletionInv PROVE ConvergedLeavesOnlyNewborns
    <2> SUFFICES ASSUME Converged, NEW a \in Below(del.root),
                        cr[a] \in {"live", "deleting"}
                 PROVE  a \in born
      BY DEF ConvergedLeavesOnlyNewborns
    <2>1. del.root \in Agent
      BY <1>1 DEF DeletionInv, DelState, Converged
    <2> QED BY <1>1, <2>1 DEF DeletionInv, Passes, QuietOnes
  <1> QED BY DeletionInvariant, <1>1, PTL

\* Registration never creates a record, and no step changes the parent of an
\* agent that has one.
THEOREM ParentsAreFixed == DeletionSpec => LineageFixed
  <1> DEFINE Fixed == \A a \in Agent :
                        /\ reg[a].pc = "write" => status[a] # "none"
                        /\ status[a] # "none" => parent'[a] = parent[a]
  <1>1. ASSUME DeletionInv, [DeletionNext]_deletionVars PROVE Fixed
    <2>1. RInv /\ ClusterInv
      BY <1>1 DEF DeletionInv, ClusterInv
    <2>2. \A a \in Agent : reg[a].pc = "write" => status[a] # "none"
      BY <2>1 DEF RInv, Lineage
    <2>3. RegistryMoves \/ parent' = parent
      BY <1>1, <2>1, ClusterActs, TeardownKeeps
         DEF DeletionNext, deletionVars, registryVars
    <2>4. ASSUME NEW a \in Agent, status[a] # "none"
          PROVE  parent'[a] = parent[a]
      <3>1. CASE parent' = parent
        BY <3>1
      <3>2. CASE RegistryAct
        BY <2>1, <2>4, <3>1, <3>2, RecordsKept
           DEF Preregister, RInv, RegistryTypeOK
      <3> QED BY <2>3, <3>1, <3>2 DEF RegistryMoves, registryVars
    <2> QED BY <2>2, <2>4
  <1>2. DeletionInv /\ [DeletionNext]_deletionVars => [Fixed]_deletionVars
    BY <1>1
  <1>3. DeletionSpec => [][Fixed]_deletionVars
    BY DeletionInvariant, <1>2, PTL DEF DeletionSpec
  <1> QED BY <1>3 DEF LineageFixed
=============================================================================
