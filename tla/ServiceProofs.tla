--------------------------- MODULE ServiceProofs ---------------------------
(* Proofs about three services that share nothing: TemplateCatalog, for any  *)
(* number of types, organizations and overlapping requests, and any catalog  *)
(* to begin with; MobileGateway, for any number of users, phones,            *)
(* overlapping webhook calls and streams, failures and restarts; and the     *)
(* substrates (SubstrateEntries, SubstrateDispatch), for any number of       *)
(* agents, leaves, requests and connections and any number of failures: the  *)
(* hub pushes to the live channel, a rotation leaves one identity, workloads *)
(* keep theirs and no entry is stranded.                                     *)
EXTENDS TemplateCatalog, MobileGateway, SubstrateDispatch,
        FiniteSetTheorems, TLAPS

\* A leaf that names no prover is one for Zenon.
USE ZenonT(30)

-----------------------------------------------------------------------------
(* The template catalog                                                      *)

CatalogSpec ==
  /\ \E templates \in [AgentType -> Template], edits \in Nat, spawns \in Nat :
       CatalogInit(templates, edits, spawns)
  /\ [][CatalogNext]_catalogVars

Request == [op : {"none", "create", "status", "delete", "spawn", "remote"},
            at : {"idle", "read", "write", "template", "anchor", "policy"},
            org : Scope, type : AgentType \cup {"none"}, parent : Nat,
            new : Template, read : Template, gated : BOOLEAN]

AgentRecord == [type : AgentType, org : Scope, parent : Nat,
                gated : BOOLEAN]

\* What an edit that is about to write has established about the version it
\* read.
Warranted(r) ==
  /\ r.op = "create" =>
       /\ Defined(r.new)
       /\ Defined(r.read) => /\ r.new.org = r.read.org
                             /\ r.org \in {Global, r.read.org}
  /\ r.op = "status" => /\ r.new.status \in {"active", "disabled"}
                        /\ r.org # Global => r.read.org = r.org
  /\ r.op = "delete" => /\ r.read.status = "disabled"
                        /\ r.org \in {Global, r.read.org}

\* A request is about a type, and an edit on its way keeps the status of its
\* body.
Sane(r) ==
  /\ r.at # "idle" => r.type \in AgentType
  /\ r.at \in {"template", "anchor", "policy"} => r.op \in {"spawn", "remote"}
  /\ r.op \in {"create", "status"} => r.new.status \in {"active", "disabled"}
  /\ r.op = "create" => r.at \in {"read", "write"}
  /\ r.op = "create" /\ r.at = "read" => r.new.org = r.org

CatalogInv ==
  /\ tpl \in [AgentType -> Template]
  /\ before \in [AgentType -> Template]
  /\ call \in [CatalogCall -> Request]
  /\ records \in Seq(AgentRecord)
  /\ \A c \in CatalogCall :
       /\ Sane(call[c])
       /\ call[c].at = "write" => Warranted(call[c])

-----------------------------------------------------------------------------
\* The entries of a sequence.
LEMMA EntryOfSeq ==
  ASSUME NEW S, NEW s \in Seq(S), NEW i \in DOMAIN s
  PROVE  i \in Nat /\ s[i] \in S
BY SMTT(30)

\* A request that changes, alone, to one that is well formed and warranted.
LEMMA OneCall ==
  ASSUME CatalogInv, NEW c \in CatalogCall, NEW r \in Request, Sane(r),
         r.at = "write" => Warranted(r), call' = [call EXCEPT ![c] = r]
  PROVE  /\ call' \in [CatalogCall -> Request]
         /\ \A d \in CatalogCall : /\ Sane(call'[d])
                                   /\ call'[d].at = "write" => Warranted(call'[d])
BY DEF CatalogInv

\* What a request reads, and how it ends.
LEMMA ReadsAndEnds ==
  ASSUME CatalogInv
  PROVE  /\ \A k \in AgentType : GetTemplate(k) \subseteq Template
         /\ NoTemplate \in Template
         /\ NoCatalogCall \in Request /\ Sane(NoCatalogCall)
         /\ NoCatalogCall.at = "idle"
BY SMTT(30) DEF CatalogInv, GetTemplate, NoTemplate, NoPolicy, Template,
       DelegationPolicy, Scope, NoCatalogCall, Request, Sane

\* A store operation keeps the catalog well formed.
LEMMA StoreTyped ==
  ASSUME CatalogInv, NEW k \in AgentType, NEW t \in Template, Store(k, t)
  PROVE  tpl' \in [AgentType -> Template] /\ before' \in [AgentType -> Template]
BY DEF CatalogInv, Store

\* A request that ends keeps the invariant, whatever else it leaves alone.
LEMMA EndsInv ==
  ASSUME CatalogInv, NEW c \in CatalogCall, Ends(c), Keeps
  PROVE  CatalogInv'
<1>1. /\ call' \in [CatalogCall -> Request]
      /\ \A d \in CatalogCall : /\ Sane(call'[d])
                                /\ call'[d].at = "write" => Warranted(call'[d])
  BY ReadsAndEnds, OneCall DEF Ends
<1> QED BY <1>1 DEF CatalogInv, Keeps

-----------------------------------------------------------------------------
\* An edit or a spawn begins with a request that has read nothing.
LEMMA BeginsInv ==
  ASSUME CatalogInv, NEW c \in CatalogCall,
         EditBegins(c) \/ SpawnBegins(c) \/ RemoteBegins(c)
  PROVE  CatalogInv'
<1>1. ASSUME NEW kind, NEW r \in Request, Begins(c, kind, r), Sane(r),
             r.at # "write"
      PROVE  CatalogInv'
  <2>1. call' = [call EXCEPT ![c] = r]
    BY <1>1 DEF Begins
  <2>2. /\ call' \in [CatalogCall -> Request]
        /\ \A d \in CatalogCall :
             /\ Sane(call'[d])
             /\ call'[d].at = "write" => Warranted(call'[d])
    BY <1>1, <2>1, OneCall
  <2> QED BY <1>1, <2>2 DEF CatalogInv, Begins
<1>2. ASSUME EditBegins(c) PROVE CatalogInv'
  <2>1. PICK o \in Scope, k \in AgentType, kind \in {"create", "status", "delete"},
             st \in {"none", "active", "disabled"}, policy \in DelegationPolicy :
          /\ kind \in {"create", "status"} => st # "none"
          /\ Begins(c, "edits", [NoCatalogCall EXCEPT
               !.op = kind, !.at = "read", !.org = o, !.type = k,
               !.new = [org |-> o, status |-> st, policy |-> policy]])
    BY <1>2, CatalogBounds DEF EditBegins, NoPolicy, DelegationPolicy
  <2> DEFINE r == [NoCatalogCall EXCEPT
               !.op = kind, !.at = "read", !.org = o, !.type = k,
               !.new = [org |-> o, status |-> st, policy |-> policy]]
  <2>2. [org |-> o, status |-> st, policy |-> policy] \in Template
    BY DEF Template
  <2>3. r \in Request
    BY <2>2, ReadsAndEnds DEF NoCatalogCall, Request
  <2>4. Sane(r) /\ r.at # "write"
    BY <2>1 DEF NoCatalogCall, Sane
  <2> QED BY <1>1, <2>1, <2>3, <2>4
<1>3. ASSUME NEW o \in Scope, NEW k \in AgentType, NEW p \in Nat,
             NEW kind \in {"spawn", "remote"}
      PROVE  LET r == [NoCatalogCall EXCEPT !.op = kind, !.at = "template",
                         !.org = o, !.type = k, !.parent = p]
                 q == [NoCatalogCall EXCEPT !.op = kind, !.at = "template",
                         !.org = o, !.type = k]
             IN /\ r \in Request /\ Sane(r) /\ r.at # "write"
                /\ q \in Request /\ Sane(q) /\ q.at # "write"
  BY ReadsAndEnds DEF NoCatalogCall, Request, Sane
<1>4. ASSUME NEW o \in Scope, NEW k \in AgentType, NEW kind \in {"spawn", "remote"},
             Begins(c, "spawns", [NoCatalogCall EXCEPT
               !.op = kind, !.at = "template", !.org = o, !.type = k])
      PROVE  CatalogInv'
  <2>1. 0 \in Nat
    OBVIOUS
  <2> QED BY <1>1, <1>3, <1>4, <2>1
<1>5. ASSUME NEW k \in AgentType, NEW p \in DOMAIN records,
             Begins(c, "spawns", [NoCatalogCall EXCEPT
               !.op = "spawn", !.at = "template", !.org = records[p].org,
               !.type = k, !.parent = p])
      PROVE  CatalogInv'
  <2>1. records \in Seq(AgentRecord)
    BY DEF CatalogInv
  <2>2. p \in Nat /\ records[p] \in AgentRecord
    BY <2>1, EntryOfSeq
  <2>3. records[p].org \in Scope
    BY <2>2 DEF AgentRecord
  <2> QED BY <1>1, <1>3, <1>5, <2>2, <2>3
<1>6. ScopeOrg \subseteq Scope
  BY DEF Scope
<1>7. CASE SpawnBegins(c)
  BY <1>4, <1>5, <1>7 DEF SpawnBegins
<1>8. CASE RemoteBegins(c)
  BY <1>4, <1>6, <1>8 DEF RemoteBegins
<1> QED BY <1>2, <1>7, <1>8

\* The checks of an edit: what passes them is warranted.
LEMMA ReadsInv ==
  ASSUME CatalogInv, NEW c \in CatalogCall,
         CreateReads(c) \/ StatusReads(c) \/ DeleteReads(c)
  PROVE  CatalogInv'
<1> DEFINE o == call[c].org
           k == call[c].type
           r == call[c]
<1>1. r \in Request /\ Sane(r) /\ Keeps /\ r.at = "read"
  BY DEF CatalogInv, CreateReads, StatusReads, DeleteReads
<1>2. ASSUME NEW s \in Request, Sane(s), Warranted(s),
             call' = [call EXCEPT ![c] = s]
      PROVE  CatalogInv'
  <2>1. /\ call' \in [CatalogCall -> Request]
        /\ \A d \in CatalogCall :
             /\ Sane(call'[d])
             /\ call'[d].at = "write" => Warranted(call'[d])
    BY <1>2, OneCall
  <2> QED BY <1>1, <2>1 DEF CatalogInv, Keeps
<1>3. GetTemplate(k) \subseteq Template
  BY <1>1, ReadsAndEnds DEF Sane
<1>4. CASE CreateReads(c)
  <2>1. PICK t \in GetTemplate(k) :
          IF Defined(t) /\ o # Global /\ t.org # o THEN Ends(c)
          ELSE call' = [call EXCEPT
                 ![c].at = "write", ![c].read = t,
                 ![c].new.org = IF Defined(t) /\ o = Global THEN t.org ELSE o]
    BY <1>4 DEF CreateReads
  <2>2. CASE Ends(c)
    BY <1>1, <2>2, EndsInv
  <2>3. CASE ~(Defined(t) /\ o # Global /\ t.org # o)
    <3> DEFINE org == IF Defined(t) /\ o = Global THEN t.org ELSE o
               s == [r EXCEPT !.at = "write", !.read = t,
                              !.new = [r.new EXCEPT !.org = org]]
    <3>1. call' = [call EXCEPT ![c] = s]
      BY <1>1, <2>1, <2>3 DEF CatalogInv, Request, Template
    <3>2. t \in Template /\ org \in Scope /\ r.op = "create"
      BY <1>1, <1>3, <1>4 DEF Template, Request, CreateReads
    <3>3. s \in Request /\ Sane(s)
      BY <1>1, <3>2 DEF Request, Template, Sane
    <3>4. Warranted(s)
      BY <1>1, <2>3, <3>2 DEF Request, Template, Sane, Warranted, Defined
    <3> QED BY <1>2, <3>1, <3>3, <3>4
  <2> QED BY <2>1, <2>2, <2>3
<1>5. ASSUME NEW t \in Template, r.op \in {"status", "delete"},
             call' = [call EXCEPT ![c].at = "write", ![c].read = t],
             Warranted([r EXCEPT !.at = "write", !.read = t])
      PROVE  CatalogInv'
  <2> DEFINE s == [r EXCEPT !.at = "write", !.read = t]
  <2>1. call' = [call EXCEPT ![c] = s]
    BY <1>1, <1>5 DEF CatalogInv, Request
  <2>2. s \in Request /\ Sane(s)
    BY <1>1, <1>5 DEF Request, Sane
  <2> QED BY <1>2, <1>5, <2>1, <2>2
<1>6. CASE StatusReads(c)
  <2>1. CASE o = Global /\ Proceeds(c, "write")
    <3> DEFINE s == [r EXCEPT !.at = "write"]
    <3>1. call' = [call EXCEPT ![c] = s]
      BY <1>1, <2>1 DEF CatalogInv, Request, Proceeds
    <3>2. s \in Request /\ Sane(s) /\ Warranted(s)
      BY <1>1, <1>6, <2>1 DEF Request, Sane, Warranted, StatusReads
    <3> QED BY <1>2, <3>1, <3>2
  <2>2. CASE Ends(c)
    BY <1>1, <2>2, EndsInv
  <2>3. ASSUME NEW t \in GetTemplate(k), o # Global, Defined(t), t.org = o,
               call' = [call EXCEPT ![c].at = "write", ![c].read = t]
        PROVE  CatalogInv'
    <3>1. Warranted([r EXCEPT !.at = "write", !.read = t])
      BY <1>1, <1>6, <2>3 DEF Request, Sane, Warranted, StatusReads
    <3> QED BY <1>3, <1>5, <1>6, <2>3, <3>1 DEF StatusReads
  <2> QED BY <1>6, <2>1, <2>2, <2>3 DEF StatusReads, templateInScope
<1>7. CASE DeleteReads(c)
  <2>1. CASE Ends(c)
    BY <1>1, <2>1, EndsInv
  <2>2. ASSUME NEW t \in GetTemplate(k), o \in {Global, t.org},
               t.status = "disabled",
               call' = [call EXCEPT ![c].at = "write", ![c].read = t]
        PROVE  CatalogInv'
    <3>1. Warranted([r EXCEPT !.at = "write", !.read = t])
      BY <1>1, <1>7, <2>2 DEF Request, Warranted, DeleteReads
    <3> QED BY <1>3, <1>5, <1>7, <2>2, <3>1 DEF DeleteReads
  <2> QED BY <1>7, <2>1, <2>2 DEF DeleteReads
<1> QED BY <1>4, <1>6, <1>7

\* The writes of an edit keep the catalog well formed, and end the request.
LEMMA WritesInv ==
  ASSUME CatalogInv, NEW c \in CatalogCall,
         CreateWrites(c) \/ StatusWrites(c) \/ DeleteWrites(c)
  PROVE  CatalogInv'
<1> DEFINE k == call[c].type
<1>1. /\ call[c] \in Request /\ Sane(call[c]) /\ call[c].at = "write"
      /\ Ends(c) /\ UNCHANGED records
  BY DEF CatalogInv, CreateWrites, StatusWrites, DeleteWrites
<1>2. /\ call' \in [CatalogCall -> Request]
      /\ \A d \in CatalogCall : /\ Sane(call'[d])
                                /\ call'[d].at = "write" => Warranted(call'[d])
  BY <1>1, ReadsAndEnds, OneCall DEF Ends
<1>3. k \in AgentType /\ tpl[k] \in Template
  BY <1>1 DEF Sane, CatalogInv
<1>4. tpl' \in [AgentType -> Template] /\ before' \in [AgentType -> Template]
  <2>1. CASE CreateWrites(c)
    BY <1>1, <1>3, <2>1, StoreTyped DEF CreateWrites, PutTemplate, Request
  <2>2. CASE StatusWrites(c)
    <3>1. [tpl[k] EXCEPT !.status = call[c].new.status] \in Template
      BY <1>1, <1>3 DEF Template, Request
    <3>2. CASE Defined(tpl[k])
      BY <1>3, <2>2, <3>1, <3>2, StoreTyped DEF StatusWrites, UpdateTemplateStatus
    <3>3. CASE ~Defined(tpl[k])
      BY <2>2, <3>3 DEF StatusWrites, UpdateTemplateStatus, CatalogInv
    <3> QED BY <3>2, <3>3
  <2>3. CASE DeleteWrites(c)
    BY <1>3, <2>3, ReadsAndEnds, StoreTyped DEF DeleteWrites, DeleteTemplate
  <2> QED BY <2>1, <2>2, <2>3
<1> QED BY <1>1, <1>2, <1>4 DEF CatalogInv

\* The checks of a spawn change its own request, and its write appends.
LEMMA SpawnInv ==
  ASSUME CatalogInv, NEW c \in CatalogCall,
         ChecksTemplate(c) \/ ChecksAnchor(c) \/ ChecksPolicy(c) \/ SpawnWrites(c)
  PROVE  CatalogInv'
<1> DEFINE r == call[c]
<1>1. r \in Request /\ Sane(r) /\ r.at # "idle"
  BY DEF CatalogInv, ChecksTemplate, ChecksAnchor, ChecksPolicy, SpawnWrites
<1>2. ASSUME NEW s \in Request, Sane(s), Warranted(s), Keeps,
             call' = [call EXCEPT ![c] = s]
      PROVE  CatalogInv'
  <2>1. /\ call' \in [CatalogCall -> Request]
        /\ \A d \in CatalogCall :
             /\ Sane(call'[d])
             /\ call'[d].at = "write" => Warranted(call'[d])
    BY <1>2, OneCall
  <2> QED BY <1>2, <2>1 DEF CatalogInv, Keeps
<1>3. ASSUME NEW step \in {"anchor", "policy", "write"}, Proceeds(c, step), Keeps,
             r.at \in {"template", "anchor"}
      PROVE  CatalogInv'
  <2> DEFINE s == [r EXCEPT !.at = step]
  <2>1. call' = [call EXCEPT ![c] = s]
    BY <1>1, <1>3 DEF CatalogInv, Request, Proceeds
  <2>2. s \in Request /\ Sane(s) /\ Warranted(s)
    BY <1>1, <1>3 DEF Request, Sane, Warranted
  <2> QED BY <1>2, <1>3, <2>1, <2>2
<1>4. CASE ChecksTemplate(c)
  <2>1. CASE Ends(c)
    BY <1>4, <2>1, EndsInv DEF ChecksTemplate
  <2>2. CASE ~Ends(c)
    BY <1>3, <1>4, <2>2 DEF ChecksTemplate
  <2> QED BY <2>1, <2>2
<1>5. CASE ChecksAnchor(c)
  BY <1>3, <1>5 DEF ChecksAnchor
<1>6. CASE ChecksPolicy(c)
  <2>1. CASE Ends(c)
    BY <1>6, <2>1, EndsInv DEF ChecksPolicy
  <2>2. ASSUME NEW t,
               call' = [call EXCEPT ![c].at = "write",
                                    ![c].gated = call[c].type \in t.policy.consent]
        PROVE  CatalogInv'
    <3> DEFINE gated == call[c].type \in t.policy.consent
               s == [r EXCEPT !.at = "write", !.gated = gated]
    <3>1. gated \in BOOLEAN /\ call' = [call EXCEPT ![c].at = "write",
                                                   ![c].gated = gated]
      BY <2>2, SMTT(30)
    <3> HIDE DEF gated
    <3>2. call' = [call EXCEPT ![c] = s]
      BY <1>1, <3>1 DEF CatalogInv, Request
    <3>3. s \in Request /\ Sane(s) /\ Warranted(s)
      BY <1>1, <1>6, <3>1 DEF Request, Sane, Warranted, ChecksPolicy
    <3> QED BY <1>2, <1>6, <3>2, <3>3 DEF ChecksPolicy
  <2> QED BY <1>6, <2>1, <2>2 DEF ChecksPolicy
<1>7. CASE SpawnWrites(c)
  <2>1. /\ call' \in [CatalogCall -> Request]
        /\ \A d \in CatalogCall :
             /\ Sane(call'[d])
             /\ call'[d].at = "write" => Warranted(call'[d])
    BY <1>7, ReadsAndEnds, OneCall DEF SpawnWrites, Ends
  <2> DEFINE a == [type |-> r.type, org |-> r.org, parent |-> r.parent,
                   gated |-> r.gated]
  <2>2. a \in AgentRecord
    BY <1>1 DEF Request, Sane, AgentRecord
  <2>3. records \in Seq(AgentRecord) /\ records' = Append(records, a)
    BY <1>7 DEF CatalogInv, SpawnWrites
  <2> HIDE DEF a
  <2>4. records' \in Seq(AgentRecord)
    BY <2>2, <2>3, SMTT(30)
  <2> QED BY <1>7, <2>1, <2>4 DEF CatalogInv, SpawnWrites
<1> QED BY <1>4, <1>5, <1>6, <1>7

-----------------------------------------------------------------------------
\* Any catalog of well-formed templates satisfies the invariant.
LEMMA CatalogInitInv ==
  ASSUME NEW templates \in [AgentType -> Template], NEW edits \in Nat,
         NEW spawns \in Nat, CatalogInit(templates, edits, spawns)
  PROVE  CatalogInv
<1>1. NoCatalogCall \in Request /\ Sane(NoCatalogCall) /\ NoCatalogCall.at = "idle"
  BY DEF NoCatalogCall, Request, Sane, NoTemplate, NoPolicy, Template,
         DelegationPolicy, Scope
<1> HIDE DEF NoCatalogCall
<1> QED BY <1>1, SMTT(30) DEF CatalogInit, CatalogInv

\* Every step keeps the invariant.
LEMMA CatalogNextInv ==
  CatalogInv /\ [CatalogNext]_catalogVars => CatalogInv'
<1> SUFFICES ASSUME CatalogInv, [CatalogNext]_catalogVars PROVE CatalogInv'
  OBVIOUS
<1>1. ASSUME NEW k \in AgentType, Replicates(k) PROVE CatalogInv'
  BY <1>1 DEF CatalogInv, Replicates
<1>2. ASSUME NEW c \in CatalogCall, CatalogCallFails(c) PROVE CatalogInv'
  BY <1>2, EndsInv DEF CatalogCallFails
<1>3. CASE UNCHANGED catalogVars
  BY <1>3 DEF catalogVars, CatalogInv
<1> QED BY <1>1, <1>2, <1>3, BeginsInv, ReadsInv, WritesInv, SpawnInv DEF CatalogNext

\* The step an edit's write is, seen from the version it replaces.
LEMMA GuardsStep ==
  ASSUME CatalogInv, [CatalogNext]_catalogVars, NEW c \in CatalogCall,
         call[c].at = "write", call'[c].at = "idle",
         tpl[call[c].type] # tpl'[call[c].type]
  PROVE  CreateWrites(c) \/ StatusWrites(c) \/ DeleteWrites(c)
<1>1. ASSUME NEW d \in CatalogCall, d # c,
             CreateWrites(d) \/ StatusWrites(d) \/ DeleteWrites(d)
      PROVE  FALSE
  BY <1>1 DEF CatalogInv, CreateWrites, StatusWrites, DeleteWrites, Ends
<1>2. tpl' # tpl
  OBVIOUS
<1>3. ASSUME NEW d \in CatalogCall,
             EditBegins(d) \/ SpawnBegins(d) \/ RemoteBegins(d)
      PROVE  UNCHANGED tpl
  BY <1>3 DEF EditBegins, SpawnBegins, RemoteBegins, Begins
<1>4. ASSUME NEW d \in CatalogCall,
             \/ CreateReads(d) \/ StatusReads(d) \/ DeleteReads(d)
             \/ ChecksTemplate(d) \/ ChecksAnchor(d) \/ ChecksPolicy(d)
             \/ SpawnWrites(d) \/ CatalogCallFails(d)
      PROVE  UNCHANGED tpl
  BY <1>4 DEF CreateReads, StatusReads, DeleteReads, ChecksTemplate,
     ChecksAnchor, ChecksPolicy, SpawnWrites, CatalogCallFails, Keeps
<1>5. (\E k \in AgentType : Replicates(k)) \/ UNCHANGED catalogVars
        => UNCHANGED tpl
  BY DEF Replicates, catalogVars
<1> QED BY <1>1, <1>2, <1>3, <1>4, <1>5 DEF CatalogNext

\* A template never moves between scopes, is changed for an organization only
\* in that organization and is deleted only once disabled, by every request
\* that writes over what it read (the POST, PATCH and DELETE handlers of
\* /v1/templates in cmd/registry/main.go), for any number of types,
\* organizations and overlapping requests.
THEOREM GuardsHold == CatalogSpec => CatalogGuardsHold
<1>1. ASSUME CatalogInv, [CatalogNext]_catalogVars, NEW c \in CatalogCall,
             call[c].at = "write", call'[c].at = "idle",
             tpl[call[c].type] # tpl'[call[c].type],
             \/ call[c].read = tpl[call[c].type]
             \/ call[c].op = "status" /\ call[c].org = Global
      PROVE  LET from == tpl[call[c].type]
                 to == tpl'[call[c].type]
             IN /\ Defined(from) /\ Defined(to) => from.org = to.org
                /\ Defined(from) /\ call[c].org # Global => from.org = call[c].org
                /\ Defined(from) /\ ~Defined(to) => from.status = "disabled"
  <2> DEFINE k == call[c].type
  <2>1. /\ call[c] \in Request /\ Sane(call[c]) /\ Warranted(call[c])
        /\ k \in AgentType /\ tpl[k] \in Template
        /\ tpl \in [AgentType -> Template]
    BY <1>1 DEF CatalogInv, Sane
  <2>2. CASE CreateWrites(c)
    <3>1. tpl'[k] = call[c].new /\ call[c].op = "create"
      BY <2>1, <2>2 DEF CreateWrites, PutTemplate, Store
    <3> QED BY <1>1, <2>1, <3>1 DEF Warranted
  <2>3. CASE StatusWrites(c)
    <3>1. Defined(tpl[k]) /\ tpl'[k] = [tpl[k] EXCEPT !.status = call[c].new.status]
      BY <1>1, <2>1, <2>3 DEF StatusWrites, UpdateTemplateStatus, Store
    <3> QED BY <1>1, <2>1, <2>3, <3>1 DEF Warranted, StatusWrites, Template, Defined
  <2>4. CASE DeleteWrites(c)
    <3>1. tpl'[k] = NoTemplate /\ call[c].op = "delete"
      BY <2>1, <2>4 DEF DeleteWrites, DeleteTemplate, Store
    <3>2. ~Defined(tpl'[k])
      BY <3>1, SMTT(30) DEF NoTemplate, Defined
    <3> QED BY <1>1, <2>1, <3>1, <3>2 DEF Warranted
  <2> QED BY <1>1, <2>2, <2>3, <2>4, GuardsStep
<1>2. (\E templates \in [AgentType -> Template], edits \in Nat, spawns \in Nat :
         CatalogInit(templates, edits, spawns)) => CatalogInv
  BY CatalogInitInv
<1>3. CatalogInv /\ [CatalogNext]_catalogVars =>
        [\A c \in CatalogCall :
           LET k == call[c].type
               from == tpl[k]
               to == tpl'[k]
           IN (/\ call[c].at = "write" /\ call'[c].at = "idle" /\ from # to
               /\ \/ call[c].read = from
                  \/ call[c].op = "status" /\ call[c].org = Global)
              => /\ Defined(from) /\ Defined(to) => from.org = to.org
                 /\ Defined(from) /\ call[c].org # Global => from.org = call[c].org
                 /\ Defined(from) /\ ~Defined(to) => from.status = "disabled"]_catalogVars
  BY <1>1
<1> QED BY <1>2, <1>3, CatalogNextInv, PTL DEF CatalogSpec, CatalogGuardsHold

-----------------------------------------------------------------------------
(* Lineages                                                                  *)

\* Lineage for any records.
Up(R, i) ==
  {j \in DOMAIN R :
     \A S \in SUBSET DOMAIN R :
       ({i} \cup {R[x].parent : x \in S}) \cap DOMAIN R \subseteq S => j \in S}

\* Lineage is Up of the records, in both states.
LEMMA LineageIsUp ==
  \A i : Lineage(i) = Up(records, i) /\ Lineage(i)' = Up(records', i)
BY DEF Lineage, Up

\* Parents are older than their children, and have a record.
Grown(R) ==
  /\ R \in Seq(AgentRecord)
  /\ \A i \in DOMAIN R : R[i].parent < i /\ R[i].parent \in {0} \cup DOMAIN R

\* The entries of such records.
LEMMA Entries ==
  ASSUME NEW R, Grown(R), NEW i \in DOMAIN R
  PROVE  /\ i \in Nat /\ i # 0 /\ R[i] \in AgentRecord /\ R[i].parent \in Nat
         /\ R[i].type \in AgentType /\ R[i].parent < i
<1>1. i \in Nat /\ i # 0 /\ R[i] \in AgentRecord
  BY SMTT(30) DEF Grown
<1> QED BY <1>1 DEF Grown, AgentRecord

\* The lineage of an agent is the agent and its parent's.
LEMMA UpStep ==
  ASSUME NEW R, NEW i \in DOMAIN R
  PROVE  Up(R, i) = Up(R, R[i].parent) \cup {i}
<1> DEFINE p == R[i].parent
           ClosedUp(S, a) ==
             ({a} \cup {R[x].parent : x \in S}) \cap DOMAIN R \subseteq S
<1>1. \A a : Up(R, a) = {j \in DOMAIN R :
                 \A S \in SUBSET DOMAIN R : ClosedUp(S, a) => j \in S}
  BY DEF Up
<1>2. \A a : ClosedUp(Up(R, a), a)
  <2> SUFFICES ASSUME NEW a, NEW j \in DOMAIN R,
                      j = a \/ \E x \in Up(R, a) : j = R[x].parent
               PROVE  j \in Up(R, a)
    OBVIOUS
  <2> SUFFICES ASSUME NEW S \in SUBSET DOMAIN R, ClosedUp(S, a) PROVE j \in S
    BY <1>1
  <2>1. Up(R, a) \subseteq S
    BY <1>1
  <2> QED BY <2>1
<1> DEFINE W == Up(R, p) \cup {i}
<1>3. ClosedUp(W, i)
  BY <1>2
<1>4. W \in SUBSET DOMAIN R
  BY DEF Up
<1>5. Up(R, i) \subseteq W
  <2> HIDE DEF W
  <2> QED BY <1>1, <1>3, <1>4
<1>6. i \in Up(R, i) /\ Up(R, i) \in SUBSET DOMAIN R
  BY <1>2 DEF Up
<1>7. ClosedUp(Up(R, i), p)
  <2> HIDE DEF Up
  <2> SUFFICES ASSUME NEW j \in DOMAIN R,
                      j = p \/ \E x \in Up(R, i) : j = R[x].parent
               PROVE  j \in Up(R, i)
    OBVIOUS
  <2> QED BY <1>2, <1>6
<1>8. Up(R, p) \subseteq Up(R, i)
  BY <1>1, <1>6, <1>7
<1> QED BY <1>5, <1>6, <1>8

\* The lineage of an agent is no younger than the agent, and nobody's is no
\* lineage at all.
LEMMA UpOlder ==
  ASSUME NEW R, Grown(R), NEW i \in Nat
  PROVE  Up(R, i) \subseteq 1 .. i
<1> DEFINE S == (1 .. i) \cap DOMAIN R
<1>1. \A x \in DOMAIN R : x \in Nat /\ x # 0 /\ R[x].parent \in Nat /\ R[x].parent < x
  BY Entries
<1>2. ({i} \cup {R[x].parent : x \in S}) \cap DOMAIN R \subseteq S
  BY <1>1, SMTT(30)
<1>3. S \in SUBSET DOMAIN R
  OBVIOUS
<1> HIDE DEF S
<1>4. Up(R, i) \subseteq S
  BY <1>2, <1>3 DEF Up
<1> QED BY <1>4 DEF S

\* A chain is one longer than the one it is appended to.
LEMMA UpCount ==
  ASSUME NEW R, Grown(R), NEW i \in DOMAIN R
  PROVE  /\ Cardinality(Up(R, R[i].parent)) \in Nat
         /\ Cardinality(Up(R, i)) = Cardinality(Up(R, R[i].parent)) + 1
<1> DEFINE p == R[i].parent
<1>1. i \in Nat /\ p \in Nat /\ p < i
  BY Entries
<1>2. Up(R, p) \subseteq 1 .. p
  BY <1>1, UpOlder
<1>3. IsFiniteSet(1 .. p)
  <2>1. 1 \in Int /\ p \in Int
    BY <1>1, SMTT(30)
  <2> QED BY <2>1, FS_Interval
<1>4. IsFiniteSet(Up(R, p)) /\ i \notin Up(R, p)
  <2>1. i \notin 1 .. p
    BY <1>1, SMTT(30)
  <2> QED BY <1>2, <1>3, <2>1, FS_Subset
<1>5. Cardinality(Up(R, p)) \in Nat
  BY <1>4, FS_CardinalityType
<1>6. Cardinality(Up(R, p) \cup {i}) = Cardinality(Up(R, p)) + 1
  BY <1>4, FS_AddElement
<1>7. Up(R, i) = Up(R, p) \cup {i}
  BY UpStep
<1> QED BY <1>5, <1>6, <1>7

\* A record that is added changes no lineage but its own.
LEMMA UpKept ==
  ASSUME NEW R, Grown(R), NEW a \in AgentRecord, a.parent \in {0} \cup DOMAIN R
  PROVE  LET T == Append(R, a)
         IN  /\ Grown(T) /\ T[Len(R) + 1] = a /\ Len(R) + 1 \in DOMAIN T
             /\ DOMAIN T = DOMAIN R \cup {Len(R) + 1}
             /\ \A i \in DOMAIN R : T[i] = R[i] /\ Up(T, i) = Up(R, i)
<1> DEFINE T == Append(R, a)
           n == Len(R) + 1
<1>1. R \in Seq(AgentRecord) /\ n \in Nat /\ DOMAIN R = 1 .. Len(R) /\ n \notin DOMAIN R
  BY SMTT(30) DEF Grown
<1>2. /\ T \in Seq(AgentRecord) /\ T[n] = a /\ DOMAIN T = DOMAIN R \cup {n}
      /\ \A i \in DOMAIN R : T[i] = R[i]
  BY <1>1, SMTT(30)
<1>3. Grown(T)
  <2>1. a.parent < n
    BY <1>1, SMTT(30)
  <2> QED BY <1>2, <2>1 DEF Grown
<1> HIDE DEF T, n
<1>4. \A x \in DOMAIN R : R[x].parent # n
  <2>1. \A x \in DOMAIN R : x < n
    BY <1>1, SMTT(30) DEF n
  <2>2. \A x \in DOMAIN R : R[x].parent < x /\ R[x].parent \in Nat
    BY Entries
  <2> QED BY <1>1, <2>1, <2>2, SMTT(30)
<1>5. ASSUME NEW i \in DOMAIN R PROVE Up(T, i) = Up(R, i)
  <2>1. ASSUME NEW S \in SUBSET DOMAIN R,
               ({i} \cup {R[x].parent : x \in S}) \cap DOMAIN R \subseteq S
        PROVE  Up(T, i) \subseteq S
    <3>1. ({i} \cup {T[x].parent : x \in S}) \cap DOMAIN T \subseteq S
      BY <1>2, <1>4, <2>1
    <3>2. S \in SUBSET DOMAIN T
      BY <1>2
    <3> QED BY <3>1, <3>2 DEF Up
  <2>2. ASSUME NEW S \in SUBSET DOMAIN T,
               ({i} \cup {T[x].parent : x \in S}) \cap DOMAIN T \subseteq S
        PROVE  Up(R, i) \subseteq S
    <3> DEFINE Z == S \cap DOMAIN R
    <3>1. ({i} \cup {R[x].parent : x \in Z}) \cap DOMAIN R \subseteq Z
      BY <1>2, <2>2
    <3>2. Z \in SUBSET DOMAIN R
      OBVIOUS
    <3> HIDE DEF Z
    <3>3. Up(R, i) \subseteq Z
      BY <3>1, <3>2 DEF Up
    <3> QED BY <3>3 DEF Z
  <2>3. Up(R, i) \subseteq Up(T, i)
    BY <1>2, <2>2 DEF Up
  <2>4. DOMAIN R \in SUBSET DOMAIN R
        /\ ({i} \cup {R[x].parent : x \in DOMAIN R}) \cap DOMAIN R \subseteq DOMAIN R
    OBVIOUS
  <2>5. Up(T, i) \subseteq DOMAIN R
    BY <2>1, <2>4
  <2>6. Up(T, i) \subseteq Up(R, i)
    BY <2>1, <2>5 DEF Up
  <2> QED BY <2>3, <2>6
<1> QED BY <1>2, <1>3, <1>5 DEF T, n

-----------------------------------------------------------------------------
(* Chains                                                                    *)

\* Some version of the parent's template allows this child at this depth.
Allowed(a, versions, depth) ==
  \E t \in versions :
    /\ a.type \in t.policy.children
    /\ a.gated <=> a.type \in t.policy.consent
    /\ t.policy.maxDepth > 0 => depth <= t.policy.maxDepth

\* SpawnsFollowTheCatalog of one record.
Justified(R, E, i) ==
  /\ \E t \in E[R[i].type] : Spawnable(t, R[i].org)
  /\ R[i].parent # 0 =>
       /\ R[R[i].parent].org = R[i].org
       /\ Allowed(R[i], E[R[R[i].parent].type], Cardinality(Up(R, i)))
  /\ R[i].parent = 0 => ~R[i].gated

\* What a spawn has established by the step it is at.
Lawful(r, R, E) ==
  r.op \in {"spawn", "remote"} =>
    /\ r.parent # 0 => r.parent \in DOMAIN R /\ R[r.parent].org = r.org
    /\ r.op = "remote" \/ r.at = "anchor" => r.parent = 0
    /\ r.at \in {"anchor", "policy", "write"} =>
         \E t \in E[r.type] : Spawnable(t, r.org)
    /\ r.at = "policy" => r.parent # 0
    /\ r.parent = 0 => ~r.gated
    /\ r.at = "write" /\ r.parent # 0 =>
         Allowed(r, E[R[r.parent].type], Cardinality(Up(R, r.parent)) + 1)

ChainInv ==
  /\ CatalogInv
  /\ Grown(records)
  /\ DOMAIN ever = AgentType
  /\ \A k \in AgentType : GetTemplate(k) \subseteq ever[k]
  /\ \A c \in CatalogCall : Lawful(call[c], records, ever)
  /\ \A i \in DOMAIN records : Justified(records, ever, i)

\* The invariant implies the property.
LEMMA ChainsJustified == ChainInv => SpawnsFollowTheCatalog
<1>1. \A i : Depth(i) = Cardinality(Up(records, i))
  BY LineageIsUp DEF Depth
<1> QED BY <1>1 DEF ChainInv, SpawnsFollowTheCatalog, Justified, Allowed

\* What was established stays so: versions and records only accrue.
LEMMA StaysLawful ==
  ASSUME NEW R, NEW E, NEW T, NEW F, Grown(R),
         \A k \in AgentType : E[k] \subseteq F[k],
         DOMAIN R \subseteq DOMAIN T,
         \A i \in DOMAIN R : T[i] = R[i] /\ Up(T, i) = Up(R, i)
  PROVE  /\ \A r : /\ Lawful(r, R, E)
                   /\ r.at \in {"anchor", "policy", "write"} => r.type \in AgentType
                   => Lawful(r, T, F)
         /\ \A i \in DOMAIN R : Justified(R, E, i) => Justified(T, F, i)
<1>1. ASSUME NEW i \in DOMAIN R
      PROVE  /\ R[i].type \in AgentType /\ E[R[i].type] \subseteq F[R[i].type]
             /\ R[i].parent \in {0} \cup DOMAIN R
  BY Entries DEF Grown
<1>2. ASSUME NEW a, NEW d, NEW V, NEW W, V \subseteq W, Allowed(a, V, d)
      PROVE  Allowed(a, W, d)
  BY <1>2 DEF Allowed
<1>3. ASSUME NEW r, Lawful(r, R, E), r.op \in {"spawn", "remote"},
             r.at \in {"anchor", "policy", "write"} => r.type \in AgentType
      PROVE  Lawful(r, T, F)
  <2>1. r.parent # 0 =>
          r.parent \in DOMAIN R /\ r.parent \in DOMAIN T /\ T[r.parent].org = r.org
    BY <1>3 DEF Lawful
  <2>2. r.at \in {"anchor", "policy", "write"} =>
          \E t \in F[r.type] : Spawnable(t, r.org)
    BY <1>3 DEF Lawful
  <2>3. ASSUME r.at = "write", r.parent # 0
        PROVE  Allowed(r, F[T[r.parent].type], Cardinality(Up(T, r.parent)) + 1)
    <3>1. Allowed(r, E[R[r.parent].type], Cardinality(Up(R, r.parent)) + 1)
      BY <1>3, <2>3 DEF Lawful
    <3>2. T[r.parent] = R[r.parent] /\ Up(T, r.parent) = Up(R, r.parent)
      BY <2>1, <2>3
    <3> QED BY <1>1, <1>2, <2>1, <2>3, <3>1, <3>2
  <2> QED BY <1>3, <2>1, <2>2, <2>3 DEF Lawful
<1>4. ASSUME NEW i \in DOMAIN R, Justified(R, E, i) PROVE Justified(T, F, i)
  <2>1. \E t \in F[T[i].type] : Spawnable(t, T[i].org)
    BY <1>1, <1>4 DEF Justified
  <2>2. ASSUME R[i].parent # 0
        PROVE  /\ T[T[i].parent].org = T[i].org
               /\ Allowed(T[i], F[T[T[i].parent].type], Cardinality(Up(T, i)))
    <3>1. /\ R[i].parent \in DOMAIN R /\ T[i] = R[i]
          /\ T[R[i].parent] = R[R[i].parent] /\ Up(T, i) = Up(R, i)
      BY <1>1, <2>2
    <3>2. /\ R[R[i].parent].org = R[i].org
          /\ Allowed(R[i], E[R[R[i].parent].type], Cardinality(Up(R, i)))
      BY <1>4, <2>2 DEF Justified
    <3>3. E[R[R[i].parent].type] \subseteq F[R[R[i].parent].type]
      BY <1>1, <3>1
    <3> QED BY <1>2, <3>1, <3>2, <3>3
  <2> QED BY <1>4, <2>1, <2>2 DEF Justified
<1>5. \A r : r.op \notin {"spawn", "remote"} => Lawful(r, T, F)
  BY DEF Lawful
<1> QED BY <1>3, <1>4, <1>5

\* A step of one request that adds no record.
LEMMA OneRequest ==
  ASSUME ChainInv, CatalogInv', NEW c \in CatalogCall, NEW r,
         UNCHANGED records, call' = [call EXCEPT ![c] = r],
         Lawful(r, records, ever'), DOMAIN ever' = AgentType,
         \A k \in AgentType : ever[k] \subseteq ever'[k],
         \A k \in AgentType : GetTemplate(k)' \subseteq ever'[k]
  PROVE  ChainInv'
<1>1. Grown(records) /\ Grown(records')
  BY DEF ChainInv
<1>2. \A d \in CatalogCall :
        /\ Lawful(call[d], records, ever)
        /\ call[d].at \in {"anchor", "policy", "write"} => call[d].type \in AgentType
  BY DEF ChainInv, CatalogInv, Sane
<1>3. \A d \in CatalogCall : Lawful(call[d], records', ever')
  BY <1>1, <1>2, StaysLawful
<1>4. \A d \in CatalogCall : Lawful(call'[d], records', ever')
  BY <1>3 DEF ChainInv, CatalogInv
<1>5. \A i \in DOMAIN records' : Justified(records', ever', i)
  BY <1>1, StaysLawful DEF ChainInv
<1> QED BY <1>1, <1>4, <1>5 DEF ChainInv

\* A step that leaves the store and its versions alone.
LEMMA StoreKept ==
  ASSUME ChainInv, UNCHANGED <<tpl, before, ever>>
  PROVE  /\ DOMAIN ever' = AgentType
         /\ \A k \in AgentType : ever[k] \subseteq ever'[k]
         /\ \A k \in AgentType : GetTemplate(k)' \subseteq ever'[k]
BY DEF ChainInv, GetTemplate

\* A write to the store adds the version it writes.
LEMMA StoreGrows ==
  ASSUME ChainInv, NEW k \in AgentType, NEW t, Store(k, t)
  PROVE  /\ DOMAIN ever' = AgentType
         /\ \A j \in AgentType : ever[j] \subseteq ever'[j]
         /\ \A j \in AgentType : GetTemplate(j)' \subseteq ever'[j]
<1>1. ever' = [ever EXCEPT ![k] = ever[k] \cup {t}]
  BY DEF Store
<1>2. DOMAIN ever = AgentType /\ \A j \in AgentType : GetTemplate(j) \subseteq ever[j]
  BY DEF ChainInv
<1>3. DOMAIN ever' = AgentType /\ \A j \in AgentType : ever[j] \subseteq ever'[j]
  BY <1>1, <1>2
<1>4. ASSUME NEW j \in AgentType PROVE GetTemplate(j)' \subseteq ever'[j]
  <2>1. CASE j = k
    <3>1. tpl'[k] = t /\ before'[k] = tpl[k] /\ t \in ever'[k] /\ tpl[k] \in ever[k]
      BY <1>1, <1>2 DEF Store, ChainInv, CatalogInv, GetTemplate
    <3> QED BY <1>3, <2>1, <3>1 DEF GetTemplate
  <2>2. CASE j # k
    <3>1. tpl'[j] = tpl[j] /\ before'[j] = before[j] /\ ever'[j] = ever[j]
      BY <1>1, <1>2, <2>2 DEF Store, ChainInv, CatalogInv
    <3> QED BY <1>2, <3>1 DEF GetTemplate
  <2> QED BY <2>1, <2>2
<1> QED BY <1>3, <1>4

\* A request that ended, or is an edit, has nothing to establish.
LEMMA Unspawning ==
  /\ \A r, R, E : r.op \notin {"spawn", "remote"} => Lawful(r, R, E)
  /\ NoCatalogCall.op = "none"
BY DEF Lawful, NoCatalogCall

-----------------------------------------------------------------------------
\* A spawn begins with no gate, in its parent's organization.
LEMMA BeginsLawful ==
  ASSUME ChainInv, NEW c \in CatalogCall,
         EditBegins(c) \/ SpawnBegins(c) \/ RemoteBegins(c)
  PROVE  ChainInv'
<1>1. ASSUME NEW kind, NEW r, Begins(c, kind, r), Lawful(r, records, ever)
      PROVE  ChainInv'
  <2>1. CatalogInv'
    BY BeginsInv DEF ChainInv
  <2>2. UNCHANGED <<tpl, before, records, ever>> /\ call' = [call EXCEPT ![c] = r]
    BY <1>1 DEF Begins
  <2> QED BY <1>1, <2>1, <2>2, StoreKept, OneRequest
<1>2. CASE EditBegins(c)
  <2>1. PICK o \in Scope, k \in AgentType, kind \in {"create", "status", "delete"},
             st \in {"none", "active", "disabled"}, policy \in DelegationPolicy :
          Begins(c, "edits", [NoCatalogCall EXCEPT
            !.op = kind, !.at = "read", !.org = o, !.type = k,
            !.new = [org |-> o, status |-> st, policy |-> policy]])
    BY <1>2, CatalogBounds DEF EditBegins, NoPolicy, DelegationPolicy
  <2> DEFINE r == [NoCatalogCall EXCEPT
            !.op = kind, !.at = "read", !.org = o, !.type = k,
            !.new = [org |-> o, status |-> st, policy |-> policy]]
  <2>2. r.op = kind
    BY DEF NoCatalogCall
  <2>3. Lawful(r, records, ever)
    BY <2>2, Unspawning
  <2> QED BY <1>1, <2>1, <2>3
<1>3. ASSUME NEW o, NEW k, NEW kind \in {"spawn", "remote"}
      PROVE  Lawful([NoCatalogCall EXCEPT !.op = kind, !.at = "template", !.org = o,
                                          !.type = k], records, ever)
  BY DEF Lawful, NoCatalogCall
<1>4. ASSUME NEW k, NEW p \in DOMAIN records
      PROVE  Lawful([NoCatalogCall EXCEPT !.op = "spawn", !.at = "template",
                       !.org = records[p].org, !.type = k, !.parent = p],
                    records, ever)
  <2>1. p # 0
    BY Entries DEF ChainInv
  <2> QED BY <2>1 DEF Lawful, NoCatalogCall
<1>5. CASE SpawnBegins(c)
  BY <1>1, <1>3, <1>4, <1>5 DEF SpawnBegins
<1>6. CASE RemoteBegins(c)
  BY <1>1, <1>3, <1>6 DEF RemoteBegins
<1> QED BY <1>2, <1>5, <1>6

\* The steps of an edit only add versions.
LEMMA EditsLawful ==
  ASSUME ChainInv, NEW c \in CatalogCall,
         \/ CreateReads(c) \/ StatusReads(c) \/ DeleteReads(c)
         \/ CreateWrites(c) \/ StatusWrites(c) \/ DeleteWrites(c)
  PROVE  ChainInv'
<1> DEFINE r == call[c]
<1>1. /\ CatalogInv /\ CatalogInv' /\ r \in Request /\ Sane(r) /\ r.at # "idle"
      /\ r.op \in {"create", "status", "delete"} /\ UNCHANGED records
  BY ReadsInv, WritesInv DEF ChainInv, CatalogInv, CreateReads, StatusReads,
     DeleteReads, CreateWrites, StatusWrites, DeleteWrites, Keeps
<1>2. ASSUME NEW s, s.op \notin {"spawn", "remote"}, call' = [call EXCEPT ![c] = s],
             DOMAIN ever' = AgentType,
             \A k \in AgentType : ever[k] \subseteq ever'[k],
             \A k \in AgentType : GetTemplate(k)' \subseteq ever'[k]
      PROVE  ChainInv'
  BY <1>1, <1>2, Unspawning, OneRequest
<1>3. CASE CreateReads(c) \/ StatusReads(c) \/ DeleteReads(c)
  <2>1. UNCHANGED <<tpl, before, ever>>
    BY <1>3 DEF CreateReads, StatusReads, DeleteReads, Keeps
  <2>2. PICK s : call' = [call EXCEPT ![c] = s] /\ s.op \notin {"spawn", "remote"}
    <3>1. CASE Ends(c)
      BY <3>1, Unspawning DEF Ends
    <3>2. CASE CreateReads(c) /\ ~Ends(c)
      <4>1. PICK t \in GetTemplate(r.type) :
              call' = [call EXCEPT ![c].at = "write", ![c].read = t, ![c].new.org =
                         IF Defined(t) /\ r.org = Global THEN t.org ELSE r.org]
        BY <3>2 DEF CreateReads
      <4> DEFINE o == IF Defined(t) /\ r.org = Global THEN t.org ELSE r.org
                 s == [r EXCEPT !.at = "write", !.read = t,
                                !.new = [r.new EXCEPT !.org = o]]
      <4> HIDE DEF o
      <4>2. call' = [call EXCEPT ![c].at = "write", ![c].read = t, ![c].new.org = o]
        BY <4>1 DEF o
      <4>3. call' = [call EXCEPT ![c] = s]
        BY <1>1, <4>2 DEF CatalogInv, Request, Template
      <4>4. s.op = r.op
        BY <1>1 DEF Request
      <4> QED BY <1>1, <4>3, <4>4
    <3>3. ASSUME NEW t, call' = [call EXCEPT ![c].at = "write", ![c].read = t]
          PROVE  \E s : call' = [call EXCEPT ![c] = s] /\ s.op = r.op
      <4> DEFINE s == [r EXCEPT !.at = "write", !.read = t]
      <4>1. call' = [call EXCEPT ![c] = s] /\ s.op = r.op
        BY <1>1, <3>3 DEF CatalogInv, Request
      <4> QED BY <4>1
    <3>4. ASSUME Proceeds(c, "write")
          PROVE  \E s : call' = [call EXCEPT ![c] = s] /\ s.op = r.op
      <4> DEFINE s == [r EXCEPT !.at = "write"]
      <4>1. call' = [call EXCEPT ![c] = s] /\ s.op = r.op
        BY <1>1, <3>4 DEF CatalogInv, Request, Proceeds
      <4> QED BY <4>1
    <3>5. CASE (StatusReads(c) \/ DeleteReads(c)) /\ ~Ends(c)
      BY <1>1, <3>3, <3>4, <3>5 DEF StatusReads, DeleteReads
    <3> QED BY <1>3, <3>1, <3>2, <3>5
  <2> QED BY <1>2, <2>1, <2>2, StoreKept
<1>4. CASE CreateWrites(c) \/ StatusWrites(c) \/ DeleteWrites(c)
  <2>1. Ends(c)
    BY <1>4 DEF CreateWrites, StatusWrites, DeleteWrites
  <2>2. r.type \in AgentType
    BY <1>1 DEF Sane
  <2>3. (\E t : Store(r.type, t)) \/ UNCHANGED <<tpl, before, ever>>
    BY <1>4 DEF CreateWrites, StatusWrites, DeleteWrites, PutTemplate,
       UpdateTemplateStatus, DeleteTemplate
  <2>4. /\ DOMAIN ever' = AgentType
        /\ \A k \in AgentType : ever[k] \subseteq ever'[k]
        /\ \A k \in AgentType : GetTemplate(k)' \subseteq ever'[k]
    BY <2>2, <2>3, StoreGrows, StoreKept
  <2> QED BY <1>2, <2>1, <2>4, Unspawning DEF Ends
<1> QED BY <1>3, <1>4

\* The checks of a spawn establish what the next step needs.
LEMMA ChecksLawful ==
  ASSUME ChainInv, NEW c \in CatalogCall,
         \/ ChecksTemplate(c) \/ ChecksAnchor(c) \/ ChecksPolicy(c)
         \/ CatalogCallFails(c)
  PROVE  ChainInv'
<1> DEFINE r == call[c]
<1>1. /\ CatalogInv /\ r \in Request /\ Sane(r) /\ Lawful(r, records, ever)
      /\ UNCHANGED records /\ UNCHANGED <<tpl, before, ever>>
      /\ Keeps /\ r.at # "idle"
  BY DEF ChainInv, CatalogInv, ChecksTemplate, ChecksAnchor, ChecksPolicy,
     CatalogCallFails, Keeps
<1>2. CatalogInv'
  BY <1>1, SpawnInv, EndsInv DEF CatalogCallFails
<1>3. ASSUME NEW s, Lawful(s, records, ever), call' = [call EXCEPT ![c] = s]
      PROVE  ChainInv'
  BY <1>1, <1>2, <1>3, StoreKept, OneRequest
<1>4. CASE Ends(c)
  BY <1>3, <1>4, Unspawning DEF Ends
<1>5. CASE ChecksTemplate(c) /\ ~Ends(c)
  <2>1. PICK t \in GetTemplate(r.type) : Spawnable(t, r.org)
    BY <1>5 DEF ChecksTemplate
  <2>2. t \in ever[r.type]
    BY <1>1, <2>1 DEF ChainInv, Sane
  <2> DEFINE step == IF r.op = "remote" THEN "anchor"
                     ELSE IF r.parent # 0 THEN "policy" ELSE "write"
             s == [r EXCEPT !.at = step]
  <2>3. Proceeds(c, step)
    BY <1>5 DEF ChecksTemplate
  <2>4. call' = [call EXCEPT ![c] = s]
    BY <1>1, <2>3 DEF CatalogInv, Request, Proceeds
  <2>5. Lawful(s, records, ever)
    BY <1>1, <2>1, <2>2 DEF Lawful, Request
  <2> QED BY <1>3, <2>4, <2>5
<1>6. CASE ChecksAnchor(c)
  <2> DEFINE s == [r EXCEPT !.at = "write"]
  <2>1. call' = [call EXCEPT ![c] = s]
    BY <1>1, <1>6 DEF CatalogInv, Request, Proceeds, ChecksAnchor
  <2>2. Lawful(s, records, ever)
    BY <1>1, <1>6 DEF Lawful, Request, ChecksAnchor
  <2> QED BY <1>3, <2>1, <2>2
<1>7. CASE ChecksPolicy(c) /\ ~Ends(c)
  <2> DEFINE p == r.parent
             d == Cardinality(Up(records, p)) + 1
  <2>1. PICK t \in GetTemplate(records[p].type) :
          /\ Admits(t.policy, r.type, Depth(p))
          /\ call' = [call EXCEPT ![c].at = "write",
                                  ![c].gated = call[c].type \in t.policy.consent]
    BY <1>7 DEF ChecksPolicy
  <2>2. r.op \in {"spawn", "remote"} /\ r.at = "policy"
    BY <1>1, <1>7 DEF ChecksPolicy, Sane
  <2>3. p # 0 /\ p \in DOMAIN records
    BY <1>1, <2>2 DEF Lawful
  <2>4. t \in ever[records[p].type]
    BY <2>1, <2>3, Entries DEF ChainInv
  <2>5. /\ r.type \in t.policy.children
        /\ t.policy.maxDepth > 0 => d <= t.policy.maxDepth
    BY <2>1, LineageIsUp DEF Admits, Depth
  <2> DEFINE gated == r.type \in t.policy.consent
             s == [r EXCEPT !.at = "write", !.gated = gated]
  <2>6. gated \in BOOLEAN /\ call' = [call EXCEPT ![c].at = "write",
                                                 ![c].gated = gated]
    BY <2>1, SMTT(30)
  <2>7. gated <=> r.type \in t.policy.consent
    OBVIOUS
  <2> HIDE DEF gated, d
  <2>8. call' = [call EXCEPT ![c] = s]
    BY <1>1, <2>6 DEF CatalogInv, Request
  <2>9. s.type = r.type /\ s.gated = gated
    BY <1>1 DEF Request
  <2>10. Allowed(s, ever[records[p].type], d)
    BY <2>4, <2>5, <2>7, <2>9 DEF Allowed
  <2>11. Lawful(s, records, ever)
    BY <1>1, <2>2, <2>3, <2>10 DEF Lawful, Request, d
  <2> QED BY <1>3, <2>8, <2>11
<1> QED BY <1>4, <1>5, <1>6, <1>7 DEF CatalogCallFails

\* The record a spawn writes is justified, one deeper than its parent's.
LEMMA SpawnWritesLawful ==
  ASSUME ChainInv, NEW c \in CatalogCall, SpawnWrites(c)
  PROVE  ChainInv'
<1> DEFINE r == call[c]
           a == [type |-> r.type, org |-> r.org, parent |-> r.parent, gated |-> r.gated]
           n == Len(records) + 1
           R == records
           T == records'
<1>1. /\ CatalogInv /\ CatalogInv' /\ r \in Request /\ Sane(r) /\ Lawful(r, R, ever)
      /\ UNCHANGED <<tpl, before, ever>> /\ T = Append(R, a) /\ Ends(c)
      /\ r.op \in {"spawn", "remote"} /\ r.at = "write" /\ Grown(R)
      /\ r.type \in AgentType
  BY SpawnInv DEF ChainInv, CatalogInv, SpawnWrites, Sane
<1>2. a \in AgentRecord /\ a.parent \in {0} \cup DOMAIN R
  BY <1>1 DEF Request, AgentRecord, Lawful
<1>3. /\ a.type = r.type /\ a.org = r.org /\ a.parent = r.parent /\ a.gated = r.gated
  OBVIOUS
<1> HIDE DEF a
<1>4. /\ Grown(T) /\ T[n] = a /\ n \in DOMAIN T /\ DOMAIN T = DOMAIN R \cup {n}
      /\ \A i \in DOMAIN R : T[i] = R[i] /\ Up(T, i) = Up(R, i)
  BY <1>1, <1>2, UpKept
<1> HIDE DEF n
<1>5. /\ DOMAIN ever' = AgentType
      /\ \A k \in AgentType : ever[k] \subseteq ever'[k]
      /\ \A k \in AgentType : GetTemplate(k)' \subseteq ever'[k]
  BY <1>1, StoreKept
<1>6. \A d \in CatalogCall : Lawful(call[d], T, ever')
  <2>1. \A d \in CatalogCall :
          /\ Lawful(call[d], R, ever)
          /\ call[d].at \in {"anchor", "policy", "write"} => call[d].type \in AgentType
    BY DEF ChainInv, CatalogInv, Sane
  <2> QED BY <1>1, <1>4, <1>5, <2>1, StaysLawful
<1>7. \A d \in CatalogCall : Lawful(call'[d], T, ever')
  BY <1>1, <1>6, Unspawning DEF Ends, CatalogInv
<1>8. \A i \in DOMAIN R : Justified(T, ever', i)
  BY <1>1, <1>4, <1>5, StaysLawful DEF ChainInv
<1>9. Justified(T, ever', n)
  <2>1. \E t \in ever'[T[n].type] : Spawnable(t, T[n].org)
    BY <1>1, <1>3, <1>4 DEF Lawful
  <2>2. T[n].parent = 0 => ~T[n].gated
    BY <1>1, <1>3, <1>4 DEF Lawful
  <2>3. ASSUME T[n].parent # 0
        PROVE  /\ T[T[n].parent].org = T[n].org
               /\ Allowed(T[n], ever'[T[T[n].parent].type], Cardinality(Up(T, n)))
    <3> DEFINE p == r.parent
    <3>1. /\ p # 0 /\ p \in DOMAIN R /\ R[p].org = r.org
          /\ Allowed(r, ever[R[p].type], Cardinality(Up(R, p)) + 1)
      BY <1>1, <1>3, <1>4, <2>3 DEF Lawful
    <3>2. Allowed(a, ever[R[p].type], Cardinality(Up(R, p)) + 1)
      BY <1>3, <3>1 DEF Allowed
    <3>3. Cardinality(Up(T, n)) = Cardinality(Up(R, p)) + 1
      <4>1. T[n].parent = p /\ Up(T, p) = Up(R, p)
        BY <1>3, <1>4, <3>1
      <4>2. Cardinality(Up(T, n)) = Cardinality(Up(T, T[n].parent)) + 1
        BY <1>4, UpCount
      <4> QED BY <4>1, <4>2
    <3> QED BY <1>1, <1>3, <1>4, <3>1, <3>2, <3>3
  <2> QED BY <2>1, <2>2, <2>3 DEF Justified
<1> QED BY <1>1, <1>4, <1>5, <1>7, <1>8, <1>9 DEF ChainInv

\* Every record in a chain of spawns was justified by versions the catalog
\* really had (the gates of POST /spawn and POST /v1/orgs/{id}/agents in
\* cmd/orchestrator/main.go, GET /v1/spawn-policy and depth in
\* cmd/registry/main.go), for any catalog, any number of overlapping edits and
\* spawns, any length of the chain and replicas that lag.
THEOREM SpawnsLawful == CatalogSpec => []SpawnsFollowTheCatalog
<1>1. ASSUME NEW templates \in [AgentType -> Template], NEW edits \in Nat,
             NEW spawns \in Nat, CatalogInit(templates, edits, spawns)
      PROVE  ChainInv
  <2>1. CatalogInv /\ records = << >> /\ DOMAIN ever = AgentType
    BY <1>1, CatalogInitInv DEF CatalogInit
  <2>2. \A k \in AgentType : GetTemplate(k) \subseteq ever[k]
    BY <1>1 DEF CatalogInit, GetTemplate
  <2>3. \A d \in CatalogCall : Lawful(call[d], records, ever)
    BY <1>1, Unspawning DEF CatalogInit
  <2>4. DOMAIN records = {} /\ Grown(records)
    BY <2>1, SMTT(30) DEF Grown
  <2> QED BY <2>1, <2>2, <2>3, <2>4 DEF ChainInv
<1>2. ChainInv /\ [CatalogNext]_catalogVars => ChainInv'
  <2> SUFFICES ASSUME ChainInv, [CatalogNext]_catalogVars PROVE ChainInv'
    OBVIOUS
  <2>1. ASSUME NEW k \in AgentType, Replicates(k) PROVE ChainInv'
    <3>1. CatalogInv' /\ UNCHANGED <<records, call, ever>>
      BY <2>1, CatalogNextInv DEF ChainInv, CatalogNext, Replicates
    <3>2. \A j \in AgentType : GetTemplate(j)' \subseteq ever'[j]
      BY <2>1 DEF ChainInv, CatalogInv, GetTemplate, Replicates
    <3> QED BY <3>1, <3>2 DEF ChainInv
  <2>2. CASE UNCHANGED catalogVars
    <3>1. CatalogInv'
      BY <2>2, CatalogNextInv DEF ChainInv
    <3> QED BY <2>2, <3>1 DEF ChainInv, catalogVars, GetTemplate
  <2> QED BY <2>1, <2>2, BeginsLawful, EditsLawful, ChecksLawful, SpawnWritesLawful
     DEF CatalogNext
<1>3. (\E templates \in [AgentType -> Template], edits \in Nat, spawns \in Nat :
         CatalogInit(templates, edits, spawns)) => ChainInv
  BY <1>1
<1> QED BY <1>2, <1>3, ChainsJustified, PTL DEF CatalogSpec

-----------------------------------------------------------------------------
(* The mobile gateway                                                        *)

GatewaySpec ==
  /\ \E n \in Nat, phones \in SUBSET Phone, streams \in SUBSET Stream :
       GatewayInit(n, phones, streams)
  /\ [][GatewayNext]_gatewayVars

\* A phone whose registration was answered and whose token still works is in
\* the store: only its owner and an expired token take it out.
Stored(d) == phone[d] = "kept" /\ d \notin expired => d \in devices

\* A phone a call still owes a push was registered before it came.  Until the
\* list is read it may be anything an answered registration becomes; once it
\* is read the phone is in the list, or is excused.
Owed(c) ==
  \A d \in webhook[c].due :
    /\ webhook[c].at = "listing" =>
         Owner[d] = webhook[c].user /\ phone[d] \in {"kept", "deleted"}
    /\ webhook[c].at \in {"sending", "done"} =>
         \/ d \in webhook[c].todo \/ d \in expired \/ phone[d] = "deleted"
    /\ webhook[c].at = "done" => d \notin webhook[c].todo

GatewayInv ==
  /\ GatewayTypeOK
  /\ \A d \in Phone : Stored(d)
  /\ \A c \in Webhook : Owed(c)

\* The types of the state of a call.
CallState == [at : {"idle", "listing", "sending", "done"},
              user : User \cup {NoUserId}, todo : SUBSET Phone,
              due : SUBSET Phone]

-----------------------------------------------------------------------------
\* An empty gateway satisfies the invariant.
LEMMA GatewayInitInv ==
  ASSUME NEW n \in Nat, NEW phones \in SUBSET Phone,
         NEW streams \in SUBSET Stream, GatewayInit(n, phones, streams)
  PROVE  GatewayInv
BY GatewayBounds, SMTT(30)
   DEF GatewayInit, GatewayInv, GatewayTypeOK, Stored, Owed, NoCall, NoStream,
       Closed

\* registerDevice: a registration is answered only once its Put has landed.
LEMMA RegisterDeviceInv ==
  ASSUME GatewayInv, NEW d \in Phone, RegisterDevice(d)
  PROVE  GatewayInv'
BY GatewayBounds, SMTT(30)
   DEF RegisterDevice, GatewayInv, GatewayTypeOK, Stored, Owed, Put, Hitch

\* deleteDevice: a request in another user's name removes nothing.
LEMMA DeleteDeviceInv ==
  ASSUME GatewayInv, NEW d \in Phone, NEW u \in User, DeleteDevice(u, d)
  PROVE  GatewayInv'
BY GatewayBounds, SMTT(30)
   DEF DeleteDevice, GatewayInv, GatewayTypeOK, Stored, Owed, Delete

\* An expired token excuses the calls that owe its phone a push.
LEMMA TokenExpiresInv ==
  ASSUME GatewayInv, NEW d \in Phone, TokenExpires(d)
  PROVE  GatewayInv'
BY GatewayBounds
   DEF TokenExpires, GatewayInv, GatewayTypeOK, Stored, Owed

\* A call owes a push to the phones registered when it comes.
LEMMA NotifyBeginsInv ==
  ASSUME GatewayInv, NEW c \in Webhook, NEW u \in User, NotifyBegins(c, u)
  PROVE  GatewayInv'
<1>. DEFINE new == [at |-> "listing", user |-> u, todo |-> {},
                    due |-> {d \in Phone : Owner[d] = u /\ phone[d] = "kept"}]
<1>1. /\ webhook' = [webhook EXCEPT ![c] = new]
      /\ UNCHANGED <<devices, phone, expired, hitches>>
  BY DEF NotifyBegins
<1>2. stream' \in [Stream -> [user : User \cup {NoUserId, "closed"},
                             queued : 0 .. StreamBuffer]]
  <2>1. \A s \in Stream :
          stream'[s] \in [user : User \cup {NoUserId, "closed"},
                         queued : 0 .. StreamBuffer]
    BY GatewayBounds, SMTT(30) DEF NotifyBegins, Publish, GatewayInv, GatewayTypeOK
  <2>2. stream' = [s \in Stream |-> stream'[s]]
    BY DEF NotifyBegins, Publish
  <2>. QED BY <2>1, <2>2
<1>3. GatewayTypeOK'
  BY <1>1, <1>2 DEF GatewayInv, GatewayTypeOK
<1>4. \A x \in Webhook : Owed(x)'
  BY <1>1 DEF GatewayInv, GatewayTypeOK, Owed
<1>. QED BY <1>1, <1>3, <1>4 DEF GatewayInv, Stored

\* The list holds every phone that is owed a push and not excused.
LEMMA NotifyListsInv ==
  ASSUME GatewayInv, NEW c \in Webhook, NotifyLists(c)
  PROVE  GatewayInv'
<1>. DEFINE new == [webhook[c] EXCEPT !.at = "sending",
                                  !.todo = ListByUser(webhook[c].user)]
<1>1. UNCHANGED <<devices, phone, expired, stream>> /\ hitches' \in Nat
  BY SMTT(30) DEF NotifyLists, Hitch, GatewayInv, GatewayTypeOK
<1>2. CASE webhook' = [webhook EXCEPT ![c] = NoCall]
  BY <1>1, <1>2 DEF GatewayInv, GatewayTypeOK, Stored, Owed, NoCall
<1>3. CASE webhook' = [webhook EXCEPT ![c] = new]
  <2>1. GatewayTypeOK'
    <3>1. webhook[c] \in CallState /\ ListByUser(webhook[c].user) \subseteq Phone
      BY DEF GatewayInv, GatewayTypeOK, CallState, ListByUser
    <3>2. new \in CallState
      BY <3>1 DEF CallState
    <3>3. webhook' \in [Webhook -> CallState]
      BY <1>3, <3>2 DEF GatewayInv, GatewayTypeOK, CallState
    <3>. QED BY <1>1, <3>3 DEF GatewayInv, GatewayTypeOK, CallState
  <2>2. Owed(c)'
    <3>1. /\ webhook'[c].at = "sending" /\ webhook'[c].due = webhook[c].due
          /\ webhook'[c].todo = ListByUser(webhook[c].user)
      BY <1>3 DEF GatewayInv, GatewayTypeOK
    <3>2. ASSUME NEW d \in webhook[c].due
          PROVE  \/ d \in ListByUser(webhook[c].user)
                 \/ d \in expired \/ phone[d] = "deleted"
      BY DEF NotifyLists, GatewayInv, GatewayTypeOK, Owed, Stored, ListByUser
    <3>. QED BY <1>1, <3>1, <3>2 DEF Owed
  <2>3. \A x \in Webhook \ {c} : Owed(x)'
    BY <1>1, <1>3 DEF GatewayInv, GatewayTypeOK, Owed
  <2>. QED BY <1>1, <2>1, <2>2, <2>3 DEF GatewayInv, Stored
<1>. QED BY <1>2, <1>3 DEF NotifyLists

\* A send settles its phone, and prunes only a phone whose token expired.
LEMMA NotifySendsInv ==
  ASSUME GatewayInv, NEW c \in Webhook, NotifySends(c)
  PROVE  GatewayInv'
<1>. DEFINE Sent(d, answer) ==
       /\ webhook' = [webhook EXCEPT ![c].todo = @ \ {d}, ![c].due = @ \ {d}]
       /\ \/ /\ devices' = IF Prunes(answer)
                           THEN Delete(webhook[c].user, d) ELSE devices
             /\ IF answer = "transient" THEN Hitch ELSE UNCHANGED hitches
          \/ answer = "unregistered" /\ Hitch /\ UNCHANGED devices
<1>0. PICK d \in webhook[c].todo : \E answer \in SendAnswers(d) : Sent(d, answer)
  BY DEF NotifySends
<1>1. PICK answer \in SendAnswers(d) : Sent(d, answer)
  BY <1>0
<1>2. UNCHANGED <<phone, expired, stream>> /\ webhook[c].at = "sending"
  BY DEF NotifySends
<1>3. hitches' \in Nat
  BY <1>1, SMTT(30) DEF Hitch, GatewayInv, GatewayTypeOK
<1>4. devices' \subseteq devices /\ \A x \in devices \ devices' : x \in expired
  BY <1>1 DEF SendAnswers, Prunes, Delete
<1>5. webhook' \in [Webhook -> CallState]
  <2>. DEFINE new == [webhook[c] EXCEPT !.todo = @ \ {d}, !.due = @ \ {d}]
  <2>1. webhook \in [Webhook -> CallState]
    BY DEF GatewayInv, GatewayTypeOK, CallState
  <2>2. new \in CallState
    BY <2>1 DEF CallState
  <2>3. webhook' = [webhook EXCEPT ![c] = new]
    BY <1>1, <2>1
  <2>. QED BY <2>1, <2>2, <2>3
<1>6. GatewayTypeOK'
  BY <1>2, <1>3, <1>4, <1>5 DEF GatewayInv, GatewayTypeOK, CallState
<1>7. Owed(c)'
  <2>1. /\ webhook'[c].at = "sending"
        /\ webhook'[c].todo = webhook[c].todo \ {d}
        /\ webhook'[c].due = webhook[c].due \ {d}
    BY <1>1, <1>2 DEF GatewayInv, GatewayTypeOK
  <2>. QED BY <1>2, <2>1 DEF GatewayInv, Owed
<1>8. \A x \in Webhook \ {c} : Owed(x)'
  BY <1>1, <1>2, SMTT(30) DEF GatewayInv, GatewayTypeOK, Owed
<1>. QED BY <1>2, <1>4, <1>6, <1>7, <1>8 DEF GatewayInv, Stored

\* A call answers when its list is empty: what it still owes is excused.
LEMMA NotifyEndsInv ==
  ASSUME GatewayInv, NEW c \in Webhook, NotifyEnds(c)
  PROVE  GatewayInv'
BY GatewayBounds, SMTT(30)
   DEF NotifyEnds, GatewayInv, GatewayTypeOK, Stored, Owed

\* Streams come and go without touching devices or calls.
LEMMA StreamInv ==
  ASSUME GatewayInv, NEW s \in Stream,
         \/ StreamWrites(s) \/ StreamEnds(s) \/ \E u \in User : Subscribe(s, u)
  PROVE  GatewayInv'
<1>1. stream' \in [Stream -> [user : User \cup {NoUserId, "closed"},
                             queued : 0 .. StreamBuffer]]
  <2>1. CASE StreamWrites(s)
    BY <2>1, GatewayBounds, SMTT(30) DEF StreamWrites, GatewayInv, GatewayTypeOK
  <2>2. CASE StreamEnds(s)
    BY <2>2, GatewayBounds, SMTT(30) DEF StreamEnds, GatewayInv, GatewayTypeOK, NoStream
  <2>3. ASSUME NEW u \in User, Subscribe(s, u)
        PROVE  stream' = [stream EXCEPT ![s].user = u]
    BY <2>3 DEF Subscribe
  <2>. QED BY <2>1, <2>2, <2>3, SMTT(30) DEF GatewayInv, GatewayTypeOK
<1>2. UNCHANGED <<devices, phone, expired, webhook, hitches>>
  BY DEF StreamWrites, StreamEnds, Subscribe
<1>. QED BY <1>1, <1>2 DEF GatewayInv, GatewayTypeOK, Stored, Owed

\* A restart forgets the calls; the store keeps the devices.
LEMMA GatewayRestartsInv ==
  ASSUME GatewayInv, GatewayRestarts
  PROVE  GatewayInv'
BY GatewayBounds, SMTT(30)
   DEF GatewayRestarts, GatewayInv, GatewayTypeOK, Stored, Owed, NoCall,
       NoStream, Closed, Hitch

\* Every step of the gateway preserves the invariant.
LEMMA GatewayNextInv ==
  ASSUME GatewayInv, [GatewayNext]_gatewayVars
  PROVE  GatewayInv'
<1>1. CASE UNCHANGED gatewayVars
  BY <1>1 DEF gatewayVars, GatewayInv, GatewayTypeOK, Stored, Owed
<1>2. CASE GatewayNext
  BY <1>2, RegisterDeviceInv, DeleteDeviceInv, TokenExpiresInv,
     NotifyBeginsInv, NotifyListsInv, NotifySendsInv, NotifyEndsInv,
     StreamInv, GatewayRestartsInv DEF GatewayNext
<1>. QED BY <1>1, <1>2

\* Whatever calls overlap, whichever sends and store calls fail and whoever
\* else asks for a deletion, a call of notify that answers has reached every
\* phone its user had registered, those deleted or expired since excepted.
THEOREM FanOutReachesPhones == GatewaySpec => []PhonesReached
<1>1. ASSUME NEW n \in Nat, NEW phones \in SUBSET Phone,
             NEW streams \in SUBSET Stream, GatewayInit(n, phones, streams)
      PROVE  GatewayInv
  BY <1>1, GatewayInitInv
<1>2. GatewayInv /\ [GatewayNext]_gatewayVars => GatewayInv'
  BY GatewayNextInv
<1>3. GatewayInv => PhonesReached
  BY DEF GatewayInv, Owed, PhonesReached
<1>4. (\E n \in Nat, phones \in SUBSET Phone, streams \in SUBSET Stream :
          GatewayInit(n, phones, streams)) => GatewayInv
  BY <1>1
<1>. QED BY <1>2, <1>3, <1>4, PTL DEF GatewaySpec

-----------------------------------------------------------------------------
(* The substrates                                                            *)

SubstrateInit ==
  /\ RegistryInit /\ DispatchInit
  /\ \E first \in Leaves : EntriesInit(first)

SubstrateSpec == SubstrateInit /\ [][SubstrateNext]_substrateVars

-----------------------------------------------------------------------------
(* The hub                                                                   *)

HubInv ==
  /\ srv \in [Conn -> {"none", "accepted", "registered", "serving", "gone"}]
  /\ mine \in Conn \cup {NoConn}
  /\ HubHoldsTheLiveChannel

\* What a step may do to the hub: the handlers' four moves, a cancellation,
\* the client's dial and hang-up, a restart, or nothing.
HubEffect ==
  \/ UNCHANGED <<srv, cancelled, current, mine>>
  \/ Dial
  \/ \E c \in Conn : ChannelMoves(c)
  \/ UNCHANGED <<srv, current, mine>> /\ cancelled \subseteq cancelled'
  \/ HangUp /\ UNCHANGED current
  \/ OrchestratorCrash

\* Steps that push a frame at most cancel a connection (push).
LEMMA SendOnlyCancels ==
  ASSUME NEW c, NEW f, HubSend(c, f)
  PROVE  cancelled \subseteq cancelled'
BY DEF HubSend

\* No other step touches the hub.
LEMMA HubSteps ==
  ASSUME SubstrateNext
  PROVE  HubEffect
<1>1. CASE CallerMoves
  <2>1. ASSUME NEW a \in Agent, SpawnSend(a) PROVE HubEffect
    BY <2>1, SendOnlyCancels DEF SpawnSend, HubEffect, agentVars
  <2>2. ASSUME NEW k \in Killer, KillSend(k) PROVE HubEffect
    BY <2>2, SendOnlyCancels DEF KillSend, HubEffect, agentVars
  <2>3. ASSUME NEW a \in Agent,
               SpawnRecord(a) \/ SpawnLook(a) \/ ReapNode(a)
        PROVE  UNCHANGED <<srv, cancelled, current, mine>>
    BY <2>3 DEF SpawnRecord, SpawnLook, ReapNode, agentVars, serverVars
  <2>4. ASSUME NEW k \in Killer, KillLook(k)
        PROVE  UNCHANGED <<srv, cancelled, current, mine>>
    BY <2>4 DEF KillLook, agentVars, serverVars
  <2>5. ASSUME ReapWalk \/ ReapPassEnds \/ ReapEnds
        PROVE  UNCHANGED <<srv, cancelled, current, mine>>
    BY <2>5 DEF ReapWalk, ReapPassEnds, ReapEnds, agentVars, serverVars
  <2>. QED BY <1>1, <2>1, <2>2, <2>3, <2>4, <2>5 DEF CallerMoves, HubEffect
<1>2. ASSUME OpMoves \/ ConvergeBegins
      PROVE  UNCHANGED <<srv, cancelled, current, mine>>
  BY <1>2 DEF OpMoves, ConvergeBegins, ConvergeList, MaterializeWorkload,
     TeardownWorkload, EnsureEntry, MaterializeEntry, Rollback, TeardownEntry,
     OpEnds, serverVars
<1>3. ASSUME HandleDown PROVE UNCHANGED <<srv, cancelled, current, mine>>
  BY <1>3 DEF HandleDown
<1>4. ASSUME SpireMoves PROVE UNCHANGED <<srv, cancelled, current, mine>>
  BY <1>4 DEF SpireMoves, dispatchVars
<1>5. ASSUME NEW a \in Agent,
             SpawnPlace(a) \/ Dismiss(a) \/ ReapBegins(a) \/ PodMoves(a)
      PROVE  UNCHANGED <<srv, cancelled, current, mine>>
  BY <1>5 DEF SpawnPlace, Dismiss, ReapBegins, PodMoves, serverVars, agentVars
<1>6. ASSUME NEW x \in Admin, AdminMoves(x)
      PROVE  UNCHANGED <<srv, cancelled, current, mine>>
  BY <1>6 DEF AdminMoves, serverVars
<1>7. ASSUME NEW c \in Conn, ChannelBreaks(c) PROVE HubEffect
  BY <1>7 DEF ChannelBreaks, HubEffect, agentVars
<1>8. ASSUME NoticeClosed \/ AgentCrash \/ \E l \in Leaf : Install(l)
      PROVE  HangUp /\ UNCHANGED current
  BY <1>8 DEF NoticeClosed, AgentCrash, Install, AgentStops
<1>. QED BY <1>1, <1>2, <1>3, <1>4, <1>5, <1>6, <1>7, <1>8
         DEF SubstrateNext, Running, Unforeseen, HubEffect

\* hub.register cancels what it replaces, and unregister clears only its own.
LEMMA ChannelMovesHub ==
  ASSUME HubInv, NEW c \in Conn, ChannelMoves(c)
  PROVE  HubInv'
<1>1. CASE HubRegister(c)
  BY <1>1, DispatchBounds
     DEF HubRegister, HubInv, HubHoldsTheLiveChannel, agentVars
<1>2. CASE ChannelServes(c)
  BY <1>2 DEF ChannelServes, HubInv, HubHoldsTheLiveChannel, agentVars
<1>3. CASE HubUnregister(c)
  BY <1>3, DispatchBounds
     DEF HubUnregister, Forget, HubInv, HubHoldsTheLiveChannel, agentVars
<1>. QED BY <1>1, <1>2, <1>3 DEF ChannelMoves

\* Every step preserves what the hub holds.
LEMMA HubNextInv ==
  ASSUME HubInv, [SubstrateNext]_substrateVars
  PROVE  HubInv'
<1>1. CASE UNCHANGED <<srv, cancelled, current, mine>>
  BY <1>1 DEF HubInv, HubHoldsTheLiveChannel
<1>2. CASE Dial
  <2>1. FreeConn # {} => (CHOOSE x \in FreeConn : TRUE) \in Conn
    BY DEF FreeConn
  <2>. QED BY <1>2, <2>1 DEF Dial, HubInv, HubHoldsTheLiveChannel
<1>3. CASE UNCHANGED <<srv, current, mine>> /\ cancelled \subseteq cancelled'
  BY <1>3 DEF HubInv, HubHoldsTheLiveChannel
<1>4. CASE HangUp /\ UNCHANGED current
  BY <1>4, DispatchBounds DEF HangUp, Forget, HubInv, HubHoldsTheLiveChannel
<1>5. CASE OrchestratorCrash
  BY <1>5 DEF OrchestratorCrash, HubInv, HubHoldsTheLiveChannel, agentVars
<1>6. CASE UNCHANGED substrateVars
  BY <1>6 DEF substrateVars, dispatchVars, HubInv, HubHoldsTheLiveChannel
<1>. QED BY <1>1, <1>2, <1>3, <1>4, <1>5, <1>6, HubSteps, ChannelMovesHub
         DEF HubEffect

\* A registered connection that nobody cancelled is the one the hub pushes
\* to, whatever connections come, break, fill up and are torn down late.
THEOREM HubCorrect == SubstrateSpec => []HubHoldsTheLiveChannel
<1>1. SubstrateInit => HubInv
  BY DEF SubstrateInit, DispatchInit, HubInv, HubHoldsTheLiveChannel
<1>2. HubInv /\ [SubstrateNext]_substrateVars => HubInv'
  BY HubNextInv
<1>3. HubInv => HubHoldsTheLiveChannel
  BY DEF HubInv
<1>. QED BY <1>1, <1>2, <1>3, PTL DEF SubstrateSpec

-----------------------------------------------------------------------------
(* Rotation                                                                  *)

\* The leaves under which the substrate-agent may attest.
BootLeaves == {l \in Leaf : <<Boot, l>> \in entry}

\* A list of entries for each request (whatever they are).
DoomedPerRequest == doomed = [x \in Admin |-> doomed[x]]
USE DEF DoomedPerRequest

RotationTypes ==
  /\ record \in [status : {"none", "pending", "active"}, leaf : Leaves]
  /\ issued \in SUBSET Leaf
  /\ admin \in [Admin -> [op : {"none", "connect", "disconnect"},
                          pc : {"idle", "record", "list", "delete",
                                "fallback", "evict", "provision"},
                          leaf : Leaves]]
  /\ DoomedPerRequest
  /\ calm \in Leaves

\* Where a connect stands that no other request has overlapped: it is alone,
\* its leaf is on record, its sweep has listed every bootstrap entry, and none
\* is left once the sweep or its fallback is through.
Alone(x) ==
  admin[x].pc # "idle" /\ x \notin mixed =>
    /\ InFlightAdmin = {x}
    /\ admin[x].op = "connect" /\ admin[x].pc # "record" =>
         record.leaf = admin[x].leaf
    /\ admin[x].pc = "delete" =>
         \A l \in BootLeaves : <<Boot, l>> \in doomed[x]
    /\ admin[x].op = "connect" /\ admin[x].pc \in {"evict", "provision"} =>
         BootLeaves = {}

ProvisionsALeaf(x) ==
  /\ admin[x].op = "connect" => admin[x].leaf \in Leaf
  /\ admin[x].pc = "provision" => admin[x].op = "connect"

RotationInv ==
  /\ RotationTypes
  /\ \A x \in Admin : Alone(x) /\ ProvisionsALeaf(x)
  /\ calm # NoLeaf => InFlightAdmin = {}
  /\ RotationLeavesOneIdentity

\* Everything the invariant speaks of, except the entries.
requestVars == <<issued, admin, mixed, calm>>

\* Steps that leave requests and bootstrap entries alone.
Aside ==
  /\ UNCHANGED requestVars
  /\ record'.leaf = record.leaf
  /\ record' \in [status : {"none", "pending", "active"}, leaf : Leaves]
  /\ BootLeaves' = BootLeaves
  /\ DoomedPerRequest'
  /\ \A x \in Admin, l \in Leaf : <<Boot, l>> \in doomed[x]
                                    => <<Boot, l>> \in doomed'[x]

\* Such a step preserves the invariant.
LEMMA AsideInv ==
  ASSUME RotationInv, Aside
  PROVE  RotationInv'
<1>1. RotationTypes'
  BY DEF RotationInv, RotationTypes, Aside, requestVars
<1>2. InFlightAdmin' = InFlightAdmin
  BY DEF Aside, requestVars, InFlightAdmin
<1>3. ASSUME NEW x \in Admin PROVE Alone(x)' /\ ProvisionsALeaf(x)'
  BY <1>2 DEF RotationInv, Aside, requestVars, Alone, ProvisionsALeaf,
              BootLeaves
<1>4. RotationLeavesOneIdentity'
  BY DEF RotationInv, Aside, requestVars, RotationLeavesOneIdentity, BootLeaves
<1>. QED BY <1>1, <1>2, <1>3, <1>4 DEF RotationInv, Aside, requestVars

\* The Entry API writes and deletes entries of workloads, never the
\* bootstrap entry.
LEMMA WorkloadEntryAside ==
  ASSUME RotationInv, NEW a \in Agent,
         CreateWorkloadEntry(a) \/ DeleteWorkloadEntry(a)
  PROVE  Aside
<1>1. CASE CreateWorkloadEntry(a)
  BY <1>1, EntryIds DEF CreateWorkloadEntry, CreateEntry, Aside, requestVars,
     BootLeaves, RotationInv, RotationTypes
<1>2. CASE DeleteWorkloadEntry(a)
  <2>1. /\ entry' = entry \ ({a} \X Leaf)
        /\ doomed' = [x \in Admin |-> doomed[x] \ ({a} \X Leaf)]
        /\ UNCHANGED <<requestVars, record>>
    BY <1>2 DEF DeleteWorkloadEntry, DeleteEntry, Erase, requestVars
  <2>2. \A l \in Leaf : <<Boot, l>> \notin {a} \X Leaf
    BY EntryIds
  <2>3. BootLeaves' = BootLeaves
    BY <2>1, <2>2 DEF BootLeaves
  <2>. QED BY <2>1, <2>2, <2>3 DEF Aside, RotationInv, RotationTypes
<1>. QED BY <1>1, <1>2

\* So do a channel's activation, SPIRE, the entry service's start and an
\* install.
LEMMA OtherAside ==
  ASSUME RotationInv,
         \/ ActivateRecord \/ SpireStep \/ EntryServiceUp \/ UNCHANGED entryVars
         \/ \E l \in Leaf : Install(l)
  PROVE  Aside
<1>1. CASE ActivateRecord
  BY <1>1 DEF ActivateRecord, Aside, requestVars, BootLeaves, RotationInv,
     RotationTypes
<1>2. CASE SpireStep \/ EntryServiceUp \/ UNCHANGED entryVars
  BY <1>2 DEF SpireStep, Attest, FetchSvid, SvidLapses, EntryServiceUp,
     entryVars, Aside, requestVars, BootLeaves, RotationInv, RotationTypes
<1>3. CASE \E l \in Leaf : Install(l)
  BY <1>3 DEF Install, Aside, requestVars, BootLeaves, RotationInv,
     RotationTypes
<1>. QED BY <1>1, <1>2, <1>3
\* A step of request x: the other requests in flight, if any, are mixed, so
\* that only x has anything to show.
LEMMA OneRequestMoves ==
  ASSUME RotationInv, NEW x \in Admin, admin[x].pc # "idle",
         RotationTypes', UNCHANGED calm,
         \A y \in Admin \ {x} : admin'[y] = admin[y],
         \A y \in Admin \ {x} : y \in mixed => y \in mixed',
         Alone(x)', ProvisionsALeaf(x)'
  PROVE  RotationInv'
<1>1. x \in InFlightAdmin /\ calm = NoLeaf
  BY DEF InFlightAdmin, RotationInv
<1>2. ASSUME NEW y \in Admin \ {x} PROVE Alone(y)' /\ ProvisionsALeaf(y)'
  <2>1. admin[y].pc # "idle" => y \in mixed
    BY <1>1 DEF RotationInv, Alone
  <2>. QED BY <2>1 DEF RotationInv, Alone, ProvisionsALeaf
<1>. QED BY <1>1, <1>2 DEF RotationInv, RotationLeavesOneIdentity

\* x goes on to its next call.
LEMMA GoesOn ==
  ASSUME RotationInv, NEW x \in Admin, admin[x].pc # "idle",
         NEW pc \in {"list", "delete", "fallback", "evict", "provision"},
         AdminGoes(x, pc), UNCHANGED <<issued, calm>>,
         record' \in [status : {"none", "pending", "active"}, leaf : Leaves],
         DoomedPerRequest',
         pc = "provision" => admin[x].op = "connect",
         (x \notin mixed /\ admin[x].op = "connect")
           => record'.leaf = admin[x].leaf,
         (x \notin mixed /\ pc = "delete")
           => \A l \in BootLeaves' : <<Boot, l>> \in doomed'[x],
         (x \notin mixed /\ admin[x].op = "connect" /\ pc \in {"evict", "provision"})
           => BootLeaves' = {}
  PROVE  RotationInv'
<1>1. /\ admin'[x].pc = pc /\ admin'[x].op = admin[x].op
      /\ admin'[x].leaf = admin[x].leaf
      /\ \A y \in Admin \ {x} : admin'[y] = admin[y]
  BY DEF AdminGoes, RotationInv, RotationTypes
<1>2. mixed' = mixed
  BY DEF AdminGoes
<1>3. RotationTypes'
  <2>1. admin' \in [Admin -> [op : {"none", "connect", "disconnect"},
                              pc : {"idle", "record", "list", "delete",
                                    "fallback", "evict", "provision"},
                              leaf : Leaves]]
    BY DEF AdminGoes, RotationInv, RotationTypes
  <2> QED BY <2>1 DEF RotationInv, RotationTypes
<1>4. InFlightAdmin' = InFlightAdmin
  BY <1>1 DEF InFlightAdmin
<1>5. Alone(x)'
  BY <1>1, <1>2, <1>4 DEF RotationInv, Alone
<1>6. ProvisionsALeaf(x)'
  BY <1>1 DEF RotationInv, ProvisionsALeaf
<1>. QED BY <1>1, <1>2, <1>3, <1>5, <1>6, OneRequestMoves

\* x ends, with the calm as it was.
LEMMA Over ==
  ASSUME RotationInv, NEW x \in Admin, admin[x].pc # "idle",
         AdminEnds(x), UNCHANGED <<issued, calm>>,
         record' \in [status : {"none", "pending", "active"}, leaf : Leaves],
         DoomedPerRequest'
  PROVE  RotationInv'
<1>1. /\ admin'[x] = AdminIdle /\ mixed' = mixed \ {x}
      /\ \A y \in Admin \ {x} : admin'[y] = admin[y]
  BY DEF AdminEnds, RotationInv, RotationTypes
<1>2. RotationTypes'
  BY DEF AdminEnds, AdminIdle, Leaves, RotationInv, RotationTypes
<1>3. Alone(x)' /\ ProvisionsALeaf(x)'
  BY <1>1, SMTT(30) DEF Alone, ProvisionsALeaf, AdminIdle
<1>. QED BY <1>1, <1>2, <1>3, OneRequestMoves

\* A request begins: what is in flight with it is mixed from now on.
LEMMA ConnectBeginsInv ==
  ASSUME RotationInv, NEW x \in Admin, ConnectIssue(x) \/ DisconnectBegins(x)
  PROVE  RotationInv'
<1>1. PICK o \in {"connect", "disconnect"}, l \in Leaves :
        /\ AdminBegins(x, o, l) /\ (o = "connect" => l \in Leaf)
        /\ issued' \in SUBSET Leaf /\ UNCHANGED <<record, entry, doomed>>
  <2>1. CASE ConnectIssue(x)
    <3>1. (CHOOSE l \in Leaf : l \notin issued) \in Leaf
      BY <2>1 DEF ConnectIssue, RotationInv, RotationTypes
    <3>. QED BY <2>1, <3>1 DEF ConnectIssue, RotationInv, RotationTypes, Leaves
  <2>2. CASE DisconnectBegins(x)
    BY <2>2 DEF DisconnectBegins, RotationInv, RotationTypes, Leaves
  <2>. QED BY <2>1, <2>2
<1>2. /\ admin[x].pc = "idle" /\ calm' = NoLeaf
      /\ admin' = [admin EXCEPT ![x] = [op |-> o, pc |-> "record", leaf |-> l]]
      /\ mixed' = IF InFlightAdmin = {} THEN mixed
                  ELSE mixed \cup InFlightAdmin \cup {x}
  BY <1>1 DEF AdminBegins
<1>3. RotationTypes'
  BY <1>1, <1>2 DEF RotationInv, RotationTypes, Leaves
<1>4. /\ admin'[x] = [op |-> o, pc |-> "record", leaf |-> l]
      /\ \A y \in Admin \ {x} : admin'[y] = admin[y]
  BY <1>2 DEF RotationInv, RotationTypes
<1>5. InFlightAdmin' = InFlightAdmin \cup {x}
  <2>1. admin'[x].pc # "idle"
    BY <1>4, SMTT(30)
  <2>2. \A y \in Admin : admin'[y].pc # "idle" <=> y = x \/ admin[y].pc # "idle"
    BY <1>4, <2>1
  <2> QED BY <2>2, Zenon DEF InFlightAdmin
<1>6. Alone(x)' /\ ProvisionsALeaf(x)'
  <2>1. admin'[x].pc = "record" /\ admin'[x].op = o /\ admin'[x].leaf = l
    BY <1>4, SMTT(30)
  <2>2. x \notin mixed' => InFlightAdmin' = {x}
    BY <1>2, <1>5
  <2> QED BY <1>1, <2>1, <2>2 DEF Alone, ProvisionsALeaf
<1>7. ASSUME NEW y \in Admin \ {x} PROVE Alone(y)' /\ ProvisionsALeaf(y)'
  <2>1. admin[y].pc # "idle" => y \in mixed'
    BY <1>2 DEF InFlightAdmin
  <2>. QED BY <1>4, <2>1 DEF RotationInv, Alone, ProvisionsALeaf
<1>. QED BY <1>2, <1>3, <1>6, <1>7 DEF RotationInv, RotationLeavesOneIdentity
\* putSubstrateRecord and deleteSubstrateRecord.
LEMMA RecordInv ==
  ASSUME RotationInv, NEW x \in Admin, AdminRecord(x)
  PROVE  RotationInv'
<1>. DEFINE written == IF admin[x].op = "disconnect" THEN NoSubstrate
                       ELSE [status |-> "pending", leaf |-> admin[x].leaf]
<1>1. written \in [status : {"none", "pending", "active"}, leaf : Leaves]
  BY DEF NoSubstrate, Leaves, RotationInv, RotationTypes
<1>2. admin[x].op = "connect" => written.leaf = admin[x].leaf
  OBVIOUS
<1>3. /\ admin[x].pc = "record" /\ UNCHANGED <<issued, calm, doomed>>
      /\ \/ record' = written /\ AdminGoes(x, "list")
         \/ record' \in {record, written} /\ AdminEnds(x)
  BY DEF AdminRecord
<1>4. /\ record \in [status : {"none", "pending", "active"}, leaf : Leaves]
      /\ DoomedPerRequest'
  BY <1>3 DEF RotationInv, RotationTypes
<1>. HIDE DEF written
<1>5. CASE record' = written /\ AdminGoes(x, "list")
  BY <1>1, <1>2, <1>3, <1>4, <1>5, GoesOn
<1>6. CASE record' \in {record, written} /\ AdminEnds(x)
  BY <1>1, <1>3, <1>4, <1>6, Over
<1>. QED BY <1>3, <1>5, <1>6

\* InvalidateOrgNodeEntries lists every entry, and deletes all of them or
\* leaves the rest to the fallback, which deletes the bootstrap entry.
LEMMA SweepInv ==
  ASSUME RotationInv, NEW x \in Admin,
         \/ SweepList(x) \/ AdminUnwired(x) \/ SweepDelete(x) \/ SweepFallback(x)
  PROVE  RotationInv'
<1>1. /\ record \in [status : {"none", "pending", "active"}, leaf : Leaves]
      /\ DoomedPerRequest
  BY DEF RotationInv, RotationTypes
<1>2. /\ UNCHANGED <<record, issued, calm>>
      /\ admin[x].pc \in {"list", "delete", "fallback"}
  BY DEF SweepList, AdminUnwired, SweepDelete, SweepFallback
<1>3. (x \notin mixed /\ admin[x].op = "connect") => record'.leaf = admin[x].leaf
  BY <1>2 DEF RotationInv, Alone
<1>4. CASE SweepList(x)
  <2>1. CASE doomed' = [doomed EXCEPT ![x] = entry] /\ AdminGoes(x, "delete")
    <3>1. /\ DoomedPerRequest'
          /\ doomed'[x] = entry
      BY <1>1, <2>1
    <3>2. \A l \in BootLeaves' : <<Boot, l>> \in doomed'[x]
      BY <1>4, <3>1 DEF SweepList, BootLeaves
    <3>. QED BY <1>1, <1>2, <1>3, <2>1, <3>1, <3>2, GoesOn
  <2>2. CASE UNCHANGED doomed /\ AdminGoes(x, "fallback")
    BY <1>1, <1>2, <1>3, <2>2, GoesOn
  <2>. QED BY <1>4, <2>1, <2>2 DEF SweepList
<1>5. CASE AdminUnwired(x)
  BY <1>1, <1>2, <1>5, Over DEF AdminUnwired
<1>6. CASE SweepDelete(x)
  <2>1. PICK gone \in SUBSET doomed[x] :
          /\ Erase(gone)
          /\ \/ gone = doomed[x] /\ AdminGoes(x, "evict")
             \/ AdminGoes(x, "fallback")
    BY <1>6 DEF SweepDelete
  <2>2. /\ DoomedPerRequest'
        /\ entry' = entry \ gone
    BY <1>1, <2>1 DEF Erase
  <2>3. x \notin mixed /\ gone = doomed[x] => BootLeaves' = {}
    BY <1>6, <2>2 DEF SweepDelete, RotationInv, Alone, BootLeaves
  <2>4. CASE gone = doomed[x] /\ AdminGoes(x, "evict")
    BY <1>1, <1>2, <1>3, <2>2, <2>3, <2>4, GoesOn
  <2>5. CASE AdminGoes(x, "fallback")
    BY <1>1, <1>2, <1>3, <2>2, <2>5, GoesOn
  <2>. QED BY <2>1, <2>4, <2>5
<1>7. CASE SweepFallback(x)
  <2>1. CASE DeleteEntry(Boot) /\ AdminGoes(x, "evict")
    <3>1. /\ DoomedPerRequest'
          /\ BootLeaves' = {}
      BY <1>1, <2>1 DEF DeleteEntry, Erase, BootLeaves
    <3>. QED BY <1>1, <1>2, <1>3, <2>1, <3>1, GoesOn
  <2>2. CASE /\ UNCHANGED <<entry, doomed>>
             /\ IF admin[x].op = "connect" THEN AdminEnds(x)
                ELSE AdminGoes(x, "evict")
    <3>1. CASE admin[x].op = "connect"
      BY <1>1, <1>2, <2>2, <3>1, Over
    <3>2. CASE admin[x].op # "connect"
      BY <1>1, <1>2, <2>2, <3>2, GoesOn
    <3>. QED BY <3>1, <3>2
  <2>. QED BY <1>7, <2>1, <2>2 DEF SweepFallback
<1>. QED BY <1>4, <1>5, <1>6, <1>7

\* The eviction of nodes leaves entries alone.
LEMMA EvictInv ==
  ASSUME RotationInv, NEW x \in Admin, EvictNodes(x)
  PROVE  RotationInv'
<1>1. /\ record' \in [status : {"none", "pending", "active"}, leaf : Leaves]
      /\ DoomedPerRequest'
      /\ UNCHANGED <<record, issued, calm, entry>>
      /\ admin[x].pc = "evict"
  BY DEF EvictNodes, RotationInv, RotationTypes
<1>2. CASE admin[x].op = "connect" /\ AdminGoes(x, "provision")
  <2>1. x \notin mixed => record'.leaf = admin[x].leaf /\ BootLeaves' = {}
    BY <1>1, <1>2 DEF RotationInv, Alone, BootLeaves
  <2>. QED BY <1>1, <1>2, <2>1, GoesOn
<1>3. CASE AdminEnds(x)
  BY <1>1, <1>3, Over
<1>. QED BY <1>2, <1>3 DEF EvictNodes

\* The provisioning of an undisturbed connect writes the only bootstrap
\* entry, under the leaf on record.
LEMMA ProvisionInv ==
  ASSUME RotationInv, NEW x \in Admin, Provision(x)
  PROVE  RotationInv'
<1>1. /\ record' \in [status : {"none", "pending", "active"}, leaf : Leaves]
      /\ DoomedPerRequest'
      /\ UNCHANGED <<record, issued, doomed>> /\ AdminEnds(x)
      /\ admin[x].pc = "provision"
  BY DEF Provision, RotationInv, RotationTypes
<1>2. calm = NoLeaf
  BY <1>1 DEF RotationInv, InFlightAdmin
<1>3. CASE calm' = calm
  BY <1>1, <1>3, Over
<1>4. CASE calm' # calm
  <2>1. /\ x \notin mixed /\ calm' = admin[x].leaf
        /\ entry' = entry \cup {<<Boot, admin[x].leaf>>}
    BY <1>2, <1>4 DEF Provision, CreateEntry
  <2>2. admin[x].op = "connect" /\ admin[x].leaf \in Leaf
    BY <1>1 DEF RotationInv, ProvisionsALeaf
  <2>3. InFlightAdmin = {x} /\ record.leaf = admin[x].leaf /\ BootLeaves = {}
    BY <1>1, <2>1, <2>2 DEF RotationInv, Alone
  <2>4. /\ admin'[x] = AdminIdle
        /\ \A y \in Admin \ {x} : admin'[y] = admin[y]
    BY <1>1 DEF AdminEnds, RotationInv, RotationTypes
  <2>5. InFlightAdmin' = {}
    BY <2>3, <2>4, SMTT(30) DEF InFlightAdmin, AdminIdle
  <2>6. RotationTypes'
    BY <1>1, <2>1, <2>2
       DEF AdminEnds, AdminIdle, Leaves, RotationInv, RotationTypes
  <2>7. \A y \in Admin : Alone(y)'
    BY <2>5 DEF Alone, InFlightAdmin
  <2>8. \A y \in Admin : ProvisionsALeaf(y)'
    BY <2>4, SMTT(30) DEF ProvisionsALeaf, AdminIdle, RotationInv
  <2>9. RotationLeavesOneIdentity'
    BY <1>1, <2>1, <2>2, <2>3 DEF RotationLeavesOneIdentity, BootLeaves
  <2>. QED BY <2>5, <2>6, <2>7, <2>8, <2>9 DEF RotationInv
<1>. QED BY <1>3, <1>4

\* A restart of the orchestrator ends every request where it stands.
LEMMA CrashInv ==
  ASSUME RotationInv, OrchestratorCrash
  PROVE  RotationInv'
<1>1. /\ admin' = [x \in Admin |-> AdminIdle] /\ doomed' = [x \in Admin |-> {}]
      /\ UNCHANGED <<record, issued, entry, calm>>
  BY DEF OrchestratorCrash
<1>2. RotationTypes'
  BY <1>1 DEF AdminIdle, Leaves, RotationInv, RotationTypes
<1>3. InFlightAdmin' = {}
  BY <1>1 DEF InFlightAdmin, AdminIdle
<1>4. \A x \in Admin : Alone(x)' /\ ProvisionsALeaf(x)'
  BY <1>1 DEF Alone, ProvisionsALeaf, AdminIdle
<1>. QED BY <1>1, <1>2, <1>3, <1>4 DEF RotationInv, RotationLeavesOneIdentity
\* Every step of the substrate preserves the invariant.
LEMMA RotationNextInv ==
  ASSUME RotationInv, [SubstrateNext]_substrateVars
  PROVE  RotationInv'
<1>1. ASSUME NEW x \in Admin, AdminMoves(x) PROVE RotationInv'
  BY <1>1, ConnectBeginsInv, RecordInv, SweepInv, EvictInv, ProvisionInv
     DEF AdminMoves, AdminStep
<1>2. ASSUME NEW a \in Agent,
             \/ EnsureEntry(a) \/ MaterializeEntry(a) \/ Rollback(a)
             \/ TeardownEntry(a)
      PROVE  \/ CreateWorkloadEntry(a) \/ DeleteWorkloadEntry(a)
             \/ UNCHANGED entryVars
  BY <1>2 DEF EnsureEntry, MaterializeEntry, Rollback, TeardownEntry
<1>3. ASSUME \/ ConvergeList \/ MaterializeWorkload \/ TeardownWorkload
             \/ OpEnds \/ ConvergeBegins \/ HandleDown \/ NoticeClosed
             \/ AgentCrash \/ Dial
      PROVE  UNCHANGED entryVars
  BY <1>3 DEF ConvergeList, MaterializeWorkload, TeardownWorkload, OpEnds,
     ConvergeBegins, HandleDown, NoticeClosed, AgentCrash, Dial
<1>4. ASSUME CallerMoves PROVE UNCHANGED entryVars
  BY <1>4 DEF CallerMoves, SpawnRecord, SpawnLook, SpawnSend, ReapNode,
     KillLook, KillSend, ReapWalk, ReapPassEnds, ReapEnds
<1>5. ASSUME NEW a \in Agent,
             SpawnPlace(a) \/ Dismiss(a) \/ ReapBegins(a) \/ PodMoves(a)
      PROVE  UNCHANGED entryVars
  BY <1>5 DEF SpawnPlace, Dismiss, ReapBegins, PodMoves
<1>6. ASSUME NEW c \in Conn, ChannelMoves(c) \/ ChannelBreaks(c)
      PROVE  ActivateRecord \/ UNCHANGED entryVars
  BY <1>6 DEF ChannelMoves, HubRegister, ChannelServes, HubUnregister,
     ChannelBreaks
<1>7. ASSUME SpireMoves PROVE SpireStep \/ EntryServiceUp
  BY <1>7 DEF SpireMoves
<1>8. ASSUME UNCHANGED substrateVars PROVE UNCHANGED entryVars
  BY <1>8 DEF substrateVars
<1>9. \/ \E x \in Admin : AdminMoves(x)
      \/ \E a \in Agent : CreateWorkloadEntry(a) \/ DeleteWorkloadEntry(a)
      \/ ActivateRecord \/ SpireStep \/ EntryServiceUp \/ UNCHANGED entryVars
      \/ \E l \in Leaf : Install(l)
      \/ OrchestratorCrash
  BY <1>2, <1>3, <1>4, <1>5, <1>6, <1>7, <1>8
     DEF SubstrateNext, Running, Unforeseen, OpMoves
<1>. QED BY <1>1, <1>9, WorkloadEntryAside, OtherAside, AsideInv, CrashInv

\* A substrate that was never connected, or is up on its first leaf.
LEMMA RotationInitInv ==
  ASSUME NEW first \in Leaves, EntriesInit(first)
  PROVE  RotationInv
<1>1. InFlightAdmin = {}
  BY DEF EntriesInit, InFlightAdmin, AdminIdle
<1>2. RotationTypes
  BY DEF EntriesInit, RotationTypes, DoomedPerRequest, AdminIdle, NoSubstrate,
     Leaves
<1>3. \A x \in Admin : Alone(x) /\ ProvisionsALeaf(x)
  BY DEF EntriesInit, Alone, ProvisionsALeaf, AdminIdle
<1>4. RotationLeavesOneIdentity
  BY EntryIds DEF EntriesInit, RotationLeavesOneIdentity, Leaves
<1>. QED BY <1>1, <1>2, <1>3, <1>4 DEF RotationInv

\* However many requests came before and whatever calls failed, a connect
\* that nothing overlapped leaves the recorded leaf as the only one under
\* which the substrate-agent can attest.
THEOREM RotationCorrect == SubstrateSpec => []RotationLeavesOneIdentity
<1>1. SubstrateInit => RotationInv
  BY RotationInitInv DEF SubstrateInit
<1>2. RotationInv /\ [SubstrateNext]_substrateVars => RotationInv'
  BY RotationNextInv
<1>3. RotationInv => RotationLeavesOneIdentity
  BY DEF RotationInv
<1>. QED BY <1>1, <1>2, <1>3, PTL DEF SubstrateSpec

-----------------------------------------------------------------------------
(* Workloads and their entries                                               *)

\* What the operation that holds opMu has still to do: it ensures the entries
\* of workloads that run, before anything else; the one it is at is an agent;
\* a removal is one it was asked for; and it begins with an empty list.
OpInv ==
  /\ op = [kind |-> op.kind, ensure |-> op.ensure, create |-> op.create,
           delete |-> op.delete, pc |-> op.pc, at |-> op.at]
  /\ op.ensure \subseteq cr
  /\ op.pc \in {"workload", "undo", "remove"} => op.at \in Agent /\ op.ensure = {}
  /\ op.pc = "remove" => op.at \in op.delete
  /\ op.pc = "list" => op.ensure = {} /\ op.delete = {}

HasEntry(a) == \E l \in Leaf : <<a, l>> \in entry

\* An entry without a workload is that of the one being materialized, or a
\* failure stranded it; the entry goes before the workload.
Accounted ==
  /\ \A a \in Agent : HasEntry(a) =>
       \/ a \in cr \/ a \in stained
       \/ op.pc \in {"workload", "undo"} /\ a = op.at
  /\ op.pc = "remove" => ~ HasEntry(op.at)

\* A workload without an entry under the installed leaf is one the operation
\* has yet to ensure or to remove; it got its entry first.
Identified ==
  intact =>
    /\ \A a \in cr : <<a, mounted>> \in entry \/ a \in op.ensure \cup op.delete
    /\ op.pc = "workload" => <<op.at, mounted>> \in entry
    /\ op.pc # "undo"

WorkloadInv == OpInv /\ Accounted /\ Identified

\* A step beside the operation: it may sweep entries of workloads, if it also
\* unsettles what was converged on, and writes none.
Beside ==
  /\ UNCHANGED <<cr, op, stained>>
  /\ \A a \in Agent, l \in Leaf : <<a, l>> \in entry' => <<a, l>> \in entry
  /\ intact' => intact /\ UNCHANGED <<entry, mounted>>

\* Such a step preserves the invariant.
LEMMA BesideKeeps ==
  ASSUME WorkloadInv, Beside
  PROVE  WorkloadInv'
<1>1. OpInv'
  BY DEF WorkloadInv, Beside, OpInv
<1>2. \A a \in Agent : HasEntry(a)' => HasEntry(a)
  BY DEF Beside, HasEntry
<1>3. Accounted'
  <2>1. op.pc = "remove" => op.at \in Agent
    BY DEF WorkloadInv, OpInv
  <2>2. UNCHANGED <<cr, op, stained>>
    BY DEF Beside
  <2>3. op'.pc = "remove" => ~ HasEntry(op.at)'
    BY <1>2, <2>1, <2>2 DEF WorkloadInv, Accounted
  <2>. QED BY <1>2, <2>2, <2>3 DEF WorkloadInv, Accounted, HasEntry
<1>4. Identified'
  BY DEF WorkloadInv, Beside, Identified
<1>. QED BY <1>1, <1>3, <1>4 DEF WorkloadInv

\* A connect or disconnect writes the substrate-agent's entry only.
LEMMA AdminBeside ==
  ASSUME NEW x \in Admin, AdminMoves(x)
  PROVE  Beside
<1>1. AdminStep(x) /\ UNCHANGED <<cr, op, stained>> /\ intact' = FALSE
  BY DEF AdminMoves
<1>2. \A a \in Agent, l \in Leaf : <<a, l>> \in entry' => <<a, l>> \in entry
  <2>1. CASE \/ ConnectIssue(x) \/ DisconnectBegins(x) \/ AdminRecord(x)
             \/ SweepList(x) \/ AdminUnwired(x) \/ EvictNodes(x)
    BY <2>1 DEF ConnectIssue, DisconnectBegins, AdminRecord, SweepList,
       AdminUnwired, EvictNodes
  <2>2. CASE SweepDelete(x) \/ SweepFallback(x)
    <3>1. SweepDelete(x) => entry' \subseteq entry
      BY DEF SweepDelete, DeleteEntry, Erase
    <3>2. SweepFallback(x) => entry' \subseteq entry
      BY DEF SweepFallback, DeleteEntry, Erase
    <3> QED BY <2>2, <3>1, <3>2
  <2>3. CASE Provision(x)
    BY <2>3, EntryIds, SMTT(30) DEF Provision, CreateEntry
  <2>. QED BY <1>1, <2>1, <2>2, <2>3 DEF AdminStep
<1>. QED BY <1>1, <1>2 DEF Beside

\* So are the handlers, the channels, SPIRE, the pods and a restart of the
\* orchestrator.
LEMMA OthersBeside ==
  ASSUME \/ CallerMoves \/ SpireMoves \/ Dial \/ NoticeClosed
         \/ OrchestratorCrash \/ UNCHANGED substrateVars
         \/ \E c \in Conn : ChannelMoves(c) \/ ChannelBreaks(c)
         \/ \E a \in Agent :
              SpawnPlace(a) \/ Dismiss(a) \/ ReapBegins(a) \/ PodMoves(a)
  PROVE  Beside
<1>. DEFINE Same == UNCHANGED <<cr, op, stained, intact, entry, mounted>>
<1>1. ASSUME CallerMoves PROVE UNCHANGED <<agentVars, entryVars>>
  BY <1>1, Zenon DEF CallerMoves, SpawnRecord, SpawnLook, SpawnSend, ReapNode,
     KillLook, KillSend, ReapWalk, ReapPassEnds, ReapEnds
<1>2. CASE SpireMoves
  <2>1. UNCHANGED <<entry, mounted>>
    BY <1>2 DEF SpireMoves, SpireStep, Attest, FetchSvid, SvidLapses,
       EntryServiceUp
  <2>. QED BY <1>2, <2>1 DEF SpireMoves, dispatchVars, Beside
<1>3. CASE Dial \/ NoticeClosed
  BY <1>3, SMTT(30) DEF Dial, NoticeClosed, entryVars, Beside
<1>4. CASE OrchestratorCrash
  BY <1>4 DEF OrchestratorCrash, agentVars, Beside
<1>5. CASE UNCHANGED substrateVars
  BY <1>5 DEF substrateVars, dispatchVars, entryVars, Beside
<1>6. ASSUME NEW c \in Conn, ChannelMoves(c) \/ ChannelBreaks(c) PROVE Same
  BY <1>6 DEF ChannelMoves, HubRegister, ChannelServes, HubUnregister,
     ChannelBreaks, ActivateRecord, agentVars, entryVars
<1>7. ASSUME NEW a \in Agent,
             SpawnPlace(a) \/ Dismiss(a) \/ ReapBegins(a) \/ PodMoves(a)
      PROVE  Same
  BY <1>7 DEF SpawnPlace, Dismiss, ReapBegins, PodMoves, agentVars, entryVars
<1>8. UNCHANGED <<agentVars, entryVars>> => Same
  BY DEF agentVars, entryVars
<1>9. Same => Beside
  BY SMTT(30) DEF Beside
<1>. HIDE DEF Same
<1>. QED BY <1>1, <1>2, <1>3, <1>4, <1>5, <1>6, <1>7, <1>8, <1>9

\* The process stops, with whatever it was at, or is installed anew.
LEMMA StopKeeps ==
  ASSUME WorkloadInv, AgentCrash \/ \E l \in Leaf : Install(l)
  PROVE  WorkloadInv'
<1>1. /\ op' = Nothing /\ intact' = FALSE /\ UNCHANGED <<cr, entry>>
      /\ stained' = stained \cup ({op.at} \ {NoAgent})
  BY DEF AgentCrash, Install, AgentStops, entryVars
<1>2. OpInv'
  BY <1>1 DEF OpInv, Nothing
<1>3. op.pc \in {"workload", "undo"} => op.at # NoAgent
  BY NoAgentIsNotAnAgent DEF WorkloadInv, OpInv
<1>4. Accounted'
  BY <1>1, <1>3 DEF WorkloadInv, Accounted, HasEntry, Nothing
<1>. QED BY <1>1, <1>2, <1>4 DEF WorkloadInv, Identified

\* The substrate-agent turns to a convergence or to a frame.
LEMMA BeginsKeeps ==
  ASSUME WorkloadInv, ConvergeBegins \/ HandleDown
  PROVE  WorkloadInv'
<1>1. op = Nothing /\ UNCHANGED <<cr, entry, mounted, intact, stained>>
  BY DEF ConvergeBegins, HandleDown, entryVars
<1>2. PICK k, g, d, pc :
        /\ op' = [kind |-> k, ensure |-> {}, create |-> g, delete |-> d,
                  pc |-> pc, at |-> NoAgent]
        /\ pc = "next" \/ (pc = "list" /\ d = {})
  <2>1. CASE ConvergeBegins
    BY <2>1 DEF ConvergeBegins, Nothing
  <2>2. CASE HandleDown
    BY <2>2 DEF HandleDown, Nothing
  <2>. QED BY <2>1, <2>2
<1>3. OpInv'
  BY <1>2 DEF OpInv
<1>4. op.pc = "next" /\ op.ensure = {} /\ op.delete = {}
  BY <1>1 DEF Nothing
<1>5. Accounted'
  BY <1>1, <1>2, <1>4 DEF WorkloadInv, Accounted, HasEntry
<1>6. Identified'
  BY <1>1, <1>2, <1>4 DEF WorkloadInv, Identified
<1>. QED BY <1>3, <1>5, <1>6 DEF WorkloadInv

\* It lists what is to be done, and on connect nothing is left out; or ends.
LEMMA ListKeeps ==
  ASSUME WorkloadInv, ConvergeList \/ OpEnds
  PROVE  WorkloadInv'
<1>1. op.pc \in {"list", "next"} /\ UNCHANGED <<cr, entry, mounted, stained>>
  BY DEF ConvergeList, OpEnds, entryVars
<1>2. CASE op' = Nothing /\ (intact' => intact /\ op.ensure \cup op.delete = {})
  <2>1. OpInv' /\ op'.pc = "next"
    BY <1>2 DEF OpInv, Nothing
  <2>2. Accounted'
    BY <1>1, <2>1 DEF WorkloadInv, Accounted, HasEntry
  <2>3. Identified'
    BY <1>1, <1>2, <2>1 DEF WorkloadInv, Identified
  <2>. QED BY <2>1, <2>2, <2>3 DEF WorkloadInv
<1>3. CASE /\ op.pc = "list" /\ op' = Reconcile(op.kind)
           /\ intact' => intact \/ op.kind = "connect"
  <2>1. /\ op' = [kind |-> op'.kind, ensure |-> op'.ensure,
                  create |-> op'.create, delete |-> op'.delete,
                  pc |-> "next", at |-> NoAgent]
        /\ op'.ensure \subseteq cr
        /\ op.kind = "connect" => cr \subseteq op'.ensure \cup op'.delete
    BY <1>3 DEF Reconcile, Nothing
  <2>2. OpInv'
    BY <1>1, <2>1, SMTT(30) DEF OpInv
  <2>3. Accounted'
    BY <1>1, <2>1, SMTT(30) DEF WorkloadInv, Accounted, HasEntry
  <2>4. op.ensure = {} /\ op.delete = {}
    BY <1>3 DEF WorkloadInv, OpInv
  <2>5. Identified'
    BY <1>1, <1>3, <2>1, <2>4, SMTT(30) DEF WorkloadInv, Identified
  <2>. QED BY <2>2, <2>3, <2>5 DEF WorkloadInv
<1>4. CASE ConvergeList
  <2>1. op.pc = "list"
    BY <1>4 DEF ConvergeList
  <2>2. \/ op' = Reconcile(op.kind) /\ (intact' => intact \/ op.kind = "connect")
        \/ op' = Nothing /\ ~ intact'
    BY <1>4 DEF ConvergeList
  <2>. QED BY <1>2, <1>3, <2>1, <2>2
<1>5. CASE OpEnds
  <2>1. op' = Nothing /\ intact' = intact
    BY <1>5 DEF OpEnds
  <2>2. op.ensure \cup op.delete = {}
    BY <1>5 DEF OpEnds
  <2>. QED BY <1>2, <2>1, <2>2
<1>. QED BY <1>4, <1>5

\* The entry of a workload that runs is written again.
LEMMA EnsureKeeps ==
  ASSUME WorkloadInv, NEW a \in Agent, EnsureEntry(a)
  PROVE  WorkloadInv'
<1>1. /\ op.pc = "next" /\ a \in op.ensure /\ op' = [op EXCEPT !.ensure = @ \ {a}]
      /\ UNCHANGED <<cr, stained>>
  BY DEF EnsureEntry
<1>2. \/ entry' = entry \cup {<<a, mounted>>} /\ UNCHANGED <<mounted, intact>>
      \/ UNCHANGED <<entry, mounted>> /\ intact' = FALSE
  BY DEF EnsureEntry, CreateWorkloadEntry, CreateEntry, entryVars
<1>3. /\ op'.pc = "next" /\ op'.ensure = op.ensure \ {a} /\ op'.delete = op.delete
      /\ OpInv'
  BY <1>1 DEF WorkloadInv, OpInv
<1>4. a \in cr /\ \A b \in Agent : HasEntry(b)' => HasEntry(b) \/ b = a
  BY <1>1, <1>2 DEF WorkloadInv, OpInv, HasEntry
<1>5. Accounted'
  BY <1>1, <1>3, <1>4 DEF WorkloadInv, Accounted
<1>6. Identified'
  BY <1>1, <1>2, <1>3 DEF WorkloadInv, Identified
<1>. QED BY <1>3, <1>5, <1>6 DEF WorkloadInv

\* materialize: the entry comes before the workload, and goes again if the
\* workload does not come.
LEMMA MaterializeKeeps ==
  ASSUME WorkloadInv, NEW a \in Agent, MaterializeEntry(a) \/ Rollback(a)
  PROVE  WorkloadInv'
<1>1. op = [kind |-> op.kind, ensure |-> op.ensure, create |-> op.create,
            delete |-> op.delete, pc |-> op.pc, at |-> op.at]
  BY DEF WorkloadInv, OpInv
<1>2. CASE MaterializeEntry(a)
  <2>1. /\ op.pc = "next" /\ op.ensure = {} /\ UNCHANGED <<cr, stained>>
        /\ \/ /\ entry' = entry \cup {<<a, mounted>>}
              /\ UNCHANGED <<mounted, intact>>
              /\ op' = [op EXCEPT !.pc = "workload", !.at = a]
           \/ /\ UNCHANGED entry /\ intact' = FALSE
              /\ op' = [op EXCEPT !.create = @ \ {a}]
    BY <1>2 DEF MaterializeEntry, CreateWorkloadEntry, CreateEntry, entryVars
  <2>2. CASE op' = [op EXCEPT !.create = @ \ {a}] /\ intact' = FALSE
             /\ UNCHANGED entry
    <3>1. op'.pc = "next" /\ OpInv'
      BY <1>1, <2>1, <2>2 DEF OpInv
    <3>2. Accounted'
      BY <2>1, <2>2, <3>1 DEF WorkloadInv, Accounted, HasEntry
    <3>. QED BY <2>2, <3>1, <3>2 DEF WorkloadInv, Identified
  <2>3. CASE /\ entry' = entry \cup {<<a, mounted>>}
             /\ UNCHANGED <<mounted, intact>>
             /\ op' = [op EXCEPT !.pc = "workload", !.at = a]
    <3>1. /\ op'.pc = "workload" /\ op'.at = a /\ op'.ensure = {}
          /\ op'.delete = op.delete /\ OpInv'
      BY <1>1, <2>1, <2>3 DEF OpInv
    <3>2. \A b \in Agent : HasEntry(b)' => HasEntry(b) \/ b = a
      BY <2>3 DEF HasEntry
    <3>3. Accounted'
      BY <2>1, <3>1, <3>2 DEF WorkloadInv, Accounted
    <3>4. Identified'
      BY <2>1, <2>3, <3>1 DEF WorkloadInv, Identified
    <3>. QED BY <3>1, <3>3, <3>4 DEF WorkloadInv
  <2>. QED BY <2>1, <2>2, <2>3
<1>3. CASE Rollback(a)
  <2>1. /\ op.pc = "undo" /\ a = op.at /\ op' = Done(a)
        /\ UNCHANGED <<cr, intact>>
        /\ \/ entry' = entry \ ({a} \X Leaf) /\ UNCHANGED stained
           \/ UNCHANGED entry /\ stained' = stained \cup {a}
    BY <1>3 DEF Rollback, DeleteWorkloadEntry, DeleteEntry, Erase, entryVars
  <2>2. op'.pc = "next" /\ OpInv'
    BY <1>1, <2>1 DEF Done, OpInv, WorkloadInv
  <2>3. /\ \A b \in Agent : HasEntry(b)' => HasEntry(b)
        /\ HasEntry(a)' => a \in stained'
        /\ stained \subseteq stained'
    BY <2>1 DEF HasEntry
  <2>4. Accounted'
    BY <2>1, <2>2, <2>3 DEF WorkloadInv, Accounted
  <2>5. ~ intact'
    BY <2>1 DEF WorkloadInv, Identified
  <2>. QED BY <2>2, <2>4, <2>5 DEF WorkloadInv, Identified
<1>. QED BY <1>2, <1>3

\* teardown: the entry goes before the workload.
LEMMA TeardownEntryKeeps ==
  ASSUME WorkloadInv, NEW a \in Agent, TeardownEntry(a)
  PROVE  WorkloadInv'
<1>1. op = [kind |-> op.kind, ensure |-> op.ensure, create |-> op.create,
            delete |-> op.delete, pc |-> op.pc, at |-> op.at]
  BY DEF WorkloadInv, OpInv
<1>2. /\ op.pc = "next" /\ op.ensure = {} /\ a \in op.delete
      /\ UNCHANGED <<cr, stained>>
      /\ \/ /\ entry' = entry \ ({a} \X Leaf)
            /\ UNCHANGED <<mounted, intact>>
            /\ op' = [op EXCEPT !.pc = "remove", !.at = a]
         \/ UNCHANGED entry /\ intact' = FALSE /\ op' = Done(a)
  BY DEF TeardownEntry, DeleteWorkloadEntry, DeleteEntry, Erase, entryVars
<1>3. CASE UNCHANGED entry /\ intact' = FALSE /\ op' = Done(a)
  <2>1. op'.pc = "next" /\ OpInv'
    BY <1>1, <1>2, <1>3 DEF Done, OpInv
  <2>2. Accounted'
    BY <1>2, <1>3, <2>1 DEF WorkloadInv, Accounted, HasEntry
  <2>. QED BY <1>3, <2>1, <2>2 DEF WorkloadInv, Identified
<1>4. CASE /\ entry' = entry \ ({a} \X Leaf)
           /\ UNCHANGED <<mounted, intact>>
           /\ op' = [op EXCEPT !.pc = "remove", !.at = a]
  <2>1. /\ op'.pc = "remove" /\ op'.at = a /\ op'.ensure = {}
        /\ op'.delete = op.delete /\ OpInv'
    BY <1>1, <1>2, <1>4 DEF OpInv
  <2>2. /\ \A b \in Agent : HasEntry(b)' => HasEntry(b)
        /\ \A l \in Leaf : <<a, l>> \notin entry'
        /\ \A b : b # a /\ <<b, mounted>> \in entry => <<b, mounted>> \in entry'
    BY <1>4 DEF HasEntry
  <2>3. Accounted'
    BY <1>2, <2>1, <2>2 DEF WorkloadInv, Accounted, HasEntry
  <2>4. Identified'
    BY <1>2, <1>4, <2>1, <2>2 DEF WorkloadInv, Identified
  <2>. QED BY <2>1, <2>3, <2>4 DEF WorkloadInv
<1>. QED BY <1>2, <1>3, <1>4

\* The workload itself is created, or removed, or neither.
LEMMA WorkloadKeeps ==
  ASSUME WorkloadInv, MaterializeWorkload \/ TeardownWorkload
  PROVE  WorkloadInv'
<1>1. /\ op = [kind |-> op.kind, ensure |-> op.ensure, create |-> op.create,
               delete |-> op.delete, pc |-> op.pc, at |-> op.at]
      /\ op.ensure = {} /\ op.at \in Agent
      /\ UNCHANGED <<entry, mounted, stained>>
  BY DEF WorkloadInv, OpInv, MaterializeWorkload, TeardownWorkload, entryVars
<1>2. CASE MaterializeWorkload
  <2>1. CASE cr' = cr \cup {op.at} /\ op' = Done(op.at) /\ UNCHANGED intact
    <3>1. /\ op'.pc = "next" /\ op'.ensure = {}
          /\ op'.delete = op.delete \ {op.at} /\ OpInv'
      BY <1>1, <2>1 DEF Done, OpInv
    <3>2. Accounted'
      BY <1>1, <2>1, <3>1 DEF WorkloadInv, Accounted, HasEntry
    <3>3. Identified'
      BY <1>1, <1>2, <2>1, <3>1 DEF WorkloadInv, Identified, MaterializeWorkload
    <3>. QED BY <3>1, <3>2, <3>3 DEF WorkloadInv
  <2>2. CASE op' = [op EXCEPT !.pc = "undo"] /\ intact' = FALSE /\ UNCHANGED cr
    <3>1. op'.pc = "undo" /\ op'.at = op.at /\ OpInv'
      BY <1>1, <2>2 DEF OpInv
    <3>2. Accounted'
      BY <1>1, <2>2, <3>1 DEF WorkloadInv, Accounted, HasEntry
    <3>. QED BY <2>2, <3>1, <3>2 DEF WorkloadInv, Identified
  <2>. QED BY <1>2, <2>1, <2>2 DEF MaterializeWorkload
<1>3. CASE TeardownWorkload
  <2>1. /\ op.pc = "remove" /\ op' = Done(op.at) /\ op.at \in op.delete
        /\ \/ cr' = cr \ {op.at} /\ UNCHANGED intact
           \/ UNCHANGED cr /\ intact' = FALSE
    BY <1>3 DEF TeardownWorkload, WorkloadInv, OpInv
  <2>2. /\ op'.pc = "next" /\ op'.ensure = {}
        /\ op'.delete = op.delete \ {op.at} /\ OpInv'
    BY <1>1, <2>1 DEF Done, OpInv
  <2>3. Accounted'
    BY <1>1, <2>1, <2>2 DEF WorkloadInv, Accounted, HasEntry
  <2>4. Identified'
    BY <1>1, <2>1, <2>2 DEF WorkloadInv, Identified
  <2>. QED BY <2>2, <2>3, <2>4 DEF WorkloadInv
<1>. QED BY <1>2, <1>3

\* The inductive invariant: the operation that holds opMu accounts for every
\* entry without a workload and every workload without an entry.
THEOREM WorkloadsInvariant == SubstrateSpec => []WorkloadInv
<1>1. SubstrateInit => WorkloadInv
  <2> SUFFICES ASSUME SubstrateInit PROVE WorkloadInv
    OBVIOUS
  <2>1. cr = {} /\ op = Nothing /\ intact = FALSE
    BY DEF SubstrateInit, DispatchInit
  <2>2. \A a \in Agent : ~ HasEntry(a)
    BY EntryIds DEF SubstrateInit, EntriesInit, HasEntry
  <2>. QED BY <2>1, <2>2 DEF WorkloadInv, OpInv, Accounted, Identified, Nothing
<1>2. WorkloadInv /\ [SubstrateNext]_substrateVars => WorkloadInv'
  <2> SUFFICES ASSUME WorkloadInv, [SubstrateNext]_substrateVars
               PROVE  WorkloadInv'
    OBVIOUS
  <2>1. CASE OpMoves
    BY <2>1, ListKeeps, WorkloadKeeps, EnsureKeeps, MaterializeKeeps,
       TeardownEntryKeeps DEF OpMoves
  <2>. QED BY <2>1, BeginsKeeps, StopKeeps, AdminBeside, OthersBeside,
           BesideKeeps DEF SubstrateNext, Running, Unforeseen
<1>. QED BY <1>1, <1>2, PTL DEF SubstrateSpec

\* Once a reconcile on connect has gone through, no workload of the cluster
\* is without its entry under the installed leaf, until a call fails or the
\* substrate is connected or disconnected again.
THEOREM IdentityKept == SubstrateSpec => []WorkloadsKeepTheirIdentity
<1>1. WorkloadInv => WorkloadsKeepTheirIdentity
  BY SMTT(30) DEF WorkloadInv, Identified, WorkloadsKeepTheirIdentity, Nothing
<1>. QED BY <1>1, WorkloadsInvariant, PTL

\* No entry outlives its workload or precedes one that never came, unless a
\* rollback failed or the process stopped between the two calls.
THEOREM NothingStranded == SubstrateSpec => []NoStrandedEntry
<1>1. WorkloadInv => NoStrandedEntry
  BY SMTT(30) DEF WorkloadInv, Accounted, HasEntry, NoStrandedEntry, Nothing
<1>. QED BY <1>1, WorkloadsInvariant, PTL
=============================================================================
