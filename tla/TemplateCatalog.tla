-------------------------- MODULE TemplateCatalog --------------------------
(* The catalog of agent types: administrators create, enable, disable and    *)
(* delete templates (cmd/registry/main.go), while spawns and registrations   *)
(* of remote agents (cmd/orchestrator/main.go) ask it whether a type may be  *)
(* instantiated, by whom and how deep in a chain.  Every handler reads the   *)
(* template first and writes later, and a store call is one step, so what    *)
(* was read may be gone by then.  A template belongs to an organization, or  *)
(* to the global catalog; a realm administrator acts in the global scope.    *)
EXTENDS Naturals, Sequences, FiniteSets

CONSTANTS
  AgentType,
  ScopeOrg,      \* organizations
  Global,        \* the empty OrgID
  Body,          \* what an administrator may post: [status, policy]
  CatalogCall,   \* requests that may be in flight at once
  MaxRecords        \* bound: agents spawned in a behaviour

VARIABLES
  tpl,        \* AgentType -> the template
  before,     \* AgentType -> the version it replaced: a lagging replica's
  records,    \* the records preregistered, oldest first; 0 is no parent
  call,       \* the requests in flight, with their handlers' locals
  allowance,  \* bound: edits and spawns still to begin
  ever        \* history: AgentType -> every version its template has had

catalogVars == <<tpl, before, records, call, allowance, ever>>

Scope == ScopeOrg \cup {Global}

\* AgentTemplate.Delegation; consent is ChildPolicies[...].RequireUserConsent.
NoPolicy == [children |-> {}, consent |-> {}, maxDepth |-> 0]
NoTemplate == [org |-> Global, status |-> "none", policy |-> NoPolicy]
Defined(t) == t.status # "none"

DelegationPolicy == [children : SUBSET AgentType, consent : SUBSET AgentType,
                     maxDepth : Nat]
Template == [org : Scope, status : {"none", "active", "disabled"},
             policy : DelegationPolicy]

\* The create handler refuses any other status; an empty one and "deprecated"
\* count as active.
ASSUME CatalogBounds ==
  /\ Global \notin ScopeOrg /\ MaxRecords \in Nat
  /\ Body \subseteq [status : {"active", "disabled"}, policy : DelegationPolicy]

NoCatalogCall == [op |-> "none", at |-> "idle", org |-> Global, type |-> "none",
                  parent |-> 0, new |-> NoTemplate, read |-> NoTemplate,
                  gated |-> FALSE]

CatalogInit(templates, edits, spawns) ==
  /\ tpl = templates /\ before = templates
  /\ records = << >>
  /\ call = [c \in CatalogCall |-> NoCatalogCall]
  /\ allowance = [edits |-> edits, spawns |-> spawns]
  /\ ever = [k \in AgentType |-> {templates[k]}]

-----------------------------------------------------------------------------
(* The store: PutTemplate and DeleteTemplate are unconditional,              *)
(* UpdateTemplateStatus sets one attribute of an existing item, GetTemplate  *)
(* is an eventually consistent read (bound: at most one version behind).     *)

Store(k, t) ==
  /\ tpl' = [tpl EXCEPT ![k] = t]
  /\ before' = [before EXCEPT ![k] = tpl[k]]
  /\ ever' = [ever EXCEPT ![k] = @ \cup {t}]

PutTemplate(k, t) == Store(k, t)
UpdateTemplateStatus(k, st) ==
  IF Defined(tpl[k]) THEN Store(k, [tpl[k] EXCEPT !.status = st])
  ELSE UNCHANGED <<tpl, before, ever>>
DeleteTemplate(k) == Store(k, NoTemplate)
GetTemplate(k) == {tpl[k], before[k]}

-----------------------------------------------------------------------------
(* Requests                                                                  *)

Proceeds(c, step) == call' = [call EXCEPT ![c].at = step]
Ends(c) == call' = [call EXCEPT ![c] = NoCatalogCall]
Keeps == UNCHANGED <<tpl, before, records, allowance, ever>>

Begins(c, kind, request) ==
  /\ call[c] = NoCatalogCall
  /\ allowance[kind] > 0
  /\ allowance' = [allowance EXCEPT ![kind] = @ - 1]
  /\ call' = [call EXCEPT ![c] = request]
  /\ UNCHANGED <<tpl, before, records, ever>>

\* requireTemplateManager gives the request its scope: none for a realm
\* administrator, the caller's organization for its administrator.
EditBegins(c) ==
  \E o \in Scope, k \in AgentType :
    LET asks(op, st, policy) == Begins(c, "edits", [NoCatalogCall EXCEPT
          !.op = op, !.at = "read", !.org = o, !.type = k,
          !.new = [org |-> o, status |-> st, policy |-> policy]])
    IN \/ \E b \in Body : asks("create", b.status, b.policy)
       \/ \E st \in {"active", "disabled"} : asks("status", st, NoPolicy)
       \/ asks("delete", "none", NoPolicy)

\* POST: a name that is taken stays where it is; an organization may only
\* replace its own.
CreateReadsUnscoped(c) ==
  /\ call[c].op = "create" /\ call[c].at = "read"
  /\ \E t \in GetTemplate(call[c].type) :
       call' = [call EXCEPT ![c].at = "write", ![c].read = t]
  /\ Keeps

CreateReads(c) ==
  LET o == call[c].org IN
  /\ call[c].op = "create" /\ call[c].at = "read"
  /\ \E t \in GetTemplate(call[c].type) :
       IF Defined(t) /\ o # Global /\ t.org # o THEN Ends(c)
       ELSE call' = [call EXCEPT
              ![c].at = "write", ![c].read = t,
              ![c].new.org = IF Defined(t) /\ o = Global THEN t.org ELSE o]
  /\ Keeps

CreateWrites(c) ==
  /\ call[c].op = "create" /\ call[c].at = "write"
  /\ PutTemplate(call[c].type, call[c].new)
  /\ Ends(c)
  /\ UNCHANGED <<records, allowance>>

\* PATCH: checked for a request with a scope only.
templateInScope(t, o) == Defined(t) /\ t.org = o

StatusReads(c) ==
  LET o == call[c].org IN
  /\ call[c].op = "status" /\ call[c].at = "read"
  /\ \/ o = Global /\ Proceeds(c, "write")
     \/ /\ o # Global
        /\ \E t \in GetTemplate(call[c].type) :
             IF templateInScope(t, o)
             THEN call' = [call EXCEPT ![c].at = "write", ![c].read = t]
             ELSE Ends(c)
  /\ Keeps

StatusWrites(c) ==
  /\ call[c].op = "status" /\ call[c].at = "write"
  /\ UpdateTemplateStatus(call[c].type, call[c].new.status)
  /\ Ends(c)
  /\ UNCHANGED <<records, allowance>>

\* DELETE: in scope, and disabled.
DeleteReads(c) ==
  LET o == call[c].org IN
  /\ call[c].op = "delete" /\ call[c].at = "read"
  /\ \E t \in GetTemplate(call[c].type) :
       IF Defined(t) /\ o \in {Global, t.org} /\ t.status = "disabled"
       THEN call' = [call EXCEPT ![c].at = "write", ![c].read = t]
       ELSE Ends(c)
  /\ Keeps

DeleteWrites(c) ==
  /\ call[c].op = "delete" /\ call[c].at = "write"
  /\ DeleteTemplate(call[c].type)
  /\ Ends(c)
  /\ UNCHANGED <<records, allowance>>

-----------------------------------------------------------------------------
(* POST /spawn and POST /v1/orgs/{id}/agents                                 *)

\* depth walks up from an agent, over the records it finds, and counts them:
\* Lineage is the least set of agents that has i and the parent of every agent
\* in it.  Records only grow and are read as current here: a replica that had
\* not seen an ancestor yet would count a shorter chain.
Lineage(i) ==
  {j \in DOMAIN records :
     \A S \in SUBSET DOMAIN records :
       ({i} \cup {records[x].parent : x \in S}) \cap DOMAIN records \subseteq S
         => j \in S}

Depth(i) == Cardinality(Lineage(i))

\* The organization is the user's claim (a realm administrator's may be none),
\* or the one in the parent's record.
SpawnBegins(c) ==
  \E k \in AgentType :
    \/ \E o \in Scope :
         Begins(c, "spawns", [NoCatalogCall EXCEPT
           !.op = "spawn", !.at = "template", !.org = o, !.type = k])
    \/ \E p \in DOMAIN records :
         Begins(c, "spawns", [NoCatalogCall EXCEPT
           !.op = "spawn", !.at = "template", !.org = records[p].org, !.type = k,
           !.parent = p])

RemoteBegins(c) ==
  \E k \in AgentType, o \in ScopeOrg :
    Begins(c, "spawns", [NoCatalogCall EXCEPT
      !.op = "remote", !.at = "template", !.org = o, !.type = k])

\* The gates of both handlers: the type exists, is global or of this
\* organization, and is not disabled.
Spawnable(t, o) == Defined(t) /\ t.org \in {Global, o} /\ t.status # "disabled"

ChecksTemplate(c) ==
  /\ call[c].at = "template"
  /\ \E t \in GetTemplate(call[c].type) :
       IF ~Spawnable(t, call[c].org) THEN Ends(c)
       ELSE Proceeds(c, IF call[c].op = "remote" THEN "anchor"
                    ELSE IF call[c].parent # 0 THEN "policy" ELSE "write")
  /\ Keeps

\* Whether the organization has an active anchor is the matter of
\* Organizations; without one the request ends (CatalogCallFails).
ChecksAnchor(c) == call[c].at = "anchor" /\ Proceeds(c, "write") /\ Keeps

\* GET /v1/spawn-policy.
AdmitsDeeper(policy, k, parentDepth) ==
  /\ k \in policy.children
  /\ policy.maxDepth > 0 => parentDepth <= policy.maxDepth

Admits(policy, k, parentDepth) ==
  /\ k \in policy.children
  /\ policy.maxDepth > 0 => parentDepth + 1 <= policy.maxDepth

ChecksPolicy(c) ==
  LET p == call[c].parent IN
  /\ call[c].at = "policy"
  /\ \E t \in GetTemplate(records[p].type) :
       IF Defined(t) /\ Admits(t.policy, call[c].type, Depth(p))
       THEN call' = [call EXCEPT ![c].at = "write",
                                 ![c].gated = call[c].type \in t.policy.consent]
       ELSE Ends(c)
  /\ Keeps

\* PreRegisterAgent; the workload that follows is AgentCluster's.
SpawnWrites(c) ==
  /\ call[c].op \in {"spawn", "remote"} /\ call[c].at = "write"
  /\ Len(records) < MaxRecords
  /\ records' = Append(records, [type |-> call[c].type, org |-> call[c].org,
                           parent |-> call[c].parent, gated |-> call[c].gated])
  /\ Ends(c)
  /\ UNCHANGED <<tpl, before, allowance, ever>>

\* A store call fails, a body is refused, the organization is suspended.
CatalogCallFails(c) == call[c].at # "idle" /\ Ends(c) /\ Keeps

\* Replicas catch up.
Replicates(k) ==
  /\ before[k] # tpl[k]
  /\ before' = [before EXCEPT ![k] = tpl[k]]
  /\ UNCHANGED <<tpl, records, call, allowance, ever>>

CatalogNext ==
  \/ \E c \in CatalogCall :
       \/ EditBegins(c) \/ CreateReads(c) \/ CreateWrites(c)
       \/ StatusReads(c) \/ StatusWrites(c) \/ DeleteReads(c) \/ DeleteWrites(c)
       \/ SpawnBegins(c) \/ RemoteBegins(c) \/ ChecksTemplate(c)
       \/ ChecksAnchor(c) \/ ChecksPolicy(c) \/ SpawnWrites(c)
       \/ CatalogCallFails(c)
  \/ \E k \in AgentType : Replicates(k)

-----------------------------------------------------------------------------
(* Properties                                                                *)

\* Every record in a chain is justified by versions the catalog really had:
\* its type was enabled and visible to its organization, a child is in its
\* parent's organization, and some version of the parent's template allowed
\* the child's type, at that depth, with that consent gate.  This through any
\* edits, deletions and re-creations between the checks of a spawn and its
\* write, and although templates are replaced while their agents live
\* ("a positive maxDepth caps total chain length, so the deepest agent cannot
\* keep spawning").
SpawnsFollowTheCatalog ==
  \A i \in DOMAIN records :
    LET a == records[i] IN
    /\ \E t \in ever[a.type] : Spawnable(t, a.org)
    /\ a.parent # 0 =>
         /\ records[a.parent].org = a.org
         /\ \E t \in ever[records[a.parent].type] :
              /\ a.type \in t.policy.children
              /\ a.gated <=> a.type \in t.policy.consent
              /\ t.policy.maxDepth > 0 => Depth(i) <= t.policy.maxDepth
    /\ a.parent = 0 => ~a.gated

\* A template never moves to another scope, is changed by an organization's
\* administrator only in that organization, and is deleted only once disabled,
\* except by a request that wrote over something other than what it had read:
\* the store's writes are unconditional, so two requests that overlap, or a
\* read from a lagging replica, still get past the guards ("an org admin may
\* only edit their own org's template of that name, never a global or
\* cross-org one").
CatalogGuardsHold ==
  [][\A c \in CatalogCall :
       LET k == call[c].type
           from == tpl[k]
           to == tpl'[k]
       IN (/\ call[c].at = "write" /\ call'[c].at = "idle" /\ from # to
           /\ \/ call[c].read = from
              \/ call[c].op = "status" /\ call[c].org = Global)
          => /\ Defined(from) /\ Defined(to) => from.org = to.org
             /\ Defined(from) /\ call[c].org # Global => from.org = call[c].org
             /\ Defined(from) /\ ~Defined(to) => from.status = "disabled"]_catalogVars

=============================================================================
