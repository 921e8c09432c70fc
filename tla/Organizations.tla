---------------------------- MODULE Organizations ---------------------------
(* The registry's organization and user API (cmd/registry/orgs.go, users.go, *)
(* anchor.go, substrate.go).  A request is a sequence of calls to the store, *)
(* to Keycloak through the directory, and to SpiceDB; each call is a step,   *)
(* so requests interleave between them, and any call may fail.  The record   *)
(* of an organization is read and written back whole.                        *)
EXTENDS UserDirectory, FiniteSets

CONSTANTS
  Root,         \* the master admin's username
  Account,      \* AWS accounts an attestation anchor can name
  MaxOrgs,      \* ceiling on self-serve organizations; 0 is none
  Mixes         \* the mixes of requests to explore, each with its bounds:
                \* [ops, orgs, requests, faults]

ASSUME MixesNameOrganizations == \A m \in Mixes : m.orgs \subseteq Org

VARIABLES
  org,      \* Org -> its record in the store
  kcOrg,    \* organizations that exist in Keycloak
  member,   \* Keycloak memberships, pairs <<org, user>>
  tuple,    \* SpiceDB organization tuples <<org, role, user>>
  owner,    \* <<org, user>>: the user's agents there carry their owner tuple
  live,     \* <<org, user>>: the user's agents there are not revoked
  uris,     \* organizations whose satellite URIs the dashboard client lists
  req,      \* Client -> the request being served
  mix,      \* the operations of this behaviour, and the requests and
            \* failing calls still to come
  torn,     \* history: organizations on which a request failed, or two
            \* overlapped, since they were last suspended without incident
  frayed,   \* history: <<org, user>> pairs (Nobody: the organization itself)
            \* on which a request failed, or two that conflict overlapped
  proven    \* history: <<org, account>> whose control was proven

history == <<torn, frayed, proven>>
orgVars == <<org, kcOrg, member, tuple, owner, live, uris, req, mix, history>>
vars == <<dirVars, orgVars>>

Role == {"admin", "member"}
Disposition == {"orphan-to-admin", "auto-revoke"}
NoAnchor == <<>>
OrgRec == [known : BOOLEAN, disabled : BOOLEAN, disp : Disposition,
           anchor : {NoAnchor} \cup (Account \X {"pending", "active"}),
           sub : {"none", "pending", "active"}]
NoRec == [known |-> FALSE, disabled |-> FALSE, disp |-> "orphan-to-admin",
          anchor |-> NoAnchor, sub |-> "none"]
NewRec == [NoRec EXCEPT !.known = TRUE]

\* Requests that read the record, change part of it and write it back.
RewriteOp == {"settings", "putAnchor", "deleteAnchor", "activateAnchor",
              "putSubstrate", "activateSubstrate", "deleteSubstrate"}
CreateOp == {"create", "signup"}
UserOp == {"ban", "unban", "profile", "deleteUser"}
GrantOp == {"add", "role"} \cup CreateOp

Idle == [op |-> "none", pc |-> "idle", clean |-> TRUE]

\* The user a request is about; one about the organization has Nobody.
About(op, u) == IF op \in CreateOp THEN Nobody ELSE u

\* The requests one about user u of organization o overlaps with; Nobody
\* stands for all of them.  Bans and profile edits only touch the account.
Touching(o, u) ==
  {c \in Client :
     /\ req[c].pc # "idle"
     /\ req[c].op \notin {"ban", "unban", "profile"}
     /\ o = req[c].org \/ o = Nobody \/ req[c].op = "deleteUser"
     /\ u = req[c].user \/ Nobody \in {u, About(req[c].op, req[c].user)}}

\* Overlaps that can leave the stores disagreeing about a member.
Conflict(op1, op2) ==
  \/ {op1, op2} \cap ({"remove", "deleteUser", "delete"} \cup CreateOp) # {}
  \/ op1 = "role" /\ op2 = "role"
  \/ "disable" \in {op1, op2} /\ {op1, op2} \cap ({"enable"} \cup RewriteOp) # {}

PairsOf(o, u) ==
  (IF o = Nobody THEN Org ELSE {o})
    \X (IF u = Nobody THEN User \cup {Nobody} ELSE {u, Nobody})

\* A request as its handler starts it.  arg: the account or the disposition it
\* names; rec: the record as read; todo: users
\* still to handle; rest: organizations a user delete has still to leave;
\* seen: URIs as read; clean: nothing has overlapped with it so far, and no
\* best-effort call of it has failed.
Request(op, o, u, role, arg, clean) ==
  [op |-> op, pc |-> "read", org |-> o, user |-> u, role |-> role,
   arg |-> arg, rec |-> NoRec, todo |-> {}, rest |-> {}, seen |-> {},
   clean |-> clean]

Start(c, op, o, u, role, arg) ==
  LET over == IF op \in {"ban", "unban", "profile"} THEN {}
              ELSE Touching(o, About(op, u))
      pairs == PairsOf(o, About(op, u))
  IN  /\ req[c].pc = "idle"
      /\ op \in mix.ops
      /\ o \in mix.orgs \cup {Nobody}
      /\ mix.requests > 0
      /\ mix' = [mix EXCEPT !.requests = @ - 1]
      /\ req' = [d \in Client |->
                   IF d = c THEN Request(op, o, u, role, arg, over = {})
                   ELSE IF d \in over THEN [req[d] EXCEPT !.clean = FALSE]
                   ELSE req[d]]
      /\ torn' = IF over = {} THEN torn ELSE torn \cup {m[1] : m \in pairs}
      /\ frayed' = IF \E d \in over : Conflict(op, req[d].op)
                   THEN frayed \cup pairs ELSE frayed
      /\ UNCHANGED <<dirVars, org, kcOrg, member, tuple, owner, live, uris,
                     proven>>

-----------------------------------------------------------------------------
(* Steps: an effect on the state and the request's next point                *)

On(c, ops, pc) == req[c].op \in ops /\ req[c].pc = pc
Goto(c, pc) == req' = [req EXCEPT ![c].pc = pc]
Reply(c) == req' = [req EXCEPT ![c] = Idle]
MembersOf(o) == {u \in User : <<o, u>> \in member}

\* Everything but the request is left alone: the step only reads.
Reads == UNCHANGED <<dirVars, org, kcOrg, member, tuple, owner, live,
                     uris, mix, history>>

\* GetOrg: 404 without a record.  A suspended organization takes no new
\* member and no new agent; an agent is spawned for a member.
ReadOrg(c) ==
  LET o == req[c].org
      next == CASE req[c].op = "disable" -> "put"
                [] req[c].op \in {"enable", "delete"} -> "list"
                [] req[c].op = "add" -> "join"
                [] req[c].op = "role" -> "check"
                [] req[c].op = "remove" -> "untuple"
                [] req[c].op = "spawn" -> "spawn"
                [] OTHER -> "put"
      refused == \/ ~org[o].known
                 \/ req[c].op \in {"add", "spawn"} /\ org[o].disabled
                 \/ req[c].op = "spawn" /\ <<o, req[c].user>> \notin member
  IN  /\ req[c].pc = "read"
      /\ req[c].op \notin CreateOp \cup UserOp
      /\ IF refused THEN Reply(c)
         ELSE req' = [req EXCEPT ![c].pc = next, ![c].rec = org[o]]
      /\ Reads

\* What a read-modify-write request writes; the record itself when its guard
\* refuses.
PatchSettings(rec, disp) == [rec EXCEPT !.disp = disp]
PutAnchor(rec, acc) == [rec EXCEPT !.anchor = <<acc, "pending">>]
DeleteAnchor(rec) == [rec EXCEPT !.anchor = NoAnchor]
ActivateAnchorAny(rec, acc) ==
  IF rec.anchor # NoAnchor
  THEN [rec EXCEPT !.anchor = <<rec.anchor[1], "active">>] ELSE rec

ActivateAnchor(rec, acc) ==
  IF rec.anchor # NoAnchor /\ rec.anchor[1] = acc
  THEN [rec EXCEPT !.anchor = <<acc, "active">>] ELSE rec
PutSubstrate(rec) == [rec EXCEPT !.sub = "pending"]
ActivateSubstrate(rec) ==
  IF rec.sub = "none" THEN rec ELSE [rec EXCEPT !.sub = "active"]
DeleteSubstrate(rec) == [rec EXCEPT !.sub = "none"]

Rewritten(r) ==
  CASE r.op = "settings"          -> PatchSettings(r.rec, r.arg)
    [] r.op = "putAnchor"         -> PutAnchor(r.rec, r.arg)
    [] r.op = "deleteAnchor"      -> DeleteAnchor(r.rec)
    [] r.op = "activateAnchor"    -> ActivateAnchor(r.rec, r.arg)
    [] r.op = "putSubstrate"      -> PutSubstrate(r.rec)
    [] r.op = "activateSubstrate" -> ActivateSubstrate(r.rec)
    [] r.op = "deleteSubstrate"   -> DeleteSubstrate(r.rec)

\* PutOrg of the whole record.  Activating an anchor replays the presigned
\* request first: only the account that signed it is ever marked active.
RewritePut(c) ==
  LET r == req[c]
      new == Rewritten(r)
  IN  /\ On(c, RewriteOp, "put")
      /\ org' = IF new = r.rec /\ r.op \in {"activateAnchor", "activateSubstrate"}
                THEN org ELSE [org EXCEPT ![r.org] = new]
      /\ proven' = IF r.op = "activateAnchor"
                   THEN proven \cup {<<r.org, r.arg>>} ELSE proven
      /\ Reply(c)
      /\ UNCHANGED <<dirVars, kcOrg, member, tuple, owner, live, uris, mix,
                     torn, frayed>>

-----------------------------------------------------------------------------
(* Calls several requests share                                              *)

\* disableOrgMembers: the members but the master admin.
ListForDisable(c) ==
  /\ On(c, {"disable"}, "list")
  /\ req' = [req EXCEPT ![c].pc = "edit",
                        ![c].todo = MembersOf(req[c].org) \ {Root}]
  /\ Reads

\* enableOrgMembers: every member.
ListForEnable(c) ==
  /\ On(c, {"enable", "delete"}, "list")
  /\ req' = [req EXCEPT ![c].pc = "edit", ![c].todo = MembersOf(req[c].org)]
  /\ Reads

\* The loop over the members: the next one's account is read for its edit; a
\* user who is gone by now is passed over.
EditMember(c) ==
  /\ On(c, {"disable", "enable", "delete"}, "edit")
  /\ edit[c].pc = "idle"
  /\ \E u \in req[c].todo :
       /\ req' = [req EXCEPT ![c].todo = @ \ {u}]
       /\ IF acct[u].known
          THEN EditGet(c, IF req[c].op = "disable" THEN "suspend" ELSE "lift",
                       u, req[c].org)
          ELSE UNCHANGED dirVars
  /\ UNCHANGED <<org, kcOrg, member, tuple, owner, live, uris, mix, history>>

\* The PUT and the logout of whatever edit the request is in.
EditStep(c) ==
  /\ EditPut(c) \/ Logout(c)
  /\ UNCHANGED orgVars

EditMembersDone(c) ==
  /\ On(c, {"disable", "enable", "delete"}, "edit")
  /\ edit[c].pc = "idle"
  /\ req[c].todo = {}
  /\ Goto(c, CASE req[c].op = "disable" -> "agents"
               [] req[c].op = "enable"  -> "put"
               [] req[c].op = "delete"  -> "again")
  /\ Reads

\* editDashboardClient holds editMu from its GET to its PUT.
UrisGetUnlocked(c) ==
  /\ req[c].pc \in {"uris", "unUris"}
  /\ req' = [req EXCEPT ![c].seen = uris,
                        ![c].pc = IF @ = "uris" THEN "urisPut" ELSE "unUrisPut"]
  /\ Reads

UrisGet(c) ==
  /\ req[c].pc \in {"uris", "unUris"}
  /\ \A d \in Client : req[d].pc \notin {"urisPut", "unUrisPut"}
  /\ req' = [req EXCEPT ![c].seen = uris,
                        ![c].pc = IF @ = "uris" THEN "urisPut" ELSE "unUrisPut"]
  /\ Reads

\* RegisterOrgRedirectURIs and RemoveOrgRedirectURIs
UrisPut(c) ==
  /\ req[c].pc \in {"urisPut", "unUrisPut"}
  /\ IF req[c].pc = "urisPut"
     THEN uris' = req[c].seen \cup {req[c].org} /\ Reply(c)
     ELSE /\ uris' = req[c].seen \ {req[c].org}
          /\ Goto(c, IF req[c].op = "delete" THEN "kcDelete" ELSE "unTuple")
  /\ UNCHANGED <<dirVars, org, kcOrg, member, tuple, owner, live, mix,
                 history>>

\* AddMember: an unknown user is created; no organization is an error.  A
\* create does not ask whether the organization is suspended.
Join(c) ==
  LET r == req[c]
  IN  /\ On(c, CreateOp \cup {"add"}, "join")
      /\ r.org \in kcOrg
      /\ IF acct[r.user].known THEN UNCHANGED dirVars ELSE CreateUser(r.user)
      /\ member' = member \cup {<<r.org, r.user>>}
      /\ torn' = IF r.rec.disabled THEN torn \cup {r.org} ELSE torn
      /\ Goto(c, IF r.op = "add" THEN "tuple" ELSE "uris")
      /\ UNCHANGED <<org, kcOrg, tuple, owner, live, uris, mix, frayed, proven>>

\* WriteRelationship of the role tuple
WriteTuple(c) ==
  LET r == req[c]
  IN  /\ On(c, GrantOp, "tuple")
      /\ tuple' = tuple \cup {<<r.org, r.role, r.user>>}
      /\ CASE r.op = "add"         -> Reply(c)
           [] r.op = "role"        -> Goto(c, "other")
           [] r.op \in CreateOp    -> Goto(c, "join")
      /\ UNCHANGED <<dirVars, org, kcOrg, member, owner, live, uris, mix,
                     history>>

-----------------------------------------------------------------------------
(* POST /v1/orgs, with and without selfServe                                 *)

CreateRead(c) ==
  /\ On(c, CreateOp, "read")
  /\ req' = [req EXCEPT ![c].rec = org[req[c].org],
                        ![c].pc = IF req[c].op = "signup" THEN "cap" ELSE "kc"]
  /\ Reads

\* The ceiling on organizations, then the slug already taken.
SignupCap(c) ==
  /\ On(c, {"signup"}, "cap")
  /\ IF \/ MaxOrgs > 0 /\ Cardinality({o \in Org : org[o].known}) >= MaxOrgs
        \/ req[c].rec.known
     THEN Reply(c) ELSE Goto(c, "mine")
  /\ Reads

\* One organization per user.
SignupMine(c) ==
  /\ On(c, {"signup"}, "mine")
  /\ IF \E o \in Org : <<o, req[c].user>> \in member
     THEN Reply(c) ELSE Goto(c, "kc")
  /\ Reads

\* Step 1: CreateOrg in Keycloak, idempotent.
CreateKc(c) ==
  /\ On(c, CreateOp, "kc")
  /\ kcOrg' = kcOrg \cup {req[c].org}
  /\ Goto(c, "put")
  /\ UNCHANGED <<dirVars, org, member, tuple, owner, live, uris, mix, history>>

\* Step 2: the record; of an existing one the disposition, the anchor and the
\* suspended flag are carried over.
CreatePutFresh(c) ==
  /\ On(c, CreateOp, "put")
  /\ org' = [org EXCEPT ![req[c].org] = NewRec]
  /\ Goto(c, "tuple")
  /\ UNCHANGED <<dirVars, kcOrg, member, tuple, owner, live, uris, mix, history>>

CreatePut(c) ==
  LET r == req[c]
  IN  /\ On(c, CreateOp, "put")
      /\ org' = [org EXCEPT ![r.org] =
                   IF r.rec.known THEN [r.rec EXCEPT !.sub = "none"] ELSE NewRec]
      /\ Goto(c, "tuple")
      /\ UNCHANGED <<dirVars, kcOrg, member, tuple, owner, live, uris, mix,
                     history>>

\* unwindCreate: the admin tuple, the membership and, when this request made
\* them, the record and the Keycloak organization.
UnwindTupleKept(c) == On(c, CreateOp, "unTuple") /\ Goto(c, "unJoin") /\ Reads

UnwindTuple(c) ==
  /\ On(c, CreateOp, "unTuple")
  /\ tuple' = tuple \ {<<req[c].org, "admin", req[c].user>>}
  /\ Goto(c, "unJoin")
  /\ UNCHANGED <<dirVars, org, kcOrg, member, owner, live, uris, mix, history>>

\* Also the unwinding of an add whose tuple could not be written.
UnwindJoin(c) ==
  /\ On(c, CreateOp \cup {"add"}, "unJoin")
  /\ member' = member \ {<<req[c].org, req[c].user>>}
  /\ IF req[c].op = "add" \/ req[c].rec.known THEN Reply(c) ELSE Goto(c, "unPut")
  /\ UNCHANGED <<dirVars, org, kcOrg, tuple, owner, live, uris, mix, history>>

UnwindPut(c) ==
  /\ On(c, CreateOp, "unPut")
  /\ org' = [org EXCEPT ![req[c].org] = NoRec]
  /\ Goto(c, "unKc")
  /\ UNCHANGED <<dirVars, kcOrg, member, tuple, owner, live, uris, mix,
                 history>>

UnwindKc(c) ==
  /\ On(c, CreateOp, "unKc")
  /\ kcOrg' = kcOrg \ {req[c].org}
  /\ member' = {m \in member : m[1] # req[c].org}
  /\ Goto(c, "unwound")
  /\ UNCHANGED <<dirVars, org, tuple, owner, live, uris, mix, history>>

\* The error answer after an unwinding.
Unwound(c) == On(c, CreateOp, "unwound") /\ Reply(c) /\ Reads

-----------------------------------------------------------------------------
(* Suspending, enabling and deleting an organization                         *)

DisablePut(c) ==
  /\ On(c, {"disable"}, "put")
  /\ org' = [org EXCEPT ![req[c].org] = [req[c].rec EXCEPT !.disabled = TRUE]]
  /\ Goto(c, "list")
  /\ UNCHANGED <<dirVars, kcOrg, member, tuple, owner, live, uris, mix,
                 history>>

\* suspendOrgAgents; the cascade itself is AgentCascade's.  A suspension that
\* got this far has repaired what an earlier failure left.
DisableAgents(c) ==
  /\ On(c, {"disable"}, "agents")
  /\ live' = {m \in live : m[1] # req[c].org}
  /\ torn' = IF req[c].clean THEN torn \ {req[c].org} ELSE torn
  /\ Reply(c)
  /\ UNCHANGED <<dirVars, org, kcOrg, member, tuple, owner, uris, mix, frayed,
                 proven>>

EnablePut(c) ==
  /\ On(c, {"enable"}, "put")
  /\ org' = [org EXCEPT ![req[c].org] = [req[c].rec EXCEPT !.disabled = FALSE]]
  /\ Reply(c)
  /\ UNCHANGED <<dirVars, kcOrg, member, tuple, owner, live, uris, mix,
                 history>>

\* The second ListMembers of a delete, and the tuples of those members.
DeleteList(c) ==
  /\ On(c, {"delete"}, "again")
  /\ req' = [req EXCEPT ![c].pc = "drop", ![c].todo = MembersOf(req[c].org)]
  /\ Reads

DeleteTuples(c) ==
  /\ On(c, {"delete"}, "drop")
  /\ tuple' = {t \in tuple : ~(t[1] = req[c].org /\ t[3] \in req[c].todo)}
  /\ req' = [req EXCEPT ![c].pc = "unUris", ![c].todo = {}]
  /\ UNCHANGED <<dirVars, org, kcOrg, member, owner, live, uris, mix, history>>

\* The memberships go with the Keycloak organization; the agents and their
\* owner tuples stay.
DeleteKc(c) ==
  LET o == req[c].org
  IN  /\ On(c, {"delete"}, "kcDelete")
      /\ kcOrg' = kcOrg \ {o}
      /\ member' = {m \in member : m[1] # o}
      /\ frayed' = frayed \cup {m \in owner : m[1] = o}
      /\ Goto(c, "storeDelete")
      /\ UNCHANGED <<dirVars, org, tuple, owner, live, uris, mix, torn,
                     proven>>

DeleteRecord(c) ==
  /\ On(c, {"delete"}, "storeDelete")
  /\ org' = [org EXCEPT ![req[c].org] = NoRec]
  /\ Reply(c)
  /\ UNCHANGED <<dirVars, kcOrg, member, tuple, owner, live, uris, mix,
                 history>>

-----------------------------------------------------------------------------
(* Members: change of role, removal (alone and on the way of a user delete)  *)

\* PATCH members: only for a member, and SetRole wants a known user.
RoleCheck(c) ==
  /\ On(c, {"role"}, "check")
  /\ IF <<req[c].org, req[c].user>> \in member /\ acct[req[c].user].known
     THEN Goto(c, "tuple") ELSE Reply(c)
  /\ Reads

\* The new role is written before the other one is dropped.
RoleDropOther(c) ==
  LET r == req[c]
  IN  /\ On(c, {"role"}, "other")
      /\ tuple' = tuple \ {<<r.org, x, r.user>> : x \in Role \ {r.role}}
      /\ Reply(c)
      /\ UNCHANGED <<dirVars, org, kcOrg, member, owner, live, uris, mix,
                     history>>

RemoveOp == {"remove", "deleteUser"}

\* removeMemberFromOrg: the tuples first, then the membership.
RemoveTuplesMember(c) ==
  /\ On(c, RemoveOp, "untuple")
  /\ tuple' = tuple \ {<<req[c].org, "member", req[c].user>>}
  /\ Goto(c, "leave")
  /\ UNCHANGED <<dirVars, org, kcOrg, member, owner, live, uris, mix, history>>

RemoveTuples(c) ==
  LET r == req[c]
  IN  /\ On(c, RemoveOp, "untuple")
      /\ tuple' = tuple \ {<<r.org, x, r.user>> : x \in Role}
      /\ Goto(c, "leave")
      /\ UNCHANGED <<dirVars, org, kcOrg, member, owner, live, uris, mix,
                     history>>

RemoveLeave(c) ==
  LET r == req[c]
  IN  /\ On(c, RemoveOp, "leave")
      /\ member' = member \ {<<r.org, r.user>>}
      /\ Goto(c, "load")
      /\ UNCHANGED <<dirVars, org, kcOrg, tuple, owner, live, uris, mix,
                     history>>

\* GetOrg; a record that is gone counts as the default disposition.
RemoveLoadUnflagged(c) ==
  /\ On(c, RemoveOp, "load")
  /\ req' = [req EXCEPT ![c].pc = "disp",
                        ![c].rec = [org[req[c].org] EXCEPT !.disabled = FALSE]]
  /\ Reads

RemoveLoad(c) ==
  /\ On(c, RemoveOp, "load")
  /\ req' = [req EXCEPT ![c].pc = "disp", ![c].rec = org[req[c].org]]
  /\ Reads

\* After the removal: the request is done, or the next organization's turn.
\* A suspended organization's lock is lifted on the way out.
RemoveNext(r) ==
  IF r.op = "remove" THEN Idle ELSE [r EXCEPT !.pc = "next", !.rec = NoRec]

\* applyRemovalDisposition: the ex-member's agents lose their owner, and are
\* revoked when the organization says so.
RemoveDispose(c) ==
  LET r == req[c]
      m == <<r.org, r.user>>
  IN  /\ On(c, RemoveOp, "disp")
      /\ owner' = owner \ {m}
      /\ live' = IF r.rec.disp = "auto-revoke" THEN live \ {m} ELSE live
      /\ req' = [req EXCEPT ![c] = IF r.rec.disabled
                                   THEN [r EXCEPT !.pc = "unlock"]
                                   ELSE RemoveNext(r)]
      /\ UNCHANGED <<dirVars, org, kcOrg, member, tuple, uris, mix, history>>

RemoveUnlock(c) ==
  LET r == req[c]
  IN  /\ On(c, RemoveOp, "unlock")
      /\ IF acct[r.user].known THEN EditGet(c, "lift", r.user, r.org)
         ELSE UNCHANGED dirVars
      /\ Goto(c, "unlocking")
      /\ UNCHANGED <<org, kcOrg, member, tuple, owner, live, uris, mix,
                     history>>

RemoveUnlocked(c) ==
  /\ On(c, RemoveOp, "unlocking")
  /\ edit[c].pc = "idle"
  /\ req' = [req EXCEPT ![c] = RemoveNext(req[c])]
  /\ UNCHANGED <<dirVars, org, kcOrg, member, tuple, owner, live, uris, mix,
                 history>>

\* POST /v1/agents for a member, its owner tuple included (main.go).
SpawnAgent(c) ==
  LET m == <<req[c].org, req[c].user>>
  IN  /\ On(c, {"spawn"}, "spawn")
      /\ owner' = owner \cup {m}
      /\ live' = live \cup {m}
      /\ Reply(c)
      /\ UNCHANGED <<dirVars, org, kcOrg, member, tuple, uris, mix, history>>

-----------------------------------------------------------------------------
(* The user API                                                              *)

\* Ban, unban and profile edits are one edit of the account.  The master admin
\* is never banned.
UserEdit(c) ==
  LET r == req[c]
  IN  /\ On(c, UserOp \ {"deleteUser"}, "read")
      /\ IF acct[r.user].known /\ ~(r.op = "ban" /\ r.user = Root)
         THEN EditGet(c, r.op, r.user, Nobody) /\ Goto(c, "editing")
         ELSE UNCHANGED dirVars /\ Reply(c)
      /\ UNCHANGED <<org, kcOrg, member, tuple, owner, live, uris, mix,
                     history>>

\* A ban may ask for the user's agents to be suspended as well.
UserEdited(c) ==
  LET r == req[c]
  IN  /\ On(c, UserOp \ {"deleteUser"}, "editing")
      /\ edit[c].pc = "idle"
      /\ \/ UNCHANGED live
         \/ r.op = "ban" /\ live' = {m \in live : m[2] # r.user}
      /\ Reply(c)
      /\ UNCHANGED <<dirVars, org, kcOrg, member, tuple, owner, uris, mix,
                     history>>

\* DELETE user: never the master admin.  The org-less agents are revoked and
\* the consents purged first (AgentCascade, ConsentBroker).
DeleteUserEstate(c) ==
  /\ On(c, {"deleteUser"}, "read")
  /\ IF req[c].user = Root THEN Reply(c) ELSE Goto(c, "orgs")
  /\ Reads

DeleteUserOrgs(c) ==
  /\ On(c, {"deleteUser"}, "orgs")
  /\ req' = [req EXCEPT ![c].pc = "next",
                        ![c].rest = {o \in Org : <<o, req[c].user>> \in member}]
  /\ Reads

\* The next organization to leave, or the account itself.
DeleteUserNext(c) ==
  /\ On(c, {"deleteUser"}, "next")
  /\ \E o \in req[c].rest :
       req' = [req EXCEPT ![c].org = o, ![c].rest = @ \ {o}, ![c].pc = "untuple"]
  /\ Reads

\* DELETE of the Keycloak user ends its sessions and memberships; an account
\* already gone is a success.
DeleteUserAccount(c) ==
  LET u == req[c].user
  IN  /\ On(c, {"deleteUser"}, "next")
      /\ req[c].rest = {}
      /\ IF acct[u].known THEN DeleteUser(u) ELSE UNCHANGED dirVars
      /\ member' = {m \in member : m[2] # u}
      /\ frayed' = frayed \cup {m \in member : m[2] = u}
      /\ Reply(c)
      /\ UNCHANGED <<org, kcOrg, tuple, owner, live, uris, mix, torn, proven>>

-----------------------------------------------------------------------------
(* Failures                                                                  *)

Unwinding == {"unUris", "unUrisPut", "unTuple", "unJoin", "unPut", "unKc"}

\* Where a request goes when the call it is at fails: best-effort calls are
\* passed over, a create and an add unwind, everything else is answered with
\* an error ("idle").
AfterFailure(r) ==
  CASE r.op \in CreateOp /\ r.pc = "put" ->
         IF r.rec.known THEN "idle" ELSE "unKc"
    [] r.op \in CreateOp /\ r.pc \in {"tuple", "join"} -> "unTuple"
    [] r.op \in CreateOp /\ r.pc \in {"uris", "urisPut"} -> "unUris"
    [] r.op \in CreateOp /\ r.pc \in {"unUris", "unUrisPut"} -> "unTuple"
    [] r.op \in CreateOp /\ r.pc = "unTuple" -> "unJoin"
    [] r.op \in CreateOp /\ r.pc = "unJoin" /\ ~r.rec.known -> "unPut"
    [] r.op \in CreateOp /\ r.pc = "unPut" -> "unKc"
    [] r.op = "add" /\ r.pc = "tuple" -> "unJoin"
    [] r.op = "delete" /\ r.pc = "drop" -> "unUris"
    [] r.op = "delete" /\ r.pc \in {"unUris", "unUrisPut"} -> "kcDelete"
    [] r.op \in RemoveOp /\ r.pc = "untuple" -> "leave"
    [] OTHER -> "idle"

\* A call fails, at the latest at its deadline; the PUT of the URIs may have
\* landed all the same.  An AddMember to an organization that is gone from
\* Keycloak always fails.
CallFails(c) ==
  LET r == req[c]
      next == AfterFailure(r)
      certain == r.pc = "join" /\ r.org \notin kcOrg
  IN  /\ r.pc \notin {"idle", "unwound"}
      /\ \/ certain /\ UNCHANGED mix
         \/ ~certain /\ mix.faults > 0
            /\ mix' = [mix EXCEPT !.faults = @ - 1]
      /\ IF edit[c].pc = "idle" THEN UNCHANGED dirVars ELSE EditFails(c)
      /\ req' = [req EXCEPT ![c] =
                   IF next = "idle" THEN Idle
                   ELSE [r EXCEPT !.pc = next,
                                  !.clean = @ /\ r.pc \notin Unwinding]]
      /\ torn' = torn \cup ({r.org} \cap Org)
      /\ frayed' = IF \/ r.op \in {"add", "remove", "delete"}
                      \/ r.op = "deleteUser" /\ r.org # Nobody
                      \/ r.op \in CreateOp /\ (r.rec.known \/ r.pc \in Unwinding)
                   THEN frayed \cup PairsOf(r.org, About(r.op, r.user))
                   ELSE frayed
      /\ \/ UNCHANGED uris
         \/ r.pc = "urisPut" /\ uris' = r.seen \cup {r.org}
      /\ UNCHANGED <<org, kcOrg, member, tuple, owner, live, proven>>

-----------------------------------------------------------------------------
\* The registry starts with organizations that may have members, and users
\* who may have been locked out of Keycloak for no recorded reason.
Init ==
  /\ DirInit
  /\ acct[Root] = FreshAccount
  /\ mix \in Mixes
  /\ kcOrg \in SUBSET mix.orgs
  /\ \E d \in Disposition :
       org = [o \in Org |-> IF o \in kcOrg THEN [NewRec EXCEPT !.disp = d]
                            ELSE NoRec]
  /\ member = {m \in kcOrg \X User : acct[m[2]].known}
  /\ tuple = {<<m[1], IF m[2] = Root THEN "admin" ELSE "member", m[2]>> : m \in member}
  /\ owner = {} /\ live = {}
  /\ uris = kcOrg
  /\ req = [c \in Client |-> Idle]
  /\ torn = {} /\ frayed = {} /\ proven = {}

Accept(c) ==
  \/ \E o \in Org, u \in User :
       \/ \E op \in CreateOp : Start(c, op, o, u, "admin", NoAnchor)
       \/ \E op \in {"remove", "spawn"} : Start(c, op, o, u, "member", NoAnchor)
       \/ \E op \in {"add", "role"}, x \in Role : Start(c, op, o, u, x, NoAnchor)
  \/ \E o \in Org : \E op \in {"disable", "enable", "delete"} \cup RewriteOp :
       \E a \in CASE op \in {"putAnchor", "activateAnchor"} -> Account
                 [] op = "settings" -> Disposition
                 [] OTHER -> {NoAnchor} :
         Start(c, op, o, Nobody, "member", a)
  \/ \E u \in User, op \in UserOp : Start(c, op, Nobody, u, "member", NoAnchor)

Step(c) ==
  \/ ReadOrg(c) \/ RewritePut(c)
  \/ CreateRead(c) \/ SignupCap(c) \/ SignupMine(c) \/ CreateKc(c)
  \/ CreatePut(c) \/ WriteTuple(c) \/ Join(c) \/ UrisGet(c) \/ UrisPut(c)
  \/ UnwindTuple(c) \/ UnwindJoin(c) \/ UnwindPut(c) \/ UnwindKc(c) \/ Unwound(c)
  \/ DisablePut(c) \/ ListForDisable(c) \/ DisableAgents(c)
  \/ ListForEnable(c) \/ EnablePut(c)
  \/ EditMember(c) \/ EditStep(c) \/ EditMembersDone(c)
  \/ DeleteList(c) \/ DeleteTuples(c) \/ DeleteKc(c) \/ DeleteRecord(c)
  \/ RoleCheck(c) \/ RoleDropOther(c)
  \/ RemoveTuples(c) \/ RemoveLeave(c) \/ RemoveLoad(c) \/ RemoveDispose(c)
  \/ RemoveUnlock(c) \/ RemoveUnlocked(c) \/ SpawnAgent(c)
  \/ UserEdit(c) \/ UserEdited(c)
  \/ DeleteUserEstate(c) \/ DeleteUserOrgs(c) \/ DeleteUserNext(c)
  \/ DeleteUserAccount(c)

SignIn(u) == u \notin session /\ Login(u) /\ UNCHANGED orgVars

Next ==
  \/ \E c \in Client : Accept(c) \/ Step(c) \/ CallFails(c)
  \/ \E u \in User : SignIn(u)

Spec == Init /\ [][Next]_vars

-----------------------------------------------------------------------------
Quiet(o, u) == Touching(o, u) = {}

\* A suspension that ran to its end holds: while the organization is disabled
\* every member but the master admin carries its tag, cannot log in and has no
\* session, and no agent of it runs (orgs.go, disable: "all members locked").
\* The exceptions are those of torn: a request that failed or overlapped.
SuspendedMembersLocked ==
  \A o \in Org \ torn : org[o].disabled /\ Quiet(o, Nobody) =>
    /\ \A u \in MembersOf(o) \ {Root} :
         o \in acct[u].tags /\ ~acct[u].enabled /\ u \notin session
    /\ \A m \in live : m[1] # o

\* No account is left locked by an organization it has left: whoever carries
\* an organization's tag is its member, so that an enable or a delete, which
\* go over the members, can reach the tag (removeMemberFromOrg's last step and
\* the delete's unconditional lift).
TagMeansMember ==
  \A o \in Org, u \in User :
    o \in acct[u].tags /\ Quiet(o, u) /\ <<o, u>> \notin frayed =>
      <<o, u>> \in member

\* The stores written one after the other agree: who holds a role tuple or
\* owns an agent in an organization is its member, and a member holds a role
\* (the dual writes of add, role, remove and delete, with their unwinding).
AccessMeansMember ==
  \A o \in Org, u \in User : Quiet(o, u) /\ <<o, u>> \notin frayed =>
    /\ <<o, u>> \in owner => <<o, u>> \in member
    /\ <<o, u>> \in member <=> \E x \in Role : <<o, x, u>> \in tuple

\* The suspended flag is cleared by an enable only: no other request that
\* rewrites the record drops it, unless it overlapped with another one and
\* wrote back a record read earlier (orgs.go, "must not silently re-enable").
OnlyEnableLiftsSuspension ==
  [][\A o \in Org :
       org[o].disabled /\ org'[o].known /\ ~org'[o].disabled =>
         \E c \in Client : req[c].op = "enable" \/ ~req[c].clean]_vars

\* An anchor is active only for an account whose control was proven, also when
\* it is registered anew while its activation is replaying the credential
\* (activateAnchor writes back the anchor it compared with).
ActiveAnchorProven ==
  \A o \in Org, a \in Account :
    org[o].anchor = <<a, "active">> => <<o, a>> \in proven

\* A create that failed leaves nothing of the organization it made: no
\* record, no Keycloak organization, no membership, no tuple (unwindCreate).
UnwindLeavesNothing ==
  \A c \in Client : req[c].pc = "unwound" /\ req[c].clean =>
    LET o == req[c].org u == req[c].user
    IN  /\ ~org[o].known /\ o \notin kcOrg
        /\ <<o, u>> \notin frayed =>
             <<o, u>> \notin member /\ <<o, "admin", u>> \notin tuple

\* Organizations created and deleted at once do not lose each other's
\* satellite URIs on the shared dashboard client (editMu).
SatelliteUrisKept ==
  \A o \in Org : org[o].known /\ Quiet(o, Nobody) /\ <<o, Nobody>> \notin frayed =>
    o \in uris
=============================================================================
