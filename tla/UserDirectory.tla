---------------------------- MODULE UserDirectory ---------------------------
(* User accounts in Keycloak as the registry's directory adapter edits them  *)
(* (internal/orgdirectory/keycloak/keycloak.go).  Keycloak's PUT replaces    *)
(* the whole representation and has no optimistic locking, so the adapter    *)
(* reads, changes and writes back under a mutex per account.  A GET, a PUT   *)
(* and the logout call are one step each.                                    *)
EXTENDS Naturals

CONSTANTS
  User,      \* usernames
  Org,       \* organization ids, the values of disabledByOrg
  Client,    \* requests that may be editing accounts at once
  Platform,  \* the reason "banned by a platform admin"
  Nobody     \* no user, no organization

ASSUME PlatformIsNoOrg == Platform \notin Org
ASSUME NobodyIsNoUser == Nobody \notin User \cup Org

VARIABLES
  acct,      \* User -> its representation in Keycloak
  edit,      \* Client -> the edit it is in the middle of
  session    \* users with a live SSO session

dirVars == <<acct, edit, session>>

Rep == [known : BOOLEAN, enabled : BOOLEAN, ban : BOOLEAN, tags : SUBSET Org]
NoAccount == [known |-> FALSE, enabled |-> FALSE, ban |-> FALSE, tags |-> {}]
FreshAccount == [NoAccount EXCEPT !.known = TRUE, !.enabled = TRUE]

Kind == {"suspend", "lift", "ban", "unban", "profile"}

\* stale: the account whose id the edit resolved has been deleted meanwhile.
Edit == [pc : {"put", "logout"}, kind : Kind, user : User,
         by : Org \cup {Nobody}, rep : Rep, stale : BOOLEAN]
NoEdit == [pc |-> "idle"]

DirTypeOK ==
  /\ acct \in [User -> Rep]
  /\ edit \in [Client -> Edit \cup {NoEdit}]
  /\ session \in SUBSET User

\* An account may be found disabled for no recorded reason: disabled in the
\* Keycloak console, or before the attributes existed.
DirInit ==
  /\ acct \in [User -> {NoAccount, FreshAccount,
                        [FreshAccount EXCEPT !.enabled = FALSE]}]
  /\ edit = [c \in Client |-> NoEdit]
  /\ session = {u \in User : acct[u].enabled}

-----------------------------------------------------------------------------
(* What an edit does to the representation it read                           *)

\* DisableUser(user, org); a lock nobody accounts for becomes a ban first.
SuspendRep(rep, org) ==
  [rep EXCEPT !.ban = @ \/ (~rep.enabled /\ rep.tags = {}),
              !.tags = @ \cup {org}, !.enabled = FALSE]

\* DisableUser(user, "")
BanRep(rep) == [rep EXCEPT !.ban = TRUE, !.enabled = FALSE]

\* EnableUser(user, org): nothing when this organization is not among the
\* suspending ones.
LiftRep(rep, org) ==
  IF org \notin rep.tags THEN rep
  ELSE [rep EXCEPT !.tags = @ \ {org},
                   !.enabled = ~rep.ban /\ rep.tags = {org}]

\* EnableUser(user, "")
UnbanRep(rep) == [rep EXCEPT !.ban = FALSE, !.enabled = (rep.tags = {})]

\* UpdateUser changes the profile and writes the rest back as it was read.
EditedRep(e) ==
  CASE e.kind = "suspend" -> SuspendRep(e.rep, e.by)
    [] e.kind = "lift"    -> LiftRep(e.rep, e.by)
    [] e.kind = "ban"     -> BanRep(e.rep)
    [] e.kind = "unban"   -> UnbanRep(e.rep)
    [] e.kind = "profile" -> e.rep

-----------------------------------------------------------------------------
\* The mutex of u's account is taken while an edit of it is between its GET
\* and its PUT.  It belongs to the account id, so an edit of a deleted
\* account does not hold the one of its successor.
Locked(u) ==
  \E c \in Client : edit[c].pc = "put" /\ edit[c].user = u /\ ~edit[c].stale

\* editUser: resolve the id, take the mutex, read the representation.
EditGetUnlocked(c, kind, u, by) ==
  /\ edit[c].pc = "idle"
  /\ acct[u].known
  /\ edit' = [edit EXCEPT ![c] = [pc |-> "put", kind |-> kind, user |-> u,
                                  by |-> by, rep |-> acct[u],
                                  stale |-> FALSE]]
  /\ UNCHANGED <<acct, session>>

EditGet(c, kind, u, by) ==
  /\ edit[c].pc = "idle"
  /\ acct[u].known
  /\ ~Locked(u)
  /\ edit' = [edit EXCEPT ![c] = [pc |-> "put", kind |-> kind, user |-> u,
                                  by |-> by, rep |-> acct[u],
                                  stale |-> FALSE]]
  /\ UNCHANGED <<acct, session>>

\* PUT the whole representation, release the mutex; a 404 is a success.  A
\* disable goes on to end the user's sessions.
EditPut(c) ==
  /\ edit[c].pc = "put"
  /\ acct' = IF edit[c].stale THEN acct
             ELSE [acct EXCEPT ![edit[c].user] = EditedRep(edit[c])]
  /\ edit' = IF edit[c].kind \in {"suspend", "ban"}
             THEN [edit EXCEPT ![c].pc = "logout"]
             ELSE [edit EXCEPT ![c] = NoEdit]
  /\ UNCHANGED session

LogoutForgotten(c) ==
  /\ edit[c].pc = "logout"
  /\ edit' = [edit EXCEPT ![c] = NoEdit]
  /\ UNCHANGED <<acct, session>>

Logout(c) ==
  /\ edit[c].pc = "logout"
  /\ session' = IF edit[c].stale THEN session ELSE session \ {edit[c].user}
  /\ edit' = [edit EXCEPT ![c] = NoEdit]
  /\ UNCHANGED acct

\* Keycloak answers with an error: the edit stops where it is.
EditFails(c) ==
  /\ edit[c].pc # "idle"
  /\ edit' = [edit EXCEPT ![c] = NoEdit]
  /\ UNCHANGED <<acct, session>>

\* createUser, on the way of AddMember
CreateUser(u) ==
  /\ ~acct[u].known
  /\ acct' = [acct EXCEPT ![u] = FreshAccount]
  /\ UNCHANGED <<edit, session>>

\* DeleteUser: edits under way have resolved an id that is now gone.
DeleteUser(u) ==
  /\ acct[u].known
  /\ acct' = [acct EXCEPT ![u] = NoAccount]
  /\ session' = session \ {u}
  /\ edit' = [c \in Client |->
                IF edit[c].pc # "idle" /\ edit[c].user = u
                THEN [edit[c] EXCEPT !.stale = TRUE] ELSE edit[c]]

\* Keycloak opens a session only for an enabled account.
Login(u) ==
  /\ acct[u].enabled
  /\ session' = session \cup {u}
  /\ UNCHANGED <<acct, edit>>

DirNext ==
  \/ \E c \in Client :
       \/ \E u \in User :
            \/ \E o \in Org : EditGet(c, "suspend", u, o) \/ EditGet(c, "lift", u, o)
            \/ \E k \in {"ban", "unban", "profile"} : EditGet(c, k, u, Nobody)
       \/ EditPut(c) \/ Logout(c) \/ EditFails(c)
  \/ \E u \in User : CreateUser(u) \/ DeleteUser(u) \/ Login(u)

DirSpec == DirInit /\ [][DirNext]_dirVars

-----------------------------------------------------------------------------
\* A lock with no recorded reason counts as the platform's.
LockReasons(rep) ==
  IF ~rep.known THEN {}
  ELSE rep.tags \cup (IF rep.ban \/ (~rep.enabled /\ rep.tags = {})
                      THEN {Platform} ELSE {})

Accounts ==
  INSTANCE AccountLifecycle WITH
    Reason  <- Org \cup {Platform},
    known   <- {u \in User : acct[u].known},
    reasons <- [u \in User |-> LockReasons(acct[u])],
    open    <- [u \in User |-> acct[u].enabled]

\* Every lock and every lift of an account takes effect on its own: whatever
\* edits overlap, no suspension, ban or lift is lost or undone by another, and
\* login is open exactly while no reason is left (keycloak.go, the invariant
\* stated above disabledByOrgAttr and the reason for userLocks).
RefinesAccounts == Accounts!Spec
=============================================================================
