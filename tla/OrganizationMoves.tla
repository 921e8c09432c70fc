------------------------ MODULE OrganizationMoves -------------------------
(* Proofs about UserDirectory, for any number of users, organizations and    *)
(* requests, and what the proofs about Organizations share: the types of the *)
(* requests, how a request moves from call to call, what it overlaps with,   *)
(* which steps write which store, what a record and a request that will      *)
(* write it are like, and what requests do to accounts.                      *)
EXTENDS Organizations, TLAPS

\* A leaf that names no prover is one for Zenon.
USE ZenonT(30)

\* What Keycloak stores for an account is never at odds with itself.
RepOK(rep) ==
  /\ rep.enabled => rep.known /\ ~rep.ban /\ rep.tags = {}
  /\ ~rep.known => ~rep.ban /\ rep.tags = {}

\* An edit between its GET and its PUT holds what the account still is: this
\* is what the mutex is for.
EditOK(c) ==
  edit[c].pc = "put" =>
    /\ edit[c].kind \in {"suspend", "lift"} => edit[c].by \in Org
    /\ ~edit[c].stale =>
         acct[edit[c].user].known /\ edit[c].rep = acct[edit[c].user]

OneEditor ==
  \A c, d \in Client :
    (/\ edit[c].pc = "put" /\ ~edit[c].stale
     /\ edit[d].pc = "put" /\ ~edit[d].stale
     /\ edit[c].user = edit[d].user) => c = d

DirInv ==
  /\ DirTypeOK
  /\ \A u \in User : RepOK(acct[u])
  /\ \A c \in Client : EditOK(c)
  /\ OneEditor

-----------------------------------------------------------------------------
(* What each edit does to the reasons                                        *)

\* The representation NEW was obtained from OLD by a change of the reasons.
Becomes(old, new, R) ==
  /\ new \in Rep
  /\ RepOK(new)
  /\ new.known
  /\ LockReasons(new) = R
  /\ new.enabled <=> R = {}

\* A suspension adds the organization to the reasons and nothing else, also
\* when the account was locked for no recorded reason (DisableUser).
LEMMA SuspendAdds ==
  ASSUME NEW rep \in Rep, rep.known, RepOK(rep), NEW o \in Org
  PROVE  Becomes(rep, SuspendRep(rep, o), LockReasons(rep) \cup {o})
BY PlatformIsNoOrg DEF Becomes, SuspendRep, LockReasons, RepOK, Rep

\* A ban adds the platform's reason (DisableUser with no organization).
LEMMA BanAdds ==
  ASSUME NEW rep \in Rep, rep.known, RepOK(rep)
  PROVE  Becomes(rep, BanRep(rep), LockReasons(rep) \cup {Platform})
BY PlatformIsNoOrg DEF Becomes, BanRep, LockReasons, RepOK, Rep

\* A lift takes the organization's reason away and no other (EnableUser).
LEMMA LiftDrops ==
  ASSUME NEW rep \in Rep, rep.known, RepOK(rep), NEW o \in Org
  PROVE  Becomes(rep, LiftRep(rep, o), LockReasons(rep) \ {o})
<1>1. CASE o \notin rep.tags
  BY <1>1, PlatformIsNoOrg DEF Becomes, LiftRep, LockReasons, RepOK, Rep
<1>2. CASE o \in rep.tags
  <2> DEFINE new == LiftRep(rep, o)
  <2>1. /\ new \in Rep /\ new.known /\ new.ban = rep.ban
        /\ new.tags = rep.tags \ {o}
        /\ new.enabled = (~rep.ban /\ rep.tags = {o})
    BY <1>2 DEF LiftRep, Rep
  <2>2. ~rep.enabled /\ rep.ban \in BOOLEAN
    BY <1>2 DEF RepOK, Rep
  <2> HIDE DEF new
  <2>3. new.tags = {} <=> rep.tags = {o}
    BY <1>2, <2>1
  <2>4. LockReasons(new) = LockReasons(rep) \ {o}
    BY <1>2, <2>1, <2>2, <2>3, PlatformIsNoOrg DEF LockReasons
  <2>5. new.enabled <=> LockReasons(new) = {}
    BY <2>1, <2>3 DEF LockReasons
  <2>6. RepOK(new)
    BY <2>1, <2>3 DEF RepOK
  <2> QED BY <2>1, <2>4, <2>5, <2>6 DEF Becomes, new
<1> QED BY <1>1, <1>2

\* An unban takes the platform's reason away, recorded or not.
LEMMA UnbanDrops ==
  ASSUME NEW rep \in Rep, rep.known, RepOK(rep)
  PROVE  Becomes(rep, UnbanRep(rep), LockReasons(rep) \ {Platform})
BY PlatformIsNoOrg DEF Becomes, UnbanRep, LockReasons, RepOK, Rep

-----------------------------------------------------------------------------
(* The invariant                                                             *)

\* An idle request edits nothing.
LEMMA NoEditIsIdle == NoEdit.pc = "idle"
BY DEF NoEdit

\* What an edit writes is well formed, whichever kind it is.
LEMMA EditedRepOK ==
  ASSUME DirTypeOK, NEW c \in Client, EditOK(c),
         edit[c].pc = "put", ~edit[c].stale, RepOK(acct[edit[c].user])
  PROVE  EditedRep(edit[c]) \in Rep /\ RepOK(EditedRep(edit[c]))
         /\ EditedRep(edit[c]).known
<1> DEFINE e == edit[c]
<1>1. e \in Edit
  BY NoEditIsIdle DEF DirTypeOK
<1>2. e.rep \in Rep /\ e.rep.known /\ RepOK(e.rep) /\ e.kind \in Kind
  BY <1>1 DEF EditOK, Edit
<1>3. CASE e.kind = "suspend"
  BY <1>2, <1>3, SuspendAdds DEF EditedRep, Becomes, EditOK
<1>4. CASE e.kind = "lift"
  BY <1>2, <1>4, LiftDrops DEF EditedRep, Becomes, EditOK
<1>5. CASE e.kind = "ban"
  BY <1>2, <1>5, BanAdds DEF EditedRep, Becomes
<1>6. CASE e.kind = "unban"
  BY <1>2, <1>6, UnbanDrops DEF EditedRep, Becomes
<1>7. CASE e.kind = "profile"
  BY <1>2, <1>7 DEF EditedRep
<1> QED
  BY <1>2, <1>3, <1>4, <1>5, <1>6, <1>7 DEF Kind

\* Accounts as they are found, with nobody editing, satisfy the invariant.
LEMMA DirInitInv == DirInit => DirInv
<1> SUFFICES ASSUME DirInit PROVE DirInv
  OBVIOUS
<1>1. /\ NoAccount \in Rep /\ RepOK(NoAccount)
      /\ FreshAccount \in Rep /\ RepOK(FreshAccount)
      /\ [FreshAccount EXCEPT !.enabled = FALSE] \in Rep
      /\ RepOK([FreshAccount EXCEPT !.enabled = FALSE])
  BY DEF NoAccount, FreshAccount, Rep, RepOK
<1>2. DirTypeOK
  BY <1>1 DEF DirInit, DirTypeOK
<1>3. \A u \in User : RepOK(acct[u])
  BY <1>1 DEF DirInit
<1>4. \A c \in Client : edit[c].pc # "put"
  BY DEF DirInit, NoEdit
<1> QED
  BY <1>2, <1>3, <1>4 DEF DirInv, EditOK, OneEditor

\* The GET of an edit: the mutex was free, so no other edit holds the account.
LEMMA EditGetInv ==
  ASSUME DirInv, NEW c \in Client, NEW k \in Kind, NEW u \in User,
         NEW by \in Org \cup {Nobody},
         k \in {"suspend", "lift"} => by \in Org,
         EditGet(c, k, u, by)
  PROVE  DirInv'
<1> DEFINE new == [pc |-> "put", kind |-> k, user |-> u, by |-> by,
                   rep |-> acct[u], stale |-> FALSE]
<1>1. edit' = [edit EXCEPT ![c] = new] /\ acct' = acct /\ session' = session
  BY DEF EditGet
<1>2. new \in Edit
  BY DEF DirInv, DirTypeOK, Edit
<1>3. edit \in [Client -> Edit \cup {NoEdit}]
  BY DEF DirInv, DirTypeOK
<1>4. edit'[c] = new /\ \A d \in Client \ {c} : edit'[d] = edit[d]
  BY <1>1, <1>3
<1>5. DirTypeOK'
  BY <1>1, <1>2, <1>3 DEF DirInv, DirTypeOK
<1>6. \A d \in Client : EditOK(d)'
  BY <1>1, <1>4, SMTT(30) DEF DirInv, EditOK, EditGet
<1>7. OneEditor'
  BY <1>1, <1>4, SMTT(30) DEF DirInv, OneEditor, EditGet, Locked
<1> QED
  BY <1>1, <1>5, <1>6, <1>7 DEF DirInv

\* The PUT of an edit: it writes back a well-formed account, and no other edit
\* holds the account it changes (editUser).
LEMMA EditPutInv ==
  ASSUME DirInv, NEW c \in Client, EditPut(c)
  PROVE  DirInv'
<1> DEFINE e == edit[c]
<1>1. e \in Edit
  BY NoEditIsIdle DEF DirInv, DirTypeOK, EditPut
<1>2. edit \in [Client -> Edit \cup {NoEdit}] /\ acct \in [User -> Rep]
  BY DEF DirInv, DirTypeOK
<1>3. /\ edit'[c].pc \in {"logout", "idle"}
      /\ edit' \in [Client -> Edit \cup {NoEdit}]
      /\ \A d \in Client \ {c} : edit'[d] = edit[d]
  <2>1. [e EXCEPT !.pc = "logout"] \in Edit
    BY <1>1 DEF Edit
  <2> QED
    BY <1>1, <1>2, <2>1 DEF EditPut, NoEdit, Edit
<1>4. CASE e.stale
  <2>1. acct' = acct /\ session' = session
    BY <1>4 DEF EditPut
  <2> QED
    BY <1>3, <2>1 DEF DirInv, DirTypeOK, EditOK, OneEditor
<1>5. CASE ~e.stale
  <2>1. acct' = [acct EXCEPT ![e.user] = EditedRep(e)] /\ session' = session
    BY <1>5 DEF EditPut
  <2>2. e.user \in User /\ e.pc = "put"
    BY <1>1 DEF Edit, EditPut
  <2>3. EditedRep(e) \in Rep /\ RepOK(EditedRep(e)) /\ EditedRep(e).known
    BY <1>5, <2>2, EditedRepOK DEF DirInv
  <2>4. acct' \in [User -> Rep] /\ \A u \in User : RepOK(acct'[u])
    BY <1>2, <2>1, <2>2, <2>3 DEF DirInv
  <2>5. \A d \in Client \ {c} : edit[d].pc = "put" /\ ~edit[d].stale
                                  => edit[d].user # e.user
    BY <1>5, <2>2 DEF DirInv, OneEditor
  <2>6. \A d \in Client : EditOK(d)'
    <3> SUFFICES ASSUME NEW d \in Client, edit'[d].pc = "put" PROVE EditOK(d)'
      BY DEF EditOK
    <3>1. d # c /\ edit'[d] = edit[d]
      BY <1>3
    <3>2. edit[d] \in Edit
      BY <1>2, <3>1, NoEditIsIdle
    <3>3. edit[d].user \in User
      BY <3>2 DEF Edit
    <3> QED
      BY <1>2, <2>1, <2>5, <3>1, <3>3 DEF DirInv, EditOK
  <2>7. OneEditor'
    BY <1>3 DEF DirInv, OneEditor
  <2> QED
    BY <1>3, <2>1, <2>4, <2>6, <2>7 DEF DirInv, DirTypeOK
<1> QED
  BY <1>4, <1>5

\* The logout that ends a disable, and a call that fails, change no account.
LEMMA EditEndInv ==
  ASSUME DirInv, NEW c \in Client, Logout(c) \/ EditFails(c)
  PROVE  DirInv'
<1>1. /\ acct' = acct /\ session' \in SUBSET User
      /\ edit' = [edit EXCEPT ![c] = NoEdit]
  BY DEF Logout, EditFails, DirInv, DirTypeOK
<1>2. edit \in [Client -> Edit \cup {NoEdit}]
  BY DEF DirInv, DirTypeOK
<1>3. edit'[c].pc = "idle" /\ \A d \in Client \ {c} : edit'[d] = edit[d]
  BY <1>1, <1>2, NoEditIsIdle
<1>4. DirTypeOK'
  BY <1>1, <1>2 DEF DirInv, DirTypeOK
<1> QED
  BY <1>1, <1>3, <1>4, SMTT(30) DEF DirInv, EditOK, OneEditor

\* A created account cannot be the one an edit holds: that one was known.
LEMMA CreateUserInv ==
  ASSUME DirInv, NEW u \in User, CreateUser(u)
  PROVE  DirInv'
<1>1. /\ acct' = [acct EXCEPT ![u] = FreshAccount] /\ ~acct[u].known
      /\ edit' = edit /\ session' = session
  BY DEF CreateUser
<1>2. FreshAccount \in Rep /\ RepOK(FreshAccount)
  BY DEF FreshAccount, NoAccount, Rep, RepOK
<1>3. acct \in [User -> Rep]
  BY DEF DirInv, DirTypeOK
<1>4. \A v \in User : RepOK(acct'[v])
  BY <1>1, <1>2, <1>3 DEF DirInv
<1>5. \A c \in Client : EditOK(c)'
  <2> SUFFICES ASSUME NEW c \in Client, edit[c].pc = "put" PROVE EditOK(c)'
    BY <1>1 DEF EditOK
  <2>1. edit[c] \in Edit
    BY NoEditIsIdle DEF DirInv, DirTypeOK
  <2>2. edit[c].user \in User
    BY <2>1 DEF Edit
  <2> QED
    BY <1>1, <1>3, <2>2 DEF DirInv, EditOK
<1> QED
  BY <1>1, <1>2, <1>3, <1>4, <1>5 DEF DirInv, DirTypeOK, OneEditor

\* A delete makes the edits of the account stale: they hold no mutex that the
\* account's successor would take.
LEMMA DeleteUserInv ==
  ASSUME DirInv, NEW u \in User, DeleteUser(u)
  PROVE  DirInv'
<1>1. acct' = [acct EXCEPT ![u] = NoAccount] /\ session' = session \ {u}
  BY DEF DeleteUser
<1>2. NoAccount \in Rep /\ RepOK(NoAccount)
  BY DEF NoAccount, Rep, RepOK
<1>3. acct \in [User -> Rep] /\ edit \in [Client -> Edit \cup {NoEdit}]
  BY DEF DirInv, DirTypeOK
<1>4. \A v \in User : RepOK(acct'[v])
  BY <1>1, <1>2, <1>3 DEF DirInv
<1>5. \A c \in Client :
        \/ edit'[c] = edit[c] /\ (edit[c].pc = "idle" \/ edit[c].user # u)
        \/ edit[c].pc # "idle" /\ edit'[c] = [edit[c] EXCEPT !.stale = TRUE]
  BY DEF DeleteUser
<1>6. \A c \in Client : edit[c].pc # "idle" => edit[c] \in Edit
  BY <1>3, NoEditIsIdle
<1>7. \A c \in Client : edit'[c] \in Edit \cup {NoEdit}
  <2> SUFFICES ASSUME NEW c \in Client, edit[c].pc # "idle",
                      edit'[c] = [edit[c] EXCEPT !.stale = TRUE]
               PROVE  edit'[c] \in Edit
    BY <1>3, <1>5
  <2> QED
    BY <1>6 DEF Edit
<1>8. edit' \in [Client -> Edit \cup {NoEdit}]
  BY <1>7 DEF DeleteUser
<1>9. \A c \in Client : (edit'[c].pc = "put" /\ ~edit'[c].stale)
                          => edit'[c] = edit[c] /\ edit[c].user # u
  <2> SUFFICES ASSUME NEW c \in Client, edit[c].pc # "idle",
                      edit'[c] = [edit[c] EXCEPT !.stale = TRUE]
               PROVE  edit'[c].stale
    BY <1>5
  <2> QED
    BY <1>6 DEF Edit
<1>10. \A c \in Client : edit'[c].pc = edit[c].pc /\
          (edit[c].pc = "put" => edit'[c].kind = edit[c].kind
                                   /\ edit'[c].by = edit[c].by)
  <2> SUFFICES ASSUME NEW c \in Client, edit[c].pc # "idle",
                      edit'[c] = [edit[c] EXCEPT !.stale = TRUE]
               PROVE  /\ edit'[c].pc = edit[c].pc
                      /\ edit'[c].kind = edit[c].kind /\ edit'[c].by = edit[c].by
    BY <1>5
  <2> QED
    BY <1>6 DEF Edit
<1>11. \A c \in Client : EditOK(c)'
  <2> SUFFICES ASSUME NEW c \in Client, edit'[c].pc = "put" PROVE EditOK(c)'
    BY DEF EditOK
  <2>1. edit'[c].kind \in {"suspend", "lift"} => edit'[c].by \in Org
    BY <1>10 DEF DirInv, EditOK
  <2>2. ASSUME ~edit'[c].stale
        PROVE  /\ acct'[edit'[c].user].known
               /\ edit'[c].rep = acct'[edit'[c].user]
    <3>1. edit'[c] = edit[c] /\ edit[c].user # u
      BY <1>9, <2>2
    <3>2. edit[c].user \in User
      BY <1>6, <3>1 DEF Edit
    <3> QED
      BY <1>1, <1>3, <2>2, <3>1, <3>2 DEF DirInv, EditOK
  <2> QED
    BY <2>1, <2>2 DEF EditOK
<1>12. OneEditor'
  BY <1>9 DEF DirInv, OneEditor
<1>13. DirTypeOK'
  BY <1>1, <1>2, <1>3, <1>8 DEF DirInv, DirTypeOK
<1> QED
  BY <1>4, <1>11, <1>12, <1>13 DEF DirInv

\* Every step of the directory preserves the invariant.
LEMMA DirNextInv == DirInv /\ [DirNext]_dirVars => DirInv'
<1> SUFFICES ASSUME DirInv, [DirNext]_dirVars PROVE DirInv'
  OBVIOUS
<1>1. ASSUME NEW c \in Client, NEW u \in User, NEW o \in Org,
             EditGet(c, "suspend", u, o) \/ EditGet(c, "lift", u, o)
      PROVE  DirInv'
  BY <1>1, EditGetInv DEF Kind
<1>2. ASSUME NEW c \in Client, NEW u \in User, NEW k \in {"ban", "unban", "profile"},
             EditGet(c, k, u, Nobody)
      PROVE  DirInv'
  BY <1>2, EditGetInv DEF Kind
<1>3. ASSUME NEW c \in Client, EditPut(c) PROVE DirInv'
  BY <1>3, EditPutInv
<1>4. ASSUME NEW c \in Client, Logout(c) \/ EditFails(c) PROVE DirInv'
  BY <1>4, EditEndInv
<1>5. ASSUME NEW u \in User, CreateUser(u) PROVE DirInv'
  BY <1>5, CreateUserInv
<1>6. ASSUME NEW u \in User, DeleteUser(u) PROVE DirInv'
  BY <1>6, DeleteUserInv
<1>7. ASSUME NEW u \in User, Login(u) PROVE DirInv'
  BY <1>7 DEF Login, DirInv, DirTypeOK, EditOK, OneEditor
<1>8. CASE UNCHANGED dirVars
  BY <1>8 DEF dirVars, DirInv, DirTypeOK, EditOK, OneEditor
<1> QED
  BY <1>1, <1>2, <1>3, <1>4, <1>5, <1>6, <1>7, <1>8 DEF DirNext

-----------------------------------------------------------------------------
(* The refinement                                                            *)

\* Accounts as they are found map to initial accounts, a lock without a
\* recorded reason counting as the platform's.
LEMMA DirInitRefines == DirInit => Accounts!Init
<1> SUFFICES ASSUME DirInit PROVE Accounts!Init
  OBVIOUS
<1>1. DirInv
  BY DirInitInv
<1>2. acct \in [User -> Rep] /\ \A u \in User : RepOK(acct[u])
  BY <1>1 DEF DirInv, DirTypeOK
<1>3. \A u \in User : LockReasons(acct[u]) \in SUBSET (Org \cup {Platform})
  BY <1>2 DEF LockReasons, Rep
<1>4. \A u \in User : acct[u].enabled = (acct[u].known /\ LockReasons(acct[u]) = {})
  BY <1>2 DEF LockReasons, Rep, RepOK
<1>5. \A u \in User : ~acct[u].known => LockReasons(acct[u]) = {}
  BY DEF LockReasons
<1> QED
  BY <1>3, <1>4, <1>5 DEF Accounts!Init

\* A write that changes one account's reasons to R is what Accounts calls
\* SetReasons.
LEMMA WriteRefines ==
  ASSUME DirTypeOK, NEW u \in User, acct[u].known, NEW new,
         NEW R, Becomes(acct[u], new, R),
         acct' = [acct EXCEPT ![u] = new]
  PROVE  Accounts!SetReasons(u, R)
<1>1. acct \in [User -> Rep] /\ acct' \in [User -> Rep]
  BY DEF DirTypeOK, Becomes
<1>2. acct'[u] = new /\ \A v \in User \ {u} : acct'[v] = acct[v]
  BY <1>1
<1>3. new.known /\ LockReasons(new) = R /\ new.enabled = (R = {})
  BY DEF Becomes, Rep
<1>4. {v \in User : acct'[v].known} = {v \in User : acct[v].known}
  BY <1>2, <1>3
<1>5. [v \in User |-> LockReasons(acct'[v])]
        = [[v \in User |-> LockReasons(acct[v])] EXCEPT ![u] = R]
  <2>1. \A v \in User : LockReasons(acct'[v])
                        = IF v = u THEN R ELSE LockReasons(acct[v])
    BY <1>2, <1>3, SMTT(30)
  <2> QED
    BY <2>1, Zenon
<1>6. [v \in User |-> acct'[v].enabled]
        = [[v \in User |-> acct[v].enabled] EXCEPT ![u] = (R = {})]
  <2>1. \A v \in User : acct'[v].enabled
                        = IF v = u THEN (R = {}) ELSE acct[v].enabled
    <3> TAKE v \in User
    <3>1. CASE v = u
      BY <1>2, <1>3, <3>1
    <3>2. CASE v # u
      BY <1>2, <3>2, SMTT(30)
    <3> QED
      BY <3>1, <3>2
  <2> QED
    BY <2>1, Zenon
<1> QED
  BY <1>4, <1>5, <1>6 DEF Accounts!SetReasons

\* A PUT adds or lifts one reason, or changes nothing the contract sees.
LEMMA EditPutRefines ==
  ASSUME DirInv, NEW c \in Client, EditPut(c)
  PROVE  Accounts!Next \/ UNCHANGED Accounts!accountVars
<1> DEFINE e == edit[c]
<1>1. e \in Edit /\ e.pc = "put"
  BY NoEditIsIdle DEF DirInv, DirTypeOK, EditPut
<1>2. CASE e.stale
  BY <1>2 DEF EditPut, Accounts!accountVars
<1>3. CASE ~e.stale
  <2>1. acct' = [acct EXCEPT ![e.user] = EditedRep(e)]
    BY <1>3 DEF EditPut
  <2>2. /\ e.user \in User /\ acct[e.user].known /\ e.rep = acct[e.user]
        /\ e.rep \in Rep /\ RepOK(e.rep) /\ e.kind \in Kind
        /\ e.kind \in {"suspend", "lift"} => e.by \in Org
    BY <1>1, <1>3 DEF DirInv, EditOK, Edit
  <2>3. DirTypeOK
    BY DEF DirInv
  <2> PICK u \in User : u = e.user
    BY <2>2
  <2> PICK o : o = e.by
    OBVIOUS
  <2> PICK new : new = EditedRep(e)
    OBVIOUS
  <2> DEFINE R0 == LockReasons(acct[u])
  <2>4. CASE e.kind = "suspend"
    <3> PICK R : R = R0 \cup {o}
      OBVIOUS
    <3>1. Becomes(acct[u], new, R)
      BY <2>2, <2>4, SuspendAdds DEF EditedRep
    <3>2. Accounts!SetReasons(u, R)
      BY <2>1, <2>2, <2>3, <3>1, WriteRefines
    <3>3. Accounts!Lock(u, o)
      BY <3>2 DEF Accounts!Lock, Accounts!SetReasons
    <3> QED
      BY <2>2, <2>4, <3>3 DEF Accounts!Next
  <2>5. CASE e.kind = "lift"
    <3> PICK R : R = R0 \ {o}
      OBVIOUS
    <3>1. Becomes(acct[u], new, R)
      BY <2>2, <2>5, LiftDrops DEF EditedRep
    <3>2. Accounts!SetReasons(u, R)
      BY <2>1, <2>2, <2>3, <3>1, WriteRefines
    <3>3. Accounts!Lift(u, o)
      BY <3>2 DEF Accounts!Lift, Accounts!SetReasons
    <3> QED
      BY <2>2, <2>5, <3>3 DEF Accounts!Next
  <2>6. CASE e.kind = "ban"
    <3> PICK R : R = R0 \cup {Platform}
      OBVIOUS
    <3>1. Becomes(acct[u], new, R)
      BY <2>2, <2>6, BanAdds DEF EditedRep
    <3>2. Accounts!SetReasons(u, R)
      BY <2>1, <2>2, <2>3, <3>1, WriteRefines
    <3>3. Accounts!Lock(u, Platform)
      BY <3>2 DEF Accounts!Lock, Accounts!SetReasons
    <3> QED
      BY <2>2, <2>6, <3>3 DEF Accounts!Next
  <2>7. CASE e.kind = "unban"
    <3> PICK R : R = R0 \ {Platform}
      OBVIOUS
    <3>1. Becomes(acct[u], new, R)
      BY <2>2, <2>7, UnbanDrops DEF EditedRep
    <3>2. Accounts!SetReasons(u, R)
      BY <2>1, <2>2, <2>3, <3>1, WriteRefines
    <3>3. Accounts!Lift(u, Platform)
      BY <3>2 DEF Accounts!Lift, Accounts!SetReasons
    <3> QED
      BY <2>2, <2>7, <3>3 DEF Accounts!Next
  <2>8. CASE e.kind = "profile"
    <3>1. acct' = acct
      BY <2>1, <2>2, <2>3, <2>8 DEF EditedRep, DirTypeOK
    <3> QED
      BY <3>1 DEF Accounts!accountVars
  <2> QED
    BY <2>2, <2>4, <2>5, <2>6, <2>7, <2>8 DEF Kind
<1> QED
  BY <1>2, <1>3

\* createUser is the contract's Create: an open account.
LEMMA CreateUserRefines ==
  ASSUME DirInv, NEW u \in User, CreateUser(u)
  PROVE  Accounts!Next
<1>1. acct \in [User -> Rep] /\ acct' = [acct EXCEPT ![u] = FreshAccount]
  BY DEF DirInv, DirTypeOK, CreateUser
<1>2. acct'[u] = FreshAccount /\ \A v \in User \ {u} : acct'[v] = acct[v]
  BY <1>1
<1>3. ~acct[u].known /\ LockReasons(acct[u]) = {}
  BY DEF CreateUser, LockReasons
<1>4. /\ FreshAccount.known /\ FreshAccount.enabled = TRUE
      /\ LockReasons(FreshAccount) = {}
  BY DEF FreshAccount, NoAccount, LockReasons
<1>5. {v \in User : acct'[v].known} = {v \in User : acct[v].known} \cup {u}
  BY <1>2, <1>4
<1>6. [v \in User |-> LockReasons(acct'[v])] = [v \in User |-> LockReasons(acct[v])]
  BY <1>2, <1>3, <1>4
<1>7. [v \in User |-> acct'[v].enabled]
        = [[v \in User |-> acct[v].enabled] EXCEPT ![u] = TRUE]
  BY <1>2, <1>4
<1>8. Accounts!Create(u)
  BY <1>3, <1>5, <1>6, <1>7 DEF Accounts!Create
<1> QED
  BY <1>8 DEF Accounts!Next

\* DeleteUser is the contract's Delete: no reason survives the account.
LEMMA DeleteUserRefines ==
  ASSUME DirInv, NEW u \in User, DeleteUser(u)
  PROVE  Accounts!Next
<1>1. acct \in [User -> Rep] /\ acct' = [acct EXCEPT ![u] = NoAccount]
  BY DEF DirInv, DirTypeOK, DeleteUser
<1>2. acct'[u] = NoAccount /\ \A v \in User \ {u} : acct'[v] = acct[v]
  BY <1>1
<1>3. acct[u].known
  BY DEF DeleteUser
<1>4. ~NoAccount.known /\ NoAccount.enabled = FALSE /\ LockReasons(NoAccount) = {}
  BY DEF NoAccount, LockReasons
<1>5. {v \in User : acct'[v].known} = {v \in User : acct[v].known} \ {u}
  BY <1>2, <1>4
<1>6. [v \in User |-> LockReasons(acct'[v])]
        = [[v \in User |-> LockReasons(acct[v])] EXCEPT ![u] = {}]
  BY <1>2, <1>4
<1>7. [v \in User |-> acct'[v].enabled]
        = [[v \in User |-> acct[v].enabled] EXCEPT ![u] = FALSE]
  BY <1>2, <1>4
<1>8. Accounts!Delete(u)
  BY <1>3, <1>5, <1>6, <1>7 DEF Accounts!Delete
<1> QED
  BY <1>8 DEF Accounts!Next

\* Every step of the directory is a step of the contract, or none.
LEMMA DirNextRefines ==
  DirInv /\ [DirNext]_dirVars => [Accounts!Next]_(Accounts!accountVars)
<1> SUFFICES ASSUME DirInv, [DirNext]_dirVars
             PROVE  Accounts!Next \/ UNCHANGED Accounts!accountVars
  OBVIOUS
<1>1. ASSUME NEW c \in Client, EditPut(c)
      PROVE  Accounts!Next \/ UNCHANGED Accounts!accountVars
  BY <1>1, EditPutRefines
<1>2. ASSUME NEW u \in User, CreateUser(u) PROVE Accounts!Next
  BY <1>2, CreateUserRefines
<1>3. ASSUME NEW u \in User, DeleteUser(u) PROVE Accounts!Next
  BY <1>3, DeleteUserRefines
<1>4. CASE UNCHANGED acct
  BY <1>4 DEF Accounts!accountVars
<1> QED
  BY <1>1, <1>2, <1>3, <1>4
  DEF DirNext, dirVars, EditGet, Logout, EditFails, Login

\* The types of the directory's state, and what the mutex per account
\* guarantees: an edit about to be written holds the account as it is.
THEOREM DirCorrect == DirSpec => []DirInv
<1>1. DirInit => DirInv
  BY DirInitInv
<1>2. DirInv /\ [DirNext]_dirVars => DirInv'
  BY DirNextInv
<1> QED
  BY <1>1, <1>2, PTL DEF DirSpec

\* Whatever edits overlap, for any number of requests, the directory locks and
\* lifts as AccountLifecycle says (keycloak.go, editUser and userLocks).
THEOREM DirectoryRefines == DirSpec => RefinesAccounts
<1>1. DirInit => Accounts!Init
  BY DirInitRefines
<1>2. DirInv /\ [DirNext]_dirVars => [Accounts!Next]_(Accounts!accountVars)
  BY DirNextRefines
<1> QED
  BY <1>1, <1>2, DirCorrect, PTL DEF DirSpec, RefinesAccounts, Accounts!Spec

-----------------------------------------------------------------------------
(* Requests of the organization API: their types                             *)

Op == RewriteOp \cup CreateOp \cup UserOp
        \cup {"add", "role", "spawn", "remove", "disable", "enable", "delete"}

\* The points of a request at which it is taking a user out of req.org.
LeavePoint == {"untuple", "leave", "load", "disp", "unlock", "unlocking"}

UriPoint == {"uris", "urisPut", "unUris", "unUrisPut"}

PlainPoint ==
  {"read", "put", "cap", "mine", "kc", "tuple", "join", "unTuple", "unJoin",
   "unPut", "unKc", "unwound", "list", "edit", "agents", "again", "drop",
   "kcDelete", "storeDelete", "check", "other", "spawn", "orgs", "next",
   "editing"}

Point == PlainPoint \cup UriPoint \cup LeavePoint

InFlight ==
  [op : Op, pc : Point, org : Org \cup {Nobody},
   user : User \cup {Nobody}, role : Role,
   arg : Account \cup Disposition \cup {NoAnchor}, rec : OrgRec,
   todo : SUBSET User, rest : SUBSET Org, seen : SUBSET Org, clean : BOOLEAN]

\* What a request is about: its organization and its user, by operation.
Addressed(r) ==
  /\ r.op \notin UserOp => r.org \in Org
  /\ r.op \in UserOp \cup GrantOp \cup {"spawn", "remove"} => r.user \in User
  /\ r.op \in {"disable", "enable", "delete"} \cup RewriteOp => r.user = Nobody
  /\ r.op \in CreateOp => r.role = "admin"
  /\ r.op = "settings" => r.arg \in Disposition
  /\ r.op \in {"putAnchor", "activateAnchor"} => r.arg \in Account
  /\ r.pc \in UriPoint => r.op \in CreateOp \cup {"delete"}
  /\ r.pc \in LeavePoint => r.org \in Org

Serving(c) == req[c] \in InFlight /\ Addressed(req[c])

\* The part of the state the requests' own records depend on.
StoreTypeOK ==
  /\ org \in [Org -> OrgRec]
  /\ member \in SUBSET (Org \X User)
  /\ uris \in SUBSET Org

RequestTypeOK ==
  /\ DOMAIN req = Client
  /\ req = [c \in Client |-> req[c]]
  /\ \A c \in Client : req[c] = Idle \/ Serving(c)

\* What a step does to the request it belongs to: others are left alone, and
\* the request ends, or goes on with the operation and the user it had.
Same(r, s) ==
  /\ s.op = r.op /\ s.user = r.user /\ s.arg = r.arg /\ s.role = r.role
  /\ s.org = r.org \/ r.op = "deleteUser"
  /\ s.clean => r.clean

Moves(c) ==
  /\ req[c] \in InFlight
  /\ req' = [req EXCEPT ![c] = req'[c]]
  /\ req'[c] = Idle \/ (Serving(c)' /\ Same(req[c], req'[c]))

At(r, p) == [r EXCEPT !.pc = p]

\* ... or changes nothing of it but the point it is at.
PlainMove(c) ==
  Moves(c) /\ (req'[c] = Idle
                \/ \E p \in Point : req'[c] = At(req[c], p))

\* A request that is not idle is being served.
LEMMA ServedIfNotIdle ==
  ASSUME RequestTypeOK, NEW c \in Client, req[c].pc # "idle"
  PROVE  Serving(c)
BY SMTT(30) DEF RequestTypeOK, Idle

\* The reply ends a request.
LEMMA ReplyMoves ==
  ASSUME RequestTypeOK, NEW c \in Client, Serving(c), Reply(c)
  PROVE  Moves(c) /\ req'[c] = Idle
BY DEF RequestTypeOK, Serving, Reply, Moves

\* A step that keeps the request's organization.
LEMMA AdvanceMoves ==
  ASSUME RequestTypeOK, NEW c \in Client, Serving(c), NEW s \in InFlight,
         req' = [req EXCEPT ![c] = s], Same(req[c], s), s.org = req[c].org,
         s.pc \in UriPoint => req[c].op \in CreateOp \cup {"delete"},
         s.pc \in LeavePoint => req[c].org \in Org
  PROVE  Moves(c) /\ req'[c] = s
<1>1. req'[c] = s
  BY DEF RequestTypeOK
<1>2. Addressed(s)
  BY DEF Addressed, Same, Serving
<1> QED BY <1>1, <1>2 DEF Moves, Serving

\* A step to another point leaves the rest of the request alone.
LEMMA GotoMoves ==
  ASSUME RequestTypeOK, NEW c \in Client, Serving(c),
         NEW p \in Point, Goto(c, p),
         p \in UriPoint => req[c].op \in CreateOp \cup {"delete"},
         p \in LeavePoint => req[c].org \in Org
  PROVE  Moves(c) /\ req'[c] = At(req[c], p)
<1> DEFINE r == req[c]
           s == [r EXCEPT !.pc = p]
<1>1. req' = [req EXCEPT ![c] = s]
  BY DEF RequestTypeOK, Goto
<1>2. r \in InFlight
  BY DEF Serving
<1>3. s \in InFlight
  BY <1>2 DEF InFlight
<1>4. Same(r, s) /\ s.pc = p /\ s.org = r.org
  BY <1>2 DEF InFlight, Same
<1> HIDE DEF s
<1>5. Moves(c) /\ req'[c] = s
  BY <1>1, <1>3, <1>4, AdvanceMoves
<1> QED BY <1>5 DEF s, At

\* Steps that only move the request along, or end it.
LEMMA PlainMoves ==
  ASSUME RequestTypeOK, NEW c \in Client
  PROVE  (\/ SignupCap(c) \/ SignupMine(c) \/ CreateKc(c) \/ CreatePut(c)
          \/ WriteTuple(c) \/ Join(c) \/ UnwindTuple(c) \/ UnwindJoin(c)
          \/ UnwindPut(c) \/ UnwindKc(c) \/ Unwound(c) \/ DisablePut(c)
          \/ DisableAgents(c) \/ EnablePut(c) \/ EditMembersDone(c)
          \/ DeleteKc(c) \/ DeleteRecord(c) \/ RoleCheck(c) \/ RoleDropOther(c)
          \/ RemoveTuples(c) \/ RemoveLeave(c) \/ RemoveUnlock(c)
          \/ SpawnAgent(c) \/ UserEdit(c) \/ UserEdited(c)
          \/ DeleteUserEstate(c) \/ DeleteUserAccount(c) \/ RewritePut(c)
          \/ UrisPut(c)) => PlainMove(c)
<1>1. ASSUME req[c].pc # "idle", Reply(c) PROVE PlainMove(c)
  BY <1>1, ReplyMoves, ServedIfNotIdle DEF PlainMove
<1>2. ASSUME req[c].pc # "idle", NEW p \in PlainPoint, Goto(c, p) PROVE PlainMove(c)
  BY <1>2, GotoMoves, ServedIfNotIdle, SMTT(30)
  DEF PlainMove, Point, PlainPoint, UriPoint, LeavePoint
<1>3. ASSUME req[c].pc # "idle", NEW p \in UriPoint, Goto(c, p),
             req[c].op \in CreateOp \cup {"delete"}
      PROVE  PlainMove(c)
  BY <1>3, GotoMoves, ServedIfNotIdle DEF PlainMove, Point, UriPoint, LeavePoint
<1>4. ASSUME req[c].pc # "idle", NEW p \in LeavePoint, Goto(c, p),
             req[c].org \in Org
      PROVE  PlainMove(c)
  BY <1>4, GotoMoves, ServedIfNotIdle DEF PlainMove, Point, UriPoint, LeavePoint
<1>5. ASSUME SignupCap(c) PROVE PlainMove(c)
  <2>1. req[c].pc # "idle" /\ (Reply(c) \/ Goto(c, "mine"))
    BY <1>5 DEF SignupCap, On
  <2> QED BY <1>1, <1>2, <2>1 DEF PlainPoint
<1>6. ASSUME SignupMine(c) PROVE PlainMove(c)
  <2>1. req[c].pc # "idle" /\ (Reply(c) \/ Goto(c, "kc"))
    BY <1>6 DEF SignupMine, On
  <2> QED BY <1>1, <1>2, <2>1 DEF PlainPoint
<1>7. ASSUME CreateKc(c) PROVE PlainMove(c)
  <2>1. req[c].pc # "idle" /\ (Reply(c) \/ Goto(c, "put"))
    BY <1>7 DEF CreateKc, On
  <2> QED BY <1>1, <1>2, <2>1 DEF PlainPoint
<1>8. ASSUME CreatePut(c) PROVE PlainMove(c)
  <2>1. req[c].pc # "idle" /\ (Reply(c) \/ Goto(c, "tuple"))
    BY <1>8 DEF CreatePut, On
  <2> QED BY <1>1, <1>2, <2>1 DEF PlainPoint
<1>9. ASSUME WriteTuple(c) PROVE PlainMove(c)
  <2>1. req[c].pc # "idle" /\ (Reply(c) \/ Goto(c, "other") \/ Goto(c, "join"))
    BY <1>9 DEF WriteTuple, On, GrantOp, CreateOp
  <2> QED BY <1>1, <1>2, <2>1 DEF PlainPoint
<1>10. ASSUME UnwindTuple(c) PROVE PlainMove(c)
  <2>1. req[c].pc # "idle" /\ (Reply(c) \/ Goto(c, "unJoin"))
    BY <1>10 DEF UnwindTuple, On
  <2> QED BY <1>1, <1>2, <2>1 DEF PlainPoint
<1>11. ASSUME UnwindJoin(c) PROVE PlainMove(c)
  <2>1. req[c].pc # "idle" /\ (Reply(c) \/ Goto(c, "unPut"))
    BY <1>11 DEF UnwindJoin, On
  <2> QED BY <1>1, <1>2, <2>1 DEF PlainPoint
<1>12. ASSUME UnwindPut(c) PROVE PlainMove(c)
  <2>1. req[c].pc # "idle" /\ (Reply(c) \/ Goto(c, "unKc"))
    BY <1>12 DEF UnwindPut, On
  <2> QED BY <1>1, <1>2, <2>1 DEF PlainPoint
<1>13. ASSUME UnwindKc(c) PROVE PlainMove(c)
  <2>1. req[c].pc # "idle" /\ (Reply(c) \/ Goto(c, "unwound"))
    BY <1>13 DEF UnwindKc, On
  <2> QED BY <1>1, <1>2, <2>1 DEF PlainPoint
<1>14. ASSUME Unwound(c) PROVE PlainMove(c)
  <2>1. req[c].pc # "idle" /\ (Reply(c))
    BY <1>14 DEF Unwound, On
  <2> QED BY <1>1, <1>2, <2>1 DEF PlainPoint
<1>15. ASSUME DisablePut(c) PROVE PlainMove(c)
  <2>1. req[c].pc # "idle" /\ (Reply(c) \/ Goto(c, "list"))
    BY <1>15 DEF DisablePut, On
  <2> QED BY <1>1, <1>2, <2>1 DEF PlainPoint
<1>16. ASSUME DisableAgents(c) PROVE PlainMove(c)
  <2>1. req[c].pc # "idle" /\ (Reply(c))
    BY <1>16 DEF DisableAgents, On
  <2> QED BY <1>1, <1>2, <2>1 DEF PlainPoint
<1>17. ASSUME EnablePut(c) PROVE PlainMove(c)
  <2>1. req[c].pc # "idle" /\ (Reply(c))
    BY <1>17 DEF EnablePut, On
  <2> QED BY <1>1, <1>2, <2>1 DEF PlainPoint
<1>18. ASSUME EditMembersDone(c) PROVE PlainMove(c)
  <2>1. /\ req[c].pc # "idle"
        /\ Reply(c) \/ Goto(c, "agents") \/ Goto(c, "put") \/ Goto(c, "again")
    BY <1>18 DEF EditMembersDone, On
  <2> QED BY <1>1, <1>2, <2>1 DEF PlainPoint
<1>19. ASSUME DeleteKc(c) PROVE PlainMove(c)
  <2>1. req[c].pc # "idle" /\ (Reply(c) \/ Goto(c, "storeDelete"))
    BY <1>19 DEF DeleteKc, On
  <2> QED BY <1>1, <1>2, <2>1 DEF PlainPoint
<1>20. ASSUME DeleteRecord(c) PROVE PlainMove(c)
  <2>1. req[c].pc # "idle" /\ (Reply(c))
    BY <1>20 DEF DeleteRecord, On
  <2> QED BY <1>1, <1>2, <2>1 DEF PlainPoint
<1>21. ASSUME RoleCheck(c) PROVE PlainMove(c)
  <2>1. req[c].pc # "idle" /\ (Reply(c) \/ Goto(c, "tuple"))
    BY <1>21 DEF RoleCheck, On
  <2> QED BY <1>1, <1>2, <2>1 DEF PlainPoint
<1>22. ASSUME RoleDropOther(c) PROVE PlainMove(c)
  <2>1. req[c].pc # "idle" /\ (Reply(c))
    BY <1>22 DEF RoleDropOther, On
  <2> QED BY <1>1, <1>2, <2>1 DEF PlainPoint
<1>23. ASSUME SpawnAgent(c) PROVE PlainMove(c)
  <2>1. req[c].pc # "idle" /\ (Reply(c))
    BY <1>23 DEF SpawnAgent, On
  <2> QED BY <1>1, <1>2, <2>1 DEF PlainPoint
<1>24. ASSUME UserEdit(c) PROVE PlainMove(c)
  <2>1. req[c].pc # "idle" /\ (Reply(c) \/ Goto(c, "editing"))
    BY <1>24 DEF UserEdit, On
  <2> QED BY <1>1, <1>2, <2>1 DEF PlainPoint
<1>25. ASSUME UserEdited(c) PROVE PlainMove(c)
  <2>1. req[c].pc # "idle" /\ (Reply(c))
    BY <1>25 DEF UserEdited, On
  <2> QED BY <1>1, <1>2, <2>1 DEF PlainPoint
<1>26. ASSUME DeleteUserEstate(c) PROVE PlainMove(c)
  <2>1. req[c].pc # "idle" /\ (Reply(c) \/ Goto(c, "orgs"))
    BY <1>26 DEF DeleteUserEstate, On
  <2> QED BY <1>1, <1>2, <2>1 DEF PlainPoint
<1>27. ASSUME DeleteUserAccount(c) PROVE PlainMove(c)
  <2>1. req[c].pc # "idle" /\ (Reply(c))
    BY <1>27 DEF DeleteUserAccount, On
  <2> QED BY <1>1, <1>2, <2>1 DEF PlainPoint
<1>28. ASSUME RewritePut(c) PROVE PlainMove(c)
  <2>1. req[c].pc # "idle" /\ (Reply(c))
    BY <1>28 DEF RewritePut, On
  <2> QED BY <1>1, <1>2, <2>1 DEF PlainPoint
<1>29. ASSUME Join(c) PROVE PlainMove(c)
  <2>1. /\ req[c].pc # "idle" /\ req[c].op \in CreateOp \cup {"add"}
        /\ Goto(c, IF req[c].op = "add" THEN "tuple" ELSE "uris")
    BY <1>29 DEF Join, On
  <2> QED BY <1>2, <1>3, <2>1 DEF PlainPoint, UriPoint
<1>30. ASSUME UrisPut(c) PROVE PlainMove(c)
  <2>1. /\ req[c].pc # "idle"
        /\ Reply(c) \/ Goto(c, "kcDelete") \/ Goto(c, "unTuple")
    BY <1>30 DEF UrisPut
  <2> QED BY <1>1, <1>2, <2>1 DEF PlainPoint
<1>31. ASSUME RemoveTuples(c) \/ RemoveLeave(c) \/ RemoveUnlock(c)
       PROVE  PlainMove(c)
  <2>1. /\ req[c].pc # "idle" /\ req[c].pc \in LeavePoint
        /\ Goto(c, "leave") \/ Goto(c, "load") \/ Goto(c, "unlocking")
    BY <1>31 DEF RemoveTuples, RemoveLeave, RemoveUnlock, On, LeavePoint
  <2>2. req[c].org \in Org
    BY <2>1, ServedIfNotIdle DEF Serving, Addressed
  <2> QED BY <1>4, <2>1, <2>2 DEF LeavePoint
<1> QED BY <1>5, <1>6, <1>7, <1>8, <1>9, <1>10, <1>11, <1>12, <1>13, <1>14,
      <1>15, <1>16, <1>17, <1>18, <1>19, <1>20, <1>21, <1>22, <1>23, <1>24,
      <1>25, <1>26, <1>27, <1>28, <1>29, <1>30, <1>31

\* Steps that read: the record, the members, the organizations of a user or
\* the URIs go into the request.
ReadMove(c) ==
  /\ Moves(c) /\ req'[c] # Idle
  /\ \/ req'[c].rec = req[c].rec
     \/ /\ req'[c].rec = org[req[c].org]
        /\ req[c].pc = "read" \/ req[c].op \in RemoveOp
     \/ req[c].op = "deleteUser" /\ req'[c].rec = NoRec

\* Each such step is a move.
LEMMA ReadMoves ==
  ASSUME RequestTypeOK, StoreTypeOK, NEW c \in Client
  PROVE  (\/ ListForDisable(c) \/ ListForEnable(c) \/ DeleteList(c)
          \/ DeleteTuples(c) \/ DeleteUserOrgs(c) \/ CreateRead(c)
          \/ RemoveLoad(c) \/ UrisGet(c) \/ EditMember(c))
         => ReadMove(c)
<1> DEFINE r == req[c]
<1>1. ASSUME NEW s \in InFlight, req' = [req EXCEPT ![c] = s], r.pc # "idle",
             Same(r, s), s.org = r.org,
             s.pc \in UriPoint => r.op \in CreateOp \cup {"delete"},
             s.pc \in LeavePoint => r.org \in Org,
             s.rec = r.rec \/ s.rec = org[r.org],
             s.rec = r.rec \/ r.pc = "read" \/ r.op \in RemoveOp
      PROVE  ReadMove(c)
  <2>1. Moves(c) /\ req'[c] = s
    BY <1>1, AdvanceMoves, ServedIfNotIdle
  <2>2. s # Idle
    BY <1>1, SMTT(30) DEF InFlight, Idle, Point, PlainPoint, UriPoint, LeavePoint
  <2> QED BY <1>1, <2>1, <2>2 DEF ReadMove
<1>2. r.pc # "idle" => Serving(c) /\ r \in InFlight
  BY ServedIfNotIdle DEF Serving
<1>3. ASSUME ListForDisable(c) PROVE ReadMove(c)
  <2> DEFINE v == MembersOf(req[c].org) \ {Root}
             s == [r EXCEPT !.pc = "edit", !.todo = v]
  <2>1. r.pc # "idle"
    BY <1>3 DEF ListForDisable, On
  <2>2. req' = [req EXCEPT ![c] = s]
    BY <1>3 DEF ListForDisable, RequestTypeOK
  <2>3. v \in SUBSET User
    BY DEF MembersOf
  <2> HIDE DEF v
  <2>4. s \in InFlight
    BY <1>2, <2>1, <2>3 DEF InFlight, Point, PlainPoint, UriPoint
  <2>5. Same(r, s) /\ s.pc = "edit" /\ s.org = r.org /\ s.rec = r.rec
    BY <1>2, <2>1 DEF InFlight, Same
  <2> HIDE DEF s
  <2> QED BY <1>1, <2>1, <2>2, <2>4, <2>5 DEF UriPoint, LeavePoint
<1>4. ASSUME ListForEnable(c) PROVE ReadMove(c)
  <2> DEFINE v == MembersOf(req[c].org)
             s == [r EXCEPT !.pc = "edit", !.todo = v]
  <2>1. r.pc # "idle"
    BY <1>4 DEF ListForEnable, On
  <2>2. req' = [req EXCEPT ![c] = s]
    BY <1>4 DEF ListForEnable, RequestTypeOK
  <2>3. v \in SUBSET User
    BY DEF MembersOf
  <2> HIDE DEF v
  <2>4. s \in InFlight
    BY <1>2, <2>1, <2>3 DEF InFlight, Point, PlainPoint, UriPoint
  <2>5. Same(r, s) /\ s.pc = "edit" /\ s.org = r.org /\ s.rec = r.rec
    BY <1>2, <2>1 DEF InFlight, Same
  <2> HIDE DEF s
  <2> QED BY <1>1, <2>1, <2>2, <2>4, <2>5 DEF UriPoint, LeavePoint
<1>5. ASSUME DeleteList(c) PROVE ReadMove(c)
  <2> DEFINE v == MembersOf(req[c].org)
             s == [r EXCEPT !.pc = "drop", !.todo = v]
  <2>1. r.pc # "idle"
    BY <1>5 DEF DeleteList, On
  <2>2. req' = [req EXCEPT ![c] = s]
    BY <1>5 DEF DeleteList, RequestTypeOK
  <2>3. v \in SUBSET User
    BY DEF MembersOf
  <2> HIDE DEF v
  <2>4. s \in InFlight
    BY <1>2, <2>1, <2>3 DEF InFlight, Point, PlainPoint, UriPoint
  <2>5. Same(r, s) /\ s.pc = "drop" /\ s.org = r.org /\ s.rec = r.rec
    BY <1>2, <2>1 DEF InFlight, Same
  <2> HIDE DEF s
  <2> QED BY <1>1, <2>1, <2>2, <2>4, <2>5 DEF UriPoint, LeavePoint
<1>6. ASSUME DeleteTuples(c) PROVE ReadMove(c)
  <2> DEFINE v == {}
             s == [r EXCEPT !.pc = "unUris", !.todo = v]
  <2>1. r.pc # "idle" /\ r.op = "delete"
    BY <1>6 DEF DeleteTuples, On
  <2>2. req' = [req EXCEPT ![c] = s]
    BY <1>6 DEF DeleteTuples, RequestTypeOK
  <2>3. v \in SUBSET User
    BY DEF v
  <2> HIDE DEF v
  <2>4. s \in InFlight
    BY <1>2, <2>1, <2>3 DEF InFlight, Point, PlainPoint, UriPoint
  <2>5. Same(r, s) /\ s.pc = "unUris" /\ s.org = r.org /\ s.rec = r.rec
    BY <1>2, <2>1 DEF InFlight, Same
  <2> HIDE DEF s
  <2> QED BY <1>1, <2>1, <2>2, <2>4, <2>5 DEF UriPoint, LeavePoint
<1>7. ASSUME DeleteUserOrgs(c) PROVE ReadMove(c)
  <2> DEFINE v == {o \in Org : <<o, req[c].user>> \in member}
             s == [r EXCEPT !.pc = "next", !.rest = v]
  <2>1. r.pc # "idle"
    BY <1>7 DEF DeleteUserOrgs, On
  <2>2. req' = [req EXCEPT ![c] = s]
    BY <1>7 DEF DeleteUserOrgs, RequestTypeOK
  <2>3. v \in SUBSET Org
    BY DEF v
  <2> HIDE DEF v
  <2>4. s \in InFlight
    BY <1>2, <2>1, <2>3 DEF InFlight, Point, PlainPoint, UriPoint
  <2>5. Same(r, s) /\ s.pc = "next" /\ s.org = r.org /\ s.rec = r.rec
    BY <1>2, <2>1 DEF InFlight, Same
  <2> HIDE DEF s
  <2> QED BY <1>1, <2>1, <2>2, <2>4, <2>5 DEF UriPoint, LeavePoint
<1>8. ASSUME CreateRead(c) PROVE ReadMove(c)
  <2> DEFINE p == IF r.op = "signup" THEN "cap" ELSE "kc"
             s == [r EXCEPT !.rec = org[r.org], !.pc = p]
  <2>1. r.pc = "read" /\ r.op \in CreateOp
    BY <1>8 DEF CreateRead, On
  <2>2. req' = [req EXCEPT ![c] = s]
    BY <1>8 DEF CreateRead, RequestTypeOK
  <2>3. p \in PlainPoint /\ org[r.org] \in OrgRec
    BY <1>2, <2>1 DEF PlainPoint, Serving, Addressed, CreateOp, UserOp,
       StoreTypeOK
  <2> HIDE DEF p
  <2>4. s \in InFlight
    BY <1>2, <2>1, <2>3 DEF InFlight, Point
  <2>5. Same(r, s) /\ s.pc = p /\ s.org = r.org /\ s.rec = org[r.org]
    BY <1>2, <2>1 DEF InFlight, Same
  <2> HIDE DEF s
  <2> QED BY <1>1, <2>1, <2>2, <2>3, <2>4, <2>5
          DEF UriPoint, LeavePoint, PlainPoint
<1>9. ASSUME RemoveLoad(c) PROVE ReadMove(c)
  <2> DEFINE s == [r EXCEPT !.pc = "disp", !.rec = org[r.org]]
  <2>1. r.pc = "load" /\ r.op \in RemoveOp
    BY <1>9 DEF RemoveLoad, On
  <2>2. req' = [req EXCEPT ![c] = s]
    BY <1>9 DEF RemoveLoad, RequestTypeOK
  <2>3. r.org \in Org /\ org[r.org] \in OrgRec
    BY <1>2, <2>1 DEF Serving, Addressed, LeavePoint, StoreTypeOK
  <2>4. s \in InFlight
    BY <1>2, <2>1, <2>3 DEF InFlight, Point, LeavePoint
  <2>5. Same(r, s) /\ s.pc = "disp" /\ s.org = r.org /\ s.rec = org[r.org]
    BY <1>2, <2>1 DEF InFlight, Same
  <2> HIDE DEF s
  <2> QED BY <1>1, <2>1, <2>2, <2>3, <2>4, <2>5 DEF UriPoint
<1>10. ASSUME UrisGet(c) PROVE ReadMove(c)
  <2> DEFINE p == IF r.pc = "uris" THEN "urisPut" ELSE "unUrisPut"
             s == [r EXCEPT !.seen = uris, !.pc = p]
  <2>1. r.pc \in {"uris", "unUris"}
    BY <1>10 DEF UrisGet
  <2>2. req' = [req EXCEPT ![c] = s]
    BY <1>10 DEF UrisGet, RequestTypeOK
  <2>3. p \in UriPoint /\ uris \in SUBSET Org
    BY <2>1 DEF UriPoint, StoreTypeOK
  <2>4. r.op \in CreateOp \cup {"delete"}
    BY <1>2, <2>1 DEF Serving, Addressed, UriPoint
  <2> HIDE DEF p
  <2>5. s \in InFlight
    BY <1>2, <2>1, <2>3 DEF InFlight, Point
  <2>6. Same(r, s) /\ s.pc = p /\ s.org = r.org /\ s.rec = r.rec
    BY <1>2, <2>1 DEF InFlight, Same
  <2> HIDE DEF s
  <2> QED BY <1>1, <2>1, <2>2, <2>3, <2>4, <2>5, <2>6 DEF UriPoint, LeavePoint
<1>11. ASSUME EditMember(c) PROVE ReadMove(c)
  <2>1. PICK u \in r.todo : req' = [req EXCEPT ![c].todo = @ \ {u}]
    BY <1>11 DEF EditMember
  <2> DEFINE v == r.todo \ {u}
             s == [r EXCEPT !.todo = v]
  <2>2. r.pc = "edit"
    BY <1>11 DEF EditMember, On
  <2>3. req' = [req EXCEPT ![c] = s]
    BY <2>1 DEF RequestTypeOK
  <2>4. v \in SUBSET User
    BY <1>2, <2>2 DEF InFlight
  <2> HIDE DEF v
  <2>5. s \in InFlight
    BY <1>2, <2>2, <2>4 DEF InFlight
  <2>6. Same(r, s) /\ s.pc = r.pc /\ s.org = r.org /\ s.rec = r.rec
    BY <1>2, <2>2 DEF InFlight, Same
  <2> HIDE DEF s
  <2> QED BY <1>1, <2>2, <2>3, <2>5, <2>6 DEF UriPoint, LeavePoint
<1> QED BY <1>3, <1>4, <1>5, <1>6, <1>7, <1>8, <1>9, <1>10, <1>11

\* GetOrg either ends the request or gives it the record.
LEMMA ReadOrgMoves ==
  ASSUME RequestTypeOK, StoreTypeOK, NEW c \in Client, ReadOrg(c)
  PROVE  /\ Moves(c)
         /\ req'[c] # Idle =>
              /\ req'[c].rec = org[req[c].org]
              /\ req'[c].rec.known
              /\ req[c].op \in {"add", "spawn"} => ~req'[c].rec.disabled
<1> DEFINE r == req[c]
           o == r.org
           next == CASE r.op = "disable" -> "put"
                     [] r.op \in {"enable", "delete"} -> "list"
                     [] r.op = "add" -> "join"
                     [] r.op = "role" -> "check"
                     [] r.op = "remove" -> "untuple"
                     [] r.op = "spawn" -> "spawn"
                     [] OTHER -> "put"
           s == [r EXCEPT !.pc = next, !.rec = org[o]]
<1>1. r.pc = "read" /\ r.op \notin CreateOp \cup UserOp
  BY DEF ReadOrg
<1>2. Serving(c) /\ r \in InFlight
  BY <1>1, ServedIfNotIdle DEF Serving
<1>3. o \in Org /\ org[o] \in OrgRec
  BY <1>1, <1>2 DEF Serving, Addressed, StoreTypeOK
<1>4. \/ Reply(c)
      \/ /\ req' = [req EXCEPT ![c].pc = next, ![c].rec = org[o]]
         /\ org[o].known /\ ~(r.op \in {"add", "spawn"} /\ org[o].disabled)
  BY DEF ReadOrg
<1>5. next \in {"put", "list", "join", "check", "untuple", "spawn"}
  OBVIOUS
<1> HIDE DEF next
<1>6. CASE Reply(c)
  BY <1>2, <1>6, ReplyMoves
<1>7. CASE ~Reply(c)
  <2>1. req' = [req EXCEPT ![c] = s]
    BY <1>4, <1>7 DEF RequestTypeOK
  <2>2. s \in InFlight
    <3>1. next \in Point
      BY <1>5 DEF Point, PlainPoint, LeavePoint
    <3> HIDE DEF next
    <3> QED BY <1>2, <1>3, <3>1 DEF InFlight
  <2>3. Same(r, s) /\ s.pc = next /\ s.org = o /\ s.rec = org[o]
    BY <1>2 DEF InFlight, Same
  <2> HIDE DEF s
  <2>4. Moves(c) /\ req'[c] = s
    BY <1>2, <1>3, <1>5, <2>1, <2>2, <2>3, AdvanceMoves DEF UriPoint
  <2> QED BY <1>4, <1>7, <2>3, <2>4
<1> QED BY <1>6, <1>7

\* A removal that is over ends the request, or turns to the next organization
\* of a deleted user.
LEMMA RemovalMoves ==
  ASSUME RequestTypeOK, NEW c \in Client, RemoveDispose(c) \/ RemoveUnlocked(c)
  PROVE  /\ Moves(c)
         /\ req'[c] # Idle =>
              \/ req'[c].rec = req[c].rec
              \/ req[c].op = "deleteUser" /\ req'[c].rec = NoRec
<1> DEFINE r == req[c]
           s == IF RemoveDispose(c) /\ r.rec.disabled THEN [r EXCEPT !.pc = "unlock"]
                ELSE [r EXCEPT !.pc = "next", !.rec = NoRec]
<1>1. r.pc \in {"disp", "unlocking"} /\ r.op \in RemoveOp
  BY DEF RemoveDispose, RemoveUnlocked, On
<1>2. Serving(c) /\ r \in InFlight /\ r.org \in Org
  BY <1>1, ServedIfNotIdle DEF Serving, Addressed, LeavePoint
<1>3. Reply(c) \/ req' = [req EXCEPT ![c] = s]
  BY DEF RemoveDispose, RemoveUnlocked, RemoveNext, Reply, On
<1>4. NoRec \in OrgRec
  BY DEF NoRec, OrgRec, Disposition
<1>5. s \in InFlight
  <2>1. {"unlock", "next"} \subseteq Point
    BY DEF Point, PlainPoint, LeavePoint
  <2> QED BY <1>2, <1>4, <2>1 DEF InFlight
<1>6. Same(r, s) /\ s.org = r.org /\ s.pc \in {"unlock", "next"}
  BY <1>2 DEF InFlight, Same
<1>7. s.rec = r.rec \/ s.rec = NoRec
  BY <1>2 DEF InFlight
<1>8. req' = [req EXCEPT ![c] = s] => s.rec = r.rec \/ r.op = "deleteUser"
                                       \/ Reply(c)
  <2>1. CASE r.op = "remove"
    BY <1>2, <2>1 DEF RemoveDispose, RemoveUnlocked, RemoveNext, Reply, InFlight, On
  <2> QED BY <1>1, <2>1 DEF RemoveOp
<1> HIDE DEF s
<1>9. CASE Reply(c)
  BY <1>2, <1>9, ReplyMoves
<1>10. CASE ~Reply(c)
  <2>1. Moves(c) /\ req'[c] = s
    BY <1>2, <1>3, <1>5, <1>6, <1>10, AdvanceMoves DEF UriPoint
  <2> QED BY <1>3, <1>7, <1>8, <1>10, <2>1
<1> QED BY <1>9, <1>10

\* A user delete turns to the next organization the user was found in.
LEMMA NextOrgMoves ==
  ASSUME RequestTypeOK, NEW c \in Client, DeleteUserNext(c)
  PROVE  /\ Moves(c) /\ req'[c] # Idle /\ req'[c].rec = req[c].rec
         /\ req'[c].org \in req[c].rest /\ req'[c].pc = "untuple"
<1> DEFINE r == req[c]
<1>1. r.pc = "next" /\ r.op = "deleteUser"
  BY DEF DeleteUserNext, On
<1>2. Serving(c) /\ r \in InFlight
  BY <1>1, ServedIfNotIdle DEF Serving
<1>3. PICK o \in r.rest :
        req' = [req EXCEPT ![c].org = o, ![c].rest = @ \ {o}, ![c].pc = "untuple"]
  BY DEF DeleteUserNext
<1> DEFINE s == [r EXCEPT !.org = o, !.rest = @ \ {o}, !.pc = "untuple"]
<1>4. req' = [req EXCEPT ![c] = s] /\ req'[c] = s
  BY <1>3 DEF RequestTypeOK
<1>5. o \in Org
  BY <1>2 DEF InFlight
<1>6. s \in InFlight
  BY <1>2, <1>5 DEF InFlight, Point, LeavePoint
<1>7. Same(r, s) /\ s.org = o /\ s.pc = "untuple" /\ s.rec = r.rec
  BY <1>1, <1>2 DEF InFlight, Same
<1> HIDE DEF s
<1>8. Addressed(s)
  BY <1>1, <1>2, <1>5, <1>7 DEF Addressed, Same, Serving, UserOp, UriPoint
<1>9. s # Idle
  BY <1>7, SMTT(30) DEF Idle
<1> QED BY <1>2, <1>4, <1>6, <1>7, <1>8, <1>9 DEF Moves, Serving

\* A failing call ends the request, or sends it to what is left to do.
LEMMA FailureMoves ==
  ASSUME RequestTypeOK, NEW c \in Client, CallFails(c)
  PROVE  /\ Moves(c)
         /\ req'[c] # Idle =>
              /\ req'[c].rec = req[c].rec /\ req'[c].org = req[c].org
              /\ req'[c].pc = AfterFailure(req[c])
              /\ AfterFailure(req[c]) # "idle"
              /\ req'[c].clean => req[c].pc \notin Unwinding
         /\ AfterFailure(req[c]) = "idle" => req'[c] = Idle
<1> DEFINE r == req[c]
           next == AfterFailure(r)
           tidy == r.clean /\ r.pc \notin Unwinding
           s == [r EXCEPT !.pc = next, !.clean = tidy]
<1>1. r.pc # "idle"
  BY DEF CallFails
<1>2. Serving(c) /\ r \in InFlight
  BY <1>1, ServedIfNotIdle DEF Serving
<1>3. /\ next \in {"idle", "unKc", "unTuple", "unUris", "unJoin", "unPut",
                   "kcDelete", "leave"}
      /\ next = "unUris" => r.op \in CreateOp \cup {"delete"}
      /\ next = "leave" => r.pc = "untuple"
  BY DEF AfterFailure
<1>4. next = "leave" => r.org \in Org
  BY <1>2, <1>3 DEF Serving, Addressed, LeavePoint
<1>5. req' = [req EXCEPT ![c] = IF next = "idle" THEN Idle ELSE s]
  BY DEF CallFails
<1>0. tidy \in BOOLEAN
  OBVIOUS
<1> HIDE DEF next, tidy
<1>6. CASE next = "idle"
  <2>1. Reply(c)
    BY <1>5, <1>6 DEF Reply
  <2> QED BY <1>2, <1>6, <2>1, ReplyMoves DEF next
<1>7. CASE next # "idle"
  <2>1. s \in InFlight
    <3>1. next \in Point
      BY <1>3, <1>7 DEF Point, PlainPoint, LeavePoint, UriPoint
    <3> QED BY <1>0, <1>2, <3>1 DEF InFlight
  <2>2. /\ Same(r, s) /\ s.pc = next /\ s.org = r.org /\ s.rec = r.rec
        /\ s.clean => r.pc \notin Unwinding
    BY <1>2 DEF InFlight, Same, tidy
  <2> HIDE DEF s
  <2>3. Moves(c) /\ req'[c] = s
    BY <1>2, <1>3, <1>4, <1>5, <1>7, <2>1, <2>2, AdvanceMoves
    DEF UriPoint, LeavePoint
  <2> QED BY <1>7, <2>2, <2>3 DEF next
<1> QED BY <1>6, <1>7

RecMove(c) ==
  req'[c] # Idle =>
    \/ req'[c].rec = req[c].rec
    \/ /\ req'[c].rec = org[req[c].org]
       /\ req[c].pc = "read" \/ req[c].op \in RemoveOp
    \/ req[c].op = "deleteUser" /\ req'[c].rec = NoRec

\* Every step of a request moves that request only; the PUT and the logout of
\* an edit move none.
LEMMA StepMoves ==
  ASSUME RequestTypeOK, StoreTypeOK, NEW c \in Client, Step(c) \/ CallFails(c)
  PROVE  (Moves(c) /\ RecMove(c)) \/ (EditStep(c) /\ UNCHANGED orgVars)
<1>1. ASSUME PlainMove(c) PROVE Moves(c) /\ RecMove(c)
  <2>1. ASSUME NEW p \in Point, req[c] \in InFlight
        PROVE  At(req[c], p).rec = req[c].rec
    BY <2>1 DEF At, InFlight
  <2> QED BY <1>1, <2>1 DEF PlainMove, RecMove, Moves
<1>2. ASSUME ReadMove(c) PROVE Moves(c) /\ RecMove(c)
  BY <1>2 DEF ReadMove, RecMove
<1>3. ASSUME ReadOrg(c) PROVE Moves(c) /\ RecMove(c)
  BY <1>3, ReadOrgMoves DEF RecMove, ReadOrg
<1>4. ASSUME RemoveDispose(c) \/ RemoveUnlocked(c) PROVE Moves(c) /\ RecMove(c)
  BY <1>4, RemovalMoves DEF RecMove
<1>5. ASSUME DeleteUserNext(c) PROVE Moves(c) /\ RecMove(c)
  BY <1>5, NextOrgMoves DEF RecMove
<1>6. ASSUME CallFails(c) PROVE Moves(c) /\ RecMove(c)
  BY <1>6, FailureMoves DEF RecMove
<1>7. EditStep(c) => UNCHANGED orgVars
  BY DEF EditStep
<1> QED BY <1>1, <1>2, <1>3, <1>4, <1>5, <1>6, <1>7, PlainMoves, ReadMoves DEF Step

AccountOp == {"ban", "unban", "profile"}

\* Two requests overlap: they may touch the same member's state.
Overlap(r, s) ==
  /\ r.op \notin AccountOp /\ s.op \notin AccountOp
  /\ r.org = s.org \/ r.op = "deleteUser" \/ s.op = "deleteUser"
  /\ \/ About(r.op, r.user) = About(s.op, s.user)
     \/ About(r.op, r.user) = Nobody \/ About(s.op, s.user) = Nobody

InTouch(c, o, u) == c \in Touching(o, u)

\* What accepting a request does: it is new, and whatever it overlaps with is
\* no longer clean, nor is it, and tears what both touch; a conflict frays it.
Begins(c) ==
  /\ req[c].pc = "idle"
  /\ RequestTypeOK'
  /\ req'[c].pc = "read" /\ req'[c].rec = NoRec /\ Serving(c)'
  /\ \A d \in Client \ {c} :
       req'[d] = req[d] \/ (req[d].pc # "idle"
                             /\ req'[d] = [req[d] EXCEPT !.clean = FALSE])
  /\ \A d \in Client \ {c} :
       req[d].pc # "idle" /\ Overlap(req'[c], req[d]) =>
         /\ ~req'[c].clean /\ ~req'[d].clean
         /\ Conflict(req'[c].op, req[d].op) =>
              \A o \in Org, u \in User \cup {Nobody} :
                InTouch(c, o, u)' => <<o, u>> \in frayed'
  /\ \A d \in Client \ {c} :
       req'[d] # req[d] /\ req[d].op \notin UserOp => req[d].org \in torn'
  /\ ~req'[c].clean =>
       \A o \in Org : o = req'[c].org \/ req'[c].op = "deleteUser" => o \in torn'
  /\ frayed \subseteq frayed' /\ torn \subseteq torn'
  /\ UNCHANGED <<dirVars, org, kcOrg, member, tuple, owner, live, uris, proven>>

\* The arguments the router passes are those the operation takes.
Argued(op, o, u, role, arg) ==
  /\ op \in Op /\ role \in Role
  /\ op \in UserOp => o = Nobody /\ u \in User
  /\ op \notin UserOp => o \in Org
  /\ op \in GrantOp \cup {"spawn", "remove"} => u \in User
  /\ op \in {"disable", "enable", "delete"} \cup RewriteOp => u = Nobody
  /\ op \in CreateOp => role = "admin"
  /\ arg \in Account \cup Disposition \cup {NoAnchor}
  /\ op = "settings" => arg \in Disposition
  /\ op \in {"putAnchor", "activateAnchor"} => arg \in Account

\* Every request is accepted with such arguments.
LEMMA AcceptArgued ==
  ASSUME NEW c \in Client, Accept(c)
  PROVE  \E op, o, u, role, arg : /\ Argued(op, o, u, role, arg)
                                  /\ Start(c, op, o, u, role, arg)
<1> DEFINE Goal == \E op, o, u, role, arg : /\ Argued(op, o, u, role, arg)
                                            /\ Start(c, op, o, u, role, arg)
<1>1. ASSUME NEW o \in Org, NEW u \in User, NEW op \in CreateOp,
             Start(c, op, o, u, "admin", NoAnchor)
      PROVE  Goal
  <2>1. Argued(op, o, u, "admin", NoAnchor)
    BY <1>1 DEF Argued, Op, CreateOp, UserOp, RewriteOp, Role
  <2> QED BY <1>1, <2>1
<1>2. ASSUME NEW o \in Org, NEW u \in User, NEW op \in {"remove", "spawn"},
             Start(c, op, o, u, "member", NoAnchor)
      PROVE  Goal
  <2>1. Argued(op, o, u, "member", NoAnchor)
    BY <1>2 DEF Argued, Op, CreateOp, UserOp, RewriteOp, Role
  <2> QED BY <1>2, <2>1
<1>3. ASSUME NEW o \in Org, NEW u \in User, NEW op \in {"add", "role"},
             NEW x \in Role, Start(c, op, o, u, x, NoAnchor)
      PROVE  Goal
  <2>1. Argued(op, o, u, x, NoAnchor)
    BY <1>3 DEF Argued, Op, CreateOp, UserOp, RewriteOp
  <2> QED BY <1>3, <2>1
<1>4. ASSUME NEW o \in Org,
             NEW op \in {"disable", "enable", "delete"} \cup RewriteOp,
             NEW a \in CASE op \in {"putAnchor", "activateAnchor"} -> Account
                        [] op = "settings" -> Disposition
                        [] OTHER -> {NoAnchor},
             Start(c, op, o, Nobody, "member", a)
      PROVE  Goal
  <2>1. Argued(op, o, Nobody, "member", a)
    BY <1>4 DEF Argued, Op, CreateOp, UserOp, RewriteOp, GrantOp, Role
  <2> QED BY <1>4, <2>1
<1>5. ASSUME NEW u \in User, NEW op \in UserOp,
             Start(c, op, Nobody, u, "member", NoAnchor)
      PROVE  Goal
  <2>1. Argued(op, Nobody, u, "member", NoAnchor)
    BY <1>5 DEF Argued, Op, CreateOp, UserOp, RewriteOp, GrantOp, Role
  <2> QED BY <1>5, <2>1
<1> QED BY <1>1, <1>2, <1>3, <1>4, <1>5 DEF Accept

\* Accepting a request begins it: it overlaps what it touches, and what it
\* conflicts with is frayed.
LEMMA AcceptBegins ==
  ASSUME RequestTypeOK, NEW c \in Client, Accept(c)
  PROVE  Begins(c)
<1>1. PICK op, o, u, role, arg : /\ Argued(op, o, u, role, arg)
                                 /\ Start(c, op, o, u, role, arg)
  BY AcceptArgued
<1> DEFINE over == IF op \in {"ban", "unban", "profile"} THEN {}
                   ELSE Touching(o, About(op, u))
           pairs == PairsOf(o, About(op, u))
           new == Request(op, o, u, role, arg, over = {})
<1>2. /\ req[c].pc = "idle"
      /\ req' = [d \in Client |->
                   IF d = c THEN new
                   ELSE IF d \in over THEN [req[d] EXCEPT !.clean = FALSE]
                   ELSE req[d]]
      /\ torn' = IF over = {} THEN torn ELSE torn \cup {m[1] : m \in pairs}
      /\ frayed' = IF \E d \in over : Conflict(op, req[d].op)
                   THEN frayed \cup pairs ELSE frayed
      /\ UNCHANGED <<dirVars, org, kcOrg, member, tuple, owner, live, uris,
                     proven>>
  BY <1>1 DEF Start
<1>3. /\ new.op = op /\ new.org = o /\ new.user = u /\ new.pc = "read"
      /\ new.rec = NoRec /\ new.arg = arg /\ new.role = role
      /\ new.clean = (over = {})
  BY DEF Request
<1>4. new \in InFlight
  <2>1. (over = {}) \in BOOLEAN
    OBVIOUS
  <2>2. NoRec \in OrgRec
    BY DEF NoRec, OrgRec, Disposition
  <2>3. o \in Org \cup {Nobody} /\ u \in User \cup {Nobody}
    BY <1>1 DEF Argued, UserOp, GrantOp, Op, RewriteOp, CreateOp
  <2> HIDE DEF over
  <2> QED BY <1>1, <2>1, <2>2, <2>3
          DEF Request, InFlight, Argued, Point, PlainPoint
<1>5. Addressed(new)
  <2> HIDE DEF new
  <2> QED BY <1>1, <1>3 DEF Addressed, Argued, UriPoint, LeavePoint
<1>6. over \subseteq {d \in Client : req[d].pc # "idle"}
  BY DEF Touching
<1> HIDE DEF new, over, pairs
<1>7. req'[c] = new /\ \A d \in Client \ {c} :
        req'[d] = IF d \in over THEN [req[d] EXCEPT !.clean = FALSE] ELSE req[d]
  BY <1>2
<1>8. RequestTypeOK'
  <2>1. ASSUME NEW d \in Client, d \in over, d # c PROVE Serving(d)'
    <3>1. req[d] \in InFlight /\ Addressed(req[d])
      BY <1>6, <2>1, ServedIfNotIdle DEF Serving
    <3>2. [req[d] EXCEPT !.clean = FALSE] \in InFlight
      BY <3>1 DEF InFlight
    <3>3. Addressed([req[d] EXCEPT !.clean = FALSE])
      BY <3>1 DEF Addressed, InFlight
    <3> QED BY <1>7, <2>1, <3>2, <3>3 DEF Serving
  <2>2. \A d \in Client : req'[d] = Idle \/ Serving(d)'
    BY <1>4, <1>5, <1>7, <2>1 DEF RequestTypeOK, Serving
  <2>3. DOMAIN req' = Client /\ req' = [d \in Client |-> req'[d]]
    BY <1>2
  <2> QED BY <2>2, <2>3 DEF RequestTypeOK
<1>9. \A d \in Client \ {c} :
        req'[d] = req[d] \/ (req[d].pc # "idle"
                              /\ req'[d] = [req[d] EXCEPT !.clean = FALSE])
  BY <1>6, <1>7
<1>10. ASSUME NEW d \in Client \ {c}, req[d].pc # "idle", Overlap(new, req[d])
       PROVE  d \in over
  <2>1. op \notin AccountOp /\ req[d].op \notin AccountOp
    BY <1>3, <1>10 DEF Overlap
  <2>2. o = req[d].org \/ o = Nobody \/ req[d].op = "deleteUser"
    BY <1>1, <1>3, <1>10 DEF Overlap, Argued, UserOp
  <2>3. \/ About(op, u) = About(req[d].op, req[d].user)
        \/ About(op, u) = Nobody \/ About(req[d].op, req[d].user) = Nobody
    BY <1>3, <1>10 DEF Overlap
  <2>4. About(op, u) = req[d].user
          \/ Nobody \in {About(op, u), About(req[d].op, req[d].user)}
    BY <2>3 DEF About
  <2> QED BY <1>10, <2>1, <2>2, <2>4 DEF over, Touching, AccountOp
<1>11. ASSUME NEW d \in Client \ {c}, req[d].pc # "idle", Overlap(req'[c], req[d])
       PROVE  ~req'[c].clean /\ ~req'[d].clean
  <2>1. d \in over
    BY <1>7, <1>10, <1>11
  <2>2. req[d] \in InFlight
    BY <1>11, ServedIfNotIdle DEF Serving
  <2>3. ~[req[d] EXCEPT !.clean = FALSE].clean
    BY <2>2 DEF InFlight
  <2> QED BY <1>3, <1>7, <2>1, <2>3
<1>12. ASSUME NEW x \in Org, NEW v \in User \cup {Nobody}, InTouch(c, x, v)'
       PROVE  <<x, v>> \in pairs
  <2>1. x = o \/ op = "deleteUser"
    BY <1>3, <1>7, <1>12, NobodyIsNoUser DEF InTouch, Touching
  <2>2. v = u \/ v = Nobody \/ About(op, u) = Nobody
    BY <1>3, <1>7, <1>12 DEF InTouch, Touching
  <2>3. x \in IF o = Nobody THEN Org ELSE {o}
    BY <1>1, <2>1 DEF Argued, UserOp
  <2>4. v \in IF About(op, u) = Nobody THEN User \cup {Nobody}
              ELSE {About(op, u), Nobody}
    BY <2>2 DEF About
  <2> QED BY <2>3, <2>4 DEF pairs, PairsOf
<1>13. ASSUME NEW d \in Client \ {c}, req[d].pc # "idle",
              Overlap(req'[c], req[d]), Conflict(req'[c].op, req[d].op)
       PROVE  pairs \subseteq frayed'
  <2>1. d \in over /\ Conflict(op, req[d].op)
    BY <1>3, <1>7, <1>10, <1>13
  <2> QED BY <1>2, <2>1
<1>14. frayed \subseteq frayed' /\ torn \subseteq torn'
  BY <1>2
<1>15. Serving(c)' /\ req'[c].pc = "read" /\ req'[c].rec = NoRec
  BY <1>3, <1>4, <1>5, <1>7 DEF Serving
<1>16. ASSUME over # {}, NEW x \in Org, x = o \/ o = Nobody PROVE x \in torn'
  <2>1. <<x, Nobody>> \in pairs
    BY <1>16 DEF pairs, PairsOf
  <2>2. x \in {m[1] : m \in pairs}
    BY <2>1, SMTT(30)
  <2> QED BY <1>2, <1>16, <2>2
<1>17. ASSUME NEW d \in Client \ {c}, req'[d] # req[d], req[d].op \notin UserOp
       PROVE  req[d].org \in torn'
  <2>1. d \in over /\ req[d].org \in Org
    BY <1>6, <1>7, <1>17, ServedIfNotIdle DEF Serving, Addressed
  <2>2. o = req[d].org \/ o = Nobody
    BY <1>17, <2>1 DEF over, Touching, UserOp
  <2> QED BY <1>16, <2>1, <2>2
<1>18. ASSUME ~req'[c].clean, NEW x \in Org, x = req'[c].org \/ req'[c].op = "deleteUser"
       PROVE  x \in torn'
  <2>1. over # {} /\ (x = o \/ o = Nobody)
    BY <1>1, <1>3, <1>7, <1>18 DEF Argued, UserOp
  <2> QED BY <1>16, <2>1
<1> QED BY <1>2, <1>8, <1>9, <1>11, <1>12, <1>13, <1>14, <1>15, <1>17, <1>18 DEF Begins

-----------------------------------------------------------------------------
(* Who writes what                                                           *)

WritesRecord(c) == RewritePut(c) \/ CreatePut(c) \/ UnwindPut(c)
                     \/ DisablePut(c) \/ EnablePut(c) \/ DeleteRecord(c)
WritesMember(c) == Join(c) \/ UnwindJoin(c) \/ UnwindKc(c) \/ DeleteKc(c)
                     \/ RemoveLeave(c) \/ DeleteUserAccount(c)
WritesUris(c) == UrisPut(c) \/ CallFails(c)
WritesKc(c) == CreateKc(c) \/ UnwindKc(c) \/ DeleteKc(c)
WritesTuple(c) == WriteTuple(c) \/ UnwindTuple(c) \/ DeleteTuples(c)
                     \/ RoleDropOther(c) \/ RemoveTuples(c)
WritesOwner(c) == RemoveDispose(c) \/ SpawnAgent(c)

\* Which steps write the record of an organization, the memberships and what
\* goes with them, and that nothing is forgotten about what was frayed.
LEMMA Writers ==
  ASSUME NEW c \in Client
  PROVE  Step(c) \/ CallFails(c) =>
           /\ WritesRecord(c) \/ UNCHANGED <<org, proven>>
           /\ WritesMember(c) \/ UNCHANGED member
           /\ WritesUris(c) \/ UNCHANGED uris
           /\ WritesKc(c) \/ UNCHANGED kcOrg
           /\ WritesTuple(c) \/ UNCHANGED tuple
           /\ WritesOwner(c) \/ UNCHANGED owner
           /\ frayed \subseteq frayed'
<1> DEFINE Kept == /\ WritesRecord(c) \/ UNCHANGED <<org, proven>>
                   /\ WritesMember(c) \/ UNCHANGED member
                   /\ WritesUris(c) \/ UNCHANGED uris
                   /\ WritesKc(c) \/ UNCHANGED kcOrg
                   /\ WritesTuple(c) \/ UNCHANGED tuple
                   /\ WritesOwner(c) \/ UNCHANGED owner
                   /\ frayed \subseteq frayed'
<1>1. ASSUME Reads PROVE Kept
  BY <1>1 DEF Reads, history
<1>2. ASSUME ReadOrg(c) \/ ListForDisable(c) \/ ListForEnable(c)
             \/ EditMembersDone(c) \/ UrisGet(c)
      PROVE  Kept
  BY <1>1, <1>2 DEF ReadOrg, ListForDisable, ListForEnable, EditMembersDone,
        UrisGet
<1>3. ASSUME CreateRead(c) \/ SignupCap(c) \/ SignupMine(c) \/ Unwound(c)
             \/ DeleteList(c)
      PROVE  Kept
  BY <1>1, <1>3 DEF CreateRead, SignupCap, SignupMine, Unwound, DeleteList
<1>4. ASSUME RoleCheck(c) \/ RemoveLoad(c) \/ DeleteUserEstate(c)
             \/ DeleteUserOrgs(c) \/ DeleteUserNext(c)
      PROVE  Kept
  BY <1>1, <1>4 DEF RoleCheck, RemoveLoad, DeleteUserEstate, DeleteUserOrgs,
        DeleteUserNext
<1>5. ASSUME DisableAgents(c) \/ EditMember(c) \/ EditStep(c)
             \/ RemoveDispose(c)
      PROVE  Kept
  BY <1>5 DEF DisableAgents, EditMember, EditStep, RemoveDispose, WritesOwner,
        history, orgVars
<1>6. ASSUME RemoveUnlock(c) \/ RemoveUnlocked(c) \/ SpawnAgent(c)
             \/ UserEdit(c)
      PROVE  Kept
  BY <1>6 DEF RemoveUnlock, RemoveUnlocked, SpawnAgent, UserEdit, WritesOwner,
        history, orgVars
<1>7. ASSUME UserEdited(c) PROVE Kept
  BY <1>7 DEF UserEdited, history, orgVars
<1>8. ASSUME RewritePut(c) PROVE Kept
  BY <1>8 DEF RewritePut, WritesRecord, history
<1>9. ASSUME CreatePut(c) PROVE Kept
  BY <1>9 DEF CreatePut, WritesRecord, history
<1>10. ASSUME UnwindPut(c) PROVE Kept
  BY <1>10 DEF UnwindPut, WritesRecord, history
<1>11. ASSUME DisablePut(c) PROVE Kept
  BY <1>11 DEF DisablePut, WritesRecord, history
<1>12. ASSUME EnablePut(c) PROVE Kept
  BY <1>12 DEF EnablePut, WritesRecord, history
<1>13. ASSUME DeleteRecord(c) PROVE Kept
  BY <1>13 DEF DeleteRecord, WritesRecord, history
<1>14. ASSUME Join(c) PROVE Kept
  BY <1>14 DEF Join, WritesMember, history
<1>15. ASSUME UnwindJoin(c) PROVE Kept
  BY <1>15 DEF UnwindJoin, WritesMember, history
<1>16. ASSUME UnwindKc(c) PROVE Kept
  BY <1>16 DEF UnwindKc, WritesMember, WritesKc, history
<1>17. ASSUME DeleteKc(c) PROVE Kept
  BY <1>17 DEF DeleteKc, WritesMember, WritesKc, history
<1>18. ASSUME RemoveLeave(c) PROVE Kept
  BY <1>18 DEF RemoveLeave, WritesMember, history
<1>19. ASSUME DeleteUserAccount(c) PROVE Kept
  BY <1>19 DEF DeleteUserAccount, WritesMember, history
<1>20. ASSUME UrisPut(c) PROVE Kept
  BY <1>20 DEF UrisPut, WritesUris, history
<1>21. ASSUME CallFails(c) PROVE Kept
  BY <1>21 DEF CallFails, WritesUris, history
<1>22. ASSUME CreateKc(c) PROVE Kept
  BY <1>22 DEF CreateKc, WritesKc, history
<1>23. ASSUME WriteTuple(c) PROVE Kept
  BY <1>23 DEF WriteTuple, WritesTuple, history
<1>24. ASSUME UnwindTuple(c) PROVE Kept
  BY <1>24 DEF UnwindTuple, WritesTuple, history
<1>25. ASSUME DeleteTuples(c) PROVE Kept
  BY <1>25 DEF DeleteTuples, WritesTuple, history
<1>26. ASSUME RoleDropOther(c) PROVE Kept
  BY <1>26 DEF RoleDropOther, WritesTuple, history
<1>27. ASSUME RemoveTuples(c) PROVE Kept
  BY <1>27 DEF RemoveTuples, WritesTuple, history
<1> QED BY <1>2, <1>3, <1>4, <1>5, <1>6, <1>7, <1>8, <1>9, <1>10, <1>11,
      <1>12, <1>13, <1>14, <1>15, <1>16, <1>17, <1>18, <1>19, <1>20, <1>21, <1>22,
      <1>23, <1>24, <1>25, <1>26, <1>27 DEF Step

-----------------------------------------------------------------------------
(* The record of an organization                                             *)

\* What a read-modify-write request writes back: the flags of the record it
\* read, and an active anchor only if it was read so or is the one proven.
LEMMA RewrittenKeeps ==
  ASSUME NEW r \in InFlight, Addressed(r), r.op \in RewriteOp
  PROVE  /\ Rewritten(r) \in OrgRec
         /\ Rewritten(r).known = r.rec.known
         /\ Rewritten(r).disabled = r.rec.disabled
         /\ \A a \in Account : Rewritten(r).anchor = <<a, "active">> =>
              \/ r.rec.anchor = <<a, "active">>
              \/ r.op = "activateAnchor" /\ a = r.arg
<1> DEFINE Kept(n) ==
             /\ n \in OrgRec
             /\ n.known = r.rec.known
             /\ n.disabled = r.rec.disabled
             /\ \A a \in Account : n.anchor = <<a, "active">> =>
                  \/ r.rec.anchor = <<a, "active">>
                  \/ r.op = "activateAnchor" /\ a = r.arg
<1>1. r.rec \in OrgRec
  BY DEF InFlight
<1>2. CASE r.op = "settings"
  <2>1. r.arg \in Disposition
    BY <1>2 DEF Addressed
  <2>2. Kept(PatchSettings(r.rec, r.arg))
    BY <1>1, <2>1 DEF PatchSettings, OrgRec
  <2> QED BY <1>2, <2>2 DEF Rewritten
<1>3. CASE r.op = "putAnchor"
  <2>1. r.arg \in Account
    BY <1>3 DEF Addressed
  <2>2. Kept(PutAnchor(r.rec, r.arg))
    BY <1>1, <2>1 DEF PutAnchor, OrgRec
  <2> QED BY <1>3, <2>2 DEF Rewritten
<1>4. CASE r.op = "deleteAnchor"
  <2>1. Kept(DeleteAnchor(r.rec))
    BY <1>1 DEF DeleteAnchor, OrgRec, NoAnchor
  <2> QED BY <1>4, <2>1 DEF Rewritten
<1>5. CASE r.op = "activateAnchor"
  <2>1. r.arg \in Account
    BY <1>5 DEF Addressed
  <2>2. Kept(ActivateAnchor(r.rec, r.arg))
    BY <1>1, <1>5, <2>1 DEF ActivateAnchor, OrgRec
  <2> QED BY <1>5, <2>2 DEF Rewritten
<1>6. CASE r.op = "putSubstrate"
  <2>1. Kept(PutSubstrate(r.rec))
    BY <1>1 DEF PutSubstrate, OrgRec
  <2> QED BY <1>6, <2>1 DEF Rewritten
<1>7. CASE r.op = "activateSubstrate"
  <2>1. Kept(ActivateSubstrate(r.rec))
    BY <1>1 DEF ActivateSubstrate, OrgRec
  <2> QED BY <1>7, <2>1 DEF Rewritten
<1>8. CASE r.op = "deleteSubstrate"
  <2>1. Kept(DeleteSubstrate(r.rec))
    BY <1>1 DEF DeleteSubstrate, OrgRec
  <2> QED BY <1>8, <2>1 DEF Rewritten
<1> QED BY <1>2, <1>3, <1>4, <1>5, <1>6, <1>7, <1>8 DEF RewriteOp

\* The requests that write the record, and those that also carry it over from
\* what they read.
WriteOp == RewriteOp \cup CreateOp \cup {"disable", "enable"}

\* A record makes sense for its organization: only a known one is suspended,
\* and an active anchor was proven (it is among P).
RecOK(P, o, n) ==
  /\ n.disabled => n.known
  /\ \A a \in Account : n.anchor = <<a, "active">> => <<o, a>> \in P

\* What a request writes from the record it read: the flags as read but for
\* the one an enable or a disable sets, and no anchor newly active but a proven
\* one.
Carries(c, n) ==
  /\ req[c].op \in WriteOp /\ req[c].pc = "put"
  /\ req[c].op \in CreateOp => req[c].rec.known
  /\ n.known = req[c].rec.known
  /\ \A a \in Account : n.anchor = <<a, "active">> =>
       req[c].rec.anchor = <<a, "active">> \/ <<req[c].org, a>> \in proven'
  /\ \/ n.disabled = req[c].rec.disabled
     \/ req[c].op = "enable" /\ ~n.disabled
     \/ req[c].op = "disable" /\ n.disabled

\* Every write of a record: it is cleared, made, or carried over.
RecordWrite(c, n) ==
  /\ n \in OrgRec
  /\ org' = [org EXCEPT ![req[c].org] = n]
  /\ \/ n = NoRec /\ (req[c].op = "delete"
                       \/ (req[c].op \in CreateOp /\ req[c].pc = "unPut"))
     \/ n = NewRec /\ req[c].op \in CreateOp /\ req[c].pc = "put"
                   /\ ~req[c].rec.known
     \/ Carries(c, n)

\* ... and there is no other.
LEMMA RecordWrites ==
  ASSUME RequestTypeOK, StoreTypeOK, NEW c \in Client, WritesRecord(c)
  PROVE  /\ Serving(c) /\ req[c].org \in Org
         /\ req[c].op \in WriteOp \cup {"delete"}
         /\ proven \subseteq proven'
         /\ org' = org \/ \E n : RecordWrite(c, n)
<1> DEFINE r == req[c]
           Goal == /\ proven \subseteq proven'
                   /\ org' = org \/ \E n : RecordWrite(c, n)
<1>1. r.pc # "idle" /\ r.op \in WriteOp \cup {"delete"}
  BY DEF WritesRecord, RewritePut, CreatePut, UnwindPut, DisablePut, EnablePut,
         DeleteRecord, On, WriteOp
<1>2. Serving(c) /\ r \in InFlight /\ Addressed(r) /\ r.rec \in OrgRec
  BY <1>1, ServedIfNotIdle DEF Serving, InFlight
<1>3. r.org \in Org
  BY <1>1, <1>2 DEF Addressed, WriteOp, RewriteOp, CreateOp, UserOp
<1>4. NoRec \in OrgRec /\ NewRec \in OrgRec
  BY DEF NoRec, NewRec, OrgRec, Disposition
<1>5. CASE RewritePut(c)
  <2> DEFINE n == Rewritten(r)
  <2>1. /\ r.op \in RewriteOp /\ r.pc = "put"
        /\ org' = org \/ org' = [org EXCEPT ![r.org] = n]
        /\ proven \subseteq proven'
        /\ r.op = "activateAnchor" => <<r.org, r.arg>> \in proven'
    BY <1>5 DEF RewritePut, On
  <2>2. /\ n \in OrgRec /\ n.known = r.rec.known /\ n.disabled = r.rec.disabled
        /\ \A a \in Account : n.anchor = <<a, "active">> =>
              \/ r.rec.anchor = <<a, "active">>
              \/ r.op = "activateAnchor" /\ a = r.arg
    BY <1>2, <2>1, RewrittenKeeps
  <2> HIDE DEF n
  <2>3. Carries(c, n)
    BY <2>1, <2>2 DEF Carries, WriteOp, RewriteOp, CreateOp
  <2> QED BY <1>1, <1>2, <1>3, <2>1, <2>2, <2>3 DEF RecordWrite
<1>6. CASE CreatePut(c)
  <2> DEFINE n == IF r.rec.known THEN [r.rec EXCEPT !.sub = "none"] ELSE NewRec
  <2>1. /\ r.op \in CreateOp /\ r.pc = "put"
        /\ org' = [org EXCEPT ![r.org] = n] /\ proven' = proven
    BY <1>6 DEF CreatePut, On, history
  <2>2. n \in OrgRec
    BY <1>2, <1>4 DEF OrgRec
  <2>3. \/ n = NewRec /\ ~r.rec.known
        \/ /\ r.rec.known /\ n.known = r.rec.known /\ n.disabled = r.rec.disabled
           /\ n.anchor = r.rec.anchor
    BY <1>2 DEF OrgRec
  <2> HIDE DEF n
  <2>4. RecordWrite(c, n)
    BY <2>1, <2>2, <2>3 DEF RecordWrite, Carries, WriteOp
  <2> QED BY <1>1, <1>2, <1>3, <2>1, <2>4
<1>7. CASE DisablePut(c)
  <2> DEFINE n == [r.rec EXCEPT !.disabled = TRUE]
  <2>1. /\ r.op = "disable" /\ r.pc = "put"
        /\ org' = [org EXCEPT ![r.org] = n] /\ proven' = proven
    BY <1>7 DEF DisablePut, On, history
  <2>2. /\ n \in OrgRec /\ n.known = r.rec.known /\ n.disabled
        /\ n.anchor = r.rec.anchor
    BY <1>2 DEF OrgRec
  <2> HIDE DEF n
  <2>3. RecordWrite(c, n)
    BY <2>1, <2>2 DEF RecordWrite, Carries, WriteOp, CreateOp
  <2> QED BY <1>1, <1>2, <1>3, <2>1, <2>3
<1>8. CASE EnablePut(c)
  <2> DEFINE n == [r.rec EXCEPT !.disabled = FALSE]
  <2>1. /\ r.op = "enable" /\ r.pc = "put"
        /\ org' = [org EXCEPT ![r.org] = n] /\ proven' = proven
    BY <1>8 DEF EnablePut, On, history
  <2>2. /\ n \in OrgRec /\ n.known = r.rec.known /\ ~n.disabled
        /\ n.anchor = r.rec.anchor
    BY <1>2 DEF OrgRec
  <2> HIDE DEF n
  <2>3. RecordWrite(c, n)
    BY <2>1, <2>2 DEF RecordWrite, Carries, WriteOp, CreateOp
  <2> QED BY <1>1, <1>2, <1>3, <2>1, <2>3
<1>9. CASE UnwindPut(c) \/ DeleteRecord(c)
  <2>1. /\ org' = [org EXCEPT ![r.org] = NoRec] /\ proven' = proven
        /\ r.op = "delete" \/ (r.op \in CreateOp /\ r.pc = "unPut")
    BY <1>9 DEF UnwindPut, DeleteRecord, On, history
  <2> QED BY <1>1, <1>2, <1>3, <1>4, <2>1 DEF RecordWrite
<1> QED BY <1>5, <1>6, <1>7, <1>8, <1>9 DEF WritesRecord

\* No step of a request, and no failure, breaks the types of the store.
LEMMA StoreTypes ==
  ASSUME RequestTypeOK, StoreTypeOK, NEW c \in Client, Step(c) \/ CallFails(c)
  PROVE  StoreTypeOK'
<1>1. org' \in [Org -> OrgRec]
  BY Writers, RecordWrites DEF StoreTypeOK, RecordWrite
<1>2. ASSUME WritesMember(c) PROVE member' \in SUBSET (Org \X User)
  <2>1. CASE UnwindJoin(c) \/ UnwindKc(c) \/ DeleteKc(c) \/ RemoveLeave(c)
               \/ DeleteUserAccount(c)
    BY <2>1 DEF UnwindJoin, UnwindKc, DeleteKc, RemoveLeave, DeleteUserAccount,
       StoreTypeOK
  <2>2. CASE Join(c)
    <3>1. req[c].pc # "idle" /\ req[c].op \in CreateOp \cup {"add"}
      BY <2>2 DEF Join, On
    <3>2. req[c].org \in Org /\ req[c].user \in User
      BY <3>1, ServedIfNotIdle DEF Serving, Addressed, GrantOp, CreateOp, UserOp
    <3>3. member' = member \cup {<<req[c].org, req[c].user>>}
      BY <2>2 DEF Join
    <3> QED BY <3>2, <3>3, SMTT(30) DEF StoreTypeOK
  <2> QED BY <1>2, <2>1, <2>2 DEF WritesMember
<1>3. ASSUME WritesUris(c) PROVE uris' \in SUBSET Org
  <2>1. \/ uris' = uris
        \/ /\ req[c].pc \in UriPoint
           /\ uris' \in {req[c].seen \cup {req[c].org}, req[c].seen \ {req[c].org}}
    BY <1>3 DEF WritesUris, UrisPut, CallFails, UriPoint
  <2>2. req[c].pc \in UriPoint => req[c] \in InFlight /\ req[c].org \in Org
    <3>1. ASSUME req[c].pc \in UriPoint
          PROVE  Serving(c) /\ req[c].op \in CreateOp \cup {"delete"}
      BY <3>1, ServedIfNotIdle DEF UriPoint, Serving, Addressed
    <3> QED BY <3>1 DEF Serving, Addressed, CreateOp, UserOp
  <2>3. req[c].pc \in UriPoint => req[c].seen \in SUBSET Org
    BY <2>2 DEF InFlight
  <2> QED BY <2>1, <2>2, <2>3 DEF StoreTypeOK
<1> QED BY <1>1, <1>2, <1>3, Writers DEF StoreTypeOK

\* The points between reading a record and writing it back, but for an enable,
\* which goes over the members in between.
FreshPoint == {"put", "cap", "mine", "kc"}

\* A request comes to such a point from the read or from another one.
LEMMA FreshMoves ==
  ASSUME RequestTypeOK, NEW c \in Client, req[c].op \in WriteOp \ {"enable"}
  PROVE  (Step(c) \/ CallFails(c)) /\ req'[c] # Idle /\ req'[c].pc \in FreshPoint =>
           \/ ReadOrg(c) \/ CreateRead(c) \/ EditStep(c)
           \/ SignupCap(c) \/ SignupMine(c) \/ CreateKc(c)
<1> DEFINE r == req[c]
           Away == req'[c] = Idle \/ req'[c].pc \notin FreshPoint
<1>1. r.op \notin UserOp \cup RemoveOp
                      \cup {"enable", "delete", "role", "add", "spawn"}
  BY DEF WriteOp, RewriteOp, CreateOp, UserOp, RemoveOp
<1>2. Reply(c) => Away
  BY DEF Reply, RequestTypeOK
<1>3. ASSUME Serving(c), NEW p, Goto(c, p), p \notin FreshPoint PROVE Away
  <2>1. req'[c] = [r EXCEPT !.pc = p]
    BY <1>3 DEF Goto, RequestTypeOK
  <2>2. r \in InFlight
    BY <1>3 DEF Serving
  <2> QED BY <1>3, <2>1, <2>2 DEF InFlight
<1>4. r.pc # "idle" => Serving(c)
  BY ServedIfNotIdle
<1>5. ASSUME \/ RewritePut(c) \/ Unwound(c) \/ DisableAgents(c) \/ EnablePut(c)
             \/ DeleteRecord(c) \/ RoleDropOther(c) \/ SpawnAgent(c)
             \/ UserEdited(c) \/ DeleteUserAccount(c)
      PROVE  Away
  BY <1>2, <1>5 DEF RewritePut, Unwound, DisableAgents, EnablePut, DeleteRecord,
     RoleDropOther, SpawnAgent, UserEdited, DeleteUserAccount
<1>6. ASSUME CreatePut(c) \/ WriteTuple(c) \/ Join(c) \/ UnwindTuple(c) PROVE Away
  <2>1. r.pc # "idle" /\ \E p \in {"tuple", "join", "uris", "unJoin"} : Goto(c, p)
    BY <1>1, <1>6 DEF CreatePut, WriteTuple, Join, UnwindTuple, On, GrantOp
  <2> QED BY <1>3, <1>4, <2>1 DEF FreshPoint
<1>7. ASSUME UnwindJoin(c) \/ UnwindPut(c) \/ UnwindKc(c) \/ DisablePut(c)
      PROVE  Away
  <2>1. /\ r.pc # "idle"
        /\ Reply(c) \/ \E p \in {"unPut", "unKc", "unwound", "list"} : Goto(c, p)
    BY <1>7 DEF UnwindJoin, UnwindPut, UnwindKc, DisablePut, On
  <2> QED BY <1>2, <1>3, <1>4, <2>1 DEF FreshPoint
<1>8. ASSUME EditMembersDone(c) PROVE Away
  <2>1. r.pc # "idle" /\ Goto(c, "agents")
    BY <1>1, <1>8 DEF EditMembersDone, On
  <2> QED BY <1>3, <1>4, <2>1 DEF FreshPoint
<1>9. ASSUME UrisPut(c) PROVE Away
  <2>1. r.pc # "idle" /\ (Reply(c) \/ Goto(c, "kcDelete") \/ Goto(c, "unTuple"))
    BY <1>9 DEF UrisPut
  <2> QED BY <1>2, <1>3, <1>4, <2>1 DEF FreshPoint
<1>10. ASSUME ListForDisable(c) \/ ListForEnable(c) PROVE Away
  <2>1. r.pc # "idle" /\ \E v : req' = [req EXCEPT ![c].pc = "edit", ![c].todo = v]
    BY <1>10 DEF ListForDisable, ListForEnable, On
  <2>2. PICK v : req' = [req EXCEPT ![c].pc = "edit", ![c].todo = v]
    BY <2>1
  <2>3. req'[c] = [r EXCEPT !.pc = "edit", !.todo = v] /\ r \in InFlight
    BY <1>4, <2>1, <2>2 DEF RequestTypeOK, Serving
  <2> QED BY <2>3 DEF InFlight, FreshPoint
<1>11. ASSUME EditMember(c) PROVE Away
  <2>1. r.pc = "edit"
    BY <1>11 DEF EditMember, On
  <2>2. PICK v : req' = [req EXCEPT ![c].todo = v]
    BY <1>11 DEF EditMember
  <2>3. req'[c] = [r EXCEPT !.todo = v] /\ r \in InFlight
    BY <1>4, <2>1, <2>2 DEF RequestTypeOK, Serving
  <2> QED BY <2>1, <2>3 DEF InFlight, FreshPoint
<1>12. ASSUME UrisGet(c) PROVE Away
  <2> DEFINE p == IF r.pc = "uris" THEN "urisPut" ELSE "unUrisPut"
  <2>1. r.pc # "idle" /\ req' = [req EXCEPT ![c].seen = uris, ![c].pc = p]
    BY <1>12 DEF UrisGet
  <2>2. req'[c] = [r EXCEPT !.seen = uris, !.pc = p] /\ r \in InFlight
    BY <1>4, <2>1 DEF RequestTypeOK, Serving
  <2> QED BY <2>2 DEF InFlight, FreshPoint
<1>13. ASSUME CallFails(c) PROVE Away
  <2>1. req'[c] # Idle => req'[c].pc = AfterFailure(r)
    BY <1>13, FailureMoves
  <2>2. AfterFailure(r) \notin FreshPoint
    BY DEF AfterFailure, FreshPoint
  <2> QED BY <2>1, <2>2
<1>14. ~(DeleteList(c) \/ DeleteTuples(c) \/ DeleteKc(c) \/ RoleCheck(c)
         \/ RemoveTuples(c) \/ RemoveLeave(c) \/ RemoveLoad(c))
  BY <1>1 DEF DeleteList, DeleteTuples, DeleteKc, RoleCheck, RemoveTuples,
     RemoveLeave, RemoveLoad, On
<1>15. ~(RemoveDispose(c) \/ RemoveUnlock(c) \/ RemoveUnlocked(c) \/ UserEdit(c)
         \/ DeleteUserEstate(c) \/ DeleteUserOrgs(c) \/ DeleteUserNext(c))
  BY <1>1 DEF RemoveDispose, RemoveUnlock, RemoveUnlocked, UserEdit,
     DeleteUserEstate, DeleteUserOrgs, DeleteUserNext, On, UserOp
<1> QED BY <1>5, <1>6, <1>7, <1>8, <1>9, <1>10, <1>11, <1>12, <1>13, <1>14, <1>15
        DEF Step

\* A request that writes the record reads it first.
LEMMA ReadFirst ==
  ASSUME RequestTypeOK, NEW c \in Client, req[c].op \in WriteOp \ CreateOp,
         req[c].pc = "read"
  PROVE  (Step(c) \/ CallFails(c)) /\ req'[c] # Idle => ReadOrg(c) \/ EditStep(c)
<1>1. req[c].op \notin UserOp \cup CreateOp
  BY DEF WriteOp, RewriteOp, CreateOp, UserOp
<1>2. ~(\/ RewritePut(c) \/ CreateRead(c) \/ SignupCap(c) \/ SignupMine(c)
        \/ CreateKc(c) \/ CreatePut(c) \/ WriteTuple(c) \/ Join(c) \/ UrisGet(c)
        \/ UrisPut(c) \/ UnwindTuple(c))
  BY <1>1 DEF RewritePut, CreateRead, SignupCap, SignupMine, CreateKc, CreatePut,
     WriteTuple, Join, UrisGet, UrisPut, UnwindTuple, On
<1>3. ~(\/ UnwindJoin(c) \/ UnwindPut(c) \/ UnwindKc(c) \/ Unwound(c)
        \/ DisablePut(c) \/ ListForDisable(c) \/ DisableAgents(c)
        \/ ListForEnable(c) \/ EnablePut(c) \/ EditMember(c) \/ EditMembersDone(c))
  BY DEF UnwindJoin, UnwindPut, UnwindKc, Unwound, DisablePut, ListForDisable,
     DisableAgents, ListForEnable, EnablePut, EditMember, EditMembersDone, On
<1>4. ~(\/ DeleteList(c) \/ DeleteTuples(c) \/ DeleteKc(c) \/ DeleteRecord(c)
        \/ RoleCheck(c) \/ RoleDropOther(c) \/ RemoveTuples(c) \/ RemoveLeave(c)
        \/ RemoveLoad(c) \/ RemoveDispose(c) \/ RemoveUnlock(c))
  BY DEF DeleteList, DeleteTuples, DeleteKc, DeleteRecord, RoleCheck,
     RoleDropOther, RemoveTuples, RemoveLeave, RemoveLoad, RemoveDispose,
     RemoveUnlock, On
<1>5. ~(\/ RemoveUnlocked(c) \/ SpawnAgent(c) \/ UserEdit(c) \/ UserEdited(c)
        \/ DeleteUserEstate(c) \/ DeleteUserOrgs(c) \/ DeleteUserNext(c)
        \/ DeleteUserAccount(c))
  BY <1>1 DEF RemoveUnlocked, SpawnAgent, UserEdit, UserEdited, DeleteUserEstate,
     DeleteUserOrgs, DeleteUserNext, DeleteUserAccount, On, UserOp
<1>6. ASSUME CallFails(c) PROVE req'[c] = Idle
  <2>1. AfterFailure(req[c]) = "idle"
    BY DEF AfterFailure
  <2> QED BY <1>6, <2>1, FailureMoves
<1> QED BY <1>2, <1>3, <1>4, <1>5, <1>6 DEF Step

-----------------------------------------------------------------------------
(* The invariant of the records                                              *)

\* A request that overlaps with another one is not clean.
OverlapSeen ==
  \A c, d \in Client :
    c # d /\ req[c].pc # "idle" /\ req[d].pc # "idle" /\ Overlap(req[c], req[d])
      => ~req[c].clean

\* What a request that will write the record holds: a record that makes sense,
\* of a known organization unless it is making it, and, while nothing has
\* overlapped with it, the record as it is.
WriterOK(c) ==
  req[c].op \in WriteOp =>
    /\ RecOK(proven, req[c].org, req[c].rec)
    /\ req[c].op \notin CreateOp /\ req[c].pc # "read" => req[c].rec.known
    /\ req[c].clean /\ req[c].op # "enable" /\ req[c].pc \in FreshPoint =>
         req[c].rec = org[req[c].org]

RecordInv ==
  /\ StoreTypeOK /\ RequestTypeOK /\ OverlapSeen
  /\ \A o \in Org : RecOK(proven, o, org[o])
  /\ \A c \in Client : WriterOK(c)

\* The steps of the registry, as far as requests are concerned.
LEMMA NextSplit ==
  ASSUME RequestTypeOK, StoreTypeOK, [Next]_vars
  PROVE  \/ UNCHANGED orgVars
         \/ \E c \in Client :
              \/ Begins(c)
              \/ Moves(c) /\ RecMove(c) /\ (Step(c) \/ CallFails(c))
<1>1. ASSUME NEW u \in User, SignIn(u) PROVE UNCHANGED orgVars
  BY <1>1 DEF SignIn
<1>2. UNCHANGED vars => UNCHANGED orgVars
  BY DEF vars
<1> QED BY <1>1, <1>2, AcceptBegins, StepMoves DEF Next

\* The requests keep their types.
LEMMA MovesType ==
  ASSUME RequestTypeOK, NEW c \in Client, Moves(c)
  PROVE  RequestTypeOK' /\ \A d \in Client \ {c} : req'[d] = req[d]
<1>1. \A d \in Client \ {c} : req'[d] = req[d]
  BY DEF RequestTypeOK, Moves
<1>2. DOMAIN req' = Client /\ req' = [d \in Client |-> req'[d]]
  BY DEF RequestTypeOK, Moves
<1> QED BY <1>1, <1>2 DEF RequestTypeOK, Moves, Serving

\* The requests that write one organization's record overlap with each other.
LEMMA WritersOverlap ==
  ASSUME NEW r, NEW s, Addressed(r), Addressed(s), r.org = s.org,
         r.op \in WriteOp \cup {"delete"}, s.op \in WriteOp \cup {"delete"}
  PROVE  Overlap(r, s)
<1>1. About(r.op, r.user) = Nobody /\ About(s.op, s.user) = Nobody
  BY DEF About, Addressed, WriteOp
<1> QED BY <1>1 DEF Overlap, AccountOp, WriteOp, RewriteOp, CreateOp

\* An overlap lasts as long as both requests do, and so does its mark.
LEMMA OverlapStep ==
  ASSUME RequestTypeOK, OverlapSeen, NEW c \in Client, Begins(c) \/ Moves(c)
  PROVE  OverlapSeen'
<1> SUFFICES ASSUME NEW x \in Client, NEW y \in Client, x # y,
                    req'[x].pc # "idle", req'[y].pc # "idle",
                    Overlap(req'[x], req'[y])
             PROVE  ~req'[x].clean
  BY DEF OverlapSeen
<1>1. CASE Begins(c)
  <2>1. ASSUME NEW d \in Client \ {c}
        PROVE  /\ req'[d].op = req[d].op /\ req'[d].org = req[d].org
               /\ req'[d].user = req[d].user /\ req'[d].pc = req[d].pc
               /\ req'[d].clean => req[d].clean
    <3>1. CASE req'[d] = req[d]
      BY <3>1
    <3>2. CASE req[d].pc # "idle" /\ req'[d] = [req[d] EXCEPT !.clean = FALSE]
      <4>1. req[d] \in InFlight
        BY <3>2, ServedIfNotIdle DEF Serving
      <4> QED BY <3>2, <4>1 DEF InFlight
    <3> QED BY <1>1, <3>1, <3>2 DEF Begins
  <2>2. CASE x # c /\ y # c
    BY <2>1, <2>2 DEF Overlap, OverlapSeen
  <2>3. CASE x = c
    <3>1. req[y].pc # "idle" /\ Overlap(req'[c], req[y])
      BY <2>1, <2>3 DEF Overlap
    <3> QED BY <1>1, <2>3, <3>1 DEF Begins
  <2>4. CASE y = c
    <3>1. req[x].pc # "idle" /\ Overlap(req'[c], req[x])
      BY <2>1, <2>4 DEF Overlap
    <3> QED BY <1>1, <2>4, <3>1 DEF Begins
  <2> QED BY <2>2, <2>3, <2>4
<1>2. CASE Moves(c)
  <2>1. ASSUME NEW d \in Client
        PROVE  req'[d].pc # "idle" =>
                 /\ req[d].pc # "idle"
                 /\ req'[d].op = req[d].op /\ req'[d].user = req[d].user
                 /\ req'[d].org = req[d].org \/ req[d].op = "deleteUser"
                 /\ req'[d].clean => req[d].clean
    <3>1. CASE d # c
      BY <1>2, <3>1, MovesType
    <3>2. CASE d = c
      <4>1. req[c].pc # "idle"
        BY <1>2 DEF Moves, InFlight, Point, PlainPoint, UriPoint, LeavePoint
      <4> QED BY <1>2, <3>2, <4>1, SMTT(30) DEF Moves, Same, Idle
    <3> QED BY <3>1, <3>2
  <2>2. Overlap(req[x], req[y])
    BY <2>1 DEF Overlap
  <2> QED BY <2>1, <2>2 DEF OverlapSeen
<1> QED BY <1>1, <1>2

\* What a step writes into a record makes sense, and proofs are never lost.
LEMMA RecordStep ==
  ASSUME RecordInv, NEW c \in Client, Step(c) \/ CallFails(c)
  PROVE  proven \subseteq proven' /\ \A o \in Org : RecOK(proven', o, org'[o])
<1>1. StoreTypeOK /\ RequestTypeOK
  BY DEF RecordInv
<1>2. ASSUME NEW o \in Org, NEW n, RecOK(proven, o, n), proven \subseteq proven'
      PROVE  RecOK(proven', o, n)
  BY <1>2 DEF RecOK
<1>3. CASE ~WritesRecord(c)
  <2>1. org' = org /\ proven' = proven
    BY <1>3, Writers
  <2> QED BY <2>1 DEF RecordInv, RecOK
<1>4. CASE WritesRecord(c)
  <2>1. proven \subseteq proven' /\ req[c].org \in Org
    BY <1>1, <1>4, RecordWrites
  <2>2. CASE org' = org
    BY <2>1, <2>2 DEF RecordInv, RecOK
  <2>3. ASSUME NEW n, RecordWrite(c, n)
        PROVE  \A o \in Org : RecOK(proven', o, org'[o])
    <3>1. org' = [org EXCEPT ![req[c].org] = n] /\ org \in [Org -> OrgRec]
      BY <1>1, <2>3 DEF RecordWrite, StoreTypeOK
    <3>2. CASE n = NoRec \/ n = NewRec
      <4>1. (~n.disabled) /\ n.anchor = NoAnchor
        BY <3>2, SMTT(30) DEF NoRec, NewRec
      <4>2. RecOK(proven', req[c].org, n)
        BY <4>1, SMTT(30) DEF RecOK, NoAnchor
      <4> QED BY <2>1, <3>1, <4>2 DEF RecordInv, RecOK
    <3>3. CASE Carries(c, n)
      <4>1. /\ RecOK(proven, req[c].org, req[c].rec)
            /\ req[c].op = "disable" => req[c].rec.known
        BY <3>3 DEF Carries, RecordInv, WriterOK, CreateOp
      <4>2. RecOK(proven', req[c].org, n)
        BY <2>1, <3>3, <4>1 DEF RecOK, Carries
      <4> QED BY <2>1, <3>1, <4>2 DEF RecordInv, RecOK
    <3> QED BY <2>3, <3>2, <3>3 DEF RecordWrite
  <2> QED BY <1>1, <1>4, <2>1, <2>2, <2>3, RecordWrites
<1> QED BY <1>3, <1>4

\* The request a step belongs to stays ready to write.
LEMMA WriterStep ==
  ASSUME RecordInv, NEW c \in Client, Step(c) \/ CallFails(c),
         Moves(c), RecMove(c), req'[c].op \in WriteOp
  PROVE  WriterOK(c)'
<1> DEFINE r == req[c]
           s == req'[c]
           o == r.org
<1>1. StoreTypeOK /\ RequestTypeOK /\ WriterOK(c)
  BY DEF RecordInv
<1>2. s # Idle /\ Same(r, s) /\ s.op = r.op /\ s.org = o /\ r \in InFlight
  BY SMTT(30) DEF Moves, Idle, WriteOp, RewriteOp, CreateOp, Same
<1>3. o \in Org
  <2>1. Serving(c)' /\ s.op \notin UserOp
    BY <1>2 DEF Moves, WriteOp, RewriteOp, CreateOp, UserOp
  <2> QED BY <1>2, <2>1 DEF Serving, Addressed
<1>4. s.rec = r.rec \/ (s.rec = org[o] /\ r.pc = "read")
  BY <1>2 DEF RecMove, WriteOp, RewriteOp, CreateOp, RemoveOp
<1>5. proven \subseteq proven'
  BY RecordStep
<1>6. RecOK(proven', o, s.rec)
  BY <1>1, <1>2, <1>3, <1>4, <1>5 DEF WriterOK, RecordInv, RecOK
<1>7. ASSUME s.op \notin CreateOp, s.pc # "read" PROVE s.rec.known
  <2>1. CASE r.pc # "read"
    <3>1. r.rec.known
      BY <1>1, <1>2, <1>7, <2>1 DEF WriterOK
    <3> QED BY <1>4, <2>1, <3>1
  <2>2. CASE r.pc = "read"
    <3>1. ReadOrg(c) \/ EditStep(c)
      BY <1>1, <1>2, <1>7, <2>2, ReadFirst
    <3>2. EditStep(c) => s = r
      BY DEF EditStep, orgVars
    <3> QED BY <1>1, <1>2, <1>7, <2>2, <3>1, <3>2, ReadOrgMoves
  <2> QED BY <2>1, <2>2
<1>8. ASSUME s.clean, s.op # "enable", s.pc \in FreshPoint PROVE s.rec = org'[o]
  <2>1. \/ ReadOrg(c) \/ CreateRead(c) \/ EditStep(c)
        \/ SignupCap(c) \/ SignupMine(c) \/ CreateKc(c)
    BY <1>1, <1>2, <1>8, FreshMoves
  <2>2. org' = org
    BY <2>1 DEF ReadOrg, CreateRead, EditStep, SignupCap, SignupMine, CreateKc,
       Reads, orgVars
  <2>3. CASE ReadOrg(c)
    BY <1>1, <1>2, <2>2, <2>3, ReadOrgMoves
  <2>4. CASE CreateRead(c)
    BY <1>1, <1>2, <1>4, <2>2, <2>4 DEF CreateRead, RequestTypeOK, InFlight
  <2>5. CASE EditStep(c)
    <3>1. s = r
      BY <2>5 DEF EditStep, orgVars
    <3> QED BY <1>1, <1>2, <1>8, <2>2, <3>1 DEF WriterOK
  <2>6. CASE SignupCap(c) \/ SignupMine(c) \/ CreateKc(c)
    <3>1. r.pc \in FreshPoint
      BY <2>6 DEF SignupCap, SignupMine, CreateKc, On, FreshPoint
    <3>2. r.clean /\ r.rec = org[o]
      BY <1>1, <1>2, <1>8, <3>1 DEF WriterOK, Same
    <3> QED BY <1>4, <2>2, <3>1, <3>2
  <2> QED BY <2>1, <2>3, <2>4, <2>5, <2>6
<1> QED BY <1>2, <1>6, <1>7, <1>8 DEF WriterOK

\* So do the others: whoever writes the record they read overlaps with them.
LEMMA OtherWriters ==
  ASSUME RecordInv, NEW c \in Client, Step(c) \/ CallFails(c),
         NEW d \in Client \ {c}, req'[d] = req[d], req[d].op \in WriteOp
  PROVE  WriterOK(d)'
<1> DEFINE r == req[d]
<1>1. StoreTypeOK /\ RequestTypeOK /\ WriterOK(d)
  BY DEF RecordInv
<1>2. r.pc # "idle" /\ Serving(d)
  BY <1>1, SMTT(30)
     DEF RequestTypeOK, Idle, WriteOp, RewriteOp, CreateOp, Serving, InFlight,
     Point, PlainPoint, UriPoint, LeavePoint
<1>3. RecOK(proven', r.org, r.rec)
  BY <1>1, RecordStep DEF WriterOK, RecOK
<1>4. ASSUME r.clean, r.op # "enable", r.pc \in FreshPoint
      PROVE  r.rec = org'[r.org]
  <2>1. r.rec = org[r.org]
    BY <1>1, <1>4 DEF WriterOK
  <2>2. ASSUME WritesRecord(c), req[c].org = r.org PROVE FALSE
    <3>1. Serving(c) /\ req[c].op \in WriteOp \cup {"delete"}
      BY <1>1, <2>2, RecordWrites
    <3>2. Overlap(r, req[c])
      BY <1>2, <2>2, <3>1, WritersOverlap DEF Serving
    <3>3. req[c].pc # "idle"
      BY <3>1 DEF Serving, InFlight, Point, PlainPoint, UriPoint, LeavePoint
    <3> QED BY <1>2, <1>4, <3>2, <3>3 DEF RecordInv, OverlapSeen
  <2>3. CASE WritesRecord(c)
    <3>1. r.org # req[c].org /\ (org' = org \/ \E n : RecordWrite(c, n))
      BY <1>1, <2>2, <2>3, RecordWrites
    <3>2. r.org \in Org /\ org \in [Org -> OrgRec]
      BY <1>1, <1>2 DEF Serving, Addressed, StoreTypeOK, WriteOp, RewriteOp, CreateOp,
         UserOp
    <3> QED BY <2>1, <3>1, <3>2 DEF RecordWrite
  <2>4. CASE ~WritesRecord(c)
    BY <2>1, <2>4, Writers
  <2> QED BY <2>3, <2>4
<1> QED BY <1>1, <1>3, <1>4 DEF WriterOK

\* The invariant holds of the records and the requests at the start ...
LEMMA RecordInit == Init => RecordInv
<1> SUFFICES ASSUME Init PROVE RecordInv
  OBVIOUS
<1>1. PICK d \in Disposition :
        org = [o \in Org |-> IF o \in kcOrg THEN [NewRec EXCEPT !.disp = d]
                             ELSE NoRec]
  BY DEF Init
<1>2. /\ NoRec \in OrgRec /\ ~NoRec.disabled /\ NoRec.anchor = NoAnchor
      /\ [NewRec EXCEPT !.disp = d] \in OrgRec
      /\ ~[NewRec EXCEPT !.disp = d].disabled
      /\ [NewRec EXCEPT !.disp = d].anchor = NoAnchor
  BY DEF NoRec, NewRec, OrgRec, Disposition
<1>3. /\ org \in [Org -> OrgRec]
      /\ \A o \in Org : (~org[o].disabled) /\ org[o].anchor = NoAnchor
  BY <1>1, <1>2
<1>4. kcOrg \subseteq Org
  BY MixesNameOrganizations DEF Init
<1>5. StoreTypeOK
  BY <1>3, <1>4 DEF StoreTypeOK, Init
<1>6. RequestTypeOK /\ OverlapSeen
  BY DEF Init, RequestTypeOK, OverlapSeen, Idle
<1>7. \A o \in Org : RecOK(proven, o, org[o])
  BY <1>3, SMTT(30) DEF RecOK, NoAnchor
<1>8. \A c \in Client : req[c].op = "none"
  BY DEF Init, Idle
<1> QED BY <1>5, <1>6, <1>7, <1>8
        DEF RecordInv, WriterOK, WriteOp, RewriteOp, CreateOp

\* ... and every step keeps it.
LEMMA RecordNext == RecordInv /\ [Next]_vars => RecordInv'
<1> SUFFICES ASSUME RecordInv, [Next]_vars PROVE RecordInv'
  OBVIOUS
<1>1. StoreTypeOK /\ RequestTypeOK
  BY DEF RecordInv
<1>2. CASE UNCHANGED orgVars
  <2>1. org' = org /\ member' = member /\ uris' = uris /\ req' = req
        /\ proven' = proven
    BY <1>2 DEF orgVars, history
  <2> QED BY <2>1 DEF RecordInv, StoreTypeOK, RequestTypeOK, OverlapSeen, RecOK,
          WriterOK, Serving
<1>3. ASSUME NEW c \in Client, Begins(c) PROVE RecordInv'
  <2>1. /\ org' = org /\ member' = member /\ uris' = uris /\ proven' = proven
        /\ RequestTypeOK' /\ req'[c].pc = "read" /\ req'[c].rec = NoRec
    BY <1>3 DEF Begins
  <2>2. WriterOK(c)'
    <3>1. (~NoRec.disabled) /\ NoRec.anchor = NoAnchor
      BY DEF NoRec
    <3>2. \A o : RecOK(proven', o, NoRec)
      BY <3>1, SMTT(30) DEF RecOK, NoAnchor
    <3> QED BY <2>1, <3>2 DEF WriterOK, FreshPoint
  <2>3. ASSUME NEW d \in Client \ {c} PROVE WriterOK(d)'
    <3>1. WriterOK(d)
      BY DEF RecordInv
    <3>2. CASE req'[d] = req[d]
      BY <2>1, <3>1, <3>2 DEF WriterOK, RecOK
    <3>3. CASE req[d].pc # "idle" /\ req'[d] = [req[d] EXCEPT !.clean = FALSE]
      <4>1. req[d] \in InFlight
        BY <1>1, <3>3, ServedIfNotIdle DEF Serving
      <4>2. /\ req'[d].op = req[d].op /\ req'[d].org = req[d].org
            /\ req'[d].rec = req[d].rec /\ req'[d].pc = req[d].pc
            /\ ~req'[d].clean
        BY <3>3, <4>1 DEF InFlight
      <4> QED BY <2>1, <3>1, <4>2 DEF WriterOK, RecOK
    <3> QED BY <1>3, <3>2, <3>3 DEF Begins
  <2>4. OverlapSeen'
    BY <1>1, <1>3, OverlapStep DEF RecordInv
  <2>5. StoreTypeOK' /\ \A o \in Org : RecOK(proven', o, org'[o])
    BY <2>1 DEF RecordInv, StoreTypeOK, RecOK
  <2> QED BY <2>1, <2>2, <2>3, <2>4, <2>5 DEF RecordInv
<1>4. ASSUME NEW c \in Client, Moves(c), RecMove(c), Step(c) \/ CallFails(c)
      PROVE  RecordInv'
  <2>1. StoreTypeOK' /\ RequestTypeOK' /\ OverlapSeen'
    BY <1>1, <1>4, StoreTypes, MovesType, OverlapStep DEF RecordInv
  <2>2. \A o \in Org : RecOK(proven', o, org'[o])
    BY <1>4, RecordStep
  <2>3. ASSUME NEW d \in Client PROVE WriterOK(d)'
    <3>1. CASE d = c
      BY <1>4, <3>1, WriterStep DEF WriterOK
    <3>2. CASE d # c
      BY <1>1, <1>4, <3>2, MovesType, OtherWriters DEF WriterOK
    <3> QED BY <3>1, <3>2
  <2> QED BY <2>1, <2>2, <2>3 DEF RecordInv
<1> QED BY <1>1, <1>2, <1>3, <1>4, NextSplit

-----------------------------------------------------------------------------
(* The requests edit accounts through the directory only                     *)

\* The steps that touch the directory.
LEMMA Editors ==
  ASSUME NEW c \in Client, Step(c)
  PROVE  \/ EditMember(c) \/ EditStep(c) \/ Join(c) \/ RemoveUnlock(c) \/ UserEdit(c)
         \/ DeleteUserAccount(c) \/ UNCHANGED dirVars
<1>1. ASSUME \/ ReadOrg(c) \/ RewritePut(c) \/ CreateRead(c) \/ SignupCap(c)
             \/ SignupMine(c) \/ CreateKc(c) \/ CreatePut(c) \/ WriteTuple(c)
             \/ UrisGet(c) \/ UrisPut(c) \/ UnwindTuple(c) \/ UnwindJoin(c)
      PROVE  UNCHANGED dirVars
  BY <1>1 DEF ReadOrg, RewritePut, CreateRead, SignupCap, SignupMine, CreateKc,
     CreatePut, WriteTuple, UrisGet, UrisPut, UnwindTuple, UnwindJoin, Reads
<1>2. ASSUME \/ UnwindPut(c) \/ UnwindKc(c) \/ Unwound(c) \/ DisablePut(c)
             \/ ListForDisable(c) \/ DisableAgents(c) \/ ListForEnable(c)
             \/ EnablePut(c) \/ EditMembersDone(c) \/ DeleteList(c)
             \/ DeleteTuples(c) \/ DeleteKc(c)
      PROVE  UNCHANGED dirVars
  BY <1>2 DEF UnwindPut, UnwindKc, Unwound, DisablePut, ListForDisable,
     DisableAgents, ListForEnable, EnablePut, EditMembersDone, DeleteList,
     DeleteTuples, DeleteKc, Reads
<1>3. ASSUME \/ DeleteRecord(c) \/ RoleCheck(c) \/ RoleDropOther(c)
             \/ RemoveTuples(c) \/ RemoveLeave(c) \/ RemoveLoad(c)
             \/ RemoveDispose(c) \/ RemoveUnlocked(c) \/ SpawnAgent(c)
             \/ UserEdited(c) \/ DeleteUserEstate(c) \/ DeleteUserOrgs(c)
             \/ DeleteUserNext(c)
      PROVE  UNCHANGED dirVars
  BY <1>3 DEF DeleteRecord, RoleCheck, RoleDropOther, RemoveTuples, RemoveLeave,
     RemoveLoad, RemoveDispose, RemoveUnlocked, SpawnAgent, UserEdited,
     DeleteUserEstate, DeleteUserOrgs, DeleteUserNext, Reads
<1> QED BY <1>1, <1>2, <1>3 DEF Step

\* A step of a request, or a failure, is a step of the directory or leaves the
\* directory alone.
LEMMA StepEdits ==
  ASSUME RequestTypeOK, NEW c \in Client
  PROVE  Step(c) \/ CallFails(c) => DirNext \/ UNCHANGED dirVars
<1> DEFINE r == req[c]
           Goal == DirNext \/ UNCHANGED dirVars
<1>1. r.pc # "idle" => r \in InFlight /\ Addressed(r)
  BY ServedIfNotIdle DEF Serving
<1>2. ASSUME EditMember(c) PROVE Goal
  <2>1. r.pc # "idle" /\ r.op \in {"disable", "enable", "delete"}
    BY <1>2 DEF EditMember, On
  <2>2. r.todo \subseteq User /\ r.org \in Org
    BY <1>1, <2>1 DEF InFlight, Addressed, UserOp
  <2>3. PICK u \in r.todo :
          \/ EditGet(c, IF r.op = "disable" THEN "suspend" ELSE "lift", u, r.org)
          \/ UNCHANGED dirVars
    BY <1>2 DEF EditMember
  <2> QED BY <2>2, <2>3 DEF DirNext
<1>3. ASSUME EditStep(c) PROVE Goal
  BY <1>3 DEF EditStep, DirNext
<1>4. ASSUME Join(c) PROVE Goal
  <2>1. /\ r.pc # "idle" /\ r.op \in CreateOp \cup {"add"}
        /\ UNCHANGED dirVars \/ CreateUser(r.user)
    BY <1>4 DEF Join, On
  <2>2. r.user \in User
    BY <1>1, <2>1 DEF Addressed, GrantOp
  <2> QED BY <2>1, <2>2 DEF DirNext
<1>5. ASSUME RemoveUnlock(c) PROVE Goal
  <2>1. /\ r.pc = "unlock" /\ r.op \in RemoveOp
        /\ UNCHANGED dirVars \/ EditGet(c, "lift", r.user, r.org)
    BY <1>5 DEF RemoveUnlock, On
  <2>2. r.user \in User /\ r.org \in Org
    BY <1>1, <2>1 DEF Addressed, RemoveOp, UserOp, LeavePoint
  <2> QED BY <2>1, <2>2 DEF DirNext
<1>6. ASSUME UserEdit(c) PROVE Goal
  <2>1. /\ r.pc = "read" /\ r.op \in UserOp \ {"deleteUser"}
        /\ UNCHANGED dirVars \/ EditGet(c, r.op, r.user, Nobody)
    BY <1>6 DEF UserEdit, On
  <2>2. r.user \in User /\ r.op \in {"ban", "unban", "profile"}
    BY <1>1, <2>1 DEF Addressed, UserOp
  <2> QED BY <2>1, <2>2 DEF DirNext
<1>7. ASSUME DeleteUserAccount(c) PROVE Goal
  <2>1. /\ r.pc = "next" /\ r.op = "deleteUser"
        /\ UNCHANGED dirVars \/ DeleteUser(r.user)
    BY <1>7 DEF DeleteUserAccount, On
  <2>2. r.user \in User
    BY <1>1, <2>1 DEF Addressed, UserOp
  <2> QED BY <2>1, <2>2 DEF DirNext
<1>8. ASSUME CallFails(c) PROVE Goal
  BY <1>8 DEF CallFails, DirNext
<1> QED BY <1>2, <1>3, <1>4, <1>5, <1>6, <1>7, <1>8, Editors

\* Every step of the registry is one of the directory, or none.
LEMMA NextEdits ==
  RecordInv /\ [Next]_vars => [DirNext]_dirVars
<1> SUFFICES ASSUME RecordInv, [Next]_vars PROVE DirNext \/ UNCHANGED dirVars
  OBVIOUS
<1>1. ASSUME NEW c \in Client, Accept(c) PROVE UNCHANGED dirVars
  BY <1>1, AcceptBegins DEF Begins, RecordInv
<1>2. ASSUME NEW c \in Client, Step(c) \/ CallFails(c)
      PROVE  DirNext \/ UNCHANGED dirVars
  BY <1>2, StepEdits DEF RecordInv
<1>3. ASSUME NEW u \in User, SignIn(u) PROVE DirNext
  BY <1>3 DEF SignIn, DirNext
<1>4. UNCHANGED vars => UNCHANGED dirVars
  BY DEF vars
<1> QED BY <1>1, <1>2, <1>3, <1>4 DEF Next

-----------------------------------------------------------------------------
(* Creates and deletes, step by step                                         *)

\* The steps of a create.
LEMMA CreateActs ==
  ASSUME NEW c \in Client, req[c].op \in CreateOp
  PROVE  Step(c) =>
           \/ CreateRead(c) \/ SignupCap(c) \/ SignupMine(c) \/ CreateKc(c)
           \/ CreatePut(c) \/ WriteTuple(c) \/ Join(c) \/ UrisGet(c) \/ UrisPut(c)
           \/ UnwindTuple(c) \/ UnwindJoin(c) \/ UnwindPut(c) \/ UnwindKc(c)
           \/ Unwound(c) \/ EditStep(c)
<1>1. req[c].op \notin RewriteOp \cup UserOp \cup RemoveOp
                        \cup {"disable", "enable", "delete", "role", "spawn"}
  BY DEF CreateOp, RewriteOp, UserOp, RemoveOp
<1>2. ~(\/ ReadOrg(c) \/ RewritePut(c) \/ DisablePut(c) \/ ListForDisable(c)
        \/ DisableAgents(c) \/ ListForEnable(c) \/ EnablePut(c) \/ EditMember(c)
        \/ EditMembersDone(c) \/ DeleteList(c) \/ DeleteTuples(c) \/ DeleteKc(c)
        \/ DeleteRecord(c))
  BY <1>1 DEF ReadOrg, RewritePut, DisablePut, ListForDisable, DisableAgents,
     ListForEnable, EnablePut, EditMember, EditMembersDone, DeleteList,
     DeleteTuples, DeleteKc, DeleteRecord, On
<1>3. ~(\/ RoleCheck(c) \/ RoleDropOther(c) \/ RemoveTuples(c) \/ RemoveLeave(c)
        \/ RemoveLoad(c) \/ RemoveDispose(c) \/ RemoveUnlock(c)
        \/ RemoveUnlocked(c) \/ SpawnAgent(c) \/ UserEdit(c) \/ UserEdited(c)
        \/ DeleteUserEstate(c) \/ DeleteUserOrgs(c) \/ DeleteUserNext(c)
        \/ DeleteUserAccount(c))
  BY <1>1 DEF RoleCheck, RoleDropOther, RemoveTuples, RemoveLeave, RemoveLoad,
     RemoveDispose, RemoveUnlock, RemoveUnlocked, SpawnAgent, UserEdit, UserEdited,
     DeleteUserEstate, DeleteUserOrgs, DeleteUserNext, DeleteUserAccount, On, UserOp
<1> QED BY <1>2, <1>3 DEF Step

\* The steps of a delete.
LEMMA DeleteActs ==
  ASSUME NEW c \in Client, req[c].op = "delete"
  PROVE  Step(c) =>
           \/ ReadOrg(c) \/ ListForEnable(c) \/ EditMember(c) \/ EditMembersDone(c)
           \/ DeleteList(c) \/ DeleteTuples(c) \/ UrisGet(c) \/ UrisPut(c)
           \/ DeleteKc(c) \/ DeleteRecord(c) \/ EditStep(c)
<1>1. req[c].op \notin RewriteOp \cup UserOp \cup RemoveOp \cup CreateOp \cup GrantOp
  BY DEF CreateOp, RewriteOp, UserOp, RemoveOp, GrantOp
<1>2. ~(\/ RewritePut(c) \/ CreateRead(c) \/ SignupCap(c) \/ SignupMine(c)
        \/ CreateKc(c) \/ CreatePut(c) \/ WriteTuple(c) \/ Join(c)
        \/ UnwindTuple(c) \/ UnwindJoin(c) \/ UnwindPut(c) \/ UnwindKc(c)
        \/ Unwound(c) \/ DisablePut(c) \/ ListForDisable(c) \/ DisableAgents(c)
        \/ EnablePut(c))
  BY <1>1 DEF RewritePut, CreateRead, SignupCap, SignupMine, CreateKc, CreatePut,
     WriteTuple, Join, UnwindTuple, UnwindJoin, UnwindPut, UnwindKc, Unwound,
     DisablePut, ListForDisable, DisableAgents, EnablePut, On, GrantOp, CreateOp
<1>3. ~(\/ RoleCheck(c) \/ RoleDropOther(c) \/ RemoveTuples(c) \/ RemoveLeave(c)
        \/ RemoveLoad(c) \/ RemoveDispose(c) \/ RemoveUnlock(c)
        \/ RemoveUnlocked(c) \/ SpawnAgent(c) \/ UserEdit(c) \/ UserEdited(c)
        \/ DeleteUserEstate(c) \/ DeleteUserOrgs(c) \/ DeleteUserNext(c)
        \/ DeleteUserAccount(c))
  BY <1>1 DEF RoleCheck, RoleDropOther, RemoveTuples, RemoveLeave, RemoveLoad,
     RemoveDispose, RemoveUnlock, RemoveUnlocked, SpawnAgent, UserEdit, UserEdited,
     DeleteUserEstate, DeleteUserOrgs, DeleteUserNext, DeleteUserAccount, On, UserOp
<1> QED BY <1>2, <1>3 DEF Step

\* Where a step takes a create, and where a delete.
CreateEdge(p, q) ==
  \/ p = "read" /\ q \in {"cap", "kc"}
  \/ p = "cap" /\ q = "mine"
  \/ p = "mine" /\ q = "kc"
  \/ p = "kc" /\ q = "put"
  \/ p = "put" /\ q = "tuple"
  \/ p = "tuple" /\ q = "join"
  \/ p = "join" /\ q = "uris"
  \/ p = "uris" /\ q = "urisPut"
  \/ p = "unUris" /\ q = "unUrisPut"
  \/ p = "unUrisPut" /\ q = "unTuple"
  \/ p = "unTuple" /\ q = "unJoin"
  \/ p = "unJoin" /\ q = "unPut"
  \/ p = "unPut" /\ q = "unKc"
  \/ p = "unKc" /\ q = "unwound"

DeleteEdge(p, q) ==
  \/ p = "read" /\ q = "list"
  \/ p = "list" /\ q = "edit"
  \/ p = "edit" /\ q \in {"edit", "again"}
  \/ p = "again" /\ q = "drop"
  \/ p = "drop" /\ q = "unUris"
  \/ p = "uris" /\ q = "urisPut"
  \/ p = "unUris" /\ q = "unUrisPut"
  \/ p = "unUrisPut" /\ q = "kcDelete"
  \/ p = "kcDelete" /\ q = "storeDelete"

\* A create ends where the record is found to exist, the user to have an
\* organization, the URIs are written or nothing is left to unwind.
CreateEnd(r) ==
  \/ r.pc \in {"cap", "mine", "urisPut", "unwound"}
  \/ r.pc = "unJoin" /\ r.rec.known

\* A request sent to a point is at that point next.
LEMMA GotoPoint ==
  ASSUME RequestTypeOK, NEW c \in Client, req[c].pc # "idle", NEW p, Goto(c, p)
  PROVE  req'[c].pc = p
<1>1. req'[c] = [req[c] EXCEPT !.pc = p] /\ req[c] \in InFlight
  BY ServedIfNotIdle DEF Goto, RequestTypeOK, Serving
<1> QED BY <1>1 DEF InFlight

\* The steps of a create follow its table.
LEMMA CreateTable ==
  ASSUME RequestTypeOK, NEW c \in Client, req[c].op \in CreateOp
  PROVE  Step(c) => \/ req' = req
                    \/ req'[c] = Idle /\ CreateEnd(req[c])
                    \/ CreateEdge(req[c].pc, req'[c].pc)
<1> DEFINE r == req[c]
           Goal == \/ req' = req
                   \/ req'[c] = Idle /\ CreateEnd(r)
                   \/ CreateEdge(r.pc, req'[c].pc)
<1>0. r.op # "add" /\ r.op # "role" /\ r.op # "delete"
  BY DEF CreateOp
<1>1. Reply(c) => req'[c] = Idle
  BY DEF Reply, RequestTypeOK
<1>2. ASSUME CreateRead(c) PROVE Goal
  <2> DEFINE p == IF r.op = "signup" THEN "cap" ELSE "kc"
  <2>1. r.pc = "read" /\ req' = [req EXCEPT ![c].rec = org[r.org], ![c].pc = p]
    BY <1>2 DEF CreateRead, On
  <2>2. req'[c] = [r EXCEPT !.rec = org[r.org], !.pc = p] /\ r \in InFlight
    BY <2>1, ServedIfNotIdle DEF RequestTypeOK, Serving
  <2>3. req'[c].pc = p
    BY <2>2 DEF InFlight
  <2> QED BY <2>1, <2>3 DEF CreateEdge
<1>3. ASSUME SignupCap(c) \/ SignupMine(c) PROVE Goal
  <2>1. \/ r.pc = "cap" /\ (Reply(c) \/ Goto(c, "mine"))
        \/ r.pc = "mine" /\ (Reply(c) \/ Goto(c, "kc"))
    BY <1>3 DEF SignupCap, SignupMine, On
  <2> QED BY <1>1, <2>1, GotoPoint DEF CreateEdge, CreateEnd
<1>4. ASSUME CreateKc(c) \/ CreatePut(c) \/ UnwindTuple(c) PROVE Goal
  <2>1. \/ r.pc = "kc" /\ Goto(c, "put")
        \/ r.pc = "put" /\ Goto(c, "tuple")
        \/ r.pc = "unTuple" /\ Goto(c, "unJoin")
    BY <1>4 DEF CreateKc, CreatePut, UnwindTuple, On
  <2> QED BY <2>1, GotoPoint DEF CreateEdge
<1>5. ASSUME WriteTuple(c) \/ Join(c) PROVE Goal
  <2>1. \/ r.pc = "tuple" /\ Goto(c, "join")
        \/ r.pc = "join" /\ Goto(c, "uris")
    BY <1>0, <1>5 DEF WriteTuple, Join, On
  <2> QED BY <2>1, GotoPoint DEF CreateEdge
<1>6. ASSUME UrisGet(c) PROVE Goal
  <2> DEFINE p == IF r.pc = "uris" THEN "urisPut" ELSE "unUrisPut"
  <2>1. /\ r.pc \in {"uris", "unUris"}
        /\ req' = [req EXCEPT ![c].seen = uris, ![c].pc = p]
    BY <1>6 DEF UrisGet
  <2>2. req'[c] = [r EXCEPT !.seen = uris, !.pc = p] /\ r \in InFlight
    BY <2>1, ServedIfNotIdle DEF RequestTypeOK, Serving
  <2>3. req'[c].pc = p
    BY <2>2 DEF InFlight
  <2> QED BY <2>1, <2>3 DEF CreateEdge
<1>7. ASSUME UrisPut(c) PROVE Goal
  <2>1. \/ r.pc = "urisPut" /\ Reply(c)
        \/ r.pc = "unUrisPut" /\ Goto(c, "unTuple")
    BY <1>0, <1>7 DEF UrisPut
  <2> QED BY <1>1, <2>1, GotoPoint DEF CreateEdge, CreateEnd
<1>8. ASSUME UnwindJoin(c) PROVE Goal
  <2>1. r.pc = "unJoin" /\ ((r.rec.known /\ Reply(c)) \/ Goto(c, "unPut"))
    BY <1>0, <1>8 DEF UnwindJoin, On
  <2> QED BY <1>1, <2>1, GotoPoint DEF CreateEdge, CreateEnd
<1>9. ASSUME UnwindPut(c) \/ UnwindKc(c) \/ Unwound(c) PROVE Goal
  <2>1. \/ r.pc = "unPut" /\ Goto(c, "unKc")
        \/ r.pc = "unKc" /\ Goto(c, "unwound")
        \/ r.pc = "unwound" /\ Reply(c)
    BY <1>9 DEF UnwindPut, UnwindKc, Unwound, On
  <2> QED BY <1>1, <2>1, GotoPoint DEF CreateEdge, CreateEnd
<1>10. ASSUME EditStep(c) PROVE Goal
  BY <1>10 DEF EditStep, orgVars
<1> QED BY <1>2, <1>3, <1>4, <1>5, <1>6, <1>7, <1>8, <1>9, <1>10, CreateActs

\* ... and those of a delete its own.
LEMMA DeleteTable ==
  ASSUME RequestTypeOK, NEW c \in Client, req[c].op = "delete"
  PROVE  Step(c) => \/ req' = req
                    \/ req'[c] = Idle /\ req[c].pc \in {"read", "urisPut", "storeDelete"}
                    \/ DeleteEdge(req[c].pc, req'[c].pc)
<1> DEFINE r == req[c]
           Goal == \/ req' = req
                   \/ req'[c] = Idle /\ r.pc \in {"read", "urisPut", "storeDelete"}
                   \/ DeleteEdge(r.pc, req'[c].pc)
<1>1. Reply(c) => req'[c] = Idle
  BY DEF Reply, RequestTypeOK
<1>2. ASSUME ReadOrg(c) PROVE Goal
  <2>1. /\ r.pc = "read"
        /\ Reply(c) \/ req' = [req EXCEPT ![c].pc = "list", ![c].rec = org[r.org]]
    BY <1>2 DEF ReadOrg
  <2>2. CASE ~Reply(c)
    <3>1. /\ req'[c] = [r EXCEPT !.pc = "list", !.rec = org[r.org]]
          /\ r \in InFlight
      BY <2>1, <2>2, ServedIfNotIdle DEF RequestTypeOK, Serving
    <3>2. req'[c].pc = "list"
      BY <3>1 DEF InFlight
    <3> QED BY <2>1, <3>2 DEF DeleteEdge
  <2> QED BY <1>1, <2>1, <2>2
<1>3. ASSUME ListForEnable(c) \/ DeleteList(c) \/ DeleteTuples(c) PROVE Goal
  <2>1. \E p, v : /\ DeleteEdge(r.pc, p) /\ r.pc # "idle"
                  /\ req' = [req EXCEPT ![c].pc = p, ![c].todo = v]
    BY <1>3 DEF ListForEnable, DeleteList, DeleteTuples, On, DeleteEdge
  <2>2. PICK p, v : /\ DeleteEdge(r.pc, p) /\ r.pc # "idle"
                    /\ req' = [req EXCEPT ![c].pc = p, ![c].todo = v]
    BY <2>1
  <2>3. req'[c] = [r EXCEPT !.pc = p, !.todo = v] /\ r \in InFlight
    BY <2>2, ServedIfNotIdle DEF RequestTypeOK, Serving
  <2>4. req'[c].pc = p
    BY <2>3 DEF InFlight
  <2> QED BY <2>2, <2>4
<1>4. ASSUME EditMember(c) PROVE Goal
  <2>1. r.pc = "edit"
    BY <1>4 DEF EditMember, On
  <2>2. PICK v : req' = [req EXCEPT ![c].todo = v]
    BY <1>4 DEF EditMember
  <2>3. req'[c] = [r EXCEPT !.todo = v] /\ r \in InFlight
    BY <2>1, <2>2, ServedIfNotIdle DEF RequestTypeOK, Serving
  <2>4. req'[c].pc = "edit"
    BY <2>1, <2>3 DEF InFlight
  <2> QED BY <2>1, <2>4 DEF DeleteEdge
<1>5. ASSUME EditMembersDone(c) \/ DeleteKc(c) PROVE Goal
  <2>1. \/ r.pc = "edit" /\ Goto(c, "again")
        \/ r.pc = "kcDelete" /\ Goto(c, "storeDelete")
    BY <1>5 DEF EditMembersDone, DeleteKc, On
  <2> QED BY <2>1, GotoPoint DEF DeleteEdge
<1>6. ASSUME UrisGet(c) PROVE Goal
  <2> DEFINE p == IF r.pc = "uris" THEN "urisPut" ELSE "unUrisPut"
  <2>1. /\ r.pc \in {"uris", "unUris"}
        /\ req' = [req EXCEPT ![c].seen = uris, ![c].pc = p]
    BY <1>6 DEF UrisGet
  <2>2. req'[c] = [r EXCEPT !.seen = uris, !.pc = p] /\ r \in InFlight
    BY <2>1, ServedIfNotIdle DEF RequestTypeOK, Serving
  <2>3. req'[c].pc = p
    BY <2>2 DEF InFlight
  <2> QED BY <2>1, <2>3 DEF DeleteEdge
<1>7. ASSUME UrisPut(c) \/ DeleteRecord(c) PROVE Goal
  <2>1. \/ r.pc \in {"urisPut", "storeDelete"} /\ Reply(c)
        \/ r.pc = "unUrisPut" /\ Goto(c, "kcDelete")
    BY <1>7 DEF UrisPut, DeleteRecord, On
  <2> QED BY <1>1, <2>1, GotoPoint DEF DeleteEdge
<1>8. ASSUME EditStep(c) PROVE Goal
  BY <1>8 DEF EditStep, orgVars
<1> QED BY <1>2, <1>3, <1>4, <1>5, <1>6, <1>7, <1>8, DeleteActs

-----------------------------------------------------------------------------
(* Conflicts                                                                 *)

\* Two requests that overlap and conflict have frayed what both touch.
ConflictSeen ==
  \A c, d \in Client : \A o \in Org, u \in User \cup {Nobody} :
    /\ c # d /\ InTouch(c, o, u) /\ InTouch(d, o, u)
    /\ Overlap(req[c], req[d]) /\ Conflict(req[c].op, req[d].op)
    => <<o, u>> \in frayed

\* What a step keeps of every request's address.
LEMMA AddressKept ==
  ASSUME RequestTypeOK, NEW c \in Client, Begins(c) \/ Moves(c), NEW d \in Client
  PROVE  req'[d].pc # "idle" =>
           \/ Begins(c) /\ d = c
           \/ /\ req[d].pc # "idle"
              /\ req'[d].op = req[d].op /\ req'[d].user = req[d].user
              /\ req'[d].org = req[d].org \/ req[d].op = "deleteUser"
              /\ d # c => /\ req'[d].pc = req[d].pc /\ req'[d].org = req[d].org
                          /\ req'[d].rec = req[d].rec /\ req'[d].seen = req[d].seen
<1>1. CASE Begins(c)
  <2>1. CASE req'[d] = req[d]
    BY <2>1
  <2>2. CASE req[d].pc # "idle" /\ req'[d] = [req[d] EXCEPT !.clean = FALSE]
    <3>1. req[d] \in InFlight
      BY <2>2, ServedIfNotIdle DEF Serving
    <3> QED BY <2>2, <3>1 DEF InFlight
  <2> QED BY <1>1, <2>1, <2>2 DEF Begins
<1>2. CASE Moves(c) /\ d # c
  BY <1>2, MovesType
<1>3. CASE Moves(c) /\ d = c
  <2>1. req[c].pc # "idle"
    BY <1>3 DEF Moves, InFlight, Point, PlainPoint, UriPoint, LeavePoint
  <2> QED BY <1>3, <2>1, SMTT(30) DEF Moves, Same, Idle
<1> QED BY <1>1, <1>2, <1>3

\* A conflict is seen when the later request begins, and never forgotten.
LEMMA ConflictStep ==
  ASSUME RequestTypeOK, ConflictSeen, NEW c \in Client, Begins(c) \/ Moves(c),
         frayed \subseteq frayed'
  PROVE  ConflictSeen'
<1> SUFFICES ASSUME NEW x \in Client, NEW y \in Client, x # y,
                    NEW o \in Org, NEW u \in User \cup {Nobody},
                    InTouch(x, o, u)', InTouch(y, o, u)',
                    Overlap(req'[x], req'[y]), Conflict(req'[x].op, req'[y].op)
             PROVE  <<o, u>> \in frayed'
  BY DEF ConflictSeen
<1>1. req'[x].pc # "idle" /\ req'[y].pc # "idle"
  BY DEF InTouch, Touching
<1>2. ASSUME NEW d \in {x, y}, ~(Begins(c) /\ d = c)
      PROVE  /\ req[d].pc # "idle" /\ InTouch(d, o, u)
             /\ req'[d].op = req[d].op /\ req'[d].user = req[d].user
             /\ req'[d].org = req[d].org \/ req[d].op = "deleteUser"
  <2>1. /\ req[d].pc # "idle"
        /\ req'[d].op = req[d].op /\ req'[d].user = req[d].user
        /\ req'[d].org = req[d].org \/ req[d].op = "deleteUser"
    BY <1>1, <1>2, AddressKept, SMTT(30)
  <2>2. InTouch(d, o, u)
    BY <2>1 DEF InTouch, Touching
  <2> QED BY <2>1, <2>2
<1>3. CASE ~(Begins(c) /\ c \in {x, y})
  <2>1. /\ InTouch(x, o, u) /\ InTouch(y, o, u)
        /\ Overlap(req[x], req[y]) /\ Conflict(req[x].op, req[y].op)
    BY <1>2, <1>3 DEF Overlap
  <2> QED BY <2>1 DEF ConflictSeen
<1>4. ASSUME Begins(c), x = c PROVE <<o, u>> \in frayed'
  <2>1. /\ req[y].pc # "idle" /\ Overlap(req'[c], req[y])
        /\ Conflict(req'[c].op, req[y].op)
    BY <1>2, <1>4 DEF Overlap
  <2> QED BY <1>4, <2>1 DEF Begins
<1>5. ASSUME Begins(c), y = c PROVE <<o, u>> \in frayed'
  <2>1. /\ req[x].pc # "idle" /\ Overlap(req'[c], req[x])
        /\ Conflict(req'[c].op, req[x].op)
    BY <1>2, <1>5 DEF Overlap, Conflict
  <2> QED BY <1>5, <2>1 DEF Begins
<1> QED BY <1>3, <1>4, <1>5

\* Records as they should be, and every conflict seen.
TouchInv == RecordInv /\ ConflictSeen

LEMMA TouchInit == Init => TouchInv
<1> SUFFICES ASSUME Init PROVE TouchInv
  OBVIOUS
<1>1. \A c \in Client : req[c].pc = "idle"
  BY DEF Init, Idle
<1>2. ConflictSeen
  BY <1>1 DEF ConflictSeen, InTouch, Touching
<1> QED BY <1>2, RecordInit DEF TouchInv

\* Every step keeps it.
LEMMA TouchNext == TouchInv /\ [Next]_vars => TouchInv'
<1> SUFFICES ASSUME TouchInv, [Next]_vars PROVE TouchInv'
  OBVIOUS
<1>1. RequestTypeOK /\ StoreTypeOK /\ ConflictSeen /\ RecordInv'
  BY RecordNext DEF TouchInv, RecordInv
<1>2. CASE UNCHANGED orgVars
  <2>1. req' = req /\ frayed' = frayed
    BY <1>2 DEF orgVars, history
  <2>2. ConflictSeen'
    BY <1>1, <2>1, SMTT(30) DEF ConflictSeen, InTouch, Touching
  <2> QED BY <1>1, <2>2 DEF TouchInv
<1>3. ASSUME NEW c \in Client, Begins(c) PROVE TouchInv'
  <2>1. frayed \subseteq frayed'
    BY <1>3 DEF Begins
  <2> QED BY <1>1, <1>3, <2>1, ConflictStep DEF TouchInv
<1>4. ASSUME NEW c \in Client, Moves(c), Step(c) \/ CallFails(c) PROVE TouchInv'
  <2>1. frayed \subseteq frayed'
    BY <1>1, <1>4, Writers
  <2> QED BY <1>1, <1>4, <2>1, ConflictStep DEF TouchInv
<1> QED BY <1>1, <1>2, <1>3, <1>4, NextSplit

-----------------------------------------------------------------------------
(* Removals, and requests that share an organization, step by step           *)

In(o, u) == <<o, u>> \in member

\* What the fields of a finished request are.
LEMMA IdleFields == Idle.pc = "idle" /\ Idle.op = "none"
BY SMTT(30) DEF Idle

\* The steps of a removal, alone or on the way of a user delete.
LEMMA RemoveActs ==
  ASSUME NEW c \in Client, req[c].op \in RemoveOp
  PROVE  Step(c) =>
           \/ ReadOrg(c) \/ RemoveTuples(c) \/ RemoveLeave(c) \/ RemoveLoad(c)
           \/ RemoveDispose(c) \/ RemoveUnlock(c) \/ RemoveUnlocked(c)
           \/ DeleteUserEstate(c) \/ DeleteUserOrgs(c) \/ DeleteUserNext(c)
           \/ DeleteUserAccount(c) \/ EditStep(c) \/ req[c].pc \in UriPoint
<1>1. req[c].op \notin RewriteOp \cup CreateOp \cup GrantOp
                        \cup {"disable", "enable", "delete", "role", "spawn"}
  BY DEF CreateOp, RewriteOp, GrantOp, RemoveOp
<1>2. ~(\/ RewritePut(c) \/ CreateRead(c) \/ SignupCap(c) \/ SignupMine(c)
        \/ CreateKc(c) \/ CreatePut(c) \/ WriteTuple(c) \/ Join(c)
        \/ UnwindTuple(c) \/ UnwindJoin(c) \/ UnwindPut(c) \/ UnwindKc(c)
        \/ Unwound(c) \/ DisablePut(c) \/ ListForDisable(c) \/ DisableAgents(c)
        \/ EnablePut(c))
  BY <1>1 DEF RewritePut, CreateRead, SignupCap, SignupMine, CreateKc, CreatePut,
     WriteTuple, Join, UnwindTuple, UnwindJoin, UnwindPut, UnwindKc, Unwound,
     DisablePut, ListForDisable, DisableAgents, EnablePut, On, GrantOp, CreateOp
<1>3. ~(\/ ListForEnable(c) \/ EditMember(c) \/ EditMembersDone(c) \/ DeleteList(c)
        \/ DeleteTuples(c) \/ DeleteKc(c) \/ DeleteRecord(c) \/ RoleCheck(c)
        \/ RoleDropOther(c) \/ SpawnAgent(c) \/ UserEdit(c) \/ UserEdited(c))
  <2>1. req[c].op \notin UserOp \ {"deleteUser"}
    BY DEF UserOp, RemoveOp
  <2> QED BY <1>1, <2>1 DEF ListForEnable, EditMember, EditMembersDone, DeleteList,
      DeleteTuples, DeleteKc, DeleteRecord, RoleCheck, RoleDropOther, SpawnAgent,
      UserEdit, UserEdited, On
<1>4. UrisGet(c) \/ UrisPut(c) => req[c].pc \in UriPoint
  BY DEF UrisGet, UrisPut, UriPoint
<1> QED BY <1>2, <1>3, <1>4 DEF Step

\* Requests that may run beside each other on one member.
SharedOp == {"add", "role", "spawn", "disable", "enable"} \cup RewriteOp

\* Their steps, but for those of an edit.
ReadOnly(c) == \/ ListForDisable(c) \/ DisableAgents(c) \/ ListForEnable(c)
               \/ EditMember(c) \/ EditMembersDone(c)
RecordOnly(c) == RewritePut(c) \/ DisablePut(c) \/ EnablePut(c)

LEMMA SharedActs ==
  ASSUME NEW c \in Client, req[c].op \in SharedOp
  PROVE  Step(c) =>
           \/ ReadOrg(c) \/ ReadOnly(c) \/ RecordOnly(c) \/ Join(c) \/ WriteTuple(c)
           \/ UnwindJoin(c) \/ RoleCheck(c) \/ RoleDropOther(c) \/ SpawnAgent(c)
           \/ EditStep(c) \/ req[c].pc \in UriPoint
<1>1. req[c].op \notin CreateOp \cup RemoveOp \cup UserOp \cup {"signup", "delete"}
  BY DEF CreateOp, RewriteOp, SharedOp, RemoveOp, UserOp
<1>2. ~(\/ CreateRead(c) \/ SignupCap(c) \/ SignupMine(c) \/ CreateKc(c)
        \/ CreatePut(c) \/ UnwindTuple(c) \/ UnwindPut(c) \/ UnwindKc(c)
        \/ Unwound(c) \/ DeleteList(c) \/ DeleteTuples(c) \/ DeleteKc(c)
        \/ DeleteRecord(c))
  BY <1>1 DEF CreateRead, SignupCap, SignupMine, CreateKc, CreatePut, UnwindTuple,
     UnwindPut, UnwindKc, Unwound, DeleteList, DeleteTuples, DeleteKc, DeleteRecord, On
<1>3. ~(\/ RemoveTuples(c) \/ RemoveLeave(c) \/ RemoveLoad(c) \/ RemoveDispose(c)
        \/ RemoveUnlock(c) \/ RemoveUnlocked(c) \/ UserEdit(c) \/ UserEdited(c)
        \/ DeleteUserEstate(c) \/ DeleteUserOrgs(c) \/ DeleteUserNext(c)
        \/ DeleteUserAccount(c))
  <2>1. req[c].op \notin UserOp \ {"deleteUser"} /\ req[c].op # "deleteUser"
    BY <1>1 DEF RemoveOp
  <2> QED BY <1>1, <2>1 DEF RemoveTuples, RemoveLeave, RemoveLoad, RemoveDispose,
      RemoveUnlock, RemoveUnlocked, UserEdit, UserEdited, DeleteUserEstate,
      DeleteUserOrgs, DeleteUserNext, DeleteUserAccount, On
<1>4. UrisGet(c) \/ UrisPut(c) => req[c].pc \in UriPoint
  BY DEF UrisGet, UrisPut, UriPoint
<1> QED BY <1>2, <1>3, <1>4 DEF Step, ReadOnly, RecordOnly

-----------------------------------------------------------------------------
(* Creates that unwind                                                       *)

\* The steps of a ban, an unban or a profile edit.
LEMMA AccountActs ==
  ASSUME NEW c \in Client, req[c].op \in AccountOp
  PROVE  Step(c) =>
           UserEdit(c) \/ UserEdited(c) \/ EditStep(c) \/ req[c].pc \in UriPoint
<1>1. req[c].op \notin CreateOp \cup RemoveOp \cup SharedOp \cup {"deleteUser", "delete"}
  BY DEF AccountOp, CreateOp, RewriteOp, SharedOp, RemoveOp
<1>2. ~(\/ ReadOrg(c) \/ RewritePut(c) \/ CreateRead(c) \/ SignupCap(c) \/ SignupMine(c)
        \/ CreateKc(c) \/ CreatePut(c) \/ WriteTuple(c) \/ Join(c) \/ UnwindTuple(c)
        \/ UnwindJoin(c) \/ UnwindPut(c) \/ UnwindKc(c) \/ Unwound(c))
  BY <1>1 DEF ReadOrg, RewritePut, CreateRead, SignupCap, SignupMine, CreateKc,
     CreatePut, WriteTuple, Join, UnwindTuple, UnwindJoin, UnwindPut, UnwindKc, Unwound,
     On, UserOp, AccountOp, CreateOp, SharedOp, GrantOp
<1>3. ~(\/ DisablePut(c) \/ ListForDisable(c) \/ DisableAgents(c) \/ ListForEnable(c)
        \/ EnablePut(c) \/ EditMember(c) \/ EditMembersDone(c) \/ DeleteList(c)
        \/ DeleteTuples(c) \/ DeleteKc(c) \/ DeleteRecord(c) \/ RoleCheck(c)
        \/ RoleDropOther(c) \/ SpawnAgent(c))
  BY <1>1 DEF DisablePut, ListForDisable, DisableAgents, ListForEnable, EnablePut,
     EditMember, EditMembersDone, DeleteList, DeleteTuples, DeleteKc, DeleteRecord,
     RoleCheck, RoleDropOther, SpawnAgent, On, SharedOp
<1>4. ~(\/ RemoveTuples(c) \/ RemoveLeave(c) \/ RemoveLoad(c) \/ RemoveDispose(c)
        \/ RemoveUnlock(c) \/ RemoveUnlocked(c) \/ DeleteUserEstate(c)
        \/ DeleteUserOrgs(c) \/ DeleteUserNext(c) \/ DeleteUserAccount(c))
  BY <1>1 DEF RemoveTuples, RemoveLeave, RemoveLoad, RemoveDispose, RemoveUnlock,
     RemoveUnlocked, DeleteUserEstate, DeleteUserOrgs, DeleteUserNext,
     DeleteUserAccount, On
<1>5. UrisGet(c) \/ UrisPut(c) => req[c].pc \in UriPoint
  BY DEF UrisGet, UrisPut, UriPoint
<1> QED BY <1>2, <1>3, <1>4, <1>5 DEF Step

\* Only a create is ever unwound.
LEMMA OnlyCreatesUnwind ==
  ASSUME RequestTypeOK, NEW c \in Client, req[c].op \notin CreateOp,
         req[c].pc # "unwound", Moves(c), Step(c) \/ CallFails(c)
  PROVE  req'[c] = Idle \/ req'[c].pc # "unwound"
<1> DEFINE r == req[c]
           Goal == req'[c] = Idle \/ req'[c].pc # "unwound"
<1>1. r \in InFlight /\ r.pc # "idle" /\ (r.pc \in UriPoint => r.op = "delete")
  <2>1. r \in InFlight /\ r.pc # "idle"
    BY DEF Moves, InFlight, Point, PlainPoint, UriPoint, LeavePoint
  <2> QED BY <2>1, ServedIfNotIdle DEF Serving, Addressed
<1>2. Reply(c) => Goal
  BY DEF Reply, RequestTypeOK
<1>3. ASSUME NEW p, Goto(c, p), p # "unwound" PROVE Goal
  BY <1>1, <1>3, GotoPoint
<1>4. CASE CallFails(c)
  <2>1. AfterFailure(r) # "unwound"
    BY DEF AfterFailure
  <2> QED BY <1>4, <2>1, FailureMoves
<1>5. ASSUME NEW p, NEW v, p # "unwound",
             \/ req' = [req EXCEPT ![c].pc = p, ![c].rec = v]
             \/ req' = [req EXCEPT ![c].pc = p, ![c].todo = v]
             \/ req' = [req EXCEPT ![c].pc = p, ![c].rest = v]
      PROVE  Goal
  <2>1. \/ req'[c] = [r EXCEPT !.pc = p, !.rec = v]
        \/ req'[c] = [r EXCEPT !.pc = p, !.todo = v]
        \/ req'[c] = [r EXCEPT !.pc = p, !.rest = v]
    BY <1>5 DEF RequestTypeOK
  <2>2. req'[c].pc = p
    BY <1>1, <2>1 DEF InFlight
  <2> QED BY <1>5, <2>2
<1>6. ASSUME ReadOrg(c) PROVE Goal
  <2>1. Reply(c) \/ \E p \in {"put", "list", "join", "check", "untuple", "spawn"} :
          req' = [req EXCEPT ![c].pc = p, ![c].rec = org[r.org]]
    BY <1>6 DEF ReadOrg
  <2> QED BY <1>2, <1>5, <2>1
<1>7. ASSUME Step(c), r.op = "delete" PROVE Goal
  BY <1>7, DeleteTable DEF DeleteEdge
<1>8. EditStep(c) => Goal
  BY DEF EditStep, orgVars
<1>9. ASSUME \/ ListForDisable(c) \/ ListForEnable(c) \/ RemoveLoad(c)
             \/ DeleteUserOrgs(c)
      PROVE  Goal
  <2>1. \E p \in {"edit", "disp", "next"} : \E v :
          \/ req' = [req EXCEPT ![c].pc = p, ![c].rec = v]
          \/ req' = [req EXCEPT ![c].pc = p, ![c].todo = v]
          \/ req' = [req EXCEPT ![c].pc = p, ![c].rest = v]
    BY <1>9 DEF ListForDisable, ListForEnable, RemoveLoad, DeleteUserOrgs
  <2> QED BY <1>5, <2>1
<1>10. ASSUME EditMember(c) PROVE Goal
  <2>1. PICK v : req' = [req EXCEPT ![c].todo = v]
    BY <1>10 DEF EditMember
  <2>2. req'[c] = [r EXCEPT !.todo = v]
    BY <2>1 DEF RequestTypeOK
  <2> QED BY <1>1, <2>2 DEF InFlight
<1>11. ASSUME DisableAgents(c) \/ RewritePut(c) \/ EnablePut(c) \/ RoleDropOther(c)
              \/ SpawnAgent(c) \/ UserEdited(c) \/ DeleteUserAccount(c)
       PROVE  Goal
  BY <1>2, <1>11 DEF DisableAgents, RewritePut, EnablePut, RoleDropOther, SpawnAgent,
     UserEdited, DeleteUserAccount
<1>12. ASSUME EditMembersDone(c), r.op # "delete" PROVE Goal
  <2>1. Goto(c, "agents") \/ Goto(c, "put")
    BY <1>12 DEF EditMembersDone, On
  <2> QED BY <1>3, <2>1
<1>13. ASSUME Join(c) \/ WriteTuple(c) \/ UnwindJoin(c) PROVE Goal
  <2>1. \/ Reply(c)
        \/ \E p \in {"tuple", "uris", "other", "join", "unPut"} : Goto(c, p)
    <3>1. ASSUME WriteTuple(c)
          PROVE  Reply(c) \/ \E p \in {"other", "join"} : Goto(c, p)
      <4>1. r.op \in GrantOp
        BY <3>1 DEF WriteTuple, On
      <4>2. r.op \in {"add", "role"} \cup CreateOp
        BY <4>1 DEF GrantOp
      <4> QED BY <3>1, <4>2 DEF WriteTuple
    <3> QED BY <1>13, <3>1 DEF Join, UnwindJoin
  <2> QED BY <1>2, <1>3, <2>1
<1>14. ASSUME DisablePut(c) \/ RoleCheck(c) \/ RemoveTuples(c) \/ RemoveLeave(c)
              \/ RemoveUnlock(c) \/ UserEdit(c) \/ DeleteUserEstate(c)
       PROVE  Goal
  <2>1. \/ Reply(c)
        \/ \E p \in {"list", "tuple", "leave", "load", "unlocking", "editing", "orgs"} :
             Goto(c, p)
    BY <1>14 DEF DisablePut, RoleCheck, RemoveTuples, RemoveLeave, RemoveUnlock, UserEdit,
       DeleteUserEstate
  <2> QED BY <1>2, <1>3, <2>1
<1>15. ASSUME DeleteUserNext(c) PROVE Goal
  <2>1. PICK x, v : req' = [req EXCEPT ![c].org = x, ![c].rest = v, ![c].pc = "untuple"]
    BY <1>15 DEF DeleteUserNext
  <2>2. req'[c] = [r EXCEPT !.org = x, !.rest = v, !.pc = "untuple"]
    BY <2>1 DEF RequestTypeOK
  <2> QED BY <1>1, <2>2 DEF InFlight
<1>16. ASSUME RemoveDispose(c) \/ RemoveUnlocked(c) PROVE Goal
  <2>1. req'[c] \in {Idle, [r EXCEPT !.pc = "unlock"],
                     [r EXCEPT !.pc = "next", !.rec = NoRec]}
    BY <1>16 DEF RemoveDispose, RemoveUnlocked, RemoveNext, RequestTypeOK
  <2>2. req'[c] = Idle \/ req'[c].pc \in {"unlock", "next"}
    BY <1>1, <2>1 DEF InFlight
  <2> QED BY <2>2
<1>17. r.op \in RemoveOp \cup SharedOp \cup AccountOp \cup {"delete"}
  BY <1>1 DEF InFlight, Op, UserOp, RemoveOp, SharedOp, AccountOp
<1>18. CASE Step(c) /\ r.op \in RemoveOp
  BY <1>1, <1>6, <1>8, <1>9, <1>11, <1>14, <1>15, <1>16, <1>18, RemoveActs DEF RemoveOp
<1>19. CASE Step(c) /\ r.op \in SharedOp
  BY <1>1, <1>6, <1>8, <1>9, <1>10, <1>11, <1>12, <1>13, <1>14, <1>19, SharedActs
  DEF SharedOp, RewriteOp, ReadOnly, RecordOnly
<1>20. CASE Step(c) /\ r.op \in AccountOp
  BY <1>1, <1>8, <1>11, <1>14, <1>20, AccountActs DEF AccountOp
<1> QED BY <1>4, <1>7, <1>17, <1>18, <1>19, <1>20

\* A create that nothing overlapped with has taken its record back once it
\* comes to the Keycloak organization, and that one, too, once it is unwound.
UnwoundOK(c) ==
  /\ req[c].pc = "unwound" => req[c].op \in CreateOp
  /\ req[c].op \in CreateOp /\ req[c].clean =>
       /\ req[c].pc \in {"unKc", "unwound"} => ~org[req[c].org].known
       /\ req[c].pc = "unwound" => req[c].org \notin kcOrg

\* The last points of an unwinding have one step each.
LEMMA LastSteps ==
  ASSUME NEW c \in Client, req[c].op \in CreateOp, Step(c)
  PROVE  \/ EditStep(c) \/ req[c].pc \notin {"unPut", "unKc", "unwound"}
         \/ req[c].pc = "unPut" /\ UnwindPut(c)
         \/ req[c].pc = "unKc" /\ UnwindKc(c)
         \/ req[c].pc = "unwound" /\ Unwound(c)
<1>1. \/ CreateRead(c) \/ SignupCap(c) \/ SignupMine(c) \/ CreateKc(c)
      \/ CreatePut(c) \/ WriteTuple(c) \/ Join(c) \/ UrisGet(c) \/ UrisPut(c)
      \/ UnwindTuple(c) \/ UnwindJoin(c)
      => req[c].pc \notin {"unPut", "unKc", "unwound"}
  BY DEF CreateRead, SignupCap, SignupMine, CreateKc, CreatePut, WriteTuple, Join,
     UrisGet, UrisPut, UnwindTuple, UnwindJoin, On
<1> QED BY <1>1, CreateActs DEF UnwindPut, UnwindKc, Unwound, On

LEMMA UnwoundStep ==
  ASSUME RecordInv, NEW c \in Client, NEW d \in Client,
         Moves(c), RecMove(c), Step(c) \/ CallFails(c), UnwoundOK(d)
  PROVE  UnwoundOK(d)'
<1> DEFINE r == req[c]
           s == req'[c]
           q == req[d]
<1>1. RequestTypeOK /\ StoreTypeOK /\ WriterOK(c)
  BY DEF RecordInv
<1>2. r \in InFlight /\ r.pc # "idle" /\ Serving(c)
  <2>1. r \in InFlight /\ r.pc # "idle"
    BY DEF Moves, InFlight, Point, PlainPoint, UriPoint, LeavePoint
  <2> QED BY <1>1, <2>1, ServedIfNotIdle
<1>3. CASE EditStep(c)
  BY <1>3 DEF EditStep, orgVars, UnwoundOK
<1>4. CASE d = c /\ s = Idle
  BY <1>4, IdleFields DEF UnwoundOK, CreateOp
<1>5. s # Idle => /\ s.op = r.op /\ (s.org = r.org \/ r.op = "deleteUser")
                  /\ (s.clean => r.clean)
  BY DEF Moves, Same
<1>6. CASE d = c /\ s # Idle /\ r.op \notin CreateOp
  BY <1>1, <1>5, <1>6, OnlyCreatesUnwind DEF UnwoundOK
<1>7. CASE d = c /\ s # Idle /\ r.op \in CreateOp /\ ~EditStep(c)
  <2>1. s.op = r.op /\ s.org = r.org /\ r.org \in Org
    BY <1>2, <1>5, <1>7 DEF CreateOp, Serving, Addressed, UserOp
  <2>2. ASSUME s.clean, s.pc = "unKc" PROVE ~org'[r.org].known
    <3>1. CASE Step(c)
      <4>1. \/ req' = req
            \/ CreateEdge(r.pc, s.pc)
        BY <1>1, <1>7, <3>1, CreateTable
      <4>2. r.pc \in {"unPut", "unKc"}
        BY <2>2, <4>1 DEF CreateEdge
      <4>3. UnwindPut(c) \/ UnwindKc(c)
        BY <1>7, <3>1, <4>2, LastSteps
      <4>4. ~UnwindKc(c)
        BY <1>1, <1>2, <2>2, GotoPoint DEF UnwindKc
      <4>5. org' = [org EXCEPT ![r.org] = NoRec]
        BY <4>3, <4>4 DEF UnwindPut
      <4>6. org'[r.org] = NoRec
        BY <1>1, <2>1, <4>5 DEF StoreTypeOK
      <4> QED BY <4>6, SMTT(30) DEF NoRec
    <3>2. CASE CallFails(c)
      <4>1. AfterFailure(r) = "unKc" /\ r.pc \notin Unwinding /\ r.clean /\ org' = org
        BY <1>1, <1>5, <1>7, <2>2, <3>2, FailureMoves DEF CallFails
      <4>2. r.pc = "put" /\ ~r.rec.known
        BY <1>7, <4>1 DEF AfterFailure, Unwinding, CreateOp
      <4>3. r.rec = org[r.org]
        BY <1>1, <1>7, <4>1, <4>2 DEF WriterOK, WriteOp, CreateOp, FreshPoint
      <4> QED BY <4>1, <4>2, <4>3
    <3> QED BY <3>1, <3>2
  <2>3. ASSUME s.clean, s.pc = "unwound"
        PROVE  ~org'[r.org].known /\ r.org \notin kcOrg'
    <3>1. ~CallFails(c)
      <4>1. AfterFailure(r) # "unwound"
        BY DEF AfterFailure
      <4> QED BY <1>1, <1>7, <2>3, <4>1, FailureMoves
    <3>2. req' = req \/ CreateEdge(r.pc, s.pc)
      BY <1>1, <1>7, <3>1, CreateTable
    <3>3. r.pc \in {"unKc", "unwound"}
      BY <2>3, <3>2 DEF CreateEdge
    <3>4. UnwindKc(c) \/ Unwound(c)
      BY <1>7, <3>1, <3>3, LastSteps
    <3>5. ~Unwound(c)
      BY <1>1, <1>7 DEF Unwound, Reply, RequestTypeOK
    <3>6. r.pc = "unKc" /\ r.clean /\ org' = org /\ kcOrg' = kcOrg \ {r.org}
      BY <1>5, <1>7, <2>3, <3>4, <3>5 DEF UnwindKc, On
    <3> QED BY <1>7, <3>6 DEF UnwoundOK
  <2> QED BY <1>7, <2>1, <2>2, <2>3 DEF UnwoundOK
<1>8. CASE d # c
  <2>1. req'[d] = q
    BY <1>1, <1>8, MovesType
  <2>2. ASSUME q.op \in CreateOp, q.clean, q.pc \in {"unKc", "unwound"}
        PROVE  org'[q.org] = org[q.org] /\ (q.org \notin kcOrg => q.org \notin kcOrg')
    <3>1. Serving(d) /\ q.org \in Org /\ q.op \in WriteOp \cup {"delete"}
      BY <1>1, <2>2, ServedIfNotIdle DEF Serving, Addressed, UserOp, CreateOp, WriteOp
    <3>2. ASSUME r.op \in WriteOp \cup {"delete"} PROVE r.org # q.org
      <4>1. ASSUME r.org = q.org PROVE Overlap(q, r)
        BY <1>2, <3>1, <3>2, <4>1, WritersOverlap DEF Serving
      <4> QED BY <1>2, <1>8, <2>2, <4>1 DEF RecordInv, OverlapSeen
    <3>3. org'[q.org] = org[q.org]
      <4>1. CASE WritesRecord(c)
        <5>1. /\ r.op \in WriteOp \cup {"delete"}
              /\ org' = org \/ \E n : RecordWrite(c, n)
          BY <1>1, <4>1, RecordWrites
        <5> QED BY <1>1, <3>1, <3>2, <5>1 DEF RecordWrite, StoreTypeOK
      <4> QED BY <1>1, <4>1, Writers
    <3>4. q.org \notin kcOrg => q.org \notin kcOrg'
      <4>1. CASE WritesKc(c)
        <5>1. /\ r.op \in WriteOp \cup {"delete"}
              /\ kcOrg' \in {kcOrg \cup {r.org}, kcOrg \ {r.org}}
          BY <4>1 DEF WritesKc, CreateKc, UnwindKc, DeleteKc, On, WriteOp
        <5> QED BY <3>2, <5>1
      <4> QED BY <1>1, <4>1, Writers
    <3> QED BY <3>3, <3>4
  <2> QED BY <2>1, <2>2 DEF UnwoundOK
<1> QED BY <1>3, <1>4, <1>6, <1>7, <1>8

UnwindInv == RecordInv /\ \A c \in Client : UnwoundOK(c)

LEMMA UnwindInit == Init => UnwindInv
<1> SUFFICES ASSUME Init PROVE UnwindInv
  OBVIOUS
<1>1. \A c \in Client : req[c].pc = "idle" /\ req[c].op = "none"
  BY DEF Init, Idle
<1> QED BY <1>1, RecordInit DEF UnwindInv, UnwoundOK, CreateOp

\* Every step keeps what an unwinding has come to.
LEMMA UnwindNext == UnwindInv /\ [Next]_vars => UnwindInv'
<1> SUFFICES ASSUME UnwindInv, [Next]_vars PROVE UnwindInv'
  OBVIOUS
<1>1. /\ RequestTypeOK /\ StoreTypeOK /\ RecordInv /\ RecordInv'
      /\ \A c \in Client : UnwoundOK(c)
  BY RecordNext DEF UnwindInv, RecordInv
<1> SUFFICES ASSUME NEW d \in Client PROVE UnwoundOK(d)'
  BY <1>1 DEF UnwindInv
<1>2. CASE UNCHANGED orgVars
  <2>1. org' = org /\ kcOrg' = kcOrg /\ req' = req
    BY <1>2 DEF orgVars
  <2> QED BY <1>1, <2>1 DEF UnwoundOK
<1>3. ASSUME NEW c \in Client, Begins(c) PROVE UnwoundOK(d)'
  <2>1. org' = org /\ kcOrg' = kcOrg /\ req'[c].pc = "read"
    BY <1>3 DEF Begins
  <2>2. CASE d # c /\ req[d].pc # "idle" /\ req'[d] = [req[d] EXCEPT !.clean = FALSE]
    <3>1. req[d] \in InFlight
      BY <1>1, <2>2, ServedIfNotIdle DEF Serving
    <3>2. req'[d].pc = req[d].pc /\ req'[d].op = req[d].op /\ ~req'[d].clean
      BY <2>2, <3>1 DEF InFlight
    <3> QED BY <1>1, <3>2 DEF UnwoundOK
  <2>3. CASE d # c /\ req'[d] = req[d]
    BY <1>1, <2>1, <2>3 DEF UnwoundOK
  <2>4. CASE d = c
    BY <2>1, <2>4 DEF UnwoundOK
  <2> QED BY <1>3, <2>2, <2>3, <2>4 DEF Begins
<1>4. ASSUME NEW c \in Client, Moves(c), RecMove(c), Step(c) \/ CallFails(c)
      PROVE  UnwoundOK(d)'
  BY <1>1, <1>4, UnwoundStep
<1> QED BY <1>1, <1>2, <1>3, <1>4, NextSplit

-----------------------------------------------------------------------------
(* What requests do to accounts                                              *)

Tagged(o, u) == o \in acct[u].tags

\* Request c is between the GET and the PUT of an edit of u's account.
Editing(c, kind, o, u) ==
  /\ edit[c].pc = "put" /\ ~edit[c].stale
  /\ edit[c].kind = kind /\ edit[c].by = o /\ edit[c].user = u

\* The edit a request is in is one of its own.
EditOf(c) ==
  edit[c].pc # "idle" =>
    \/ /\ edit[c].kind = "suspend" /\ edit[c].by = req[c].org
       /\ req[c].op = "disable" /\ req[c].pc = "edit"
    \/ /\ edit[c].kind = "lift" /\ edit[c].by = req[c].org
       /\ req[c].op \in {"enable", "delete"} /\ req[c].pc = "edit"
    \/ /\ edit[c].kind = "lift" /\ edit[c].by = req[c].org
       /\ req[c].op \in RemoveOp /\ req[c].pc = "unlocking"
       /\ edit[c].user = req[c].user
    \/ /\ edit[c].kind = req[c].op
       /\ req[c].op \in AccountOp /\ req[c].pc = "editing"

\* A request waits for its edit to end.
LEMMA EditBlocks ==
  ASSUME NEW c \in Client, EditOf(c), edit[c].pc # "idle", Step(c)
  PROVE  EditStep(c)
<1>1. req[c].pc \in {"edit", "unlocking", "editing"}
  BY DEF EditOf
<1>2. ~(\/ ReadOrg(c) \/ RewritePut(c) \/ CreateRead(c) \/ SignupCap(c)
        \/ SignupMine(c) \/ CreateKc(c) \/ CreatePut(c) \/ WriteTuple(c)
        \/ Join(c) \/ UrisGet(c) \/ UrisPut(c) \/ UnwindTuple(c) \/ UnwindJoin(c))
  BY <1>1 DEF ReadOrg, RewritePut, CreateRead, SignupCap, SignupMine, CreateKc,
     CreatePut, WriteTuple, Join, UrisGet, UrisPut, UnwindTuple, UnwindJoin, On
<1>3. ~(\/ UnwindPut(c) \/ UnwindKc(c) \/ Unwound(c) \/ DisablePut(c)
        \/ ListForDisable(c) \/ DisableAgents(c) \/ ListForEnable(c) \/ EnablePut(c)
        \/ EditMember(c) \/ EditMembersDone(c) \/ DeleteList(c) \/ DeleteTuples(c))
  BY <1>1 DEF UnwindPut, UnwindKc, Unwound, DisablePut, ListForDisable, DisableAgents,
     ListForEnable, EnablePut, EditMember, EditMembersDone, DeleteList, DeleteTuples, On
<1>4. ~(\/ DeleteKc(c) \/ DeleteRecord(c) \/ RoleCheck(c) \/ RoleDropOther(c)
        \/ RemoveTuples(c) \/ RemoveLeave(c) \/ RemoveLoad(c) \/ RemoveDispose(c)
        \/ RemoveUnlock(c) \/ RemoveUnlocked(c) \/ SpawnAgent(c))
  BY <1>1 DEF DeleteKc, DeleteRecord, RoleCheck, RoleDropOther, RemoveTuples,
     RemoveLeave, RemoveLoad, RemoveDispose, RemoveUnlock, RemoveUnlocked, SpawnAgent, On
<1>5. ~(\/ UserEdit(c) \/ UserEdited(c) \/ DeleteUserEstate(c) \/ DeleteUserOrgs(c)
        \/ DeleteUserNext(c) \/ DeleteUserAccount(c))
  BY <1>1 DEF UserEdit, UserEdited, DeleteUserEstate, DeleteUserOrgs, DeleteUserNext,
     DeleteUserAccount, On
<1> QED BY <1>2, <1>3, <1>4, <1>5 DEF Step

\* What a step does to the edits: its own goes on, ends or begins, and those
\* of an account it deletes become stale.
LEMMA EditMoves ==
  ASSUME DirTypeOK, NEW c \in Client, Step(c) \/ CallFails(c), NEW d \in Client \ {c}
  PROVE  \/ edit'[d] = edit[d]
         \/ /\ DeleteUserAccount(c) /\ DeleteUser(req[c].user)
            /\ edit[d].pc # "idle" /\ edit[d].user = req[c].user
            /\ edit'[d] = [edit[d] EXCEPT !.stale = TRUE]
<1>1. edit \in [Client -> Edit \cup {NoEdit}]
  BY DEF DirTypeOK
<1>2. ASSUME NEW e, edit' = [edit EXCEPT ![c] = e] PROVE edit'[d] = edit[d]
  BY <1>1, <1>2
<1>3. ASSUME NEW kind, NEW u, NEW by, EditGet(c, kind, u, by) PROVE edit'[d] = edit[d]
  BY <1>2, <1>3 DEF EditGet
<1>4. CASE EditMember(c) \/ RemoveUnlock(c) \/ UserEdit(c)
  BY <1>3, <1>4 DEF EditMember, RemoveUnlock, UserEdit, dirVars
<1>5. CASE EditStep(c)
  <2>1. edit' = [edit EXCEPT ![c] = NoEdit] \/ edit' = [edit EXCEPT ![c].pc = "logout"]
    BY <1>5 DEF EditStep, EditPut, Logout
  <2> QED BY <1>1, <2>1
<1>6. CASE CallFails(c)
  BY <1>2, <1>6 DEF CallFails, EditFails, dirVars
<1>7. CASE Join(c)
  BY <1>7 DEF Join, CreateUser, dirVars
<1>8. CASE DeleteUserAccount(c)
  <2>1. CASE UNCHANGED dirVars
    BY <2>1 DEF dirVars
  <2>2. CASE DeleteUser(req[c].user)
    BY <1>8, <2>2 DEF DeleteUser
  <2> QED BY <1>8, <2>1, <2>2 DEF DeleteUserAccount
<1> QED BY <1>4, <1>5, <1>6, <1>7, <1>8, Editors DEF dirVars

\* Every step leaves each request with an edit of its own.
LEMMA EditOfStep ==
  ASSUME RequestTypeOK, DirTypeOK, NEW c \in Client, Step(c) \/ CallFails(c),
         Moves(c) \/ EditStep(c), \A d \in Client : EditOf(d), NEW d \in Client
  PROVE  EditOf(d)'
<1> DEFINE r == req[c]
<1>1. edit \in [Client -> Edit \cup {NoEdit}]
  BY DEF DirTypeOK
<1>2. CASE d # c
  <2>1. req'[d] = req[d]
    BY <1>2, MovesType DEF EditStep, orgVars
  <2>2. CASE edit[d].pc # "idle" /\ edit'[d] = [edit[d] EXCEPT !.stale = TRUE]
    <3>1. edit[d] \in Edit
      BY <1>1, <2>2, NoEditIsIdle
    <3>2. /\ edit'[d].pc = edit[d].pc /\ edit'[d].kind = edit[d].kind
          /\ edit'[d].by = edit[d].by /\ edit'[d].user = edit[d].user
      BY <2>2, <3>1 DEF Edit
    <3> QED BY <2>1, <3>2 DEF EditOf
  <2> QED BY <1>2, <2>1, <2>2, EditMoves DEF EditOf
<1>3. CASE d = c /\ CallFails(c)
  <2>1. edit'[c].pc = "idle"
    BY <1>1, <1>3, NoEditIsIdle DEF CallFails, EditFails, dirVars
  <2> QED BY <1>3, <2>1 DEF EditOf
<1>4. CASE d = c /\ EditStep(c)
  <2>1. req' = req
    BY <1>4 DEF EditStep, orgVars
  <2>2. \/ edit'[c] = NoEdit
        \/ edit[c].pc = "put" /\ edit'[c] = [edit[c] EXCEPT !.pc = "logout"]
    BY <1>1, <1>4 DEF EditStep, EditPut, Logout
  <2>3. CASE edit'[c] = NoEdit
    BY <1>4, <2>3, NoEditIsIdle DEF EditOf
  <2>4. CASE edit[c].pc = "put" /\ edit'[c] = [edit[c] EXCEPT !.pc = "logout"]
    <3>1. edit[c] \in Edit
      BY <1>1, <2>4, NoEditIsIdle
    <3>2. /\ edit'[c].kind = edit[c].kind
          /\ edit'[c].by = edit[c].by /\ edit'[c].user = edit[c].user
      BY <2>4, <3>1 DEF Edit
    <3> QED BY <1>4, <2>1, <2>4, <3>2 DEF EditOf
  <2> QED BY <2>2, <2>3, <2>4
<1>5. CASE d = c /\ Step(c) /\ ~EditStep(c)
  <2>1. edit[c].pc = "idle"
    BY <1>5, EditBlocks
  <2>2. ASSUME NEW kind, NEW u, NEW by, EditGet(c, kind, u, by)
        PROVE  edit'[c].kind = kind /\ edit'[c].user = u /\ edit'[c].by = by
    <3>1. edit'[c] = [pc |-> "put", kind |-> kind, user |-> u, by |-> by,
                      rep |-> acct[u], stale |-> FALSE]
      BY <1>1, <2>2 DEF EditGet
    <3> QED BY <3>1, SMTT(30)
  <2>3. r.pc # "idle" => r \in InFlight
    BY ServedIfNotIdle DEF Serving
  <2>4. CASE EditMember(c)
    <3>1. r.op \in {"disable", "enable", "delete"} /\ r.pc = "edit"
      BY <2>4 DEF EditMember, On
    <3>2. PICK u \in r.todo :
            /\ req' = [req EXCEPT ![c].todo = @ \ {u}]
            /\ \/ EditGet(c, IF r.op = "disable" THEN "suspend" ELSE "lift", u, r.org)
               \/ UNCHANGED dirVars
      BY <2>4 DEF EditMember
    <3>3. req'[c] = [r EXCEPT !.todo = @ \ {u}]
      BY <3>2 DEF RequestTypeOK
    <3>4. req'[c].op = r.op /\ req'[c].pc = r.pc /\ req'[c].org = r.org
      BY <2>3, <3>1, <3>3 DEF InFlight
    <3>5. CASE UNCHANGED dirVars
      BY <1>5, <2>1, <3>5 DEF EditOf, dirVars
    <3>6. CASE EditGet(c, IF r.op = "disable" THEN "suspend" ELSE "lift", u, r.org)
      <4>1. /\ edit'[c].by = r.org
            /\ edit'[c].kind = IF r.op = "disable" THEN "suspend" ELSE "lift"
        BY <2>2, <3>6
      <4>2. \/ r.op = "disable" /\ edit'[c].kind = "suspend"
            \/ r.op \in {"enable", "delete"} /\ edit'[c].kind = "lift"
        BY <3>1, <4>1
      <4> QED BY <1>5, <3>1, <3>4, <4>1, <4>2 DEF EditOf
    <3> QED BY <3>2, <3>5, <3>6
  <2>5. CASE RemoveUnlock(c)
    <3>1. /\ r.op \in RemoveOp /\ r.pc = "unlock" /\ Goto(c, "unlocking")
          /\ EditGet(c, "lift", r.user, r.org) \/ UNCHANGED dirVars
      BY <2>5 DEF RemoveUnlock, On
    <3>2. req'[c] = [r EXCEPT !.pc = "unlocking"]
      BY <3>1 DEF Goto, RequestTypeOK
    <3>3. /\ req'[c].op = r.op /\ req'[c].pc = "unlocking" /\ req'[c].org = r.org
          /\ req'[c].user = r.user
      BY <2>3, <3>1, <3>2 DEF InFlight
    <3>4. CASE UNCHANGED dirVars
      BY <1>5, <2>1, <3>4 DEF EditOf, dirVars
    <3>5. CASE EditGet(c, "lift", r.user, r.org)
      <4>1. edit'[c].kind = "lift" /\ edit'[c].user = r.user /\ edit'[c].by = r.org
        BY <2>2, <3>5
      <4> QED BY <1>5, <3>1, <3>3, <4>1 DEF EditOf
    <3> QED BY <3>1, <3>4, <3>5
  <2>6. CASE UserEdit(c)
    <3>1. /\ r.op \in AccountOp /\ r.pc = "read"
          /\ \/ Goto(c, "editing") /\ EditGet(c, r.op, r.user, Nobody)
             \/ UNCHANGED dirVars
      BY <2>6 DEF UserEdit, On, UserOp, AccountOp
    <3>2. CASE UNCHANGED dirVars
      BY <1>5, <2>1, <3>2 DEF EditOf, dirVars
    <3>3. CASE Goto(c, "editing") /\ EditGet(c, r.op, r.user, Nobody)
      <4>1. req'[c] = [r EXCEPT !.pc = "editing"]
        BY <3>3 DEF Goto, RequestTypeOK
      <4>2. req'[c].op = r.op /\ req'[c].pc = "editing"
        BY <2>3, <3>1, <4>1 DEF InFlight
      <4> QED BY <1>5, <2>2, <3>1, <3>3, <4>2 DEF EditOf
    <3> QED BY <3>1, <3>2, <3>3
  <2>7. CASE Join(c) \/ DeleteUserAccount(c) \/ UNCHANGED dirVars
    <3>1. edit'[c] = edit[c]
      BY <2>1, <2>7 DEF Join, CreateUser, DeleteUserAccount, DeleteUser, dirVars
    <3> QED BY <1>5, <2>1, <3>1 DEF EditOf
  <2> QED BY <1>5, <2>4, <2>5, <2>6, <2>7, Editors
<1> QED BY <1>2, <1>3, <1>4, <1>5

\* What every request does to accounts is what it is about, beside the record
\* and the accounts themselves.
EditInv == RecordInv /\ DirInv /\ \A c \in Client : EditOf(c)

LEMMA EditInit == Init => EditInv
<1> SUFFICES ASSUME Init PROVE EditInv
  OBVIOUS
<1>1. RecordInv /\ DirInv
  BY RecordInit, DirInitInv DEF Init
<1>2. \A c \in Client : edit[c].pc = "idle"
  BY NoEditIsIdle DEF Init, DirInit
<1> QED BY <1>1, <1>2 DEF EditInv, EditOf

\* Every step keeps it.
LEMMA EditNext == EditInv /\ [Next]_vars => EditInv'
<1> SUFFICES ASSUME EditInv, [Next]_vars PROVE EditInv'
  OBVIOUS
<1>1. RequestTypeOK /\ StoreTypeOK /\ DirTypeOK /\ \A c \in Client : EditOf(c)
  BY DEF EditInv, RecordInv, DirInv
<1>2. RecordInv' /\ DirInv'
  BY RecordNext, NextEdits, DirNextInv DEF EditInv
<1> SUFFICES ASSUME NEW d \in Client PROVE EditOf(d)'
  BY <1>2 DEF EditInv
<1>3. CASE UNCHANGED <<orgVars, acct, edit>>
  <2>1. req' = req /\ edit' = edit
    BY <1>3 DEF orgVars
  <2> QED BY <1>1, <2>1 DEF EditOf
<1>4. ASSUME NEW c \in Client, Begins(c) PROVE EditOf(d)'
  <2>1. edit' = edit /\ EditOf(d)
    BY <1>1, <1>4 DEF Begins, dirVars
  <2>2. CASE d = c
    BY <1>4, <2>1, <2>2 DEF Begins, EditOf
  <2>3. CASE d # c /\ Serving(d) /\ req'[d] = [req[d] EXCEPT !.clean = FALSE]
    <3>1. /\ req'[d].pc = req[d].pc /\ req'[d].op = req[d].op
          /\ req'[d].org = req[d].org /\ req'[d].user = req[d].user
      BY <2>3 DEF Serving, InFlight
    <3> QED BY <2>1, <3>1 DEF EditOf
  <2>4. CASE d # c /\ req'[d] = req[d]
    BY <2>1, <2>4 DEF EditOf
  <2> QED BY <1>1, <1>4, <2>2, <2>3, <2>4, ServedIfNotIdle DEF Begins
<1>5. ASSUME NEW c \in Client, Step(c) \/ CallFails(c), (Moves(c) /\ RecMove(c)) \/ EditStep(c)
      PROVE  EditOf(d)'
  BY <1>1, <1>5, EditOfStep
<1>6. ASSUME NEW u \in User, SignIn(u) PROVE UNCHANGED <<orgVars, acct, edit>>
  BY <1>6 DEF SignIn, Login
<1>7. UNCHANGED vars => UNCHANGED <<orgVars, acct, edit>>
  BY DEF vars, dirVars
<1> QED BY <1>1, <1>3, <1>4, <1>5, <1>6, <1>7, AcceptBegins, StepMoves DEF Next

\* What an edit does to the tags it read.
LEMMA EditedTags ==
  ASSUME NEW e \in Edit
  PROVE  /\ e.kind = "suspend" => EditedRep(e).tags = e.rep.tags \cup {e.by}
         /\ e.kind = "lift" => EditedRep(e).tags = e.rep.tags \ {e.by}
         /\ e.kind \in AccountOp => EditedRep(e).tags = e.rep.tags
<1>1. e.rep \in Rep /\ e.kind \in Kind
  BY DEF Edit
<1>2. /\ e.kind = "suspend" => EditedRep(e) = SuspendRep(e.rep, e.by)
      /\ e.kind = "lift" => EditedRep(e) = LiftRep(e.rep, e.by)
      /\ e.kind = "ban" => EditedRep(e) = BanRep(e.rep)
      /\ e.kind = "unban" => EditedRep(e) = UnbanRep(e.rep)
      /\ e.kind = "profile" => EditedRep(e) = e.rep
  BY DEF EditedRep
<1>3. SuspendRep(e.rep, e.by).tags = e.rep.tags \cup {e.by}
  BY <1>1, SMTT(30) DEF SuspendRep, Rep
<1>4. LiftRep(e.rep, e.by).tags = e.rep.tags \ {e.by}
  <2>1. CASE e.by \notin e.rep.tags
    BY <2>1 DEF LiftRep
  <2>2. CASE e.by \in e.rep.tags
    BY <1>1, <2>2, SMTT(30) DEF LiftRep, Rep
  <2> QED BY <2>1, <2>2
<1>5. BanRep(e.rep).tags = e.rep.tags /\ UnbanRep(e.rep).tags = e.rep.tags
  BY <1>1, SMTT(30) DEF BanRep, UnbanRep, Rep
<1> QED BY <1>2, <1>3, <1>4, <1>5 DEF AccountOp

\* The PUT of an edit sets or drops one tag of one account.
LEMMA EditWrites ==
  ASSUME DirInv, NEW c \in Client, EditStep(c), NEW o \in Org, NEW u \in User
  PROVE  /\ \/ Editing(c, "suspend", o, u) /\ Tagged(o, u)'
            \/ Editing(c, "lift", o, u) /\ ~Tagged(o, u)'
            \/ /\ ~Editing(c, "suspend", o, u) /\ ~Editing(c, "lift", o, u)
               /\ Tagged(o, u)' <=> Tagged(o, u)
         /\ \A k : ~Editing(c, k, o, u)'
<1> DEFINE e == edit[c]
<1>1. acct \in [User -> Rep] /\ edit \in [Client -> Edit \cup {NoEdit}]
  BY DEF DirInv, DirTypeOK
<1>2. \A k : ~Editing(c, k, o, u)'
  <2>1. edit'[c] = NoEdit \/ edit'[c] = [e EXCEPT !.pc = "logout"]
    BY <1>1 DEF EditStep, EditPut, Logout
  <2>2. e \in Edit
    BY <1>1, NoEditIsIdle DEF EditStep, EditPut, Logout
  <2>3. edit'[c].pc # "put"
    BY <2>1, <2>2, NoEditIsIdle DEF Edit
  <2> QED BY <2>3 DEF Editing
<1>3. CASE Logout(c)
  BY <1>2, <1>3 DEF Logout, Editing, Tagged
<1>4. CASE EditPut(c)
  <2>1. /\ e.pc = "put" /\ e \in Edit /\ EditOK(c)
        /\ acct' = IF e.stale THEN acct ELSE [acct EXCEPT ![e.user] = EditedRep(e)]
    BY <1>1, <1>4, NoEditIsIdle DEF EditPut, DirInv
  <2>2. CASE e.stale \/ e.user # u
    <3>1. acct'[u] = acct[u]
      BY <1>1, <2>1, <2>2
    <3> QED BY <1>2, <2>2, <3>1 DEF Editing, Tagged
  <2>3. CASE ~e.stale /\ e.user = u
    <3>1. acct'[u].tags = EditedRep(e).tags /\ e.rep = acct[u]
      BY <1>1, <2>1, <2>3 DEF EditOK
    <3>2. e.kind \in {"suspend", "lift"} \cup AccountOp
      BY <2>1 DEF Edit, Kind, AccountOp
    <3>3. CASE e.kind = "suspend"
      BY <1>2, <2>1, <2>3, <3>1, <3>3, EditedTags DEF Editing, Tagged
    <3>4. CASE e.kind = "lift"
      BY <1>2, <2>1, <2>3, <3>1, <3>4, EditedTags DEF Editing, Tagged
    <3>5. CASE e.kind \in AccountOp
      BY <1>2, <2>1, <3>1, <3>5, EditedTags DEF Editing, Tagged, AccountOp
    <3> QED BY <3>2, <3>3, <3>4, <3>5
  <2> QED BY <2>2, <2>3
<1> QED BY <1>3, <1>4 DEF EditStep

\* No other step does, but that an account is deleted with its tags.
LEMMA TagKept ==
  ASSUME DirInv, RequestTypeOK, NEW c \in Client, NEW o \in Org, NEW u \in User,
         Step(c) \/ CallFails(c), ~EditStep(c)
  PROVE  IF DeleteUserAccount(c) /\ req[c].user = u THEN ~Tagged(o, u)'
         ELSE Tagged(o, u)' <=> Tagged(o, u)
<1>1. acct \in [User -> Rep] /\ \A x \in User : ~acct[x].known => acct[x].tags = {}
  BY DEF DirInv, DirTypeOK, RepOK
<1>2. CASE acct' = acct
  <2>1. DeleteUserAccount(c) => ~acct[req[c].user].known
    <3>1. NoAccount.known = FALSE
      BY SMTT(30) DEF NoAccount
    <3>2. ASSUME acct' = [acct EXCEPT ![req[c].user] = NoAccount], req[c].user \in User
          PROVE  ~acct[req[c].user].known
      BY <1>1, <1>2, <3>1, <3>2
    <3>3. DeleteUserAccount(c) => req[c].user \in User
      BY ServedIfNotIdle DEF DeleteUserAccount, On, Serving, Addressed, UserOp
    <3> QED BY <3>2, <3>3 DEF DeleteUserAccount, DeleteUser
  <2> QED BY <1>1, <1>2, <2>1 DEF Tagged
<1>3. CASE EditMember(c) \/ RemoveUnlock(c) \/ UserEdit(c) \/ CallFails(c)
  BY <1>2, <1>3 DEF EditMember, RemoveUnlock, UserEdit, CallFails, EditFails, EditGet,
     dirVars
<1>4. CASE Join(c) /\ CreateUser(req[c].user)
  <2>1. /\ ~acct[req[c].user].known
        /\ acct' = [acct EXCEPT ![req[c].user] = FreshAccount]
    BY <1>4 DEF CreateUser
  <2>2. CASE req[c].user = u
    <3>1. acct'[u] = FreshAccount
      BY <1>1, <2>1, <2>2
    <3>2. FreshAccount.tags = {}
      BY SMTT(30) DEF FreshAccount, NoAccount
    <3> QED BY <1>1, <2>1, <2>2, <3>1, <3>2 DEF Tagged
  <2>3. CASE req[c].user # u
    BY <1>1, <2>1, <2>3 DEF Tagged
  <2>4. ~DeleteUserAccount(c)
    BY <1>4 DEF Join, DeleteUserAccount, On
  <2> QED BY <2>2, <2>3, <2>4
<1>5. CASE DeleteUserAccount(c) /\ DeleteUser(req[c].user)
  <2>1. acct' = [acct EXCEPT ![req[c].user] = NoAccount]
    BY <1>5 DEF DeleteUser
  <2>2. CASE req[c].user = u
    <3>1. acct'[u] = NoAccount
      BY <1>1, <2>1, <2>2
    <3>2. NoAccount.tags = {}
      BY SMTT(30) DEF NoAccount
    <3> QED BY <1>5, <2>2, <3>1, <3>2 DEF Tagged
  <2>3. CASE req[c].user # u
    BY <1>1, <2>1, <2>3 DEF Tagged
  <2> QED BY <2>2, <2>3
<1> QED BY <1>2, <1>3, <1>4, <1>5, Editors
        DEF Join, DeleteUserAccount, dirVars

\* The request is taking the user out, and has not lifted the lock yet.
Leaving(r, o) ==
  r.op \in RemoveOp /\ r.org = o /\ r.pc \in {"load", "disp", "unlock", "unlocking"}

\* The edit a request begins.
LEMMA EditBegins ==
  ASSUME DirInv, NEW c \in Client, NEW k, NEW o, NEW u, EditGet(c, k, u, o)
  PROVE  Editing(c, k, o, u)'
<1>1. edit'[c] = [pc |-> "put", kind |-> k, user |-> u, by |-> o, rep |-> acct[u],
                  stale |-> FALSE]
  BY DEF EditGet, DirInv, DirTypeOK
<1> QED BY <1>1, SMTT(30) DEF Editing
=============================================================================
