---------------------------- MODULE MemberProofs ----------------------------
(* Proofs about the members of organizations, for any number of users,       *)
(* organizations and requests: the stores agree on who is a member, a create *)
(* that failed leaves nothing, and only members are locked by an             *)
(* organization.                                                             *)
EXTENDS OrganizationMoves

\* A leaf that names no prover is one for Zenon.
USE ZenonT(30)

-----------------------------------------------------------------------------
(* Who is a member                                                           *)

Holds(o, x, u) == <<o, x, u>> \in tuple
HasRole(o, u) == \E x \in Role : Holds(o, x, u)
Owns(o, u) == <<o, u>> \in owner

\* What Keycloak, SpiceDB and the agents say of a user in an organization.
Agree(o, u) == (Owns(o, u) => In(o, u)) /\ (In(o, u) <=> HasRole(o, u))
Bare(o, u) == ~In(o, u) /\ ~HasRole(o, u) /\ ~Owns(o, u)

\* What a create that found no record knows of user u: nothing of theirs is in
\* the organization but what the request itself has put there for its user.
BarePoint == {"cap", "mine", "kc", "put", "tuple", "unPut", "unKc", "unwound"}

Fresh(r, o, u) ==
  /\ ~Owns(o, u) /\ ~Holds(o, "member", u)
  /\ r.user # u \/ r.pc \in BarePoint => Bare(o, u)
  /\ r.pc = "join" => ~In(o, u)
  /\ r.pc = "unJoin" => ~HasRole(o, u)

\* What a request at work on user u of organization o relies on, by operation.
AddOK(r, o, u) ==
  r.op = "add" => /\ r.pc # "read" => org[o].known
                  /\ r.pc = "tuple" => In(o, u)
                  /\ r.pc # "unJoin"

RoleOK(r, o, u) ==
  r.op = "role" => /\ r.pc \in {"tuple", "other"} => In(o, u)
                   /\ r.pc = "other" => Holds(o, r.role, u)

SpawnOK(r, o, u) == r.op = "spawn" /\ r.pc = "spawn" => In(o, u)

RemoveOK(r, o, u) ==
  r.op \in RemoveOp /\ r.org = o =>
    /\ r.pc \in {"leave", "load", "disp"} => ~HasRole(o, u)
    /\ r.pc = "leave" => (Owns(o, u) => In(o, u))
    /\ r.pc \in {"load", "disp"} => ~In(o, u)

DeleteOK(r, o, u) ==
  r.op = "delete" =>
    /\ r.pc = "drop" => (In(o, u) => u \in r.todo)
    /\ r.pc \in {"unUris", "unUrisPut", "kcDelete"} =>
         ~HasRole(o, u) /\ (Owns(o, u) => In(o, u))
    /\ r.pc = "storeDelete" => ~In(o, u)

CreateOK(r, o, u) ==
  r.op \in CreateOp =>
    /\ r.pc \in {"tuple", "join", "uris", "urisPut"} => org[o].known
    /\ r.pc = "join" /\ r.user = u =>
         HasRole(o, u) /\ (Owns(o, u) => In(o, u))
    /\ r.pc \in Unwinding \cup {"unwound"} => ~r.rec.known
    /\ r.pc # "read" /\ ~r.rec.known => Fresh(r, o, u)

RequestOK(r, o, u) ==
  /\ AddOK(r, o, u) /\ RoleOK(r, o, u) /\ SpawnOK(r, o, u)
  /\ RemoveOK(r, o, u) /\ DeleteOK(r, o, u) /\ CreateOK(r, o, u)

\* The request is between two writes that belong together.
LooseCreate(r, o, u) ==
  /\ r.op \in CreateOp /\ r.user = u
  /\ r.pc \in {"join", "unUris", "unUrisPut", "unTuple", "unJoin"}
LooseRemove(r, o, u) ==
  r.op \in RemoveOp /\ r.org = o /\ r.pc \in {"leave", "load", "disp"}
LooseDelete(r) ==
  r.op = "delete" /\ r.pc \in {"unUris", "unUrisPut", "kcDelete"}
LooseAdd(r) == r.op = "add" /\ r.pc = "tuple"
Loose(r, o, u) == \/ LooseCreate(r, o, u) \/ LooseRemove(r, o, u)
                  \/ LooseDelete(r) \/ LooseAdd(r)

Known(o, u) == In(o, u) => org[o].known

\* What holds of a pair no conflict and no failure has touched.
PairOK(o, u) ==
  /\ Known(o, u)
  /\ \A c \in Client : InTouch(c, o, u) => RequestOK(req[c], o, u)
  /\ Agree(o, u) \/ \E c \in Client : InTouch(c, o, u) /\ Loose(req[c], o, u)

\* ... when request r is the only one at work on it.
Alone(r, o, u) ==
  Known(o, u) /\ RequestOK(r, o, u) /\ (Agree(o, u) \/ Loose(r, o, u))

\* Nothing of the pair changes.
PairKept(o, u) ==
  /\ In(o, u)' <=> In(o, u)
  /\ \A x \in Role : Holds(o, x, u)' <=> Holds(o, x, u)
  /\ Owns(o, u)' <=> Owns(o, u)
  /\ org'[o].known <=> org[o].known

LEMMA PairKeptMeans ==
  ASSUME NEW o, NEW u, PairKept(o, u)
  PROVE  /\ HasRole(o, u)' <=> HasRole(o, u)
         /\ Agree(o, u)' <=> Agree(o, u)
         /\ Bare(o, u)' <=> Bare(o, u)
         /\ Known(o, u)' <=> Known(o, u)
<1>1. HasRole(o, u)' <=> HasRole(o, u)
  BY DEF PairKept, HasRole
<1> QED BY <1>1 DEF PairKept, Agree, Bare, Known

\* A request that is over asks for nothing but agreement.
LEMMA AloneIdle ==
  ASSUME NEW o, NEW u
  PROVE  Alone(Idle, o, u) <=> Known(o, u) /\ Agree(o, u)
BY IdleFields
   DEF Alone, RequestOK, AddOK, RoleOK, SpawnOK, RemoveOK, DeleteOK, CreateOK, Loose,
       LooseCreate, LooseRemove, LooseDelete, LooseAdd, CreateOp, RemoveOp

LEMMA AloneCreate ==
  ASSUME NEW r, NEW o, NEW u, r.op \in CreateOp
  PROVE  Alone(r, o, u) <=> /\ Known(o, u) /\ CreateOK(r, o, u)
                            /\ Agree(o, u) \/ LooseCreate(r, o, u)
BY DEF Alone, RequestOK, AddOK, RoleOK, SpawnOK, RemoveOK, DeleteOK, Loose, LooseRemove,
       LooseDelete, LooseAdd, CreateOp, RemoveOp

LEMMA AloneRemove ==
  ASSUME NEW r, NEW o, NEW u, r.op \in RemoveOp
  PROVE  Alone(r, o, u) <=> /\ Known(o, u) /\ RemoveOK(r, o, u)
                            /\ Agree(o, u) \/ LooseRemove(r, o, u)
BY DEF Alone, RequestOK, AddOK, RoleOK, SpawnOK, CreateOK, DeleteOK, Loose, LooseCreate,
       LooseDelete, LooseAdd, CreateOp, RemoveOp

LEMMA AloneDelete ==
  ASSUME NEW r, NEW o, NEW u, r.op = "delete"
  PROVE  Alone(r, o, u) <=> /\ Known(o, u) /\ DeleteOK(r, o, u)
                            /\ Agree(o, u) \/ LooseDelete(r)
BY DEF Alone, RequestOK, AddOK, RoleOK, SpawnOK, RemoveOK, CreateOK, Loose, LooseRemove,
       LooseCreate, LooseAdd, CreateOp, RemoveOp

\* A create alone on a pair.
LEMMA CreateAlone ==
  ASSUME RequestTypeOK, StoreTypeOK, NEW c \in Client, NEW o \in Org, NEW u \in User,
         req[c].op \in CreateOp, req[c].org = o, Moves(c), RecMove(c),
         Step(c) \/ CallFails(c), ~EditStep(c), <<o, u>> \notin frayed',
         Alone(req[c], o, u)
  PROVE  Alone(req[c], o, u)'
<1> DEFINE r == req[c]
           s == req'[c]
           Goal == Alone(req[c], o, u)'
<1>1. Known(o, u) /\ CreateOK(r, o, u) /\ (Agree(o, u) \/ LooseCreate(r, o, u))
  BY AloneCreate
<1>2. /\ r \in InFlight /\ r.pc # "idle" /\ r.role = "admin" /\ r.user \in User
      /\ r.op \notin RemoveOp \cup {"add", "role", "delete", "deleteUser"}
  <2>1. r \in InFlight /\ r.pc # "idle"
    BY DEF Moves, InFlight, Point, PlainPoint, UriPoint, LeavePoint
  <2>2. r.op \notin RemoveOp \cup {"add", "role", "delete", "deleteUser"}
    BY DEF CreateOp, RemoveOp
  <2> QED BY <2>1, <2>2, ServedIfNotIdle DEF Serving, Addressed, GrantOp
<1>3. s # Idle => /\ s.op = r.op /\ s.user = r.user /\ s.org = o
                  /\ r.pc # "read" => s.rec = r.rec
  BY <1>2 DEF Moves, Same, RecMove
<1>4. ASSUME s = Idle, Known(o, u)', Agree(o, u)' PROVE Goal
  <2>1. Alone(Idle, o, u)' <=> Known(o, u)' /\ Agree(o, u)'
    BY AloneIdle, PTL
  <2> QED BY <1>4, <2>1
<1>5. ASSUME s # Idle, Known(o, u)', CreateOK(req[c], o, u)',
             Agree(o, u)' \/ LooseCreate(req[c], o, u)'
      PROVE  Goal
  <2>1. s.op \in CreateOp
    BY <1>3, <1>5
  <2> QED BY <1>5, <2>1
          DEF Alone, RequestOK, AddOK, RoleOK, SpawnOK, RemoveOK, DeleteOK, Loose,
              CreateOp, RemoveOp
<1>6. ASSUME UNCHANGED <<org, member, tuple, owner>>
      PROVE  PairKept(o, u)
  BY <1>6 DEF PairKept, In, Holds, Owns
<1>7. ASSUME PairKept(o, u), s = Idle,
             r.pc \notin {"join", "unUris", "unUrisPut", "unTuple", "unJoin"}
      PROVE  Goal
  BY <1>1, <1>4, <1>7, PairKeptMeans DEF LooseCreate
<1>8. ASSUME PairKept(o, u), s.pc \in {"mine", "kc", "put", "unKc", "unwound"},
             r.pc \in {"cap", "mine", "kc", "put", "unKc"},
             s.pc \in {"unKc", "unwound"} => ~r.rec.known
      PROVE  Goal
  <2>1. s # Idle /\ s.rec = r.rec
    BY <1>3, <1>8, IdleFields
  <2>2. Agree(o, u)' /\ Known(o, u)'
    BY <1>1, <1>8, PairKeptMeans DEF LooseCreate
  <2>3. ~r.rec.known => Bare(o, u)'
    BY <1>1, <1>8, PairKeptMeans DEF CreateOK, Fresh, BarePoint
  <2>4. ~r.rec.known => Fresh(req[c], o, u)'
    BY <1>8, <2>3 DEF Fresh, Bare, HasRole, Role
  <2>5. CreateOK(req[c], o, u)'
    BY <1>8, <2>1, <2>4 DEF CreateOK, Unwinding
  <2> QED BY <1>5, <2>1, <2>2, <2>5
<1>9. ASSUME PairKept(o, u), s.pc \in {"urisPut", "unUris", "unUrisPut", "unTuple"},
             r.pc \in {"tuple", "join", "uris", "urisPut", "unUris", "unUrisPut"},
             s.pc = "urisPut" => r.pc = "uris",
             s.pc # "urisPut" => ~r.rec.known
      PROVE  Goal
  <2>1. s # Idle /\ s.rec = r.rec
    BY <1>3, <1>9, IdleFields
  <2>2. ~r.rec.known => Fresh(r, o, u)
    BY <1>1, <1>9 DEF CreateOK
  <2>3. ~r.rec.known => Fresh(req[c], o, u)'
    <3>1. "member" \in Role
      BY DEF Role
    <3> QED BY <1>3, <1>9, <2>1, <2>2, <3>1, PairKeptMeans
            DEF Fresh, BarePoint, PairKept
  <2>4. CreateOK(req[c], o, u)'
    BY <1>1, <1>9, <2>1, <2>3 DEF CreateOK, Unwinding, PairKept
  <2>5. Agree(o, u)' \/ LooseCreate(req[c], o, u)'
    <3>1. CASE s.pc = "urisPut"
      BY <1>1, <1>9, <3>1, PairKeptMeans DEF LooseCreate
    <3>2. CASE s.pc # "urisPut" /\ r.user = u
      BY <1>3, <1>9, <2>1, <3>2 DEF LooseCreate
    <3>3. CASE s.pc # "urisPut" /\ r.user # u
      BY <1>9, <2>2, <3>3, PairKeptMeans DEF Fresh, Bare, Agree
    <3> QED BY <3>1, <3>2, <3>3
  <2>6. Known(o, u)'
    BY <1>1, <1>9, PairKeptMeans
  <2> QED BY <1>5, <2>1, <2>4, <2>5, <2>6
<1>10. Reply(c) => s = Idle
  BY DEF Reply, RequestTypeOK
<1>11. ASSUME CreateRead(c) PROVE Goal
  <2> DEFINE p == IF r.op = "signup" THEN "cap" ELSE "kc"
  <2>1. /\ r.pc = "read" /\ UNCHANGED <<org, member, tuple, owner>>
        /\ req' = [req EXCEPT ![c].rec = org[r.org], ![c].pc = p]
    BY <1>11 DEF CreateRead, On, Reads
  <2>2. s = [r EXCEPT !.rec = org[o], !.pc = p]
    BY <2>1 DEF RequestTypeOK
  <2>3. s.pc \in {"cap", "kc"} /\ s.rec = org[o]
    BY <1>2, <2>2 DEF InFlight
  <2>4. s # Idle
    BY <2>3, IdleFields
  <2>5. Agree(o, u)' /\ Known(o, u)' /\ (~org[o].known => Bare(o, u)')
    <3>1. Agree(o, u) /\ Known(o, u)
      BY <1>1, <2>1 DEF LooseCreate
    <3>2. ~org[o].known => Bare(o, u)
      BY <3>1 DEF Agree, Known, Bare
    <3> QED BY <1>6, <2>1, <3>1, <3>2, PairKeptMeans
  <2>6. ~org[o].known => Fresh(req[c], o, u)'
    BY <2>3, <2>5 DEF Fresh, Bare, HasRole, Role
  <2>7. CreateOK(req[c], o, u)'
    BY <2>3, <2>6 DEF CreateOK, Unwinding
  <2> QED BY <1>5, <2>4, <2>5, <2>7
<1>12. ASSUME SignupCap(c) \/ SignupMine(c) \/ CreateKc(c) \/ UnwindKc(c) \/ Unwound(c)
       PROVE  Goal
  <2>1. /\ \/ r.pc \in {"cap", "mine", "unwound"} /\ Reply(c)
           \/ r.pc = "cap" /\ Goto(c, "mine")
           \/ r.pc = "mine" /\ Goto(c, "kc")
           \/ r.pc = "kc" /\ Goto(c, "put")
           \/ r.pc = "unKc" /\ Goto(c, "unwound")
        /\ UNCHANGED <<org, tuple, owner>>
        /\ member' = IF UnwindKc(c) THEN {m \in member : m[1] # o} ELSE member
    BY <1>12 DEF SignupCap, SignupMine, CreateKc, UnwindKc, Unwound, On, Reads
  <2>2. r.pc = "unKc" => ~r.rec.known /\ ~In(o, u)
    BY <1>1 DEF CreateOK, Fresh, BarePoint, Bare, Unwinding
  <2>3. PairKept(o, u)
    <3>1. In(o, u)' <=> In(o, u)
      <4>1. CASE UnwindKc(c)
        BY <2>1, <2>2, <4>1 DEF In, UnwindKc, On
      <4> QED BY <2>1, <4>1 DEF In
    <3> QED BY <2>1, <3>1 DEF PairKept, Holds, Owns
  <2>4. \/ s = Idle /\ r.pc \in {"cap", "mine", "unwound"}
        \/ r.pc = "cap" /\ s.pc = "mine"
        \/ r.pc = "mine" /\ s.pc = "kc"
        \/ r.pc = "kc" /\ s.pc = "put"
        \/ r.pc = "unKc" /\ s.pc = "unwound"
    BY <1>2, <1>10, <2>1, GotoPoint
  <2> QED BY <1>7, <1>8, <2>2, <2>3, <2>4
<1>13. ASSUME UrisGet(c) \/ UrisPut(c) PROVE Goal
  <2>1. /\ r.pc \in UriPoint /\ UNCHANGED <<org, member, tuple, owner>>
    BY <1>13 DEF UrisGet, UrisPut, Reads, UriPoint
  <2>2. ASSUME UrisPut(c)
        PROVE  \/ r.pc = "urisPut" /\ s = Idle
               \/ r.pc = "unUrisPut" /\ s.pc = "unTuple"
    BY <1>2, <1>10, <2>2, GotoPoint DEF UrisPut
  <2>3. ASSUME UrisGet(c)
        PROVE  \/ r.pc = "uris" /\ s.pc = "urisPut"
               \/ r.pc = "unUris" /\ s.pc = "unUrisPut"
    <3> DEFINE p == IF r.pc = "uris" THEN "urisPut" ELSE "unUrisPut"
    <3>1. /\ r.pc \in {"uris", "unUris"}
          /\ req' = [req EXCEPT ![c].seen = uris, ![c].pc = p]
      BY <2>3 DEF UrisGet
    <3>2. s = [r EXCEPT !.seen = uris, !.pc = p]
      BY <3>1 DEF RequestTypeOK
    <3>3. s.pc = p
      BY <1>2, <3>2 DEF InFlight
    <3> QED BY <3>1, <3>3
  <2>4. r.pc \in {"unUris", "unUrisPut"} => ~r.rec.known
    BY <1>1 DEF CreateOK, Unwinding
  <2>5. PairKept(o, u)
    BY <1>6, <2>1
  <2> QED BY <1>7, <1>9, <1>13, <2>2, <2>3, <2>4, <2>5
<1>14. ASSUME CreatePut(c) PROVE Goal
  <2>1. /\ r.pc = "put" /\ Goto(c, "tuple") /\ UNCHANGED <<member, tuple, owner>>
        /\ org' = [org EXCEPT ![o] = IF r.rec.known THEN [r.rec EXCEPT !.sub = "none"]
                                     ELSE NewRec]
    BY <1>14 DEF CreatePut, On
  <2>2. s.pc = "tuple" /\ s # Idle /\ s.rec = r.rec
    BY <1>2, <1>3, <2>1, GotoPoint, IdleFields
  <2>3. org'[o].known
    <3>1. NewRec.known
      BY SMTT(30) DEF NewRec, NoRec
    <3>2. r.rec.known => [r.rec EXCEPT !.sub = "none"].known
      BY <1>2 DEF InFlight, OrgRec
    <3>3. org'[o] = IF r.rec.known THEN [r.rec EXCEPT !.sub = "none"] ELSE NewRec
      BY <2>1 DEF StoreTypeOK
    <3> QED BY <3>1, <3>2, <3>3
  <2>4. Agree(o, u)' /\ (~r.rec.known => Bare(o, u)')
    <3>1. Agree(o, u) /\ (~r.rec.known => Bare(o, u))
      BY <1>1, <2>1 DEF LooseCreate, CreateOK, Fresh, BarePoint
    <3> QED BY <2>1, <3>1 DEF Agree, Bare, In, HasRole, Holds, Owns
  <2>5. ~r.rec.known => Fresh(req[c], o, u)'
    BY <2>2, <2>4 DEF Fresh, Bare, HasRole, Role
  <2>6. CreateOK(req[c], o, u)' /\ Known(o, u)'
    BY <2>2, <2>3, <2>5 DEF CreateOK, Unwinding, Known
  <2> QED BY <1>5, <2>2, <2>4, <2>6
<1>15. ASSUME WriteTuple(c) PROVE Goal
  <2>1. /\ r.pc = "tuple" /\ Goto(c, "join") /\ UNCHANGED <<org, member, owner>>
        /\ tuple' = tuple \cup {<<o, "admin", r.user>>}
    BY <1>2, <1>15 DEF WriteTuple, On
  <2>2. s.pc = "join" /\ s # Idle /\ s.rec = r.rec
    BY <1>2, <1>3, <2>1, GotoPoint, IdleFields
  <2>3. /\ In(o, u)' <=> In(o, u)
        /\ Owns(o, u)' <=> Owns(o, u)
        /\ Holds(o, "member", u)' <=> Holds(o, "member", u)
        /\ r.user = u => HasRole(o, u)'
        /\ r.user # u => (HasRole(o, u)' <=> HasRole(o, u))
    BY <2>1, SMTT(30) DEF In, Owns, HasRole, Holds, Role
  <2>4. Agree(o, u) /\ (~r.rec.known => Bare(o, u)) /\ org[o].known
    BY <1>1, <2>1 DEF LooseCreate, CreateOK, Fresh, BarePoint
  <2>5. ~r.rec.known => Fresh(req[c], o, u)'
    <3>1. ~r.rec.known => ~Holds(o, "member", u)
      BY <2>4 DEF Bare, HasRole, Role
    <3> QED BY <1>3, <2>2, <2>3, <2>4, <3>1 DEF Fresh, Bare, BarePoint
  <2>6. CreateOK(req[c], o, u)'
    BY <1>3, <2>1, <2>2, <2>3, <2>4, <2>5 DEF CreateOK, Unwinding, Agree
  <2>7. Known(o, u)' /\ (Agree(o, u)' \/ LooseCreate(req[c], o, u)')
    BY <1>3, <2>1, <2>2, <2>3, <2>4 DEF Known, Agree, LooseCreate
  <2> QED BY <1>5, <2>2, <2>6, <2>7
<1>16. ASSUME Join(c) PROVE Goal
  <2>1. /\ r.pc = "join" /\ Goto(c, "uris") /\ UNCHANGED <<org, tuple, owner>>
        /\ member' = member \cup {<<o, r.user>>}
    BY <1>2, <1>16 DEF Join, On
  <2>2. s.pc = "uris" /\ s # Idle /\ s.rec = r.rec
    BY <1>2, <1>3, <2>1, GotoPoint, IdleFields
  <2>3. /\ r.user = u => In(o, u)'
        /\ r.user # u => (In(o, u)' <=> In(o, u))
        /\ Owns(o, u)' <=> Owns(o, u)
        /\ Holds(o, "member", u)' <=> Holds(o, "member", u)
        /\ HasRole(o, u)' <=> HasRole(o, u)
    BY <2>1, SMTT(30) DEF In, Owns, HasRole, Holds
  <2>4. /\ r.user # u => Agree(o, u)
        /\ r.user = u => HasRole(o, u)
        /\ ~r.rec.known => Fresh(r, o, u)
        /\ org[o].known
    BY <1>1, <2>1 DEF LooseCreate, CreateOK
  <2>5. ~r.rec.known => Fresh(req[c], o, u)'
    BY <1>3, <2>2, <2>3, <2>4 DEF Fresh, Bare, BarePoint
  <2>6. CreateOK(req[c], o, u)'
    BY <1>3, <2>1, <2>2, <2>4, <2>5 DEF CreateOK, Unwinding
  <2>7. Known(o, u)' /\ Agree(o, u)'
    BY <2>1, <2>3, <2>4 DEF Known, Agree
  <2> QED BY <1>5, <2>2, <2>6, <2>7
<1>17. ASSUME UnwindTuple(c) PROVE Goal
  <2>1. /\ r.pc = "unTuple" /\ Goto(c, "unJoin") /\ UNCHANGED <<org, member, owner>>
        /\ tuple' = tuple \ {<<o, "admin", r.user>>}
    BY <1>17 DEF UnwindTuple, On
  <2>2. s.pc = "unJoin" /\ s # Idle /\ s.rec = r.rec
    BY <1>2, <1>3, <2>1, GotoPoint, IdleFields
  <2>3. ~r.rec.known /\ Fresh(r, o, u)
    BY <1>1, <2>1 DEF CreateOK, Unwinding
  <2>4. /\ In(o, u)' <=> In(o, u)
        /\ Owns(o, u)' <=> Owns(o, u)
        /\ ~Holds(o, "member", u)'
        /\ ~HasRole(o, u)'
    <3>1. r.user # u => ~HasRole(o, u)
      BY <2>3 DEF Fresh, Bare
    <3> QED BY <2>1, <2>3, <3>1, SMTT(30) DEF In, Owns, HasRole, Holds, Role, Fresh
  <2>5. Fresh(req[c], o, u)'
    BY <1>3, <2>2, <2>3, <2>4 DEF Fresh, Bare, BarePoint
  <2>6. CreateOK(req[c], o, u)'
    BY <2>2, <2>3, <2>5 DEF CreateOK
  <2>7. Known(o, u)' /\ (Agree(o, u)' \/ LooseCreate(req[c], o, u)')
    BY <1>1, <1>3, <2>1, <2>2, <2>3, <2>4
    DEF Known, Agree, LooseCreate, Fresh, Bare
  <2> QED BY <1>5, <2>2, <2>6, <2>7
<1>18. ASSUME UnwindJoin(c) PROVE Goal
  <2>1. r.pc = "unJoin" /\ ~r.rec.known /\ Fresh(r, o, u)
    BY <1>1, <1>18 DEF CreateOK, Unwinding, UnwindJoin, On
  <2>2. /\ Goto(c, "unPut") /\ UNCHANGED <<org, tuple, owner>>
        /\ member' = member \ {<<o, r.user>>}
    BY <1>2, <1>18, <2>1 DEF UnwindJoin
  <2>3. s.pc = "unPut" /\ s # Idle /\ s.rec = r.rec
    BY <1>2, <1>3, <2>1, <2>2, GotoPoint, IdleFields
  <2>4. Bare(o, u)'
    <3>1. r.user # u => ~In(o, u)
      BY <2>1 DEF Fresh, Bare
    <3>2. ~In(o, u)'
      BY <2>2, <3>1 DEF In
    <3>3. ~HasRole(o, u)' /\ ~Owns(o, u)'
      BY <2>1, <2>2 DEF Fresh, HasRole, Holds, Owns
    <3> QED BY <3>2, <3>3 DEF Bare
  <2>5. Fresh(req[c], o, u)'
    BY <2>3, <2>4 DEF Fresh, Bare, HasRole, Role
  <2>6. CreateOK(req[c], o, u)'
    BY <2>1, <2>3, <2>5 DEF CreateOK
  <2>7. Known(o, u)' /\ Agree(o, u)'
    BY <2>4 DEF Known, Agree, Bare
  <2> QED BY <1>5, <2>3, <2>6, <2>7
<1>19. ASSUME UnwindPut(c) PROVE Goal
  <2>1. r.pc = "unPut" /\ ~r.rec.known /\ Bare(o, u)
    BY <1>1, <1>19 DEF CreateOK, Unwinding, UnwindPut, On, Fresh, BarePoint
  <2>2. Goto(c, "unKc") /\ UNCHANGED <<member, tuple, owner>>
    BY <1>19 DEF UnwindPut
  <2>3. s.pc = "unKc" /\ s # Idle /\ s.rec = r.rec
    BY <1>2, <1>3, <2>1, <2>2, GotoPoint, IdleFields
  <2>4. Bare(o, u)'
    BY <2>1, <2>2 DEF Bare, In, HasRole, Holds, Owns
  <2>5. Fresh(req[c], o, u)'
    BY <2>3, <2>4 DEF Fresh, Bare, HasRole, Role
  <2>6. CreateOK(req[c], o, u)'
    BY <2>1, <2>3, <2>5 DEF CreateOK
  <2>7. Known(o, u)' /\ Agree(o, u)'
    BY <2>4 DEF Known, Agree, Bare
  <2> QED BY <1>5, <2>3, <2>6, <2>7
<1>20. ASSUME CallFails(c) PROVE Goal
  <2>1. PairKept(o, u)
    BY <1>6, <1>20 DEF CallFails
  <2>2. ~r.rec.known /\ r.pc \notin Unwinding
    <3>1. <<o, u>> \in PairsOf(o, About(r.op, r.user))
      BY NobodyIsNoUser DEF PairsOf, About
    <3> QED BY <1>20, <3>1 DEF CallFails
  <2>3. AfterFailure(r) = CASE r.pc = "put" -> "unKc"
                            [] r.pc \in {"tuple", "join"} -> "unTuple"
                            [] r.pc \in {"uris", "urisPut"} -> "unUris"
                            [] OTHER -> "idle"
    BY <1>2, <2>2 DEF AfterFailure, Unwinding
  <2>4. s = Idle \/ s.pc = AfterFailure(r)
    BY <1>20, FailureMoves
  <2>5. CASE s = Idle
    <3>1. r.pc # "join"
      <4>1. ASSUME r.pc = "join" PROVE FALSE
        <5>1. AfterFailure(r) = "unTuple"
          BY <1>2, <4>1 DEF AfterFailure
        <5>2. req' = [req EXCEPT ![c] = [r EXCEPT !.pc = AfterFailure(r),
                          !.clean = @ /\ r.pc \notin Unwinding]]
          BY <1>20, <5>1 DEF CallFails
        <5>3. s = [r EXCEPT !.pc = AfterFailure(r),
                            !.clean = @ /\ r.pc \notin Unwinding]
          BY <5>2 DEF RequestTypeOK
        <5>4. s.pc = AfterFailure(r)
          BY <1>2, <5>3 DEF InFlight
        <5> QED BY <2>5, <5>1, <5>4, IdleFields
      <4> QED BY <4>1
    <3> QED BY <1>7, <2>1, <2>2, <2>5, <3>1 DEF Unwinding
  <2>6. CASE s # Idle
    <3>1. s.pc = AfterFailure(r) /\ AfterFailure(r) # "idle"
      BY <1>20, <2>6, FailureMoves
    <3>2. \/ r.pc = "put" /\ s.pc = "unKc"
          \/ r.pc \in {"tuple", "join"} /\ s.pc = "unTuple"
          \/ r.pc \in {"uris", "urisPut"} /\ s.pc = "unUris"
      BY <2>3, <3>1
    <3> QED BY <1>8, <1>9, <2>1, <2>2, <3>2
  <2> QED BY <2>5, <2>6
<1> QED BY <1>11, <1>12, <1>13, <1>14, <1>15, <1>16, <1>17, <1>18, <1>19, <1>20,
      CreateActs

\* A removal alone on a pair.
LEMMA RemoveAlone ==
  ASSUME RequestTypeOK, StoreTypeOK, NEW c \in Client, NEW o \in Org, NEW u \in User,
         req[c].op \in RemoveOp, req[c].user = u, req[c].op = "remove" => req[c].org = o,
         Moves(c), RecMove(c), Step(c) \/ CallFails(c), ~EditStep(c),
         <<o, u>> \notin frayed', Alone(req[c], o, u)
  PROVE  Alone(req[c], o, u)'
<1> DEFINE r == req[c]
           s == req'[c]
           Goal == Alone(req[c], o, u)'
           Parting == {"leave", "load", "disp"}
<1>1. Known(o, u) /\ RemoveOK(r, o, u) /\ (Agree(o, u) \/ LooseRemove(r, o, u))
  BY AloneRemove
<1>2. /\ r \in InFlight /\ r.pc # "idle" /\ r.pc \notin UriPoint
      /\ r.op \notin CreateOp \cup {"add", "role", "spawn", "delete"}
  <2>1. r \in InFlight /\ r.pc # "idle"
    BY DEF Moves, InFlight, Point, PlainPoint, UriPoint, LeavePoint
  <2>2. r.op \notin CreateOp \cup {"add", "role", "spawn", "delete"}
    BY DEF CreateOp, RemoveOp
  <2> QED BY <2>1, <2>2, ServedIfNotIdle DEF Serving, Addressed
<1>3. s # Idle => s.op = r.op /\ s.user = r.user
  BY <1>2 DEF Moves, Same
<1>4. ASSUME s = Idle, Known(o, u)', Agree(o, u)' PROVE Goal
  <2>1. Alone(Idle, o, u)' <=> Known(o, u)' /\ Agree(o, u)'
    BY AloneIdle, PTL
  <2> QED BY <1>4, <2>1
<1>5. ASSUME s # Idle, Known(o, u)', RemoveOK(req[c], o, u)',
             Agree(o, u)' \/ LooseRemove(req[c], o, u)'
      PROVE  Goal
  <2>1. s.op \in RemoveOp
    BY <1>3, <1>5
  <2> QED BY <1>5, <2>1
          DEF Alone, RequestOK, AddOK, RoleOK, SpawnOK, CreateOK, DeleteOK, Loose,
              CreateOp, RemoveOp
<1>6. ASSUME UNCHANGED <<org, member, tuple, owner>>
      PROVE  PairKept(o, u)
  BY <1>6 DEF PairKept, In, Holds, Owns
<1>7. ASSUME Known(o, u)', Agree(o, u)',
             s = Idle \/ s.org # o \/ s.pc \notin Parting
      PROVE  Goal
  <2>1. s # Idle => RemoveOK(req[c], o, u)'
    BY <1>7 DEF RemoveOK
  <2> QED BY <1>4, <1>5, <1>7, <2>1
<1>8. ASSUME PairKept(o, u), r.org # o \/ r.pc \notin Parting,
             s = Idle \/ s.org # o \/ s.pc \notin Parting
      PROVE  Goal
  BY <1>1, <1>7, <1>8, PairKeptMeans DEF LooseRemove
<1>9. Reply(c) => s = Idle
  BY DEF Reply, RequestTypeOK
<1>10. ASSUME NEW p, Goto(c, p) PROVE s.pc = p /\ s.org = r.org
  <2>1. s = [r EXCEPT !.pc = p]
    BY <1>10 DEF Goto, RequestTypeOK
  <2> QED BY <1>2, <2>1 DEF InFlight
<1>11. ASSUME ReadOrg(c) PROVE Goal
  <2>1. /\ r.pc = "read" /\ UNCHANGED <<org, member, tuple, owner>>
        /\ Reply(c) \/ req' = [req EXCEPT ![c].pc = "untuple", ![c].rec = org[r.org]]
    BY <1>11 DEF ReadOrg, Reads, UserOp, RemoveOp
  <2>2. ASSUME ~Reply(c) PROVE s.pc = "untuple"
    <3>1. s = [r EXCEPT !.pc = "untuple", !.rec = org[r.org]]
      BY <2>1, <2>2 DEF RequestTypeOK
    <3> QED BY <1>2, <3>1 DEF InFlight
  <2> QED BY <1>6, <1>8, <1>9, <2>1, <2>2
<1>12. ASSUME RemoveUnlock(c) \/ DeleteUserEstate(c) PROVE Goal
  <2>1. /\ r.pc \in {"unlock", "read"} /\ UNCHANGED <<org, member, tuple, owner>>
        /\ Reply(c) \/ Goto(c, "unlocking") \/ Goto(c, "orgs")
    BY <1>12 DEF RemoveUnlock, DeleteUserEstate, On, Reads
  <2>2. s = Idle \/ s.pc \in {"unlocking", "orgs"}
    BY <1>9, <1>10, <2>1
  <2> QED BY <1>6, <1>8, <2>1, <2>2
<1>13. ASSUME DeleteUserOrgs(c) PROVE Goal
  <2> DEFINE v == {x \in Org : <<x, r.user>> \in member}
  <2>1. /\ r.pc = "orgs" /\ UNCHANGED <<org, member, tuple, owner>>
        /\ req' = [req EXCEPT ![c].pc = "next", ![c].rest = v]
    BY <1>13 DEF DeleteUserOrgs, On, Reads
  <2>2. s = [r EXCEPT !.pc = "next", !.rest = v]
    BY <2>1 DEF RequestTypeOK
  <2>3. s.pc = "next"
    BY <1>2, <2>2 DEF InFlight
  <2> QED BY <1>6, <1>8, <2>1, <2>3
<1>14. ASSUME DeleteUserNext(c) PROVE Goal
  <2>1. r.pc = "next" /\ UNCHANGED <<org, member, tuple, owner>>
    BY <1>14 DEF DeleteUserNext, On, Reads
  <2> QED BY <1>6, <1>8, <1>14, <2>1, NextOrgMoves
<1>15. ASSUME DeleteUserAccount(c) PROVE Goal
  <2>1. /\ r.pc = "next" /\ Reply(c) /\ UNCHANGED <<org, tuple, owner>>
        /\ member' = {m \in member : m[2] # u}
        /\ frayed' = frayed \cup {m \in member : m[2] = u}
    BY <1>15 DEF DeleteUserAccount, On
  <2>2. ~In(o, u) /\ ~In(o, u)'
    BY <2>1, SMTT(30) DEF In
  <2>3. PairKept(o, u)
    BY <2>1, <2>2 DEF PairKept, Holds, Owns
  <2> QED BY <1>8, <1>9, <2>1, <2>3
<1>16. ASSUME RemoveTuples(c) PROVE Goal
  <2>1. /\ r.pc = "untuple" /\ Goto(c, "leave") /\ UNCHANGED <<org, member, owner>>
        /\ tuple' = tuple \ {<<r.org, x, r.user>> : x \in Role}
    BY <1>16 DEF RemoveTuples, On
  <2>2. s.pc = "leave" /\ s.org = r.org
    BY <1>10, <2>1
  <2>3. CASE r.org # o
    <3>1. PairKept(o, u)
      <4>1. \A x \in Role : Holds(o, x, u)' <=> Holds(o, x, u)
        BY <2>1, <2>3, SMTT(30) DEF Holds
      <4> QED BY <2>1, <4>1 DEF PairKept, In, Owns
    <3> QED BY <1>8, <2>2, <2>3, <3>1
  <2>4. CASE r.org = o
    <3>1. ~HasRole(o, u)'
      BY <2>1, <2>4 DEF HasRole, Holds
    <3>2. Agree(o, u)
      BY <1>1, <2>1 DEF LooseRemove
    <3>3. Owns(o, u)' => In(o, u)'
      BY <2>1, <3>2 DEF Owns, In, Agree
    <3>4. RemoveOK(req[c], o, u)' /\ LooseRemove(req[c], o, u)' /\ s # Idle
      BY <1>3, <2>2, <2>4, <3>1, <3>3, IdleFields DEF RemoveOK, LooseRemove
    <3>5. Known(o, u)'
      BY <1>1, <2>1 DEF Known, In
    <3> QED BY <1>5, <3>4, <3>5
  <2> QED BY <2>3, <2>4
<1>17. ASSUME RemoveLeave(c) PROVE Goal
  <2>1. /\ r.pc = "leave" /\ Goto(c, "load") /\ UNCHANGED <<org, tuple, owner>>
        /\ member' = member \ {<<r.org, r.user>>}
    BY <1>17 DEF RemoveLeave, On
  <2>2. s.pc = "load" /\ s.org = r.org
    BY <1>10, <2>1
  <2>3. CASE r.org # o
    <3>1. PairKept(o, u)
      <4>1. In(o, u)' <=> In(o, u)
        BY <2>1, <2>3, SMTT(30) DEF In
      <4> QED BY <2>1, <4>1 DEF PairKept, Holds, Owns
    <3> QED BY <1>8, <2>2, <2>3, <3>1
  <2>4. CASE r.org = o
    <3>1. ~In(o, u)' /\ Known(o, u)'
      BY <2>1, <2>4 DEF In, Known
    <3>2. ~HasRole(o, u)'
      BY <1>1, <2>1, <2>4 DEF RemoveOK, HasRole, Holds
    <3>3. RemoveOK(req[c], o, u)' /\ LooseRemove(req[c], o, u)' /\ s # Idle
      BY <1>3, <2>2, <2>4, <3>1, <3>2, IdleFields DEF RemoveOK, LooseRemove
    <3> QED BY <1>5, <3>1, <3>3
  <2> QED BY <2>3, <2>4
<1>18. ASSUME RemoveLoad(c) PROVE Goal
  <2>1. /\ r.pc = "load" /\ UNCHANGED <<org, member, tuple, owner>>
        /\ req' = [req EXCEPT ![c].pc = "disp", ![c].rec = org[r.org]]
    BY <1>18 DEF RemoveLoad, On, Reads
  <2>2. s = [r EXCEPT !.pc = "disp", !.rec = org[r.org]]
    BY <2>1 DEF RequestTypeOK
  <2>3. s.pc = "disp" /\ s.org = r.org
    BY <1>2, <2>2 DEF InFlight
  <2>4. PairKept(o, u)
    BY <1>6, <2>1
  <2>5. CASE r.org # o
    BY <1>8, <2>3, <2>4, <2>5
  <2>6. CASE r.org = o
    <3>1. ~In(o, u)' /\ ~HasRole(o, u)' /\ Known(o, u)'
      BY <1>1, <2>1, <2>4, <2>6, PairKeptMeans DEF RemoveOK, PairKept
    <3>2. RemoveOK(req[c], o, u)' /\ LooseRemove(req[c], o, u)' /\ s # Idle
      BY <1>3, <2>3, <2>6, <3>1, IdleFields DEF RemoveOK, LooseRemove
    <3> QED BY <1>5, <3>1, <3>2
  <2> QED BY <2>5, <2>6
<1>19. ASSUME RemoveDispose(c) \/ RemoveUnlocked(c)
       PROVE  s = Idle \/ s.pc \in {"unlock", "next"}
  <2>1. \/ s = Idle \/ s = [r EXCEPT !.pc = "unlock"]
        \/ s = [r EXCEPT !.pc = "next", !.rec = NoRec]
    BY <1>19 DEF RemoveDispose, RemoveUnlocked, RemoveNext, RequestTypeOK
  <2> QED BY <1>2, <2>1 DEF InFlight
<1>20. ASSUME RemoveUnlocked(c) PROVE Goal
  <2>1. r.pc = "unlocking" /\ UNCHANGED <<org, member, tuple, owner>>
    BY <1>20 DEF RemoveUnlocked, On
  <2> QED BY <1>6, <1>8, <1>19, <1>20, <2>1
<1>21. ASSUME RemoveDispose(c) PROVE Goal
  <2>1. /\ r.pc = "disp" /\ UNCHANGED <<org, member, tuple>>
        /\ owner' = owner \ {<<r.org, r.user>>}
    BY <1>21 DEF RemoveDispose, On
  <2>2. CASE r.org # o
    <3>1. PairKept(o, u)
      <4>1. Owns(o, u)' <=> Owns(o, u)
        BY <2>1, <2>2, SMTT(30) DEF Owns
      <4> QED BY <2>1, <4>1 DEF PairKept, Holds, In
    <3> QED BY <1>8, <1>19, <1>21, <2>2, <3>1
  <2>3. CASE r.org = o
    <3>1. ~In(o, u)' /\ ~HasRole(o, u)' /\ ~Owns(o, u)'
      BY <1>1, <2>1, <2>3 DEF RemoveOK, In, HasRole, Holds, Owns
    <3> QED BY <1>7, <1>19, <1>21, <3>1 DEF Known, Agree
  <2> QED BY <2>2, <2>3
<1>22. ASSUME CallFails(c) PROVE Goal
  <2>1. PairKept(o, u)
    BY <1>6, <1>22 DEF CallFails
  <2>2. r.org # o
    <3>1. ASSUME r.org = o PROVE FALSE
      <4>1. <<o, u>> \in PairsOf(o, About(r.op, r.user))
        BY <1>2, NobodyIsNoUser DEF PairsOf, About
      <4>2. o # Nobody
        BY NobodyIsNoUser
      <4> QED BY <1>22, <3>1, <4>1, <4>2 DEF CallFails, RemoveOp
    <3> QED BY <3>1
  <2>3. s # Idle => s.org = r.org
    BY <1>22, FailureMoves
  <2> QED BY <1>8, <2>1, <2>2, <2>3
<1> QED BY <1>2, <1>11, <1>12, <1>13, <1>14, <1>15, <1>16, <1>17, <1>18, <1>20,
      <1>21, <1>22, RemoveActs

\* A delete of an organization alone on a pair.
LEMMA DeleteAlone ==
  ASSUME RequestTypeOK, StoreTypeOK, NEW c \in Client, NEW o \in Org, NEW u \in User,
         req[c].op = "delete", req[c].org = o, Moves(c), RecMove(c),
         Step(c) \/ CallFails(c), ~EditStep(c), <<o, u>> \notin frayed',
         Alone(req[c], o, u)
  PROVE  Alone(req[c], o, u)'
<1> DEFINE r == req[c]
           s == req'[c]
           Goal == Alone(req[c], o, u)'
           Dropped == {"unUris", "unUrisPut", "kcDelete"}
<1>1. Known(o, u) /\ DeleteOK(r, o, u) /\ (Agree(o, u) \/ LooseDelete(r))
  BY AloneDelete
<1>2. r \in InFlight /\ r.pc # "idle" /\ r.op \notin CreateOp \cup RemoveOp
  BY DEF Moves, InFlight, Point, PlainPoint, UriPoint, LeavePoint, CreateOp, RemoveOp
<1>3. s # Idle => s.op = "delete" /\ s.org = o
  BY <1>2 DEF Moves, Same
<1>4. ASSUME s = Idle, Known(o, u)', Agree(o, u)' PROVE Goal
  <2>1. Alone(Idle, o, u)' <=> Known(o, u)' /\ Agree(o, u)'
    BY AloneIdle, PTL
  <2> QED BY <1>4, <2>1
<1>5. ASSUME s # Idle, Known(o, u)', DeleteOK(req[c], o, u)',
             Agree(o, u)' \/ LooseDelete(req[c])'
      PROVE  Goal
  <2>1. s.op = "delete"
    BY <1>3, <1>5
  <2> QED BY <1>5, <2>1
          DEF Alone, RequestOK, AddOK, RoleOK, SpawnOK, CreateOK, RemoveOK, Loose,
              CreateOp, RemoveOp
<1>6. ASSUME UNCHANGED <<org, member, tuple, owner>>
      PROVE  PairKept(o, u)
  BY <1>6 DEF PairKept, In, Holds, Owns
<1>7. ASSUME PairKept(o, u), r.pc \notin Dropped,
             s = Idle \/ s.pc \in {"list", "edit", "again", "urisPut"}
      PROVE  Goal
  <2>1. Known(o, u)' /\ Agree(o, u)'
    BY <1>1, <1>7, PairKeptMeans DEF LooseDelete
  <2>2. s # Idle => DeleteOK(req[c], o, u)'
    BY <1>7 DEF DeleteOK
  <2> QED BY <1>4, <1>5, <2>1, <2>2
<1>8. ASSUME PairKept(o, u), r.pc \in Dropped, s.pc \in Dropped PROVE Goal
  <2>1. Known(o, u)' /\ ~HasRole(o, u)' /\ (Owns(o, u)' => In(o, u)')
    BY <1>1, <1>8, PairKeptMeans DEF DeleteOK, PairKept
  <2>2. DeleteOK(req[c], o, u)' /\ s # Idle
    BY <1>8, <2>1, IdleFields DEF DeleteOK
  <2>3. LooseDelete(req[c])'
    BY <1>3, <1>8, <2>2 DEF LooseDelete
  <2> QED BY <1>5, <2>1, <2>2, <2>3
<1>9. Reply(c) => s = Idle
  BY DEF Reply, RequestTypeOK
<1>10. ASSUME ReadOrg(c) \/ ListForEnable(c) \/ EditMember(c) \/ EditMembersDone(c)
       PROVE  Goal
  <2>1. r.pc \in {"read", "list", "edit"} /\ UNCHANGED <<org, member, tuple, owner>>
    BY <1>10 DEF ReadOrg, ListForEnable, EditMember, EditMembersDone, On, Reads
  <2>2. /\ Step(c)
        /\ req' = req \/ s = Idle \/ DeleteEdge(r.pc, s.pc)
    BY <1>10, DeleteTable DEF Step
  <2>3. req' # req \/ r.pc = "edit"
    <3>1. ASSUME req' = req, ReadOrg(c) \/ ListForEnable(c) PROVE FALSE
      <4>1. CASE Reply(c)
        BY <1>2, <1>9, <3>1, <4>1, IdleFields
      <4>2. CASE ListForEnable(c)
        <5>1. s = [r EXCEPT !.pc = "edit", !.todo = MembersOf(r.org)] /\ r.pc = "list"
          BY <4>2 DEF ListForEnable, On, RequestTypeOK
        <5>2. s.pc = "edit"
          BY <1>2, <5>1 DEF InFlight
        <5> QED BY <3>1, <5>1, <5>2
      <4>3. CASE ReadOrg(c) /\ ~Reply(c)
        <5>1. s = [r EXCEPT !.pc = "list", !.rec = org[r.org]] /\ r.pc = "read"
          BY <4>3 DEF ReadOrg, RequestTypeOK
        <5>2. s.pc = "list"
          BY <1>2, <5>1 DEF InFlight
        <5> QED BY <3>1, <5>1, <5>2
      <4> QED BY <3>1, <4>1, <4>2, <4>3
    <3> QED BY <1>10, <3>1 DEF EditMember, EditMembersDone, On
  <2>4. s = Idle \/ s.pc \in {"list", "edit", "again"}
    BY <2>1, <2>2, <2>3 DEF DeleteEdge
  <2> QED BY <1>6, <1>7, <2>1, <2>4
<1>11. ASSUME DeleteList(c) PROVE Goal
  <2>1. /\ r.pc = "again" /\ UNCHANGED <<org, member, tuple, owner>>
        /\ req' = [req EXCEPT ![c].pc = "drop", ![c].todo = MembersOf(o)]
    BY <1>11 DEF DeleteList, On, Reads
  <2>2. s = [r EXCEPT !.pc = "drop", !.todo = MembersOf(o)]
    BY <2>1 DEF RequestTypeOK
  <2>3. s.pc = "drop" /\ s.todo = MembersOf(o)
    BY <1>2, <2>2 DEF InFlight
  <2>4. Known(o, u)' /\ Agree(o, u)'
    BY <1>1, <1>6, <2>1, PairKeptMeans DEF LooseDelete
  <2>5. DeleteOK(req[c], o, u)' /\ s # Idle
    BY <2>1, <2>3, IdleFields DEF DeleteOK, MembersOf, In
  <2> QED BY <1>5, <2>4, <2>5
<1>12. ASSUME DeleteTuples(c) PROVE Goal
  <2>1. /\ r.pc = "drop" /\ UNCHANGED <<org, member, owner>>
        /\ tuple' = {t \in tuple : ~(t[1] = o /\ t[3] \in r.todo)}
        /\ req' = [req EXCEPT ![c].pc = "unUris", ![c].todo = {}]
    BY <1>12 DEF DeleteTuples, On
  <2>2. s = [r EXCEPT !.pc = "unUris", !.todo = {}]
    BY <2>1 DEF RequestTypeOK
  <2>3. s.pc = "unUris"
    BY <1>2, <2>2 DEF InFlight
  <2>4. Agree(o, u) /\ (In(o, u) => u \in r.todo)
    BY <1>1, <2>1 DEF LooseDelete, DeleteOK
  <2>5. ~HasRole(o, u)'
    <3>1. ASSUME NEW x \in Role, Holds(o, x, u)' PROVE FALSE
      <4>1. Holds(o, x, u) /\ u \notin r.todo
        BY <2>1, <3>1, SMTT(30) DEF Holds
      <4> QED BY <2>4, <4>1 DEF Agree, HasRole
    <3> QED BY <3>1 DEF HasRole
  <2>6. Known(o, u)' /\ (Owns(o, u)' => In(o, u)')
    BY <1>1, <2>1, <2>4 DEF Known, Agree, In, Owns
  <2>7. DeleteOK(req[c], o, u)' /\ s # Idle
    BY <2>3, <2>5, <2>6, IdleFields DEF DeleteOK
  <2>8. LooseDelete(req[c])'
    BY <1>3, <2>3, <2>7 DEF LooseDelete
  <2> QED BY <1>5, <2>6, <2>7, <2>8
<1>13. ASSUME UrisGet(c) \/ UrisPut(c) PROVE Goal
  <2>1. r.pc \in UriPoint /\ UNCHANGED <<org, member, tuple, owner>>
    BY <1>13 DEF UrisGet, UrisPut, Reads, UriPoint
  <2>2. ASSUME UrisPut(c)
        PROVE  \/ r.pc = "urisPut" /\ s = Idle
               \/ r.pc = "unUrisPut" /\ s.pc = "kcDelete"
    BY <1>2, <1>9, <2>2, GotoPoint DEF UrisPut
  <2>3. ASSUME UrisGet(c)
        PROVE  \/ r.pc = "uris" /\ s.pc = "urisPut"
               \/ r.pc = "unUris" /\ s.pc = "unUrisPut"
    <3> DEFINE p == IF r.pc = "uris" THEN "urisPut" ELSE "unUrisPut"
    <3>1. /\ r.pc \in {"uris", "unUris"}
          /\ req' = [req EXCEPT ![c].seen = uris, ![c].pc = p]
      BY <2>3 DEF UrisGet
    <3>2. s = [r EXCEPT !.seen = uris, !.pc = p]
      BY <3>1 DEF RequestTypeOK
    <3>3. s.pc = p
      BY <1>2, <3>2 DEF InFlight
    <3> QED BY <3>1, <3>3
  <2>4. PairKept(o, u)
    BY <1>6, <2>1
  <2> QED BY <1>7, <1>8, <1>13, <2>2, <2>3, <2>4
<1>14. ASSUME DeleteKc(c) PROVE Goal
  <2>1. /\ r.pc = "kcDelete" /\ Goto(c, "storeDelete") /\ UNCHANGED <<org, tuple, owner>>
        /\ member' = {m \in member : m[1] # o}
        /\ frayed' = frayed \cup {m \in owner : m[1] = o}
    BY <1>14 DEF DeleteKc, On
  <2>2. s.pc = "storeDelete" /\ s # Idle
    BY <1>2, <2>1, GotoPoint, IdleFields
  <2>3. ~In(o, u)' /\ ~Owns(o, u)'
    BY <2>1, SMTT(30) DEF In, Owns
  <2>4. ~HasRole(o, u)'
    BY <1>1, <2>1 DEF DeleteOK, HasRole, Holds
  <2>5. DeleteOK(req[c], o, u)' /\ Known(o, u)' /\ Agree(o, u)'
    BY <2>2, <2>3, <2>4 DEF DeleteOK, Known, Agree
  <2> QED BY <1>5, <2>2, <2>5
<1>15. ASSUME DeleteRecord(c) PROVE Goal
  <2>1. /\ r.pc = "storeDelete" /\ Reply(c) /\ UNCHANGED <<member, tuple, owner>>
    BY <1>15 DEF DeleteRecord, On
  <2>2. ~In(o, u) /\ Agree(o, u)
    BY <1>1, <2>1 DEF DeleteOK, LooseDelete
  <2>3. Known(o, u)' /\ Agree(o, u)'
    BY <2>1, <2>2 DEF Known, Agree, In, HasRole, Holds, Owns
  <2> QED BY <1>4, <1>9, <2>1, <2>3
<1>16. ~CallFails(c)
  <2>1. <<o, u>> \in PairsOf(o, About(r.op, r.user))
    <3>1. About(r.op, r.user) = Nobody
      BY <1>2, ServedIfNotIdle DEF Serving, Addressed, About
    <3> QED BY <3>1, NobodyIsNoUser DEF PairsOf
  <2> QED BY <2>1 DEF CallFails
<1> QED BY <1>10, <1>11, <1>12, <1>13, <1>14, <1>15, <1>16, DeleteActs

\* Requests that bear no other one about the same member beside them.
Exclusive == RemoveOp \cup CreateOp \cup {"delete"}

\* What a request must be about to touch user u of organization o.
LEMMA TouchMeans ==
  ASSUME RequestTypeOK, NEW c \in Client, NEW o \in Org, NEW u \in User
  PROVE  InTouch(c, o, u) <=>
           /\ req[c].pc # "idle" /\ req[c].op \notin AccountOp
           /\ o = req[c].org \/ req[c].op = "deleteUser"
           /\ u = req[c].user \/ About(req[c].op, req[c].user) = Nobody
BY NobodyIsNoUser DEF InTouch, Touching, AccountOp

\* Two requests that conflict fray what both touch ...
LEMMA ConflictFrays ==
  ASSUME RequestTypeOK, ConflictSeen, NEW c \in Client, NEW d \in Client \ {c},
         NEW o \in Org, NEW u \in User, InTouch(c, o, u), InTouch(d, o, u),
         Conflict(req[c].op, req[d].op)
  PROVE  <<o, u>> \in frayed
<1>1. Overlap(req[c], req[d])
  BY TouchMeans DEF Overlap, About
<1> QED BY <1>1 DEF ConflictSeen

\* ... so that an exclusive request is alone on what is not frayed.
LEMMA SoleToucher ==
  ASSUME RequestTypeOK, ConflictSeen, NEW c \in Client, NEW d \in Client \ {c},
         NEW o \in Org, NEW u \in User, InTouch(c, o, u), InTouch(d, o, u),
         req[c].op \in Exclusive \/ req[d].op \in Exclusive
  PROVE  <<o, u>> \in frayed
<1>1. Conflict(req[c].op, req[d].op)
  BY DEF Conflict, Exclusive, RemoveOp
<1> QED BY <1>1, ConflictFrays

\* A step of a request that does not touch a pair leaves the pair alone.
LEMMA Apart ==
  ASSUME RequestTypeOK, StoreTypeOK, NEW c \in Client, NEW o \in Org, NEW u \in User,
         ~InTouch(c, o, u), Step(c) \/ CallFails(c)
  PROVE  PairKept(o, u) /\ org'[o] = org[o]
<1> DEFINE r == req[c]
<1>1. \/ r.pc = "idle" \/ r.op \in AccountOp
      \/ o # r.org /\ r.op # "deleteUser"
      \/ u # r.user /\ About(r.op, r.user) # Nobody
  BY TouchMeans
<1>2. In(o, u)' <=> In(o, u)
  <2>1. CASE ~WritesMember(c)
    BY <2>1, Writers DEF In
  <2>2. CASE Join(c) \/ UnwindJoin(c) \/ RemoveLeave(c)
    <3>1. /\ r.pc # "idle" /\ r.op \in CreateOp \cup RemoveOp \cup {"add"}
          /\ member' \in {member \cup {<<r.org, r.user>>}, member \ {<<r.org, r.user>>}}
      BY <2>2 DEF Join, UnwindJoin, RemoveLeave, On
    <3>2. r.org # o \/ r.user # u
      BY <1>1, <3>1 DEF CreateOp, RemoveOp, AccountOp
    <3> QED BY <3>1, <3>2, SMTT(30) DEF In
  <2>3. CASE UnwindKc(c) \/ DeleteKc(c)
    <3>1. /\ r.pc # "idle" /\ r.op \in CreateOp \cup {"delete"}
          /\ member' = {m \in member : m[1] # r.org}
      BY <2>3 DEF UnwindKc, DeleteKc, On
    <3>2. About(r.op, r.user) = Nobody
      BY <3>1, ServedIfNotIdle DEF About, Serving, Addressed
    <3>3. r.org # o
      BY <1>1, <3>1, <3>2 DEF CreateOp, AccountOp
    <3> QED BY <3>1, <3>3, SMTT(30) DEF In
  <2>4. CASE DeleteUserAccount(c)
    <3>1. /\ r.pc # "idle" /\ r.op = "deleteUser"
          /\ member' = {m \in member : m[2] # r.user}
      BY <2>4 DEF DeleteUserAccount, On
    <3>2. r.user # u
      BY <1>1, <3>1 DEF AccountOp
    <3> QED BY <3>1, <3>2, SMTT(30) DEF In
  <2> QED BY <2>1, <2>2, <2>3, <2>4 DEF WritesMember
<1>3. \A x \in Role : Holds(o, x, u)' <=> Holds(o, x, u)
  <2>1. CASE ~WritesTuple(c)
    BY <2>1, Writers DEF Holds
  <2>2. CASE WritesTuple(c) /\ ~DeleteTuples(c)
    <3>1. /\ r.pc # "idle" /\ r.op \in GrantOp \cup RemoveOp
          /\ \/ tuple' = tuple \cup {<<r.org, r.role, r.user>>}
             \/ tuple' = tuple \ {<<r.org, "admin", r.user>>}
             \/ tuple' = tuple \ {<<r.org, x, r.user>> : x \in Role \ {r.role}}
             \/ tuple' = tuple \ {<<r.org, x, r.user>> : x \in Role}
      BY <2>2 DEF WritesTuple, WriteTuple, UnwindTuple, RoleDropOther, RemoveTuples,
         On, GrantOp
    <3>2. r.org # o \/ r.user # u
      BY <1>1, <3>1 DEF GrantOp, CreateOp, RemoveOp, AccountOp
    <3> QED BY <3>1, <3>2, SMTT(30) DEF Holds
  <2>3. CASE DeleteTuples(c)
    <3>1. /\ r.pc # "idle" /\ r.op = "delete"
          /\ tuple' = {t \in tuple : ~(t[1] = r.org /\ t[3] \in r.todo)}
      BY <2>3 DEF DeleteTuples, On
    <3>2. About(r.op, r.user) = Nobody
      BY <3>1, ServedIfNotIdle DEF About, Serving, Addressed
    <3>3. r.org # o
      BY <1>1, <3>1, <3>2 DEF AccountOp
    <3> QED BY <3>1, <3>3, SMTT(30) DEF Holds
  <2> QED BY <2>1, <2>2, <2>3
<1>4. Owns(o, u)' <=> Owns(o, u)
  <2>1. CASE ~WritesOwner(c)
    BY <2>1, Writers DEF Owns
  <2>2. CASE WritesOwner(c)
    <3>1. /\ r.pc # "idle" /\ r.op \in RemoveOp \cup {"spawn"}
          /\ owner' \in {owner \cup {<<r.org, r.user>>}, owner \ {<<r.org, r.user>>}}
      BY <2>2 DEF WritesOwner, RemoveDispose, SpawnAgent, On
    <3>2. r.org # o \/ r.user # u
      BY <1>1, <3>1 DEF RemoveOp, AccountOp
    <3> QED BY <3>1, <3>2, SMTT(30) DEF Owns
  <2> QED BY <2>1, <2>2
<1>5. org'[o] = org[o]
  <2>1. CASE ~WritesRecord(c)
    BY <2>1, Writers
  <2>2. CASE WritesRecord(c)
    <3>1. /\ Serving(c) /\ r.op \in WriteOp \cup {"delete"}
          /\ org' = org \/ \E n : RecordWrite(c, n)
      BY <2>2, RecordWrites
    <3>2. r.pc # "idle" /\ About(r.op, r.user) = Nobody
      BY <3>1 DEF Serving, InFlight, Addressed, About, WriteOp, Point, PlainPoint,
         UriPoint, LeavePoint
    <3>3. r.org # o
      BY <1>1, <3>1, <3>2 DEF WriteOp, RewriteOp, CreateOp, AccountOp
    <3> QED BY <3>1, <3>3 DEF RecordWrite, StoreTypeOK
  <2> QED BY <2>1, <2>2
<1> QED BY <1>2, <1>3, <1>4, <1>5 DEF PairKept

\* They take nothing away that another of them relies on.
Grows(c, o, u) ==
  /\ In(o, u) => In(o, u)'
  /\ org[o].known => org'[o].known
  /\ req[c].op # "role" => \A x \in Role : Holds(o, x, u) => Holds(o, x, u)'

LEMMA SharedStep ==
  ASSUME RequestTypeOK, StoreTypeOK, NEW c \in Client, NEW o \in Org, NEW u \in User,
         req[c].op \in SharedOp, req[c].org = o,
         req[c].op \in {"add", "role", "spawn"} => req[c].user = u, WriterOK(c),
         Moves(c), RecMove(c), Step(c) \/ CallFails(c), ~EditStep(c),
         <<o, u>> \notin frayed', RequestOK(req[c], o, u), Known(o, u)
  PROVE  /\ Grows(c, o, u) /\ Known(o, u)' /\ RequestOK(req[c], o, u)'
         /\ Agree(o, u) \/ Loose(req[c], o, u) =>
              Agree(o, u)' \/ Loose(req[c], o, u)'
<1> DEFINE r == req[c]
           s == req'[c]
           Three == {"add", "role", "spawn"}
           Goal == /\ Grows(c, o, u) /\ Known(o, u)' /\ RequestOK(req[c], o, u)'
                   /\ Agree(o, u) \/ Loose(req[c], o, u) =>
                        Agree(o, u)' \/ Loose(req[c], o, u)'
<1>1. /\ AddOK(r, o, u) /\ RoleOK(r, o, u) /\ SpawnOK(r, o, u)
      /\ r \in InFlight /\ r.pc # "idle" /\ r.pc \notin UriPoint
      /\ r.op \notin CreateOp \cup RemoveOp \cup {"delete"}
  <2>1. r \in InFlight /\ r.pc # "idle"
    BY DEF Moves, InFlight, Point, PlainPoint, UriPoint, LeavePoint
  <2>2. r.op \notin CreateOp \cup RemoveOp \cup {"delete"}
    BY DEF CreateOp, RemoveOp, SharedOp, RewriteOp
  <2> QED BY <2>1, <2>2, ServedIfNotIdle DEF Serving, Addressed, RequestOK
<1>2. s # Idle => s.op = r.op /\ s.user = r.user /\ s.role = r.role
  BY DEF Moves, Same
<1>3. Loose(r, o, u) <=> LooseAdd(r)
  BY <1>1 DEF Loose, LooseCreate, LooseRemove, LooseDelete
<1>4. LooseAdd(s) => Loose(req[c], o, u)'
  BY DEF Loose, LooseAdd
<1>5. ASSUME \/ s = Idle \/ r.op \notin Three
             \/ AddOK(req[c], o, u)' /\ RoleOK(req[c], o, u)' /\ SpawnOK(req[c], o, u)'
      PROVE  RequestOK(req[c], o, u)'
  <2>1. s.op \notin CreateOp \cup RemoveOp \cup {"delete"}
    BY <1>1, <1>2, IdleFields DEF CreateOp, RemoveOp
  <2>2. s = Idle \/ r.op \notin Three => s.op \notin Three
    BY <1>2, IdleFields
  <2> QED BY <1>5, <2>1, <2>2
          DEF RequestOK, AddOK, RoleOK, SpawnOK, RemoveOK, DeleteOK, CreateOK
<1>6. Reply(c) => s = Idle
  BY DEF Reply, RequestTypeOK
<1>7. ASSUME NEW p, Goto(c, p) PROVE s.pc = p /\ s.op = r.op /\ s # Idle
  <2>1. s = [r EXCEPT !.pc = p]
    BY <1>7 DEF Goto, RequestTypeOK
  <2>2. s.op = r.op /\ s.pc = p
    BY <1>1, <2>1 DEF InFlight
  <2>3. r.op # "none"
    BY <1>1 DEF InFlight, Op, RewriteOp, CreateOp, UserOp
  <2> QED BY <2>2, <2>3, IdleFields
<1>8. ASSUME UNCHANGED <<org, member, tuple, owner>>
      PROVE  PairKept(o, u) /\ Grows(c, o, u)
  BY <1>8 DEF PairKept, In, Holds, Owns, Grows
<1>9. ASSUME PairKept(o, u), Grows(c, o, u), ~LooseAdd(r),
             \/ s = Idle \/ r.op \notin Three
             \/ AddOK(req[c], o, u)' /\ RoleOK(req[c], o, u)' /\ SpawnOK(req[c], o, u)'
      PROVE  Goal
  BY <1>3, <1>5, <1>9, PairKeptMeans
<1>10. PICK y \in Role : y = r.role
  BY <1>1 DEF InFlight
<1>11. ASSUME ReadOrg(c) PROVE Goal
  <2>1. r.pc = "read" /\ UNCHANGED <<org, member, tuple, owner>>
    BY <1>11 DEF ReadOrg, Reads
  <2>2. ASSUME r.op \in Three, s # Idle
        PROVE  /\ org[o].known /\ (r.op = "spawn" => In(o, u))
               /\ s.pc = CASE r.op = "add" -> "join" [] r.op = "role" -> "check"
                           [] r.op = "spawn" -> "spawn"
    <3>1. ~Reply(c)
      BY <1>6, <2>2
    <3>2. /\ org[o].known /\ (r.op = "spawn" => In(o, u))
          /\ req' = [req EXCEPT ![c].pc = CASE r.op = "add" -> "join"
                                            [] r.op = "role" -> "check"
                                            [] r.op = "spawn" -> "spawn",
                                ![c].rec = org[o]]
      BY <1>11, <2>2, <3>1 DEF ReadOrg, In
    <3> DEFINE p == CASE r.op = "add" -> "join" [] r.op = "role" -> "check"
                      [] r.op = "spawn" -> "spawn"
    <3> HIDE DEF p
    <3>3. s = [r EXCEPT !.pc = p, !.rec = org[o]]
      BY <3>2 DEF RequestTypeOK, p
    <3>4. s.pc = p
      BY <1>1, <3>3 DEF InFlight
    <3> QED BY <3>2, <3>4 DEF p
  <2>3. PairKept(o, u) /\ Grows(c, o, u) /\ ~LooseAdd(r)
    BY <1>8, <2>1 DEF LooseAdd
  <2>4. ASSUME r.op \in Three, s # Idle
        PROVE  AddOK(req[c], o, u)' /\ RoleOK(req[c], o, u)' /\ SpawnOK(req[c], o, u)'
    <3>1. s.op = r.op
      BY <1>2, <2>4
    <3> QED BY <2>2, <2>3, <2>4, <3>1 DEF AddOK, RoleOK, SpawnOK, PairKept
  <2> QED BY <1>9, <2>3, <2>4
<1>12. ASSUME ReadOnly(c) PROVE Goal
  <2>1. r.op \notin Three /\ UNCHANGED <<org, member, tuple, owner>>
    BY <1>12 DEF ReadOnly, ListForDisable, DisableAgents, ListForEnable, EditMember,
       EditMembersDone, On, Reads
  <2> QED BY <1>8, <1>9, <2>1 DEF LooseAdd
<1>13. ASSUME RecordOnly(c) PROVE Goal
  <2>1. r.op \notin Three /\ r.pc = "put" /\ UNCHANGED <<member, tuple, owner>>
    BY <1>13 DEF RecordOnly, RewritePut, DisablePut, EnablePut, On, RewriteOp
  <2>2. r.op \in WriteOp /\ (org' = org \/ \E n : RecordWrite(c, n))
    BY <1>1, <1>13, RecordWrites DEF RecordOnly, WritesRecord, WriteOp
  <2>3. org'[o].known \/ org' = org
    <3>1. ASSUME NEW n, RecordWrite(c, n) PROVE org'[o].known
      <4>1. r.rec.known
        BY <1>1, <2>1, <2>2 DEF WriterOK
      <4>2. n.known /\ org' = [org EXCEPT ![o] = n]
        BY <1>1, <2>1, <3>1, <4>1 DEF RecordWrite, Carries
      <4> QED BY <4>2 DEF StoreTypeOK
    <3> QED BY <2>2, <3>1
  <2>4. /\ In(o, u)' <=> In(o, u)
        /\ \A x \in Role : Holds(o, x, u)' <=> Holds(o, x, u)
        /\ Owns(o, u)' <=> Owns(o, u)
    BY <2>1 DEF In, Holds, Owns
  <2>5. Agree(o, u)' <=> Agree(o, u)
    BY <2>4 DEF Agree, HasRole
  <2>6. Known(o, u)' /\ Grows(c, o, u) /\ ~LooseAdd(r)
    BY <2>1, <2>3, <2>4 DEF Known, Grows, LooseAdd
  <2> QED BY <1>3, <1>5, <2>1, <2>5, <2>6
<1>14. ASSUME Join(c) PROVE Goal
  <2>1. /\ r.op = "add" /\ r.pc = "join" /\ Goto(c, "tuple")
        /\ member' = member \cup {<<o, u>>} /\ UNCHANGED <<org, tuple, owner>>
    BY <1>1, <1>14 DEF Join, On
  <2>2. s.pc = "tuple" /\ s.op = "add"
    BY <1>7, <2>1
  <2>3. In(o, u)' /\ org'[o].known /\ Grows(c, o, u)
    BY <1>1, <2>1 DEF In, AddOK, Grows, Holds
  <2> QED BY <1>4, <1>5, <2>2, <2>3
          DEF Known, LooseAdd, AddOK, RoleOK, SpawnOK
<1>15. ASSUME WriteTuple(c) PROVE Goal
  <2>1. /\ r.pc = "tuple" /\ r.op \in {"add", "role"} /\ In(o, u)
        /\ tuple' = tuple \cup {<<o, y, u>>} /\ UNCHANGED <<org, member, owner>>
        /\ r.op = "add" => Reply(c)
        /\ r.op = "role" => Goto(c, "other")
    BY <1>1, <1>10, <1>15 DEF WriteTuple, On, GrantOp, AddOK, RoleOK
  <2>2. In(o, u)' /\ Known(o, u)' /\ Grows(c, o, u) /\ Holds(o, y, u)'
    BY <2>1 DEF In, Known, Grows, Holds
  <2>3. Agree(o, u)'
    BY <1>10, <2>2 DEF Agree, HasRole
  <2>4. CASE r.op = "add"
    BY <1>5, <1>6, <2>1, <2>2, <2>3, <2>4
  <2>5. CASE r.op = "role"
    <3>1. s.pc = "other" /\ s.op = "role" /\ s.role = y
      BY <1>2, <1>7, <1>10, <2>1, <2>5
    <3> QED BY <1>5, <2>2, <2>3, <3>1 DEF AddOK, RoleOK, SpawnOK
  <2> QED BY <2>1, <2>4, <2>5
<1>16. ASSUME RoleCheck(c) PROVE Goal
  <2>1. /\ r.op = "role" /\ r.pc = "check" /\ UNCHANGED <<org, member, tuple, owner>>
        /\ Reply(c) \/ (Goto(c, "tuple") /\ In(o, u))
    BY <1>16 DEF RoleCheck, On, Reads, In
  <2>2. PairKept(o, u) /\ Grows(c, o, u) /\ ~LooseAdd(r)
    BY <1>8, <2>1 DEF LooseAdd
  <2>3. CASE Reply(c)
    BY <1>6, <1>9, <2>2, <2>3
  <2>4. CASE Goto(c, "tuple") /\ In(o, u)
    <3>1. s.pc = "tuple" /\ s.op = "role"
      BY <1>7, <2>1, <2>4
    <3>2. AddOK(req[c], o, u)' /\ RoleOK(req[c], o, u)' /\ SpawnOK(req[c], o, u)'
      BY <2>2, <2>4, <3>1 DEF AddOK, RoleOK, SpawnOK, PairKept
    <3> QED BY <1>9, <2>2, <3>2
  <2> QED BY <2>1, <2>3, <2>4
<1>17. ASSUME RoleDropOther(c) PROVE Goal
  <2>1. /\ r.op = "role" /\ r.pc = "other" /\ In(o, u) /\ Holds(o, y, u)
        /\ tuple' = tuple \ {<<o, x, u>> : x \in Role \ {y}} /\ Reply(c)
        /\ UNCHANGED <<org, member, owner>>
    BY <1>1, <1>10, <1>17 DEF RoleDropOther, On, RoleOK
  <2>2. In(o, u)' /\ Known(o, u)' /\ Grows(c, o, u)
    BY <2>1 DEF In, Known, Grows
  <2>3. Holds(o, y, u)'
    BY <2>1, SMTT(30) DEF Holds
  <2>4. Agree(o, u)'
    BY <1>10, <2>2, <2>3 DEF Agree, HasRole
  <2> QED BY <1>5, <1>6, <2>1, <2>2, <2>4
<1>18. ASSUME SpawnAgent(c) PROVE Goal
  <2>1. /\ r.op = "spawn" /\ In(o, u) /\ Reply(c)
        /\ owner' = owner \cup {<<o, u>>} /\ UNCHANGED <<org, member, tuple>>
    BY <1>1, <1>18 DEF SpawnAgent, On, SpawnOK
  <2>2. In(o, u)' /\ Known(o, u)' /\ Grows(c, o, u) /\ ~LooseAdd(r)
    BY <2>1 DEF In, Known, Grows, Holds, LooseAdd
  <2>3. HasRole(o, u)' <=> HasRole(o, u)
    BY <2>1 DEF HasRole, Holds
  <2>4. Agree(o, u) => Agree(o, u)'
    BY <2>1, <2>2, <2>3 DEF Agree
  <2> QED BY <1>3, <1>5, <1>6, <2>1, <2>2, <2>4
<1>19. ASSUME CallFails(c) PROVE Goal
  <2>1. r.op # "add"
    <3>1. ASSUME r.op = "add" PROVE <<o, u>> \in frayed'
      <4>1. frayed' = frayed \cup PairsOf(o, u)
        BY <1>19, <3>1 DEF CallFails, About, CreateOp
      <4>2. <<o, u>> \in PairsOf(o, u)
        BY NobodyIsNoUser DEF PairsOf
      <4> QED BY <4>1, <4>2
    <3> QED BY <3>1
  <2>2. AfterFailure(r) = "idle"
    BY <1>1, <2>1 DEF AfterFailure
  <2>3. s = Idle /\ UNCHANGED <<org, member, tuple, owner>>
    BY <1>19, <2>2 DEF CallFails, RequestTypeOK
  <2> QED BY <1>8, <1>9, <2>1, <2>3 DEF LooseAdd
<1>20. ~UnwindJoin(c)
  BY <1>1 DEF UnwindJoin, On, AddOK
<1> QED BY <1>1, <1>11, <1>12, <1>13, <1>14, <1>15, <1>16, <1>17, <1>18, <1>19, <1>20,
      SharedActs

\* A request goes on touching what it touched, until it is over.
LEMMA TouchKept ==
  ASSUME RequestTypeOK, NEW c \in Client, Moves(c), NEW d \in Client, NEW o \in Org,
         NEW u \in User
  PROVE  /\ InTouch(d, o, u)' => InTouch(d, o, u)
         /\ InTouch(d, o, u) => req'[d] = Idle \/ InTouch(d, o, u)'
<1>1. RequestTypeOK'
  BY MovesType
<1>2. InTouch(d, o, u)' <=>
        /\ req'[d].pc # "idle" /\ req'[d].op \notin AccountOp
        /\ o = req'[d].org \/ req'[d].op = "deleteUser"
        /\ u = req'[d].user \/ About(req'[d].op, req'[d].user) = Nobody
  BY NobodyIsNoUser DEF InTouch, Touching, AccountOp
<1>3. ~Begins(c)
  BY DEF Begins, Moves, InFlight, Point, PlainPoint, UriPoint, LeavePoint
<1>4. ASSUME InTouch(d, o, u), req'[d] # Idle PROVE InTouch(d, o, u)'
  <2>1. req'[d].pc # "idle"
    BY <1>1, <1>4 DEF RequestTypeOK, Serving, InFlight, Point, PlainPoint, UriPoint,
       LeavePoint
  <2> QED BY <1>2, <1>3, <1>4, <2>1, AddressKept, TouchMeans
<1>5. InTouch(d, o, u)' => InTouch(d, o, u)
  BY <1>2, <1>3, AddressKept, TouchMeans
<1> QED BY <1>4, <1>5

\* What a request relies on stays when the pair does.
LEMMA RequestKept ==
  ASSUME NEW d \in Client, NEW o \in Org, NEW u \in User, PairKept(o, u),
         req'[d].pc = req[d].pc, req'[d].op = req[d].op, req'[d].org = req[d].org,
         req'[d].user = req[d].user, req'[d].rec = req[d].rec,
         req'[d].role = req[d].role, req'[d].todo = req[d].todo,
         req[d].role \in Role, RequestOK(req[d], o, u)
  PROVE  RequestOK(req[d], o, u)'
<1>1. AddOK(req[d], o, u)' /\ SpawnOK(req[d], o, u)'
  BY PairKeptMeans DEF RequestOK, PairKept, AddOK, SpawnOK
<1>2. RoleOK(req[d], o, u)'
  <2>1. PICK y \in Role : y = req[d].role
    OBVIOUS
  <2> QED BY <2>1 DEF RequestOK, PairKept, RoleOK
<1>3. RemoveOK(req[d], o, u)' /\ DeleteOK(req[d], o, u)'
  BY PairKeptMeans DEF RequestOK, PairKept, RemoveOK, DeleteOK
<1>4. CreateOK(req[d], o, u)'
  <2>1. Fresh(req[d], o, u) => Fresh(req[d], o, u)'
    BY PairKeptMeans DEF PairKept, Fresh, Role
  <2> QED BY <2>1, PairKeptMeans DEF RequestOK, PairKept, CreateOK
<1> QED BY <1>1, <1>2, <1>3, <1>4 DEF RequestOK

\* The operations of the requests that touch a pair.
LEMMA TouchOp ==
  ASSUME RequestTypeOK, NEW c \in Client, NEW o \in Org, NEW u \in User, InTouch(c, o, u)
  PROVE  req[c].op \in Exclusive \cup SharedOp /\ req[c].role \in Role
<1>1. req[c].pc # "idle" /\ req[c].op \notin AccountOp
  BY TouchMeans
<1>2. req[c].op \in Op /\ req[c].role \in Role
  BY <1>1, ServedIfNotIdle DEF Serving, InFlight
<1> QED BY <1>1, <1>2 DEF Op, UserOp, Exclusive, SharedOp, AccountOp, RemoveOp

\* A step of a request alone on a pair.
LEMMA AloneStep ==
  ASSUME RequestTypeOK, StoreTypeOK, NEW c \in Client, NEW o \in Org, NEW u \in User,
         InTouch(c, o, u), req[c].op \in Exclusive,
         Moves(c), RecMove(c), Step(c) \/ CallFails(c), ~EditStep(c),
         <<o, u>> \notin frayed', Alone(req[c], o, u)
  PROVE  Alone(req[c], o, u)'
<1>1. Serving(c)
  BY TouchMeans, ServedIfNotIdle
<1>2. CASE req[c].op \in CreateOp
  <2>1. req[c].org = o
    BY <1>2, TouchMeans DEF CreateOp
  <2> QED BY <1>2, <2>1, CreateAlone
<1>3. CASE req[c].op \in RemoveOp
  <2>1. req[c].user = u /\ (req[c].op = "remove" => req[c].org = o)
    BY <1>1, <1>3, TouchMeans, NobodyIsNoUser
    DEF RemoveOp, Serving, Addressed, UserOp, About, CreateOp
  <2> QED BY <1>3, <2>1, RemoveAlone
<1>4. CASE req[c].op = "delete"
  <2>1. req[c].org = o
    BY <1>4, TouchMeans
  <2> QED BY <1>4, <2>1, DeleteAlone
<1> QED BY <1>2, <1>3, <1>4 DEF Exclusive

\* A pair stays in order over every step but the acceptance of a request.
LEMMA PairMoves ==
  ASSUME RecordInv, ConflictSeen, NEW c \in Client, NEW o \in Org, NEW u \in User,
         Moves(c), RecMove(c), Step(c) \/ CallFails(c),
         <<o, u>> \notin frayed', PairOK(o, u)
  PROVE  PairOK(o, u)'
<1>1. RequestTypeOK /\ StoreTypeOK /\ WriterOK(c) /\ <<o, u>> \notin frayed
  BY Writers DEF RecordInv
<1>2. \A d \in Client \ {c} : req'[d] = req[d] /\ (InTouch(d, o, u)' <=> InTouch(d, o, u))
  BY <1>1, MovesType DEF InTouch, Touching
<1>3. /\ InTouch(c, o, u)' => InTouch(c, o, u)
      /\ InTouch(c, o, u) => req'[c] = Idle \/ InTouch(c, o, u)'
  BY <1>1, TouchKept
<1>4. \A d \in Client \ {c} : Loose(req[d], o, u) => Loose(req[d], o, u)'
  BY <1>2 DEF Loose, LooseCreate, LooseRemove, LooseDelete, LooseAdd
<1>5. req'[c] = Idle => ~Loose(req[c], o, u)'
  BY IdleFields DEF Loose, LooseCreate, LooseRemove, LooseDelete, LooseAdd, CreateOp,
     RemoveOp
<1>6. EditStep(c) => UNCHANGED <<org, member, tuple, owner, req>>
  BY DEF EditStep, orgVars
<1>7. CASE ~InTouch(c, o, u) \/ EditStep(c)
  <2>1. PairKept(o, u)
    <3>1. CASE EditStep(c)
      BY <1>6, <3>1 DEF PairKept, In, Holds, Owns
    <3> QED BY <1>1, <1>7, <3>1, Apart
  <2>2. ASSUME NEW d \in Client, InTouch(d, o, u)' PROVE RequestOK(req[d], o, u)'
    <3>1. req'[d] = req[d] /\ InTouch(d, o, u)
      BY <1>2, <1>3, <1>6, <1>7, <2>2
    <3> QED BY <1>1, <2>1, <3>1, RequestKept, TouchOp DEF PairOK
  <2>3. ASSUME NEW d \in Client, InTouch(d, o, u), Loose(req[d], o, u)
        PROVE  InTouch(d, o, u)' /\ Loose(req[d], o, u)'
    <3>1. CASE d # c
      BY <1>2, <1>4, <2>3, <3>1
    <3>2. CASE EditStep(c)
      BY <1>6, <2>3, <3>2
      DEF InTouch, Touching, Loose, LooseCreate, LooseRemove, LooseDelete, LooseAdd
    <3> QED BY <1>7, <2>3, <3>1, <3>2
  <2>4. Agree(o, u)' \/ \E d \in Client : InTouch(d, o, u)' /\ Loose(req[d], o, u)'
    BY <2>1, <2>3, PairKeptMeans DEF PairOK
  <2> QED BY <2>1, <2>2, <2>4, PairKeptMeans DEF PairOK
<1>8. CASE InTouch(c, o, u) /\ req[c].op \in Exclusive /\ ~EditStep(c)
  <2>1. \A d \in Client \ {c} : ~InTouch(d, o, u)
    BY <1>1, <1>8, SoleToucher
  <2>2. Alone(req[c], o, u)
    BY <1>8, <2>1 DEF Alone, PairOK
  <2>3. Alone(req[c], o, u)'
    BY <1>1, <1>8, <2>2, AloneStep
  <2>4. Known(o, u)' /\ RequestOK(req[c], o, u)' /\ (Agree(o, u)' \/ Loose(req[c], o, u)')
    BY <2>3 DEF Alone
  <2>5. \A d \in Client : InTouch(d, o, u)' => RequestOK(req[d], o, u)'
    BY <1>2, <2>1, <2>4
  <2>6. Agree(o, u)' \/ \E d \in Client : InTouch(d, o, u)' /\ Loose(req[d], o, u)'
    BY <1>3, <1>5, <1>8, <2>4
  <2> QED BY <2>4, <2>5, <2>6 DEF PairOK
<1>9. CASE InTouch(c, o, u) /\ req[c].op \in SharedOp /\ ~EditStep(c)
  <2>1. req[c].org = o /\ (req[c].op \in {"add", "role", "spawn"} => req[c].user = u)
    BY <1>1, <1>9, TouchMeans, ServedIfNotIdle, NobodyIsNoUser
    DEF SharedOp, RewriteOp, Serving, Addressed, GrantOp, About, CreateOp
  <2>2. RequestOK(req[c], o, u) /\ Known(o, u)
    BY <1>9 DEF PairOK
  <2>3. /\ Grows(c, o, u) /\ Known(o, u)' /\ RequestOK(req[c], o, u)'
        /\ Agree(o, u) \/ Loose(req[c], o, u) => Agree(o, u)' \/ Loose(req[c], o, u)'
    BY <1>1, <1>9, <2>1, <2>2, SharedStep
  <2>4. ASSUME NEW d \in Client \ {c}, InTouch(d, o, u)'
        PROVE  RequestOK(req[d], o, u)'
    <3>1. req'[d] = req[d] /\ InTouch(d, o, u) /\ RequestOK(req[d], o, u)
      BY <1>2, <2>4 DEF PairOK
    <3>2. req[d].op \in SharedOp /\ req[d].role \in Role /\ req[d].op \notin Exclusive
      BY <1>1, <1>9, <3>1, SoleToucher, TouchOp
    <3>3. AddOK(req[d], o, u)' /\ SpawnOK(req[d], o, u)'
      BY <2>3, <3>1 DEF RequestOK, AddOK, SpawnOK, Grows
    <3>4. RoleOK(req[d], o, u)'
      <4>1. CASE req[c].op = "role"
        <5>1. req[d].op # "role"
          BY <1>1, <1>9, <3>1, <4>1, ConflictFrays DEF Conflict
        <5> QED BY <3>1, <5>1 DEF RoleOK
      <4>2. CASE req[c].op # "role"
        <5>1. PICK y \in Role : y = req[d].role
          BY <3>2
        <5> QED BY <2>3, <3>1, <4>2, <5>1 DEF RequestOK, RoleOK, Grows
      <4> QED BY <4>1, <4>2
    <3> QED BY <3>1, <3>2, <3>3, <3>4
            DEF RequestOK, RemoveOK, DeleteOK, CreateOK, Exclusive
  <2>5. \A d \in Client : InTouch(d, o, u)' => RequestOK(req[d], o, u)'
    BY <2>3, <2>4
  <2>6. Agree(o, u)' \/ \E d \in Client : InTouch(d, o, u)' /\ Loose(req[d], o, u)'
    <3>1. CASE Agree(o, u) \/ Loose(req[c], o, u)
      BY <1>3, <1>5, <1>9, <2>3, <3>1
    <3>2. CASE \E d \in Client \ {c} : InTouch(d, o, u) /\ Loose(req[d], o, u)
      BY <1>2, <1>4, <3>2
    <3> QED BY <3>1, <3>2 DEF PairOK
  <2> QED BY <2>3, <2>5, <2>6 DEF PairOK
<1> QED BY <1>1, <1>7, <1>8, <1>9, TouchOp

\* ... and over the acceptance of one.
LEMMA PairBegins ==
  ASSUME RecordInv, NEW c \in Client, NEW o \in Org, NEW u \in User, Begins(c),
         PairOK(o, u)
  PROVE  PairOK(o, u)'
<1>1. UNCHANGED <<org, member, tuple, owner>> /\ RequestTypeOK
  BY DEF Begins, RecordInv
<1>2. PairKept(o, u)
  BY <1>1 DEF PairKept, In, Holds, Owns
<1>3. ASSUME NEW d \in Client \ {c}
      PROVE  /\ InTouch(d, o, u)' <=> InTouch(d, o, u)
             /\ req'[d] = req[d] \/ (Serving(d) /\ req'[d] = [req[d] EXCEPT !.clean = FALSE])
  <2>1. req'[d] = req[d] \/ (Serving(d) /\ req'[d] = [req[d] EXCEPT !.clean = FALSE])
    BY <1>1, ServedIfNotIdle DEF Begins
  <2>2. /\ req'[d].pc = req[d].pc /\ req'[d].op = req[d].op
        /\ req'[d].org = req[d].org /\ req'[d].user = req[d].user
    BY <2>1 DEF Serving, InFlight
  <2> QED BY <2>1, <2>2 DEF InTouch, Touching
<1>4. ASSUME NEW d \in Client, InTouch(d, o, u)' PROVE RequestOK(req[d], o, u)'
  <2>1. CASE d = c
    <3>1. req'[d].pc = "read"
      BY <2>1 DEF Begins
    <3> QED BY <3>1 DEF RequestOK, AddOK, RoleOK, SpawnOK, RemoveOK, DeleteOK, CreateOK,
        Unwinding
  <2>2. CASE d # c /\ req'[d] = req[d]
    <3>1. InTouch(d, o, u)
      BY <1>3, <1>4, <2>2
    <3> QED BY <1>1, <1>2, <2>2, <3>1, RequestKept, TouchOp DEF PairOK
  <2>3. CASE d # c /\ Serving(d) /\ req'[d] = [req[d] EXCEPT !.clean = FALSE]
    <3>1. RequestOK(req[d], o, u) /\ req[d].role \in Role
      BY <1>1, <1>3, <1>4, <2>3, TouchOp DEF PairOK
    <3>2. /\ req'[d].pc = req[d].pc /\ req'[d].op = req[d].op
          /\ req'[d].org = req[d].org /\ req'[d].user = req[d].user
          /\ req'[d].rec = req[d].rec /\ req'[d].role = req[d].role
          /\ req'[d].todo = req[d].todo
      BY <2>3 DEF Serving, InFlight
    <3> QED BY <1>2, <3>1, <3>2, RequestKept
  <2> QED BY <1>3, <2>1, <2>2, <2>3
<1>5. ASSUME NEW d \in Client, InTouch(d, o, u), Loose(req[d], o, u)
      PROVE  InTouch(d, o, u)' /\ Loose(req[d], o, u)'
  <2>1. d # c
    BY <1>5, TouchMeans, <1>1 DEF Begins
  <2>2. /\ req'[d].pc = req[d].pc /\ req'[d].op = req[d].op
        /\ req'[d].org = req[d].org /\ req'[d].user = req[d].user
    BY <1>3, <2>1 DEF Serving, InFlight
  <2> QED BY <1>3, <1>5, <2>1, <2>2
          DEF Loose, LooseCreate, LooseRemove, LooseDelete, LooseAdd
<1>6. Agree(o, u)' \/ \E d \in Client : InTouch(d, o, u)' /\ Loose(req[d], o, u)'
  BY <1>2, <1>5, PairKeptMeans DEF PairOK
<1> QED BY <1>2, <1>4, <1>6, PairKeptMeans DEF PairOK

\* The invariant behind the members.
MemberInv ==
  /\ TouchInv
  /\ \A o \in Org, u \in User : <<o, u>> \notin frayed => PairOK(o, u)

\* The registry starts with stores that agree, and with no request at work.
LEMMA MemberInit == Init => MemberInv
<1> SUFFICES ASSUME Init PROVE MemberInv
  OBVIOUS
<1>1. \A c \in Client : req[c].pc = "idle" /\ req[c].op = "none"
  BY DEF Init, Idle
<1>2. ASSUME NEW o \in Org, NEW u \in User PROVE PairOK(o, u)
  <2>1. Known(o, u)
    <3>1. In(o, u) => o \in kcOrg
      BY SMTT(30) DEF Init, In
    <3>2. o \in kcOrg => \E d \in Disposition : org[o] = [NewRec EXCEPT !.disp = d]
      BY SMTT(30) DEF Init
    <3>3. \A d : [NewRec EXCEPT !.disp = d].known
      BY SMTT(30) DEF NewRec, NoRec
    <3> QED BY <3>1, <3>2, <3>3 DEF Known
  <2>2. Agree(o, u)
    <3>1. In(o, u) <=> HasRole(o, u)
      BY SMTT(30) DEF Init, In, HasRole, Holds, Role
    <3> QED BY <3>1 DEF Init, Agree, Owns
  <2>3. \A c \in Client : ~InTouch(c, o, u)
    BY <1>1 DEF InTouch, Touching
  <2> QED BY <2>1, <2>2, <2>3 DEF PairOK
<1> QED BY <1>2, TouchInit DEF MemberInv

\* Every step keeps the invariant.
LEMMA MemberNext == MemberInv /\ [Next]_vars => MemberInv'
<1> SUFFICES ASSUME MemberInv, [Next]_vars PROVE MemberInv'
  OBVIOUS
<1>1. /\ RequestTypeOK /\ StoreTypeOK /\ RecordInv /\ ConflictSeen
      /\ TouchInv'
  BY TouchNext DEF MemberInv, TouchInv, RecordInv
<1>2. CASE UNCHANGED orgVars
  <2>1. /\ org' = org /\ member' = member /\ tuple' = tuple
        /\ owner' = owner /\ req' = req /\ frayed' = frayed
    BY <1>2 DEF orgVars, history
  <2>2. ASSUME NEW o \in Org, NEW u \in User, <<o, u>> \notin frayed'
        PROVE  PairOK(o, u)'
    <3>1. PairKept(o, u) /\ PairOK(o, u)
      BY <2>1, <2>2 DEF PairKept, In, Holds, Owns, MemberInv
    <3>2. \A c \in Client : InTouch(c, o, u)' <=> InTouch(c, o, u)
      BY <2>1 DEF InTouch, Touching
    <3>3. \A c \in Client : InTouch(c, o, u)' => RequestOK(req[c], o, u)'
      BY <1>1, <2>1, <3>1, <3>2, RequestKept, TouchOp DEF PairOK
    <3>4. \A c \in Client : Loose(req[c], o, u) => Loose(req[c], o, u)'
      BY <2>1 DEF Loose, LooseCreate, LooseRemove, LooseDelete, LooseAdd
    <3> QED BY <3>1, <3>2, <3>3, <3>4, PairKeptMeans DEF PairOK
  <2> QED BY <1>1, <2>2 DEF MemberInv
<1>3. ASSUME NEW c \in Client, Begins(c) PROVE MemberInv'
  <2>1. \A o \in Org, u \in User : <<o, u>> \notin frayed' => PairOK(o, u)'
    BY <1>1, <1>3, PairBegins DEF MemberInv, Begins
  <2> QED BY <1>1, <2>1 DEF MemberInv
<1>4. ASSUME NEW c \in Client, Moves(c), RecMove(c), Step(c) \/ CallFails(c)
      PROVE  MemberInv'
  <2>1. frayed \subseteq frayed'
    BY <1>1, <1>4, Writers
  <2>2. \A o \in Org, u \in User : <<o, u>> \notin frayed' => PairOK(o, u)'
    BY <1>1, <1>4, <2>1, PairMoves DEF MemberInv
  <2> QED BY <1>1, <2>2 DEF MemberInv
<1> QED BY <1>1, <1>2, <1>3, <1>4, NextSplit

\* Keycloak and SpiceDB agree on who is a member, however many requests write
\* them one after the other: when no request is at work on a user and an
\* organization, and none failed or conflicted there, whoever holds a role or
\* owns an agent is a member, and a member holds a role.
THEOREM MembersAgree == Spec => []AccessMeansMember
<1>1. MemberInv => AccessMeansMember
  <2> SUFFICES ASSUME MemberInv, NEW o \in Org, NEW u \in User, Quiet(o, u),
                      <<o, u>> \notin frayed
               PROVE  /\ <<o, u>> \in owner => <<o, u>> \in member
                      /\ <<o, u>> \in member <=> \E x \in Role : <<o, x, u>> \in tuple
    BY DEF AccessMeansMember
  <2>1. Agree(o, u)
    BY DEF MemberInv, PairOK, Quiet, InTouch
  <2> QED BY <2>1 DEF Agree, In, HasRole, Holds, Owns
<1> QED BY <1>1, MemberInit, MemberNext, PTL DEF Spec

\* A create that failed leaves nothing of the organization it made, whatever
\* other requests do meanwhile, as long as none overlaps with it.
THEOREM UnwoundClean == Spec => []UnwindLeavesNothing
<1>1. MemberInv /\ UnwindInv => UnwindLeavesNothing
  <2> SUFFICES ASSUME MemberInv, UnwindInv, NEW c \in Client, req[c].pc = "unwound", req[c].clean
               PROVE  LET o == req[c].org u == req[c].user
                      IN  /\ ~org[o].known /\ o \notin kcOrg
                          /\ <<o, u>> \notin frayed =>
                               <<o, u>> \notin member /\ <<o, "admin", u>> \notin tuple
    BY DEF UnwindLeavesNothing
  <2>1. req[c].op \in CreateOp /\ ~org[req[c].org].known /\ req[c].org \notin kcOrg
    BY DEF UnwindInv, UnwoundOK
  <2>2. /\ RequestTypeOK /\ req[c].org \in Org /\ req[c].user \in User
    BY <2>1, ServedIfNotIdle
    DEF MemberInv, TouchInv, RecordInv, Serving, Addressed, GrantOp, UserOp, CreateOp
  <2>3. ASSUME <<req[c].org, req[c].user>> \notin frayed
        PROVE  Bare(req[c].org, req[c].user)
    <3>1. PairOK(req[c].org, req[c].user) /\ InTouch(c, req[c].org, req[c].user)
      BY <2>1, <2>2, <2>3, TouchMeans DEF MemberInv, AccountOp, CreateOp
    <3>2. CreateOK(req[c], req[c].org, req[c].user)
      BY <3>1 DEF PairOK, RequestOK
    <3> QED BY <2>1, <3>2 DEF CreateOK, Fresh, BarePoint
  <2>4. Bare(req[c].org, req[c].user) =>
          /\ <<req[c].org, req[c].user>> \notin member
          /\ <<req[c].org, "admin", req[c].user>> \notin tuple
    BY DEF Bare, In, HasRole, Holds, Role
  <2> QED BY <2>1, <2>3, <2>4
<1> QED BY <1>1, MemberInit, MemberNext, UnwindInit, UnwindNext, PTL DEF Spec

-----------------------------------------------------------------------------
(* Whose account an organization has locked                                  *)

\* What a request at work on user u of organization o relies on, or owes.
DisableTag(c, o, u) ==
  req[c].op = "disable" =>
    /\ req[c].pc \in {"list", "edit", "agents"} => org[o].disabled
    /\ req[c].pc = "edit" /\ u \in req[c].todo => In(o, u)
    /\ Editing(c, "suspend", o, u) => In(o, u)

LiftTag(c, o, u) ==
  /\ req[c].op \in {"enable", "delete"} /\ req[c].pc = "edit" /\ Tagged(o, u) =>
       u \in req[c].todo \/ Editing(c, "lift", o, u)
  /\ req[c].op = "enable" /\ req[c].pc = "put" => ~Tagged(o, u)
  /\ req[c].op = "delete" /\ req[c].pc \notin {"read", "list", "edit"} => ~Tagged(o, u)

RewriteTag(c, o, u) ==
  req[c].op \in RewriteOp /\ req[c].pc = "put" /\ ~req[c].rec.disabled => ~Tagged(o, u)

RemoveTag(c, o, u) ==
  req[c].op \in RemoveOp /\ req[c].org = o =>
    /\ req[c].pc = "disp" /\ ~req[c].rec.disabled => ~Tagged(o, u)
    /\ req[c].pc = "unlocking" /\ Tagged(o, u) => Editing(c, "lift", o, u)

CreateTag(c, o, u) ==
  req[c].op \in CreateOp =>
    /\ req[c].pc # "read" /\ ~req[c].rec.known => ~Tagged(o, u)
    /\ req[c].pc \in FreshPoint /\ req[c].rec.known /\ Tagged(o, u) =>
         req[c].rec.disabled

TagOK(c, o, u) ==
  /\ DisableTag(c, o, u) /\ LiftTag(c, o, u) /\ RewriteTag(c, o, u)
  /\ RemoveTag(c, o, u) /\ CreateTag(c, o, u)

\* An organization locks accounts only while it is suspended, and only its
\* members' accounts.
TagPair(o, u) ==
  /\ Tagged(o, u) => org[o].disabled
  /\ \/ Tagged(o, u) => In(o, u)
     \/ \E c \in Client : InTouch(c, o, u) /\ Leaving(req[c], o)
  /\ \A c \in Client : InTouch(c, o, u) => TagOK(c, o, u)

\* ... when request c is the only one at work on the pair.
TagAlone(c, o, u) ==
  /\ Tagged(o, u) => org[o].disabled
  /\ (Tagged(o, u) => In(o, u)) \/ Leaving(req[c], o)
  /\ TagOK(c, o, u)

\* A pair nobody writes keeps what its requests rely on.
LEMMA TagOKKept ==
  ASSUME NEW d \in Client, NEW o \in Org, NEW u \in User, TagOK(d, o, u),
         In(o, u)' <=> In(o, u), org'[o] = org[o], Tagged(o, u)' <=> Tagged(o, u),
         \A k \in {"suspend", "lift"} : Editing(d, k, o, u)' <=> Editing(d, k, o, u),
         req'[d].pc = req[d].pc, req'[d].op = req[d].op, req'[d].org = req[d].org,
         req'[d].rec = req[d].rec, req'[d].todo = req[d].todo
  PROVE  TagOK(d, o, u)'
<1>1. DisableTag(d, o, u)' /\ LiftTag(d, o, u)'
  BY DEF TagOK, DisableTag, LiftTag
<1>2. RewriteTag(d, o, u)' /\ RemoveTag(d, o, u)' /\ CreateTag(d, o, u)'
  BY DEF TagOK, RewriteTag, RemoveTag, CreateTag
<1> QED BY <1>1, <1>2 DEF TagOK

\* The edits of u's account that others are in go on, unless it is deleted.
LEMMA EditingKept ==
  ASSUME DirInv, NEW c \in Client, Step(c) \/ CallFails(c), NEW d \in Client \ {c},
         NEW o \in Org, NEW u \in User, ~(DeleteUserAccount(c) /\ req[c].user = u), NEW k
  PROVE  Editing(d, k, o, u)' <=> Editing(d, k, o, u)
<1>1. DirTypeOK
  BY DEF DirInv
<1>2. CASE edit'[d] = edit[d]
  BY <1>2 DEF Editing
<1>3. CASE /\ edit[d].pc # "idle" /\ edit[d].user # u
           /\ edit'[d] = [edit[d] EXCEPT !.stale = TRUE]
  <2>1. edit[d] \in Edit
    BY <1>1, <1>3, NoEditIsIdle DEF DirTypeOK
  <2>2. edit'[d].user = edit[d].user
    BY <1>3, <2>1 DEF Edit
  <2> QED BY <1>3, <2>2 DEF Editing
<1> QED BY <1>1, <1>2, <1>3, EditMoves

\* A step of a request that does not touch a pair leaves its locks alone.
LEMMA TagApart ==
  ASSUME RequestTypeOK, StoreTypeOK, DirInv, NEW c \in Client, NEW o \in Org,
         NEW u \in User, ~InTouch(c, o, u), EditOf(c),
         Step(c) \/ CallFails(c), Moves(c) \/ EditStep(c), TagPair(o, u)
  PROVE  TagPair(o, u)'
<1>1. ~(DeleteUserAccount(c) /\ req[c].user = u)
  BY TouchMeans DEF DeleteUserAccount, On, AccountOp
<1>2. Tagged(o, u)' <=> Tagged(o, u)
  <2>1. CASE EditStep(c)
    <3>1. ~Editing(c, "suspend", o, u) /\ ~Editing(c, "lift", o, u)
      <4>1. ASSUME Editing(c, "suspend", o, u) \/ Editing(c, "lift", o, u)
            PROVE  InTouch(c, o, u)
        <5>1. /\ req[c].org = o /\ req[c].pc # "idle" /\ req[c].op \notin AccountOp
              /\ \/ req[c].op \in {"disable", "enable", "delete"}
                 \/ req[c].op \in RemoveOp /\ req[c].user = u
          BY <4>1 DEF Editing, EditOf, AccountOp, RemoveOp
        <5>2. req[c].op \in {"disable", "enable", "delete"} =>
                About(req[c].op, req[c].user) = Nobody
          BY <5>1, ServedIfNotIdle DEF Serving, Addressed, About
        <5> QED BY <5>1, <5>2, TouchMeans
      <4> QED BY <4>1
    <3> QED BY <2>1, <3>1, EditWrites
  <2> QED BY <1>1, <2>1, TagKept
<1>3. PairKept(o, u) /\ org'[o] = org[o]
  BY Apart
<1>4. \A d \in Client \ {c} : req'[d] = req[d]
  BY MovesType DEF EditStep, orgVars
<1>5. ~InTouch(c, o, u)'
  <2>1. EditStep(c) => req' = req
    BY DEF EditStep, orgVars
  <2> QED BY <2>1, TouchKept DEF InTouch, Touching
<1>6. \A d \in Client \ {c} : InTouch(d, o, u)' <=> InTouch(d, o, u)
  BY <1>4 DEF InTouch, Touching
<1>7. ASSUME NEW d \in Client, InTouch(d, o, u)' PROVE TagOK(d, o, u)'
  <2>1. d # c /\ req'[d] = req[d] /\ InTouch(d, o, u)
    BY <1>4, <1>5, <1>6, <1>7
  <2>2. \A k : Editing(d, k, o, u)' <=> Editing(d, k, o, u)
    BY <1>1, <2>1, EditingKept
  <2> QED BY <1>2, <1>3, <2>1, <2>2, TagOKKept DEF TagPair, PairKept
<1>8. \/ Tagged(o, u)' => In(o, u)'
      \/ \E d \in Client : InTouch(d, o, u)' /\ Leaving(req'[d], o)
  BY <1>2, <1>3, <1>4, <1>6 DEF TagPair, PairKept
<1> QED BY <1>2, <1>3, <1>7, <1>8 DEF TagPair, Leaving

\* The PUT of an edit, by whichever request.
LEMMA TagEdit ==
  ASSUME RequestTypeOK, StoreTypeOK, DirInv, ConflictSeen, NEW c \in Client,
         NEW o \in Org, NEW u \in User, EditOf(c), EditStep(c), <<o, u>> \notin frayed,
         TagPair(o, u)
  PROVE  TagPair(o, u)'
<1>1. /\ UNCHANGED <<org, member, req>>
      /\ \A d \in Client : InTouch(d, o, u)' <=> InTouch(d, o, u)
      /\ In(o, u)' <=> In(o, u)
  BY DEF EditStep, orgVars, InTouch, Touching, In
<1>2. ASSUME NEW d \in Client \ {c}, NEW k
      PROVE  Editing(d, k, o, u)' <=> Editing(d, k, o, u)
  <2>1. ~DeleteUserAccount(c)
    <3>1. ~(EditOf(c) /\ edit[c].pc # "idle" /\ DeleteUserAccount(c))
      BY DEF EditOf, DeleteUserAccount, On, RemoveOp, AccountOp
    <3> QED BY <3>1 DEF EditStep, EditPut, Logout
  <2> QED BY <2>1, EditingKept DEF Step
<1>3. \A k : ~Editing(c, k, o, u)'
  BY EditWrites
<1>4. CASE Editing(c, "suspend", o, u) /\ Tagged(o, u)'
  <2>1. req[c].op = "disable" /\ req[c].pc = "edit" /\ req[c].org = o
    BY <1>4 DEF Editing, EditOf, AccountOp
  <2>2. InTouch(c, o, u)
    <3>1. About(req[c].op, req[c].user) = Nobody
      BY <2>1, ServedIfNotIdle DEF Serving, Addressed, About
    <3> QED BY <2>1, <3>1, TouchMeans DEF AccountOp
  <2>3. org[o].disabled /\ In(o, u)
    BY <1>4, <2>1, <2>2 DEF TagPair, TagOK, DisableTag
  <2>4. ASSUME NEW d \in Client, InTouch(d, o, u) PROVE TagOK(d, o, u)'
    <3>1. d # c => ~Conflict(req[c].op, req[d].op)
      BY <2>2, <2>4, ConflictFrays
    <3>2. req[d].op \notin {"enable", "delete"} \cup RewriteOp \cup RemoveOp \cup CreateOp
      BY <2>1, <3>1 DEF Conflict, RewriteOp, RemoveOp, CreateOp
    <3>3. DisableTag(d, o, u)'
      BY <1>1, <1>2, <1>3, <2>4 DEF TagPair, TagOK, DisableTag
    <3> QED BY <1>1, <3>2, <3>3 DEF TagOK, LiftTag, RewriteTag, RemoveTag, CreateTag
  <2> QED BY <1>1, <2>3, <2>4 DEF TagPair
<1>5. CASE ~Tagged(o, u)'
  <2>1. ASSUME NEW d \in Client, InTouch(d, o, u) PROVE TagOK(d, o, u)'
    <3>1. DisableTag(d, o, u)'
      BY <1>1, <1>2, <1>3, <2>1 DEF TagPair, TagOK, DisableTag
    <3> QED BY <1>5, <3>1 DEF TagOK, LiftTag, RewriteTag, RemoveTag, CreateTag
  <2> QED BY <1>1, <1>5, <2>1 DEF TagPair
<1>6. CASE /\ ~Editing(c, "suspend", o, u) /\ ~Editing(c, "lift", o, u)
           /\ Tagged(o, u)' <=> Tagged(o, u)
  <2>1. ASSUME NEW d \in Client, InTouch(d, o, u) PROVE TagOK(d, o, u)'
    <3>1. \A k \in {"suspend", "lift"} : Editing(d, k, o, u)' <=> Editing(d, k, o, u)
      BY <1>2, <1>3, <1>6
    <3> QED BY <1>1, <1>6, <2>1, <3>1, TagOKKept DEF TagPair
  <2>2. \/ Tagged(o, u)' => In(o, u)'
        \/ \E d \in Client : InTouch(d, o, u)' /\ Leaving(req'[d], o)
    BY <1>1, <1>6 DEF TagPair
  <2> QED BY <1>1, <1>6, <2>1, <2>2 DEF TagPair, Leaving
<1> QED BY <1>4, <1>5, <1>6, EditWrites

\* What a step of a request alone on a pair has to show.
LEMMA TagOKByOp ==
  ASSUME NEW c \in Client, NEW o, NEW u
  PROVE  /\ req'[c].op \in CreateOp => (CreateTag(c, o, u)' => TagOK(c, o, u)')
         /\ req'[c].op \in RemoveOp => (RemoveTag(c, o, u)' => TagOK(c, o, u)')
         /\ req'[c].op = "delete" => (LiftTag(c, o, u)' => TagOK(c, o, u)')
         /\ req'[c] = Idle => TagOK(c, o, u)'
<1>1. /\ req'[c].op \in CreateOp =>
           /\ DisableTag(c, o, u)' /\ LiftTag(c, o, u)' /\ RewriteTag(c, o, u)'
           /\ RemoveTag(c, o, u)'
      /\ req'[c].op \in RemoveOp =>
           /\ DisableTag(c, o, u)' /\ LiftTag(c, o, u)' /\ RewriteTag(c, o, u)'
           /\ CreateTag(c, o, u)'
      /\ req'[c].op = "delete" =>
           /\ DisableTag(c, o, u)' /\ RewriteTag(c, o, u)' /\ RemoveTag(c, o, u)'
           /\ CreateTag(c, o, u)'
  BY DEF DisableTag, LiftTag, RewriteTag, RemoveTag, CreateTag, CreateOp, RemoveOp,
     RewriteOp
<1>2. req'[c] = Idle => TagOK(c, o, u)'
  BY IdleFields DEF TagOK, DisableTag, LiftTag, RewriteTag, RemoveTag, CreateTag,
     CreateOp, RemoveOp, RewriteOp
<1> QED BY <1>1, <1>2 DEF TagOK

\* A create alone on a pair.
LEMMA CreateTags ==
  ASSUME RecordInv, DirInv, NEW c \in Client, NEW o \in Org, NEW u \in User,
         req[c].op \in CreateOp, req[c].org = o, Moves(c), RecMove(c),
         Step(c) \/ CallFails(c), ~EditStep(c), CreateOK(req[c], o, u),
         TagAlone(c, o, u)
  PROVE  TagAlone(c, o, u)'
<1> DEFINE r == req[c]
           s == req'[c]
<1>1. /\ RequestTypeOK /\ StoreTypeOK /\ CreateTag(c, o, u)
      /\ Tagged(o, u) => org[o].disabled /\ org[o].known /\ In(o, u)
  BY DEF RecordInv, TagAlone, TagOK, Leaving, CreateOp, RemoveOp, RecOK
<1>2. Tagged(o, u)' <=> Tagged(o, u)
  <2>1. ~DeleteUserAccount(c)
    BY DEF DeleteUserAccount, On, CreateOp
  <2> QED BY <1>1, <2>1, TagKept
<1>3. Tagged(o, u) => org'[o].disabled
  <2>1. CASE ~WritesRecord(c)
    BY <1>1, <2>1, Writers
  <2>2. ASSUME Tagged(o, u), NEW n, RecordWrite(c, n), r.pc # "read" PROVE org'[o].disabled
    <3>1. r.rec.known
      BY <1>1, <2>2 DEF CreateTag
    <3>2. Carries(c, n)
      BY <2>2, <3>1 DEF RecordWrite, CreateOK, Unwinding, CreateOp
    <3>3. n.disabled
      BY <1>1, <2>2, <3>1, <3>2 DEF Carries, CreateTag, FreshPoint, CreateOp
    <3> QED BY <1>1, <2>2, <3>3 DEF RecordWrite, StoreTypeOK
  <2>3. WritesRecord(c) => r.pc # "read"
    BY DEF WritesRecord, RewritePut, CreatePut, UnwindPut, DisablePut, EnablePut,
       DeleteRecord, On
  <2> QED BY <1>1, <2>1, <2>2, <2>3, RecordWrites
<1>4. Tagged(o, u) => In(o, u)'
  <2>1. CASE ~WritesMember(c)
    BY <1>1, <2>1, Writers DEF In
  <2>2. CASE Join(c)
    BY <1>1, <2>2 DEF Join, In
  <2>3. CASE WritesMember(c) /\ ~Join(c)
    <3>1. UnwindJoin(c) \/ UnwindKc(c)
      BY <2>3 DEF WritesMember, DeleteKc, RemoveLeave, DeleteUserAccount, On, CreateOp,
         RemoveOp
    <3>2. r.pc \in Unwinding /\ r.pc # "read"
      BY <3>1 DEF UnwindJoin, UnwindKc, On, Unwinding
    <3> QED BY <1>1, <3>2 DEF CreateOK, CreateTag
  <2> QED BY <2>1, <2>2, <2>3
<1>5. CASE s = Idle
  BY <1>2, <1>3, <1>4, <1>5, TagOKByOp DEF TagAlone
<1>6. CASE s # Idle
  <2>1. s.op = r.op /\ r.pc # "idle"
    BY <1>6 DEF Moves, Same, InFlight, Point, PlainPoint, UriPoint, LeavePoint
  <2>2. CreateTag(c, o, u)'
    <3>1. CASE r.pc = "read"
      <4>1. ~CallFails(c)
        <5>1. AfterFailure(r) = "idle"
          BY <3>1 DEF AfterFailure, Unwinding, CreateOp
        <5> QED BY <1>1, <1>6, <5>1, FailureMoves
      <4>2. CreateRead(c)
        <5>1. ~(\/ SignupCap(c) \/ SignupMine(c) \/ CreateKc(c) \/ CreatePut(c)
                \/ WriteTuple(c) \/ Join(c) \/ UrisGet(c) \/ UrisPut(c)
                \/ UnwindTuple(c) \/ UnwindJoin(c) \/ UnwindPut(c) \/ UnwindKc(c)
                \/ Unwound(c))
          BY <3>1 DEF SignupCap, SignupMine, CreateKc, CreatePut, WriteTuple, Join,
             UrisGet, UrisPut, UnwindTuple, UnwindJoin, UnwindPut, UnwindKc, Unwound, On
        <5> QED BY <4>1, <5>1, CreateActs
      <4>3. s = [r EXCEPT !.rec = org[o], !.pc = s.pc]
        BY <4>2, <1>1 DEF CreateRead, RequestTypeOK
      <4>4. s.rec = org[o]
        BY <4>3 DEF Moves, InFlight
      <4> QED BY <1>1, <1>2, <4>4 DEF CreateTag
    <3>2. CASE r.pc # "read"
      <4>1. s.rec = r.rec
        BY <1>6, <3>2 DEF RecMove, CreateOp, RemoveOp
      <4>2. s.pc \in FreshPoint => r.pc \in FreshPoint
        <5>1. CASE CallFails(c)
          <6>1. AfterFailure(r) \notin FreshPoint
            BY DEF AfterFailure, FreshPoint
          <6> QED BY <1>1, <1>6, <5>1, <6>1, FailureMoves
        <5>2. CASE Step(c)
          BY <1>1, <1>6, <3>2, <5>2, CreateTable DEF CreateEdge, FreshPoint
        <5> QED BY <5>1, <5>2
      <4> QED BY <1>1, <1>2, <2>1, <3>2, <4>1, <4>2 DEF CreateTag
    <3> QED BY <3>1, <3>2
  <2>3. TagOK(c, o, u)'
    BY <2>1, <2>2, TagOKByOp
  <2> QED BY <1>2, <1>3, <1>4, <2>3 DEF TagAlone
<1> QED BY <1>5, <1>6

\* A tagged account is one Keycloak knows.
LEMMA TaggedKnown ==
  ASSUME DirInv, NEW o \in Org, NEW u \in User, Tagged(o, u)
  PROVE  acct[u].known
BY DEF DirInv, RepOK, Tagged

\* A removal alone on a pair.
LEMMA RemoveTags ==
  ASSUME RecordInv, DirInv, NEW c \in Client, NEW o \in Org, NEW u \in User,
         req[c].op \in RemoveOp, req[c].user = u, req[c].op = "remove" => req[c].org = o,
         Moves(c), RecMove(c), Step(c) \/ CallFails(c), ~EditStep(c),
         <<o, u>> \notin frayed', TagAlone(c, o, u)
  PROVE  TagAlone(c, o, u)'
<1> DEFINE r == req[c]
           s == req'[c]
           Goal == (In(o, u)' \/ Leaving(s, o)) /\ (s = Idle \/ RemoveTag(c, o, u)')
<1>1. /\ RequestTypeOK /\ StoreTypeOK /\ RemoveTag(c, o, u)
      /\ Tagged(o, u) => org[o].disabled /\ (In(o, u) \/ Leaving(r, o))
  BY DEF RecordInv, TagAlone, TagOK
<1>2. r \in InFlight /\ r.pc # "idle" /\ r.pc \notin UriPoint
  <2>1. r \in InFlight /\ r.pc # "idle"
    BY DEF Moves, InFlight, Point, PlainPoint, UriPoint, LeavePoint
  <2> QED BY <1>1, <2>1, ServedIfNotIdle DEF Serving, Addressed, CreateOp, RemoveOp
<1>3. org'[o] = org[o]
  <2>1. ~WritesRecord(c)
    BY <1>1, RecordWrites DEF WriteOp, RewriteOp, CreateOp, RemoveOp
  <2> QED BY <1>1, <2>1, Writers
<1>4. SUFFICES ASSUME Tagged(o, u)', Tagged(o, u), ~DeleteUserAccount(c)
               PROVE  Goal
  <2>1. s # Idle => s.op \in RemoveOp
    BY DEF Moves, Same
  <2>2. CASE ~Tagged(o, u)'
    <3>1. RemoveTag(c, o, u)'
      BY <2>2 DEF RemoveTag
    <3> QED BY <2>1, <2>2, <3>1, TagOKByOp DEF TagAlone
  <2>3. CASE Tagged(o, u)'
    <3>1. Tagged(o, u) /\ ~DeleteUserAccount(c)
      BY <1>1, <2>3, TagKept
    <3>2. TagOK(c, o, u)'
      BY <1>4, <2>1, <2>3, <3>1, TagOKByOp
    <3>3. (Tagged(o, u)' => In(o, u)') \/ Leaving(req[c], o)'
      BY <1>4, <2>3, <3>1 DEF Leaving
    <3> QED BY <1>1, <1>3, <3>1, <3>2, <3>3 DEF TagAlone
  <2> QED BY <2>2, <2>3
<1>5. Reply(c) => s = Idle
  BY <1>1 DEF Reply, RequestTypeOK
<1>6. ASSUME NEW p, Goto(c, p) PROVE s.pc = p /\ s.org = r.org
  <2>1. s = [r EXCEPT !.pc = p]
    BY <1>1, <1>6 DEF Goto, RequestTypeOK
  <2> QED BY <1>2, <2>1 DEF InFlight
<1>7. ASSUME member' = member, ~Leaving(r, o),
             s = Idle \/ s.org # o \/ s.pc \notin {"disp", "unlocking"}
      PROVE  Goal
  BY <1>1, <1>4, <1>7 DEF In, RemoveTag
<1>8. ASSUME ReadOrg(c) PROVE Goal
  <2>1. /\ r.pc = "read" /\ member' = member
        /\ Reply(c) \/ req' = [req EXCEPT ![c].pc = "untuple", ![c].rec = org[r.org]]
    BY <1>8 DEF ReadOrg, Reads, UserOp, RemoveOp
  <2>2. ASSUME ~Reply(c) PROVE s.pc = "untuple"
    <3>1. s = [r EXCEPT !.pc = "untuple", !.rec = org[r.org]]
      BY <1>1, <2>1, <2>2 DEF RequestTypeOK
    <3> QED BY <1>2, <3>1 DEF InFlight
  <2> QED BY <1>5, <1>7, <2>1, <2>2 DEF Leaving
<1>9. ASSUME RemoveTuples(c) PROVE Goal
  <2>1. r.pc = "untuple" /\ member' = member /\ Goto(c, "leave")
    BY <1>9 DEF RemoveTuples, On
  <2>2. s.pc = "leave"
    BY <1>6, <2>1
  <2> QED BY <1>7, <2>1, <2>2 DEF Leaving
<1>10. ASSUME RemoveLeave(c) PROVE Goal
  <2>1. r.pc = "leave" /\ member' = member \ {<<r.org, u>>} /\ Goto(c, "load")
    BY <1>10 DEF RemoveLeave, On
  <2>2. s.pc = "load" /\ s.org = r.org /\ (s # Idle => s.op = r.op)
    BY <1>6, <2>1 DEF Moves, Same
  <2>3. s # Idle
    BY <2>2, IdleFields
  <2>4. r.org # o => In(o, u)'
    BY <1>1, <1>4, <2>1, SMTT(30) DEF In, Leaving
  <2> QED BY <2>2, <2>3, <2>4 DEF Leaving, RemoveTag
<1>11. ASSUME RemoveLoad(c) PROVE Goal
  <2>1. r.pc = "load" /\ member' = member
        /\ req' = [req EXCEPT ![c].pc = "disp", ![c].rec = org[r.org]]
    BY <1>11 DEF RemoveLoad, On, Reads
  <2>2. s = [r EXCEPT !.pc = "disp", !.rec = org[r.org]]
    BY <1>1, <2>1 DEF RequestTypeOK
  <2>3. s.pc = "disp" /\ s.rec = org[r.org] /\ s.org = r.org /\ s.op = r.op
    BY <1>2, <2>2 DEF InFlight
  <2>4. CASE r.org = o
    BY <1>1, <1>4, <2>3, <2>4 DEF Leaving, RemoveTag
  <2>5. CASE r.org # o
    BY <1>7, <2>1, <2>3, <2>5 DEF Leaving
  <2> QED BY <2>4, <2>5
<1>12. ASSUME RemoveDispose(c) PROVE Goal
  <2>1. /\ r.pc = "disp" /\ member' = member
        /\ s = IF r.rec.disabled THEN [r EXCEPT !.pc = "unlock"] ELSE RemoveNext(r)
    BY <1>1, <1>12 DEF RemoveDispose, On, RequestTypeOK
  <2>2. CASE r.org = o
    <3>1. s = [r EXCEPT !.pc = "unlock"]
      BY <1>1, <1>4, <2>1, <2>2 DEF RemoveTag
    <3>2. s.pc = "unlock" /\ s.org = r.org /\ s.op = r.op
      BY <1>2, <3>1 DEF InFlight
    <3> QED BY <2>2, <3>2 DEF Leaving, RemoveTag
  <2>3. CASE r.org # o
    <3>1. s = Idle \/ s.org = r.org
      BY <1>2, <2>1 DEF RemoveNext, InFlight
    <3> QED BY <1>7, <2>1, <2>3, <3>1 DEF Leaving
  <2> QED BY <2>2, <2>3
<1>13. ASSUME RemoveUnlock(c) PROVE Goal
  <2>1. /\ r.pc = "unlock" /\ member' = member /\ Goto(c, "unlocking")
        /\ acct[u].known => EditGet(c, "lift", u, r.org)
    BY <1>13 DEF RemoveUnlock, On
  <2>2. s.pc = "unlocking" /\ s.org = r.org /\ (s # Idle => s.op = r.op)
    BY <1>6, <2>1 DEF Moves, Same
  <2>3. s # Idle
    BY <2>2, IdleFields
  <2>4. CASE r.org = o
    <3>1. Editing(c, "lift", o, u)'
      BY <1>4, <2>1, <2>4, EditBegins, TaggedKnown
    <3> QED BY <2>2, <2>3, <2>4, <3>1 DEF Leaving, RemoveTag
  <2>5. CASE r.org # o
    BY <1>7, <2>1, <2>2, <2>5 DEF Leaving
  <2> QED BY <2>4, <2>5
<1>14. ASSUME RemoveUnlocked(c) PROVE Goal
  <2>1. /\ r.pc = "unlocking" /\ member' = member /\ edit[c].pc = "idle"
        /\ s = RemoveNext(r)
    BY <1>1, <1>14 DEF RemoveUnlocked, On, RequestTypeOK
  <2>2. r.org # o
    BY <1>1, <1>4, <2>1 DEF RemoveTag, Editing
  <2>3. s = Idle \/ s.org = r.org
    BY <1>2, <2>1 DEF RemoveNext, InFlight
  <2> QED BY <1>7, <2>1, <2>2, <2>3 DEF Leaving
<1>15. ASSUME DeleteUserEstate(c) \/ DeleteUserOrgs(c) PROVE Goal
  <2>1. /\ r.pc \in {"read", "orgs"} /\ member' = member
        /\ \/ Reply(c) \/ Goto(c, "orgs")
           \/ req' = [req EXCEPT ![c].pc = "next",
                                 ![c].rest = {x \in Org : <<x, r.user>> \in member}]
    BY <1>15 DEF DeleteUserEstate, DeleteUserOrgs, On, Reads
  <2>2. s = Idle \/ s.pc \in {"orgs", "next"}
    <3> DEFINE v == {x \in Org : <<x, r.user>> \in member}
    <3> HIDE DEF v
    <3>1. ASSUME req' = [req EXCEPT ![c].pc = "next", ![c].rest = v] PROVE s.pc = "next"
      <4>1. s = [r EXCEPT !.pc = "next", !.rest = v]
        BY <1>1, <3>1 DEF RequestTypeOK
      <4> QED BY <1>2, <4>1 DEF InFlight
    <3> QED BY <1>5, <1>6, <2>1, <3>1 DEF v
  <2> QED BY <1>7, <2>1, <2>2 DEF Leaving
<1>16. ASSUME DeleteUserNext(c) PROVE Goal
  <2>1. r.pc = "next" /\ member' = member
    BY <1>16 DEF DeleteUserNext, On, Reads
  <2>2. PICK x, v : req' = [req EXCEPT ![c].org = x, ![c].rest = v, ![c].pc = "untuple"]
    BY <1>16 DEF DeleteUserNext
  <2>3. s = [r EXCEPT !.org = x, !.rest = v, !.pc = "untuple"]
    BY <1>1, <2>2 DEF RequestTypeOK
  <2>4. s.pc = "untuple"
    BY <1>2, <2>3 DEF InFlight
  <2> QED BY <1>7, <2>1, <2>4 DEF Leaving
<1>17. ASSUME CallFails(c) PROVE Goal
  <2>1. member' = member /\ (s # Idle => s.org = r.org)
    BY <1>1, <1>17, FailureMoves DEF CallFails
  <2>2. r.org # o
    <3>1. ASSUME r.org = o PROVE <<o, u>> \in frayed'
      <4>1. r.op = "remove" \/ (r.op = "deleteUser" /\ r.org # Nobody)
        BY <3>1, NobodyIsNoUser DEF RemoveOp
      <4>2. frayed' = frayed \cup PairsOf(o, u)
        BY <1>17, <3>1, <4>1 DEF CallFails, About, CreateOp
      <4>3. <<o, u>> \in PairsOf(o, u)
        BY NobodyIsNoUser DEF PairsOf
      <4> QED BY <4>2, <4>3
    <3> QED BY <3>1
  <2> QED BY <1>7, <2>1, <2>2 DEF Leaving
<1> QED BY <1>2, <1>4, <1>8, <1>9, <1>10, <1>11, <1>12, <1>13, <1>14, <1>15, <1>16,
      <1>17, RemoveActs

\* A list of the accounts to unlock is worked off one by one.
LEMMA LiftMoves ==
  ASSUME RequestTypeOK, DirInv, NEW c \in Client, NEW o \in Org, NEW u \in User,
         req[c].op \in {"enable", "delete"}, req[c].org = o, Tagged(o, u), In(o, u),
         LiftTag(c, o, u), ListForEnable(c) \/ EditMember(c) \/ EditMembersDone(c)
  PROVE  req'[c].pc = "edit" /\ (u \in req'[c].todo \/ Editing(c, "lift", o, u)')
<1> DEFINE r == req[c]
           s == req'[c]
<1>1. r \in InFlight
  BY ServedIfNotIdle DEF ListForEnable, EditMember, EditMembersDone, On, Serving
<1>2. CASE ListForEnable(c)
  <2> DEFINE v == MembersOf(o)
  <2>1. u \in v
    BY DEF MembersOf, In
  <2> HIDE DEF v
  <2>2. s = [r EXCEPT !.pc = "edit", !.todo = v]
    BY <1>2 DEF ListForEnable, RequestTypeOK, v
  <2>3. s.pc = "edit" /\ s.todo = v
    BY <1>1, <2>2 DEF InFlight
  <2> QED BY <2>1, <2>3
<1>3. CASE EditMember(c)
  <2>1. r.pc = "edit" /\ edit[c].pc = "idle" /\ u \in r.todo
    BY <1>3 DEF EditMember, On, LiftTag, Editing
  <2>2. PICK v : /\ req' = [req EXCEPT ![c].todo = @ \ {v}]
                 /\ acct[v].known => EditGet(c, "lift", v, o)
    BY <1>3 DEF EditMember
  <2>3. s = [r EXCEPT !.todo = r.todo \ {v}]
    BY <2>2 DEF RequestTypeOK
  <2>4. s.pc = "edit" /\ s.todo = r.todo \ {v}
    BY <1>1, <2>1, <2>3 DEF InFlight
  <2>5. v = u => Editing(c, "lift", o, u)'
    BY <2>2, EditBegins, TaggedKnown
  <2> QED BY <2>1, <2>4, <2>5
<1>4. CASE EditMembersDone(c)
  BY <1>4 DEF EditMembersDone, On, LiftTag, Editing
<1> QED BY <1>2, <1>3, <1>4

\* A deletion alone on a pair.
LEMMA DeleteTags ==
  ASSUME RecordInv, DirInv, NEW c \in Client, NEW o \in Org, NEW u \in User,
         req[c].op = "delete", req[c].org = o,
         Moves(c), RecMove(c), Step(c) \/ CallFails(c), ~EditStep(c),
         <<o, u>> \notin frayed', TagAlone(c, o, u)
  PROVE  TagAlone(c, o, u)'
<1> DEFINE r == req[c]
           s == req'[c]
<1>1. /\ RequestTypeOK /\ StoreTypeOK /\ LiftTag(c, o, u)
      /\ Tagged(o, u) => org[o].disabled /\ In(o, u)
  BY DEF RecordInv, TagAlone, TagOK, Leaving, RemoveOp
<1>2. Tagged(o, u)' <=> Tagged(o, u)
  BY <1>1, TagKept DEF DeleteUserAccount, On
<1>3. s # Idle => s.op = "delete"
  BY DEF Moves, Same
<1>4. CASE ~Tagged(o, u)
  <2>1. LiftTag(c, o, u)'
    BY <1>2, <1>4 DEF LiftTag
  <2> QED BY <1>2, <1>3, <1>4, <2>1, TagOKByOp DEF TagAlone
<1>5. CASE Tagged(o, u)
  <2>1. Step(c)
    <3>1. ASSUME CallFails(c) PROVE <<o, u>> \in frayed'
      <4>1. About(r.op, r.user) = Nobody
        BY <1>1, <3>1, ServedIfNotIdle DEF CallFails, Serving, Addressed, About
      <4>2. frayed' = frayed \cup PairsOf(o, Nobody)
        BY <3>1, <4>1 DEF CallFails
      <4> QED BY <4>2 DEF PairsOf
    <3> QED BY <3>1
  <2>2. r.pc \in {"read", "list", "edit"}
    BY <1>1, <1>5 DEF LiftTag
  <2>3. ReadOrg(c) \/ ListForEnable(c) \/ EditMember(c) \/ EditMembersDone(c)
    <3>1. ~(\/ DeleteList(c) \/ DeleteTuples(c) \/ UrisGet(c) \/ UrisPut(c)
            \/ DeleteKc(c) \/ DeleteRecord(c))
      BY <2>2 DEF DeleteList, DeleteTuples, UrisGet, UrisPut, DeleteKc, DeleteRecord, On
    <3> QED BY <2>1, <3>1, DeleteActs
  <2>4. org' = org /\ member' = member
    BY <2>3 DEF ReadOrg, ListForEnable, EditMember, EditMembersDone, Reads
  <2>5. org'[o].disabled /\ In(o, u)'
    BY <1>1, <1>5, <2>4 DEF In
  <2>6. CASE ReadOrg(c)
    <3>1. Reply(c) \/ req' = [req EXCEPT ![c].pc = "list", ![c].rec = org[r.org]]
      BY <2>6 DEF ReadOrg
    <3>2. CASE Reply(c)
      <4>1. s = Idle
        BY <1>1, <3>2 DEF Reply, RequestTypeOK
      <4> QED BY <2>5, <4>1, TagOKByOp DEF TagAlone
    <3>3. CASE ~Reply(c)
      <4>1. s = [r EXCEPT !.pc = "list", !.rec = org[r.org]]
        BY <1>1, <3>1, <3>3 DEF RequestTypeOK
      <4>2. s.pc = "list" /\ s.op = "delete"
        BY <4>1 DEF Moves, InFlight
      <4>3. LiftTag(c, o, u)'
        BY <4>2 DEF LiftTag
      <4> QED BY <2>5, <4>2, <4>3, TagOKByOp DEF TagAlone
    <3> QED BY <3>2, <3>3
  <2>7. CASE ListForEnable(c) \/ EditMember(c) \/ EditMembersDone(c)
    <3>1. s.pc = "edit" /\ (u \in s.todo \/ Editing(c, "lift", o, u)')
      BY <1>1, <1>5, <2>7, LiftMoves
    <3>2. LiftTag(c, o, u)' /\ s.op = "delete"
      BY <1>3, <3>1, IdleFields DEF LiftTag
    <3> QED BY <2>5, <3>2, TagOKByOp DEF TagAlone
  <2> QED BY <2>3, <2>6, <2>7
<1> QED BY <1>4, <1>5

\* What the requests that may overlap do to the suspended flag.
LEMMA FlagMoves ==
  ASSUME RequestTypeOK, StoreTypeOK, NEW c \in Client, NEW o \in Org, NEW u \in User,
         req[c].op \in SharedOp, req[c].org = o, TagOK(c, o, u),
         Tagged(o, u) => org[o].disabled, Step(c) \/ CallFails(c)
  PROVE  /\ Tagged(o, u) => org'[o].disabled
         /\ req[c].op \notin RewriteOp \cup {"enable"} =>
              (org[o].disabled => org'[o].disabled)
         /\ DisablePut(c) => org'[o].disabled
<1> DEFINE r == req[c]
<1>1. r.op \notin CreateOp \cup {"delete"}
  BY DEF SharedOp, RewriteOp, CreateOp
<1>2. CASE DisablePut(c)
  <2>1. r.rec \in OrgRec
    BY <1>2, ServedIfNotIdle DEF DisablePut, On, Serving, InFlight
  <2>2. org'[o] = [r.rec EXCEPT !.disabled = TRUE]
    BY <1>2 DEF DisablePut, StoreTypeOK
  <2>3. org'[o].disabled = TRUE
    BY <2>1, <2>2 DEF OrgRec
  <2> QED BY <2>3
<1>3. CASE EnablePut(c)
  BY <1>3 DEF EnablePut, DisablePut, On, TagOK, LiftTag, RewriteOp
<1>4. CASE RewritePut(c)
  <2>1. r.op \in RewriteOp /\ r.pc = "put" /\ r.op \notin {"enable", "disable"}
    BY <1>4 DEF RewritePut, On, RewriteOp
  <2>2. ASSUME NEW n, RecordWrite(c, n) PROVE org'[o].disabled <=> r.rec.disabled
    <3>1. Carries(c, n) /\ org'[o] = n
      BY <1>1, <2>2 DEF RecordWrite, StoreTypeOK
    <3> QED BY <2>1, <3>1 DEF Carries
  <2>3. Tagged(o, u) => org'[o].disabled
    BY <1>4, <2>1, <2>2, RecordWrites DEF WritesRecord, TagOK, RewriteTag
  <2> QED BY <2>1, <2>3 DEF DisablePut, On
<1>5. CASE ~(DisablePut(c) \/ EnablePut(c) \/ RewritePut(c))
  <2>1. ~WritesRecord(c)
    BY <1>1, <1>5 DEF WritesRecord, CreatePut, UnwindPut, DeleteRecord, On
  <2> QED BY <1>5, <2>1, Writers
<1> QED BY <1>2, <1>3, <1>4, <1>5

\* A suspension: it lists members, and locks whom it has listed.
LEMMA DisableMoves ==
  ASSUME RequestTypeOK, StoreTypeOK, DirInv, NEW c \in Client, NEW o \in Org,
         NEW u \in User, req[c].op = "disable", req[c].org = o, Moves(c), EditOf(c),
         Step(c) \/ CallFails(c), ~EditStep(c), TagOK(c, o, u), In(o, u) => In(o, u)',
         org[o].disabled \/ DisablePut(c) => org'[o].disabled
  PROVE  DisableTag(c, o, u)'
<1> DEFINE r == req[c]
           s == req'[c]
<1>1. /\ r \in InFlight /\ r.pc # "idle" /\ r.pc \notin UriPoint /\ DisableTag(c, o, u)
      /\ r.op \in SharedOp
  <2>1. r \in InFlight /\ r.pc # "idle"
    BY DEF Moves, InFlight, Point, PlainPoint, UriPoint, LeavePoint
  <2> QED BY <2>1, ServedIfNotIdle DEF Serving, Addressed, CreateOp, TagOK, SharedOp
<1>2. s = Idle => DisableTag(c, o, u)'
  BY IdleFields DEF DisableTag
<1>3. Reply(c) => s = Idle
  BY DEF Reply, RequestTypeOK
<1>4. ASSUME NEW p, Goto(c, p) PROVE s.pc = p
  <2>1. s = [r EXCEPT !.pc = p]
    BY <1>4 DEF Goto, RequestTypeOK
  <2> QED BY <1>1, <2>1 DEF InFlight
<1>5. ASSUME edit' = edit, edit[c].pc = "idle" PROVE ~Editing(c, "suspend", o, u)'
  BY <1>5 DEF Editing
<1>6. ASSUME r.pc # "edit" PROVE edit[c].pc = "idle"
  BY <1>6 DEF EditOf, RemoveOp, AccountOp
<1>7. CASE CallFails(c)
  <2>1. AfterFailure(r) = "idle"
    BY DEF AfterFailure, CreateOp, RemoveOp
  <2> QED BY <1>2, <1>7, <2>1, FailureMoves
<1>8. CASE ReadOrg(c)
  <2>1. /\ r.pc = "read" /\ edit' = edit
        /\ Reply(c) \/ req' = [req EXCEPT ![c].pc = "put", ![c].rec = org[r.org]]
    BY <1>8 DEF ReadOrg, Reads, dirVars
  <2>2. CASE ~Reply(c)
    <3>1. s = [r EXCEPT !.pc = "put", !.rec = org[r.org]]
      BY <2>1, <2>2 DEF RequestTypeOK
    <3>2. s.pc = "put"
      BY <1>1, <3>1 DEF InFlight
    <3> QED BY <1>5, <1>6, <2>1, <3>2 DEF DisableTag
  <2> QED BY <1>2, <1>3, <2>1, <2>2
<1>9. CASE DisablePut(c)
  <2>1. r.pc = "put" /\ edit' = edit /\ s.pc = "list"
    BY <1>4, <1>9 DEF DisablePut, On, dirVars
  <2> QED BY <1>5, <1>6, <1>9, <2>1 DEF DisableTag
<1>10. CASE ListForDisable(c)
  <2> DEFINE v == MembersOf(o) \ {Root}
  <2>1. u \in v => In(o, u)
    BY DEF MembersOf, In
  <2> HIDE DEF v
  <2>2. s = [r EXCEPT !.pc = "edit", !.todo = v]
    BY <1>10 DEF ListForDisable, RequestTypeOK, v
  <2>3. s.pc = "edit" /\ s.todo = v
    BY <1>1, <2>2 DEF InFlight
  <2>4. r.pc = "list" /\ edit' = edit
    BY <1>10 DEF ListForDisable, On, Reads, dirVars
  <2> QED BY <1>1, <1>5, <1>6, <2>1, <2>3, <2>4 DEF DisableTag
<1>11. CASE EditMember(c)
  <2>1. r.pc = "edit" /\ edit[c].pc = "idle"
    BY <1>11 DEF EditMember, On
  <2>2. PICK v \in r.todo :
               /\ req' = [req EXCEPT ![c].todo = @ \ {v}]
               /\ EditGet(c, "suspend", v, o) \/ UNCHANGED dirVars
    BY <1>11 DEF EditMember
  <2>3. s = [r EXCEPT !.todo = r.todo \ {v}]
    BY <2>2 DEF RequestTypeOK
  <2>4. s.pc = "edit" /\ s.todo = r.todo \ {v}
    BY <1>1, <2>1, <2>3 DEF InFlight
  <2>5. Editing(c, "suspend", o, u)' => u \in r.todo
    <3>1. CASE EditGet(c, "suspend", v, o)
      <4>1. edit'[c] = [pc |-> "put", kind |-> "suspend", user |-> v, by |-> o,
                        rep |-> acct[v], stale |-> FALSE]
        BY <3>1 DEF EditGet, DirInv, DirTypeOK
      <4>2. edit'[c].user = v
        BY <4>1, SMTT(30)
      <4> QED BY <2>2, <4>2 DEF Editing
    <3> QED BY <1>5, <2>1, <2>2, <3>1 DEF dirVars
  <2> QED BY <1>1, <2>1, <2>4, <2>5 DEF DisableTag
<1>12. CASE EditMembersDone(c)
  <2>1. r.pc = "edit" /\ edit[c].pc = "idle" /\ edit' = edit /\ s.pc = "agents"
    BY <1>4, <1>12 DEF EditMembersDone, On, Reads, dirVars
  <2> QED BY <1>1, <1>5, <2>1 DEF DisableTag
<1>13. CASE DisableAgents(c)
  BY <1>2, <1>3, <1>13 DEF DisableAgents
<1>14. CASE Step(c)
  <2>1. ~(\/ ListForEnable(c) \/ RewritePut(c) \/ EnablePut(c) \/ Join(c) \/ WriteTuple(c)
          \/ UnwindJoin(c) \/ RoleCheck(c) \/ RoleDropOther(c) \/ SpawnAgent(c))
    BY DEF ListForEnable, RewritePut, EnablePut, Join, WriteTuple, UnwindJoin, RoleCheck,
       RoleDropOther, SpawnAgent, On, RewriteOp, CreateOp, GrantOp
  <2> QED BY <1>1, <1>8, <1>9, <1>10, <1>11, <1>12, <1>13, <1>14, <2>1, SharedActs
          DEF ReadOnly, RecordOnly
<1> QED BY <1>7, <1>14

\* Enabling an organization: whoever is still locked is still to be unlocked.
LEMMA EnableMoves ==
  ASSUME RequestTypeOK, StoreTypeOK, DirInv, NEW c \in Client, NEW o \in Org,
         NEW u \in User, req[c].op = "enable", req[c].org = o, Moves(c),
         Step(c) \/ CallFails(c), ~EditStep(c), TagOK(c, o, u),
         Tagged(o, u) => In(o, u), Tagged(o, u)' <=> Tagged(o, u)
  PROVE  LiftTag(c, o, u)'
<1> DEFINE r == req[c]
           s == req'[c]
<1>1. /\ r \in InFlight /\ r.pc # "idle" /\ r.pc \notin UriPoint /\ LiftTag(c, o, u)
      /\ r.op \in SharedOp
  <2>1. r \in InFlight /\ r.pc # "idle"
    BY DEF Moves, InFlight, Point, PlainPoint, UriPoint, LeavePoint
  <2> QED BY <2>1, ServedIfNotIdle DEF Serving, Addressed, CreateOp, TagOK, SharedOp
<1>2. s = Idle => LiftTag(c, o, u)'
  BY IdleFields DEF LiftTag
<1>3. Reply(c) => s = Idle
  BY DEF Reply, RequestTypeOK
<1>4. s # Idle => s.op = "enable"
  BY DEF Moves, Same
<1>5. CASE ~Tagged(o, u)
  BY <1>2, <1>4, <1>5 DEF LiftTag
<1>6. CASE CallFails(c)
  <2>1. AfterFailure(r) = "idle"
    BY DEF AfterFailure, CreateOp, RemoveOp
  <2> QED BY <1>2, <1>6, <2>1, FailureMoves
<1>7. CASE ReadOrg(c)
  <2>1. Reply(c) \/ req' = [req EXCEPT ![c].pc = "list", ![c].rec = org[r.org]]
    BY <1>7 DEF ReadOrg
  <2>2. CASE ~Reply(c)
    <3>1. s = [r EXCEPT !.pc = "list", !.rec = org[r.org]]
      BY <2>1, <2>2 DEF RequestTypeOK
    <3>2. s.pc = "list"
      BY <1>1, <3>1 DEF InFlight
    <3> QED BY <1>2, <1>4, <3>2 DEF LiftTag
  <2> QED BY <1>2, <1>3, <2>1, <2>2
<1>8. CASE Tagged(o, u) /\ (ListForEnable(c) \/ EditMember(c) \/ EditMembersDone(c))
  <2>1. s.pc = "edit" /\ (u \in s.todo \/ Editing(c, "lift", o, u)')
    BY <1>1, <1>8, LiftMoves
  <2> QED BY <1>2, <1>4, <2>1 DEF LiftTag
<1>9. CASE EnablePut(c)
  BY <1>2, <1>3, <1>9 DEF EnablePut
<1>10. CASE Step(c) /\ Tagged(o, u)
  <2>1. ~(\/ ListForDisable(c) \/ DisableAgents(c) \/ RewritePut(c) \/ DisablePut(c)
          \/ Join(c) \/ WriteTuple(c) \/ UnwindJoin(c) \/ RoleCheck(c)
          \/ RoleDropOther(c) \/ SpawnAgent(c))
    BY DEF ListForDisable, DisableAgents, RewritePut, DisablePut, Join, WriteTuple,
       UnwindJoin, RoleCheck, RoleDropOther, SpawnAgent, On, RewriteOp, CreateOp, GrantOp
  <2> QED BY <1>1, <1>7, <1>8, <1>9, <1>10, <2>1, SharedActs DEF ReadOnly, RecordOnly
<1> QED BY <1>5, <1>6, <1>10

\* A change of the record: one not read as suspended locks nobody.
LEMMA RewriteMoves ==
  ASSUME RequestTypeOK, StoreTypeOK, NEW c \in Client, NEW o \in Org, NEW u \in User,
         req[c].op \in RewriteOp, req[c].org = o, Moves(c), RecMove(c),
         Step(c) \/ CallFails(c), ~EditStep(c), Tagged(o, u) => org[o].disabled,
         Tagged(o, u)' <=> Tagged(o, u)
  PROVE  RewriteTag(c, o, u)'
<1> DEFINE r == req[c]
           s == req'[c]
<1>1. /\ r \in InFlight /\ r.pc # "idle" /\ r.pc \notin UriPoint
      /\ r.op \in SharedOp
  <2>1. r \in InFlight /\ r.pc # "idle"
    BY DEF Moves, InFlight, Point, PlainPoint, UriPoint, LeavePoint
  <2>2. r.op \notin CreateOp \cup {"delete"}
    BY DEF RewriteOp, CreateOp
  <2> QED BY <2>1, <2>2, ServedIfNotIdle DEF Serving, Addressed, SharedOp
<1>2. s = Idle => RewriteTag(c, o, u)'
  BY IdleFields DEF RewriteTag, RewriteOp
<1>3. Reply(c) => s = Idle
  BY DEF Reply, RequestTypeOK
<1>4. r.op \notin {"add", "role", "spawn", "disable", "enable", "delete"} \cup CreateOp
                  \cup RemoveOp
  BY DEF RewriteOp, CreateOp, RemoveOp
<1>5. CASE CallFails(c)
  <2>1. AfterFailure(r) = "idle"
    BY <1>4 DEF AfterFailure
  <2> QED BY <1>2, <1>5, <2>1, FailureMoves
<1>6. CASE ReadOrg(c)
  <2>1. Reply(c) \/ \E p : req' = [req EXCEPT ![c].pc = p, ![c].rec = org[o]]
    BY <1>6 DEF ReadOrg
  <2>2. ASSUME NEW p, req' = [req EXCEPT ![c].pc = p, ![c].rec = org[o]]
        PROVE  RewriteTag(c, o, u)'
    <3>1. s = [r EXCEPT !.pc = p, !.rec = org[o]]
      BY <2>2 DEF RequestTypeOK
    <3>2. s.rec = org[o]
      BY <1>1, <3>1 DEF InFlight
    <3> QED BY <3>2 DEF RewriteTag
  <2> QED BY <1>2, <1>3, <2>1, <2>2
<1>7. CASE RewritePut(c)
  BY <1>2, <1>3, <1>7 DEF RewritePut
<1>8. CASE Step(c)
  <2>1. ~(\/ ReadOnly(c) \/ DisablePut(c) \/ EnablePut(c) \/ Join(c) \/ WriteTuple(c)
          \/ UnwindJoin(c) \/ RoleCheck(c) \/ RoleDropOther(c) \/ SpawnAgent(c))
    BY <1>4 DEF ReadOnly, ListForDisable, DisableAgents, ListForEnable, EditMember,
       EditMembersDone, DisablePut, EnablePut, Join, WriteTuple, UnwindJoin, RoleCheck,
       RoleDropOther, SpawnAgent, On, GrantOp
  <2> QED BY <1>1, <1>6, <1>7, <1>8, <2>1, SharedActs DEF RecordOnly
<1> QED BY <1>5, <1>8

\* A step of a request that may overlap with others like it.
LEMMA SharedTags ==
  ASSUME RecordInv, DirInv, ConflictSeen, NEW c \in Client, NEW o \in Org, NEW u \in User,
         InTouch(c, o, u), req[c].op \in SharedOp, Moves(c), RecMove(c), EditOf(c),
         Step(c) \/ CallFails(c), ~EditStep(c), <<o, u>> \notin frayed',
         PairOK(o, u), TagPair(o, u)
  PROVE  TagPair(o, u)'
<1> DEFINE r == req[c]
           s == req'[c]
<1>1. /\ RequestTypeOK /\ StoreTypeOK /\ WriterOK(c) /\ <<o, u>> \notin frayed
      /\ TagOK(c, o, u) /\ RequestOK(r, o, u) /\ Known(o, u)
  BY Writers DEF RecordInv, TagPair, PairOK
<1>2. r.org = o /\ (r.op \in {"add", "role", "spawn"} => r.user = u)
  BY <1>1, TouchMeans, ServedIfNotIdle, NobodyIsNoUser
  DEF SharedOp, RewriteOp, Serving, Addressed, GrantOp, About, CreateOp
<1>3. In(o, u) => In(o, u)'
  <2>1. Grows(c, o, u)
    BY <1>1, <1>2, SharedStep
  <2> QED BY <2>1 DEF Grows
<1>4. \A d \in Client : InTouch(d, o, u) => req[d].op \notin Exclusive
  BY <1>1, SoleToucher DEF SharedOp, RewriteOp, Exclusive, CreateOp, RemoveOp
<1>5. ~DeleteUserAccount(c)
  BY DEF DeleteUserAccount, On, SharedOp, RewriteOp
<1>6. Tagged(o, u)' <=> Tagged(o, u)
  BY <1>1, <1>5, TagKept
<1>7. Tagged(o, u) => In(o, u) /\ org[o].disabled
  BY <1>4 DEF TagPair, Leaving, Exclusive
<1>8. /\ Tagged(o, u) => org'[o].disabled
      /\ r.op \notin RewriteOp \cup {"enable"} => (org[o].disabled => org'[o].disabled)
      /\ DisablePut(c) => org'[o].disabled
  BY <1>1, <1>2, <1>7, FlagMoves
<1>9. ASSUME InTouch(c, o, u)' PROVE TagOK(c, o, u)'
  <2>1. s # Idle /\ s.op = r.op
    BY <1>9, IdleFields DEF InTouch, Touching, Moves, Same
  <2>2. s.op \notin RemoveOp \cup CreateOp \cup {"delete"}
    BY <2>1 DEF SharedOp, RewriteOp, CreateOp, RemoveOp
  <2>3. CASE r.op = "disable"
    <3>1. DisableTag(c, o, u)'
      BY <1>1, <1>2, <1>3, <1>8, <2>3, DisableMoves DEF RewriteOp
    <3> QED BY <2>1, <2>2, <2>3, <3>1
            DEF TagOK, LiftTag, RewriteTag, RemoveTag, CreateTag, RewriteOp
  <2>4. CASE r.op = "enable"
    <3>1. LiftTag(c, o, u)'
      BY <1>1, <1>2, <1>6, <1>7, <2>4, EnableMoves
    <3> QED BY <2>1, <2>2, <2>4, <3>1
            DEF TagOK, DisableTag, RewriteTag, RemoveTag, CreateTag, RewriteOp
  <2>5. CASE r.op \in RewriteOp
    <3>1. RewriteTag(c, o, u)'
      BY <1>1, <1>2, <1>6, <1>7, <2>5, RewriteMoves
    <3> QED BY <2>1, <2>2, <2>5, <3>1
            DEF TagOK, DisableTag, LiftTag, RemoveTag, CreateTag, RewriteOp
  <2>6. CASE r.op \in {"add", "role", "spawn"}
    BY <2>1, <2>2, <2>6
    DEF TagOK, DisableTag, LiftTag, RewriteTag, RemoveTag, CreateTag, RewriteOp
  <2> QED BY <2>3, <2>4, <2>5, <2>6 DEF SharedOp
<1>10. ASSUME NEW d \in Client \ {c}, InTouch(d, o, u)' PROVE TagOK(d, o, u)'
  <2>1. req'[d] = req[d]
    BY <1>1, MovesType
  <2>2. InTouch(d, o, u) /\ TagOK(d, o, u) /\ req[d].op \notin Exclusive
    BY <1>4, <1>10, <2>1 DEF InTouch, Touching, TagPair
  <2>3. \A k : Editing(d, k, o, u)' <=> Editing(d, k, o, u)
    BY <1>5, EditingKept
  <2>4. DisableTag(d, o, u)'
    <3>1. req[d].op = "disable" => r.op \notin RewriteOp \cup {"enable"}
      BY <1>1, <2>2, ConflictFrays DEF Conflict
    <3> QED BY <1>3, <1>8, <2>1, <2>2, <2>3, <3>1 DEF TagOK, DisableTag
  <2>5. LiftTag(d, o, u)' /\ RewriteTag(d, o, u)'
    BY <1>6, <2>1, <2>2, <2>3 DEF TagOK, LiftTag, RewriteTag
  <2> QED BY <2>1, <2>2, <2>4, <2>5 DEF TagOK, RemoveTag, CreateTag, Exclusive
<1>11. \A d \in Client : InTouch(d, o, u)' => TagOK(d, o, u)'
  BY <1>9, <1>10
<1> QED BY <1>3, <1>6, <1>7, <1>8, <1>11 DEF TagPair

\* The tags agree with the suspensions and the memberships over every step of a
\* request ...
LEMMA TagMoves ==
  ASSUME RecordInv, DirInv, ConflictSeen, NEW c \in Client, NEW o \in Org, NEW u \in User,
         (Moves(c) /\ RecMove(c)) \/ EditStep(c), Step(c) \/ CallFails(c), EditOf(c),
         <<o, u>> \notin frayed', PairOK(o, u), TagPair(o, u)
  PROVE  TagPair(o, u)'
<1>1. RequestTypeOK /\ StoreTypeOK /\ <<o, u>> \notin frayed
  BY Writers DEF RecordInv
<1>2. CASE EditStep(c)
  BY <1>1, <1>2, TagEdit
<1>3. CASE ~InTouch(c, o, u)
  BY <1>1, <1>3, TagApart
<1>4. CASE InTouch(c, o, u) /\ req[c].op \in SharedOp /\ ~EditStep(c)
  BY <1>4, SharedTags
<1>5. CASE InTouch(c, o, u) /\ req[c].op \in Exclusive /\ ~EditStep(c)
  <2>1. \A d \in Client \ {c} : ~InTouch(d, o, u)
    BY <1>1, <1>5, SoleToucher
  <2>2. TagAlone(c, o, u) /\ RequestOK(req[c], o, u)
    BY <1>5, <2>1 DEF TagPair, PairOK, TagAlone
  <2>3. /\ req[c].op \in CreateOp \cup {"delete", "remove"} => req[c].org = o
        /\ req[c].op \in RemoveOp => req[c].user = u
    <3>1. req[c].op # "deleteUser" => req[c].org = o
      BY <1>1, <1>5, TouchMeans
    <3>2. req[c].op \in RemoveOp => req[c].user \in User /\ req[c].op \notin CreateOp
      BY <1>1, <1>5, TouchMeans, ServedIfNotIdle
      DEF Serving, Addressed, CreateOp, RemoveOp, UserOp
    <3> QED BY <1>1, <1>5, <3>1, <3>2, TouchMeans, NobodyIsNoUser DEF About, CreateOp
  <2>4. TagAlone(c, o, u)'
    <3>1. CASE req[c].op \in CreateOp
      BY <1>5, <2>2, <2>3, <3>1, CreateTags DEF RequestOK
    <3>2. CASE req[c].op \in RemoveOp
      BY <1>5, <2>2, <2>3, <3>2, RemoveTags DEF CreateOp
    <3>3. CASE req[c].op = "delete"
      BY <1>5, <2>2, <2>3, <3>3, DeleteTags
    <3> QED BY <1>5, <3>1, <3>2, <3>3 DEF Exclusive
  <2>5. \A d \in Client \ {c} : ~InTouch(d, o, u)'
    BY <1>1, <1>5, <2>1, MovesType DEF InTouch, Touching
  <2>6. req'[c] = Idle => ~Leaving(req[c], o)'
    BY IdleFields DEF Leaving, RemoveOp
  <2>7. req'[c] # Idle => InTouch(c, o, u)'
    BY <1>1, <1>5, TouchKept
  <2>8. \/ Tagged(o, u)' => In(o, u)'
        \/ \E d \in Client : InTouch(d, o, u)' /\ Leaving(req[d], o)'
    BY <2>4, <2>6, <2>7 DEF TagAlone
  <2> QED BY <2>4, <2>5, <2>8 DEF TagPair, TagAlone
<1> QED BY <1>1, <1>2, <1>3, <1>4, <1>5, TouchOp

\* ... and over the acceptance of one.
LEMMA TagBegins ==
  ASSUME RecordInv, NEW c \in Client, NEW o \in Org, NEW u \in User, Begins(c), EditOf(c),
         TagPair(o, u)
  PROVE  TagPair(o, u)'
<1>1. /\ UNCHANGED <<org, member, acct, edit>> /\ RequestTypeOK
      /\ Tagged(o, u)' <=> Tagged(o, u)
      /\ In(o, u)' <=> In(o, u)
      /\ \A d \in Client : \A k : Editing(d, k, o, u)' <=> Editing(d, k, o, u)
  BY DEF Begins, RecordInv, dirVars, Tagged, In, Editing
<1>2. ASSUME NEW d \in Client \ {c}
      PROVE  /\ InTouch(d, o, u)' <=> InTouch(d, o, u)
             /\ InTouch(d, o, u) =>
                  /\ req'[d].pc = req[d].pc /\ req'[d].op = req[d].op
                  /\ req'[d].org = req[d].org /\ req'[d].rec = req[d].rec
                  /\ req'[d].todo = req[d].todo
  <2>1. req'[d] = req[d] \/ (Serving(d) /\ req'[d] = [req[d] EXCEPT !.clean = FALSE])
    BY <1>1, ServedIfNotIdle DEF Begins
  <2>2. CASE Serving(d) /\ req'[d] = [req[d] EXCEPT !.clean = FALSE]
    <3>1. /\ req'[d].pc = req[d].pc /\ req'[d].op = req[d].op
          /\ req'[d].org = req[d].org /\ req'[d].user = req[d].user
          /\ req'[d].rec = req[d].rec /\ req'[d].todo = req[d].todo
      BY <2>2 DEF Serving, InFlight
    <3> QED BY <3>1 DEF InTouch, Touching
  <2> QED BY <2>1, <2>2 DEF InTouch, Touching
<1>3. req[c].pc = "idle" /\ req'[c].pc = "read"
  BY DEF Begins
<1>4. ASSUME NEW d \in Client, InTouch(d, o, u)' PROVE TagOK(d, o, u)'
  <2>1. CASE d = c
    <3>1. ~Editing(c, "suspend", o, u)'
      BY <1>1, <1>3 DEF EditOf, Editing
    <3> QED BY <1>3, <2>1, <3>1
            DEF TagOK, DisableTag, LiftTag, RewriteTag, RemoveTag, CreateTag, FreshPoint
  <2>2. CASE d # c
    BY <1>1, <1>2, <1>4, <2>2, TagOKKept DEF TagPair
  <2> QED BY <2>1, <2>2
<1>5. ASSUME NEW d \in Client, InTouch(d, o, u), Leaving(req[d], o)
      PROVE  InTouch(d, o, u)' /\ Leaving(req[d], o)'
  BY <1>2, <1>3, <1>5 DEF Leaving
<1>6. \/ Tagged(o, u)' => In(o, u)'
      \/ \E d \in Client : InTouch(d, o, u)' /\ Leaving(req[d], o)'
  BY <1>1, <1>5 DEF TagPair
<1> QED BY <1>1, <1>4, <1>6 DEF TagPair

TagInv ==
  /\ MemberInv /\ EditInv
  /\ \A o \in Org, u \in User : <<o, u>> \notin frayed => TagPair(o, u)

\* The registry starts with no account locked by an organization.
LEMMA TagInit == Init => TagInv
<1> SUFFICES ASSUME Init PROVE TagInv
  OBVIOUS
<1>1. ASSUME NEW o \in Org, NEW u \in User PROVE TagPair(o, u)
  <2>1. acct[u].tags = {}
    <3>1. acct[u] \in {NoAccount, FreshAccount, [FreshAccount EXCEPT !.enabled = FALSE]}
      BY DEF Init, DirInit
    <3>2. /\ NoAccount.tags = {} /\ FreshAccount.tags = {}
          /\ [FreshAccount EXCEPT !.enabled = FALSE].tags = {}
      BY SMTT(30) DEF NoAccount, FreshAccount
    <3> QED BY <3>1, <3>2
  <2>2. \A c \in Client : ~InTouch(c, o, u)
    <3>1. \A c \in Client : req[c].pc = "idle"
      BY DEF Init, Idle
    <3> QED BY <3>1 DEF InTouch, Touching
  <2> QED BY <2>1, <2>2 DEF TagPair, Tagged
<1> QED BY <1>1, MemberInit, EditInit DEF TagInv

\* Every step keeps the invariant.
LEMMA TagNext == TagInv /\ [Next]_vars => TagInv'
<1> SUFFICES ASSUME TagInv, [Next]_vars PROVE TagInv'
  OBVIOUS
<1>1. /\ RequestTypeOK /\ StoreTypeOK /\ RecordInv /\ ConflictSeen
      /\ DirInv /\ \A c \in Client : EditOf(c)
  BY DEF TagInv, EditInv, MemberInv, TouchInv, RecordInv
<1>2. MemberInv' /\ EditInv'
  BY MemberNext, EditNext DEF TagInv
<1>3. CASE UNCHANGED <<orgVars, acct, edit>>
  <2>1. /\ org' = org /\ member' = member /\ req' = req /\ frayed' = frayed
        /\ acct' = acct /\ edit' = edit
    BY <1>3 DEF orgVars, history
  <2>2. ASSUME NEW o \in Org, NEW u \in User, <<o, u>> \notin frayed'
        PROVE  TagPair(o, u)'
    <3>1. /\ TagPair(o, u) /\ (Tagged(o, u)' <=> Tagged(o, u)) /\ (In(o, u)' <=> In(o, u))
          /\ \A d \in Client : InTouch(d, o, u)' <=> InTouch(d, o, u)
          /\ \A d \in Client : \A k : Editing(d, k, o, u)' <=> Editing(d, k, o, u)
      BY <2>1, <2>2 DEF Tagged, In, InTouch, Touching, Editing, TagInv
    <3>2. \A d \in Client : InTouch(d, o, u)' => TagOK(d, o, u)'
      BY <2>1, <3>1, TagOKKept DEF TagPair
    <3>3. \A d \in Client : Leaving(req[d], o)' <=> Leaving(req[d], o)
      BY <2>1 DEF Leaving
    <3>4. \/ Tagged(o, u)' => In(o, u)'
          \/ \E d \in Client : InTouch(d, o, u)' /\ Leaving(req[d], o)'
      BY <3>1, <3>3 DEF TagPair
    <3> QED BY <2>1, <3>1, <3>2, <3>4 DEF TagPair
  <2> QED BY <1>2, <2>2 DEF TagInv
<1>4. ASSUME NEW c \in Client, Begins(c) PROVE TagInv'
  <2>1. \A o \in Org, u \in User : <<o, u>> \notin frayed' => TagPair(o, u)'
    BY <1>1, <1>4, TagBegins DEF TagInv, Begins
  <2> QED BY <1>2, <2>1 DEF TagInv
<1>5. ASSUME NEW c \in Client, Step(c) \/ CallFails(c), (Moves(c) /\ RecMove(c)) \/ EditStep(c)
      PROVE  TagInv'
  <2>1. frayed \subseteq frayed'
    BY <1>5, Writers
  <2>2. \A o \in Org, u \in User : <<o, u>> \notin frayed' => TagPair(o, u)'
    BY <1>1, <1>5, <2>1, TagMoves DEF TagInv, MemberInv
  <2> QED BY <1>2, <2>2 DEF TagInv
<1>6. ASSUME NEW u \in User, SignIn(u) PROVE UNCHANGED <<orgVars, acct, edit>>
  BY <1>6 DEF SignIn, Login
<1>7. UNCHANGED vars => UNCHANGED <<orgVars, acct, edit>>
  BY DEF vars, dirVars
<1> QED BY <1>1, <1>3, <1>4, <1>5, <1>6, <1>7, AcceptBegins, StepMoves DEF Next

\* No account stays locked by an organization its user has left, however many
\* suspensions, enables, removals and deletes overlap elsewhere: when no request
\* is at work on the user and the organization, and none failed or conflicted
\* there, whoever carries the tag is a member (removeMemberFromOrg lifts it last).
THEOREM TagsOfMembers == Spec => []TagMeansMember
<1>1. TagInv => TagMeansMember
  <2> SUFFICES ASSUME TagInv, NEW o \in Org, NEW u \in User, o \in acct[u].tags,
                      Quiet(o, u), <<o, u>> \notin frayed
               PROVE  <<o, u>> \in member
    BY DEF TagMeansMember
  <2>1. TagPair(o, u) /\ \A c \in Client : ~InTouch(c, o, u)
    BY DEF TagInv, Quiet, InTouch
  <2> QED BY <2>1 DEF TagPair, Tagged, In
<1> QED BY <1>1, TagInit, TagNext, PTL DEF Spec
=============================================================================
