------------------------ MODULE OrganizationsProofs -------------------------
(* Proofs about Organizations, for any number of users, organizations and    *)
(* requests: anchors and suspensions survive rewrites of the record, the     *)
(* accounts follow their contract, no URIs are lost, and once a suspension   *)
(* has run to its end every member is locked out and no agent of the         *)
(* organization runs.                                                        *)
EXTENDS OrganizationMoves

\* A leaf that names no prover is one for Zenon.
USE ZenonT(30)

-----------------------------------------------------------------------------
(* The record and the accounts                                               *)

\* The suspended flag of a record is lifted by an enable, or by a request that
\* overlapped with another one.
LEMMA LiftStep ==
  ASSUME RecordInv, [Next]_vars, NEW o \in Org,
         org[o].disabled, org'[o].known, ~org'[o].disabled
  PROVE  \E c \in Client : req[c].op = "enable" \/ ~req[c].clean
<1>1. StoreTypeOK /\ RequestTypeOK /\ org[o].known
  BY DEF RecordInv, RecOK
<1>2. ~UNCHANGED org
  OBVIOUS
<1>3. PICK c \in Client : Step(c) \/ CallFails(c)
  BY <1>1, <1>2, NextSplit DEF orgVars, Begins
<1>4. WritesRecord(c)
  BY <1>2, <1>3, Writers
<1>5. PICK n : RecordWrite(c, n)
  BY <1>1, <1>2, <1>4, RecordWrites
<1>6. req[c].org \in Org /\ org \in [Org -> OrgRec]
  BY <1>1, <1>4, RecordWrites DEF StoreTypeOK
<1>7. req[c].org = o /\ org'[o] = n
  BY <1>5, <1>6 DEF RecordWrite
<1>8. n # NoRec
  BY <1>7, SMTT(30) DEF NoRec
<1>9. SUFFICES ASSUME req[c].clean, req[c].op # "enable" PROVE FALSE
  OBVIOUS
<1>10. req[c].op \in WriteOp /\ req[c].pc = "put"
  BY <1>5, <1>8 DEF RecordWrite, Carries, WriteOp
<1>11. req[c].rec = org[o]
  BY <1>7, <1>9, <1>10 DEF RecordInv, WriterOK, FreshPoint
<1> QED BY <1>1, <1>5, <1>7, <1>8, <1>9, <1>11 DEF RecordWrite, Carries

\* The records and the requests that write them stay as RecordInv says.
THEOREM RecordCorrect == Spec => []RecordInv
BY RecordInit, RecordNext, PTL DEF Spec

\* An anchor is active only for an account whose control was proven, for any
\* number of organizations, accounts and requests.
THEOREM AnchorsProven == Spec => []ActiveAnchorProven
<1>1. RecordInv => ActiveAnchorProven
  BY DEF RecordInv, RecOK, ActiveAnchorProven
<1> QED BY <1>1, RecordCorrect, PTL

\* No request but an enable lifts a suspension, unless it overlapped with
\* another one.
THEOREM SuspensionsKept == Spec => OnlyEnableLiftsSuspension
<1> DEFINE Kept == \A o \in Org :
             org[o].disabled /\ org'[o].known /\ ~org'[o].disabled =>
               \E c \in Client : req[c].op = "enable" \/ ~req[c].clean
<1>1. RecordInv /\ [Next]_vars => [Kept]_vars
  BY LiftStep
<1> QED BY <1>1, RecordCorrect, PTL DEF Spec, OnlyEnableLiftsSuspension

\* Whatever requests overlap and whichever of their calls fail, no suspension,
\* ban or lift of an account is lost or undone by another: the organization
\* and user API locks and lifts as AccountLifecycle says.
THEOREM OrganizationsRefine == Spec => RefinesAccounts
<1>1. Init => Accounts!Init /\ DirInv
  BY DirInitRefines, DirInitInv DEF Init
<1>2. RecordInv /\ DirInv /\ [Next]_vars =>
        DirInv' /\ [Accounts!Next]_(Accounts!accountVars)
  BY NextEdits, DirNextInv, DirNextRefines
<1> QED BY <1>1, <1>2, RecordCorrect, PTL DEF Spec, RefinesAccounts, Accounts!Spec

-----------------------------------------------------------------------------
(* The satellite URIs                                                        *)

\* The request holds editMu.
PutPoint == {"urisPut", "unUrisPut"}

\* The request still has to write organization o's URIs, or to take its record
\* away.
Owing(c, o) ==
  /\ req[c].org = o
  /\ \/ /\ req[c].op \in CreateOp /\ ~req[c].rec.known
        /\ req[c].pc \in {"tuple", "join", "uris", "urisPut", "unUris",
                          "unUrisPut", "unTuple", "unJoin", "unPut"}
     \/ req[c].op = "delete" /\ req[c].pc \in {"kcDelete", "storeDelete"}

UriMutex ==
  \A c \in Client : req[c].pc \in PutPoint =>
    /\ req[c].seen = uris
    /\ \A d \in Client \ {c} : req[d].pc \notin PutPoint

\* Unless another request has taken it away meanwhile, an organization whose
\* record a request read is known; a create of an organization that was known
\* unwinds only after a failure.
ReadKnown(c) ==
  req[c].op \in WriteOp /\ req[c].rec.known =>
    /\ <<req[c].org, Nobody>> \in frayed \/ org[req[c].org].known
    /\ req[c].op \in CreateOp /\ req[c].pc \in Unwinding =>
         <<req[c].org, Nobody>> \in frayed

UrisOwed(o) ==
  org[o].known /\ <<o, Nobody>> \notin frayed /\ o \notin uris =>
    \E c \in Client : Owing(c, o)

UriInv ==
  /\ TouchInv /\ UriMutex
  /\ \A c \in Client : ReadKnown(c)
  /\ \A o \in Org : UrisOwed(o)

\* Requests about an organization itself that conflict have frayed it.
LEMMA OrgConflict ==
  ASSUME RequestTypeOK, ConflictSeen, NEW c \in Client, NEW d \in Client \ {c},
         req[c].pc # "idle", req[d].pc # "idle", req[c].org = req[d].org,
         req[c].op \in WriteOp \cup {"delete"}, req[d].op \in CreateOp \cup {"delete"}
  PROVE  <<req[c].org, Nobody>> \in frayed
<1>1. Serving(c) /\ Serving(d)
  BY ServedIfNotIdle
<1>2. Overlap(req[c], req[d])
  BY <1>1, WritersOverlap DEF Serving, WriteOp
<1>3. Conflict(req[c].op, req[d].op)
  BY DEF Conflict
<1>4. req[c].org \in Org
  BY <1>1 DEF Serving, Addressed, WriteOp, RewriteOp, CreateOp, UserOp
<1>5. InTouch(c, req[c].org, Nobody) /\ InTouch(d, req[c].org, Nobody)
  BY <1>2 DEF InTouch, Touching, Overlap, AccountOp
<1> QED BY <1>2, <1>3, <1>4, <1>5 DEF ConflictSeen

\* A failing call of a create of a known organization, of one that unwinds, and
\* of a delete frays the organization.
LEMMA FailureFrays ==
  ASSUME RequestTypeOK, NEW c \in Client, CallFails(c),
         \/ req[c].op = "delete"
         \/ req[c].op \in CreateOp /\ (req[c].rec.known \/ req[c].pc \in Unwinding)
  PROVE  <<req[c].org, Nobody>> \in frayed'
<1>1. Serving(c)
  BY ServedIfNotIdle DEF CallFails
<1>2. req[c].org \in Org /\ About(req[c].op, req[c].user) = Nobody
  BY <1>1 DEF Serving, Addressed, About, CreateOp, UserOp
<1>3. <<req[c].org, Nobody>> \in PairsOf(req[c].org, Nobody)
  BY <1>2, NobodyIsNoUser DEF PairsOf
<1>4. frayed' = frayed \cup PairsOf(req[c].org, About(req[c].op, req[c].user))
  BY DEF CallFails
<1> QED BY <1>2, <1>3, <1>4

\* Whoever is about to read or write the URIs does just that.
LEMMA UriActs ==
  ASSUME RequestTypeOK, NEW c \in Client, req[c].pc \in UriPoint, Step(c)
  PROVE  \/ EditStep(c)
         \/ req[c].pc \in {"uris", "unUris"} /\ UrisGet(c)
         \/ req[c].pc \in PutPoint /\ UrisPut(c)
<1>1. req[c].op \in CreateOp \cup {"delete"}
  BY ServedIfNotIdle DEF UriPoint, Serving, Addressed
<1>2. CASE req[c].op \in CreateOp
  <2>1. ~(\/ CreateRead(c) \/ SignupCap(c) \/ SignupMine(c) \/ CreateKc(c)
          \/ CreatePut(c) \/ WriteTuple(c) \/ Join(c) \/ UnwindTuple(c)
          \/ UnwindJoin(c) \/ UnwindPut(c) \/ UnwindKc(c) \/ Unwound(c))
    BY DEF CreateRead, SignupCap, SignupMine, CreateKc, CreatePut, WriteTuple, Join,
       UnwindTuple, UnwindJoin, UnwindPut, UnwindKc, Unwound, On, UriPoint
  <2> QED BY <1>2, <2>1, CreateActs DEF UrisGet, UrisPut, PutPoint
<1>3. CASE req[c].op = "delete"
  <2>1. ~(\/ ReadOrg(c) \/ ListForEnable(c) \/ EditMember(c) \/ EditMembersDone(c)
          \/ DeleteList(c) \/ DeleteTuples(c) \/ DeleteKc(c) \/ DeleteRecord(c))
    BY DEF ReadOrg, ListForEnable, EditMember, EditMembersDone, DeleteList,
       DeleteTuples, DeleteKc, DeleteRecord, On, UriPoint
  <2> QED BY <1>3, <2>1, DeleteActs DEF UrisGet, UrisPut, PutPoint
<1> QED BY <1>1, <1>2, <1>3

\* editMu is taken by the GET of the URIs.
LEMMA PutArrives ==
  ASSUME RequestTypeOK, NEW c \in Client, Moves(c), Step(c) \/ CallFails(c),
         req'[c].pc \in PutPoint
  PROVE  UrisGet(c) \/ EditStep(c)
<1>1. req'[c] # Idle /\ Serving(c)' /\ req'[c].op = req[c].op
  BY SMTT(30) DEF Moves, Idle, PutPoint, Same
<1>2. req[c].op \in CreateOp \cup {"delete"}
  BY <1>1 DEF Serving, Addressed, PutPoint, UriPoint
<1>3. ~CallFails(c)
  <2>1. AfterFailure(req[c]) \notin PutPoint
    BY DEF AfterFailure, PutPoint
  <2> QED BY <1>1, <2>1, FailureMoves
<1>4. \/ req' = req
      \/ CreateEdge(req[c].pc, req'[c].pc)
      \/ DeleteEdge(req[c].pc, req'[c].pc)
  BY <1>1, <1>2, <1>3, CreateTable, DeleteTable
<1>5. req[c].pc \in UriPoint
  BY <1>4 DEF CreateEdge, DeleteEdge, PutPoint, UriPoint
<1>6. ~UrisPut(c)
  <2>1. ASSUME UrisPut(c) PROVE FALSE
    <3>1. /\ req[c].pc # "idle"
          /\ Reply(c) \/ Goto(c, "kcDelete") \/ Goto(c, "unTuple")
      BY <2>1 DEF UrisPut
    <3>2. ~Reply(c)
      BY <1>1 DEF Reply, RequestTypeOK
    <3> QED BY <3>1, <3>2, GotoPoint DEF PutPoint
  <2> QED BY <2>1
<1> QED BY <1>3, <1>5, <1>6, UriActs

\* Nobody writes the URIs but the holder of editMu.
LEMMA UriMutexStep ==
  ASSUME RequestTypeOK, UriMutex, NEW c \in Client, Moves(c),
         Step(c) \/ CallFails(c)
  PROVE  UriMutex'
<1> SUFFICES ASSUME NEW x \in Client, req'[x].pc \in PutPoint
             PROVE  /\ req'[x].seen = uris'
                    /\ \A d \in Client \ {x} : req'[d].pc \notin PutPoint
  BY DEF UriMutex
<1>1. \A d \in Client \ {c} : req'[d] = req[d]
  BY MovesType
<1>2. EditStep(c) => req' = req /\ uris' = uris
  BY DEF EditStep, orgVars
<1>3. CASE EditStep(c)
  BY <1>2, <1>3 DEF UriMutex
<1>4. CASE x = c /\ UrisGet(c)
  <2> DEFINE p == IF req[c].pc = "uris" THEN "urisPut" ELSE "unUrisPut"
  <2>1. /\ req[c].pc \in {"uris", "unUris"} /\ uris' = uris
        /\ \A d \in Client : req[d].pc \notin PutPoint
        /\ req' = [req EXCEPT ![c].seen = uris, ![c].pc = p]
    BY <1>4 DEF UrisGet, PutPoint, Reads
  <2>2. req'[c] = [req[c] EXCEPT !.seen = uris, !.pc = p] /\ req[c] \in InFlight
    BY <2>1, ServedIfNotIdle DEF RequestTypeOK, Serving
  <2>3. req'[c].seen = uris
    BY <2>2 DEF InFlight
  <2> QED BY <1>1, <1>4, <2>1, <2>3
<1>5. CASE x # c /\ ~EditStep(c)
  <2>1. /\ req[x].pc \in PutPoint /\ req'[x].seen = uris /\ req[c].pc \notin PutPoint
        /\ \A d \in Client \ {x} : req[d].pc \notin PutPoint
    BY <1>1, <1>5 DEF UriMutex
  <2>2. uris' = uris
    BY <2>1, Writers DEF WritesUris, UrisPut, CallFails, PutPoint
  <2>3. ~UrisGet(c)
    BY <2>1 DEF UrisGet, PutPoint
  <2>4. req'[c].pc \notin PutPoint
    BY <1>5, <2>3, PutArrives
  <2> QED BY <1>1, <2>1, <2>2, <2>4
<1> QED BY <1>3, <1>4, <1>5, PutArrives

\* A record that a request read stays known, or is frayed.
LEMMA ReadKnownStep ==
  ASSUME UriInv, NEW c \in Client, Moves(c), RecMove(c), Step(c) \/ CallFails(c),
         NEW d \in Client
  PROVE  ReadKnown(d)'
<1>1. RequestTypeOK /\ StoreTypeOK /\ RecordInv /\ ConflictSeen /\ ReadKnown(d)
  BY DEF UriInv, TouchInv, RecordInv
<1>2. frayed \subseteq frayed'
  BY Writers
<1>3. RequestTypeOK'
  BY <1>1, MovesType
<1> SUFFICES ASSUME req'[d].op \in WriteOp, req'[d].rec.known
             PROVE  /\ <<req'[d].org, Nobody>> \in frayed' \/ org'[req'[d].org].known
                    /\ req'[d].op \in CreateOp /\ req'[d].pc \in Unwinding =>
                         <<req'[d].org, Nobody>> \in frayed'
  BY DEF ReadKnown
<1> DEFINE o == req[d].org
<1>4. req'[d].pc # "idle" /\ Serving(d)'
  BY <1>3, SMTT(30)
     DEF RequestTypeOK, Idle, WriteOp, RewriteOp, CreateOp, Serving, InFlight,
     Point, PlainPoint, UriPoint, LeavePoint
<1>5. /\ req[d].pc # "idle" /\ req'[d].op = req[d].op /\ req'[d].org = o
      /\ d # c => req'[d] = req[d]
  <2>1. ~(Begins(c) /\ d = c)
    BY DEF Begins, Moves, InFlight, Point, PlainPoint, UriPoint, LeavePoint
  <2>2. req[d].op # "deleteUser" \/ req'[d].op # req[d].op
    BY DEF WriteOp, RewriteOp, CreateOp
  <2> QED BY <1>1, <1>4, <2>1, <2>2, AddressKept, MovesType
<1>6. o \in Org
  BY <1>4, <1>5 DEF Serving, Addressed, WriteOp, RewriteOp, CreateOp, UserOp
<1>7. \/ req'[d].rec = req[d].rec
      \/ d = c /\ req'[c].rec = org[o] /\ req[c].pc = "read"
  BY <1>4, <1>5, SMTT(30) DEF RecMove, WriteOp, RewriteOp, CreateOp, RemoveOp, Idle
<1>8. <<o, Nobody>> \in frayed \/ org[o].known
  BY <1>1, <1>5, <1>7 DEF ReadKnown
<1>9. ASSUME org[o].known, ~org'[o].known PROVE <<o, Nobody>> \in frayed
  <2>1. WritesRecord(c)
    BY <1>9, Writers
  <2>2. PICK n : RecordWrite(c, n)
    BY <1>1, <1>9, <2>1, RecordWrites
  <2>3. req[c].org = o /\ org'[o] = n
    BY <1>1, <1>6, <1>9, <2>2 DEF RecordWrite, StoreTypeOK
  <2>0. req[c].pc # "idle"
    BY DEF Moves, InFlight, Point, PlainPoint, UriPoint, LeavePoint
  <2>4. n = NoRec /\ (req[c].op = "delete"
                       \/ (req[c].op \in CreateOp /\ req[c].pc = "unPut"))
    <3>1. NewRec.known
      BY DEF NewRec, NoRec
    <3>2. Carries(c, n) => n.known
      BY <1>1 DEF Carries, RecordInv, WriterOK
    <3> QED BY <1>9, <2>2, <2>3, <3>1, <3>2 DEF RecordWrite
  <2>5. CASE d = c
    BY <1>1, <1>5, <1>7, <2>3, <2>4, <2>5
       DEF ReadKnown, Unwinding, WriteOp, RewriteOp, CreateOp
  <2>6. CASE d # c
    BY <1>1, <1>5, <2>0, <2>3, <2>4, <2>6, OrgConflict
  <2> QED BY <2>5, <2>6
<1>10. ASSUME req[d].op \in CreateOp, req'[d].pc \in Unwinding
       PROVE  <<o, Nobody>> \in frayed'
  <2>1. CASE req'[d].rec = req[d].rec /\ req[d].pc \in Unwinding
    BY <1>1, <1>2, <1>5, <1>10, <2>1 DEF ReadKnown
  <2>2. CASE d = c /\ req[c].pc \notin Unwinding
    <3>1. ~Step(c)
      BY <1>1, <1>4, <1>10, <2>2, CreateTable, SMTT(30) DEF CreateEdge, Unwinding, Idle
    <3>2. req'[c].rec = req[c].rec
      BY <1>1, <1>4, <2>2, <3>1, FailureMoves, SMTT(30) DEF Idle
    <3> QED BY <1>1, <1>10, <2>2, <3>1, <3>2, FailureFrays
  <2> QED BY <1>5, <1>7, <1>10, <2>1, <2>2 DEF Unwinding
<1> QED BY <1>2, <1>5, <1>8, <1>9, <1>10

\* A request that owes an organization its URIs, or the end of its record,
\* goes on owing it until it has paid, or failed.
LEMMA OwingStep ==
  ASSUME UriInv, NEW c \in Client, NEW o \in Org, Owing(c, o),
         Moves(c), RecMove(c), Step(c) \/ CallFails(c)
  PROVE  \/ Owing(c, o)' \/ ~org'[o].known \/ o \in uris'
         \/ <<o, Nobody>> \in frayed'
<1> DEFINE r == req[c]
           s == req'[c]
           Goal == \/ Owing(c, o)' \/ ~org'[o].known \/ o \in uris'
                   \/ <<o, Nobody>> \in frayed'
<1>1. RequestTypeOK /\ StoreTypeOK /\ UriMutex
  BY DEF UriInv, TouchInv, RecordInv
<1>2. /\ r.org = o /\ r.op \in CreateOp \cup {"delete"}
      /\ r.op # "deleteUser" /\ r.op \notin RemoveOp /\ r.pc # "read"
  BY DEF Owing, CreateOp, RemoveOp
<1>3. s # Idle => s.op = r.op /\ s.org = o /\ s.rec = r.rec
  BY <1>2 DEF Moves, Same, RecMove
<1>4. CASE r.op = "delete"
  <2>1. r.pc \in {"kcDelete", "storeDelete"}
    BY <1>4 DEF Owing, CreateOp
  <2>2. CallFails(c) => Goal
    BY <1>1, <1>2, <1>4, FailureFrays
  <2>3. ASSUME Step(c) PROVE Goal
    <3>1. CASE r.pc = "kcDelete"
      <4>1. req' = req \/ s.pc = "storeDelete"
        BY <1>1, <1>4, <2>3, <3>1, DeleteTable DEF DeleteEdge
      <4> QED BY <1>3, <1>4, <4>1, SMTT(30) DEF Owing, Idle
    <3>2. CASE r.pc = "storeDelete"
      <4>1. DeleteRecord(c) \/ EditStep(c)
        BY <1>4, <2>3, <3>2, DeleteActs
        DEF ReadOrg, ListForEnable, EditMember, EditMembersDone, DeleteList,
            DeleteTuples, UrisGet, UrisPut, DeleteKc, On
      <4>2. EditStep(c) => req' = req
        BY DEF EditStep, orgVars
      <4>3. DeleteRecord(c) => org'[o] = NoRec
        BY <1>1, <1>2 DEF DeleteRecord, StoreTypeOK
      <4> QED BY <4>1, <4>2, <4>3, SMTT(30) DEF Owing, NoRec
    <3> QED BY <2>1, <3>1, <3>2
  <2> QED BY <2>2, <2>3
<1>5. CASE r.op \in CreateOp
  <2>1. /\ ~r.rec.known
        /\ r.pc \in {"tuple", "join", "uris", "urisPut", "unUris", "unUrisPut",
                     "unTuple", "unJoin", "unPut"}
    BY <1>5 DEF Owing, CreateOp
  <2>2. ASSUME CallFails(c) PROVE Goal
    <3>1. CASE r.pc \in Unwinding
      BY <1>1, <1>2, <1>5, <2>2, <3>1, FailureFrays
    <3>2. CASE r.pc \notin Unwinding
      <4>1. AfterFailure(r) \in {"unTuple", "unUris"}
        BY <1>5, <2>1, <3>2 DEF AfterFailure, Unwinding, CreateOp, RemoveOp
      <4>2. req' = [req EXCEPT ![c] = [r EXCEPT !.pc = AfterFailure(r),
                        !.clean = @ /\ r.pc \notin Unwinding]]
        BY <2>2, <4>1 DEF CallFails
      <4>3. r \in InFlight
        BY DEF Moves
      <4>4. s.pc = AfterFailure(r) /\ s # Idle
        BY <1>1, <4>1, <4>2, <4>3 DEF RequestTypeOK, InFlight, Idle
      <4> QED BY <1>3, <1>5, <2>1, <4>1, <4>4 DEF Owing
    <3> QED BY <3>1, <3>2
  <2>3. ASSUME Step(c) PROVE Goal
    <3>1. CASE r.pc \in {"tuple", "join", "uris", "unUris", "unUrisPut", "unTuple",
                         "unJoin"}
      <4>1. /\ req' = req \/ s.pc \in {"join", "uris", "urisPut", "unUrisPut",
                                       "unTuple", "unJoin", "unPut"}
        BY <1>1, <1>5, <2>1, <2>3, <3>1, CreateTable DEF CreateEdge, CreateEnd
      <4> QED BY <1>3, <1>5, <2>1, <4>1, SMTT(30) DEF Owing, Idle
    <3>2. CASE r.pc = "urisPut"
      <4>1. UrisPut(c) \/ EditStep(c)
        BY <1>1, <2>3, <3>2, UriActs DEF UriPoint
      <4>2. EditStep(c) => req' = req
        BY DEF EditStep, orgVars
      <4>3. UrisPut(c) => o \in uris'
        BY <1>2, <3>2 DEF UrisPut
      <4> QED BY <4>1, <4>2, <4>3 DEF Owing
    <3>3. CASE r.pc = "unPut"
      <4>1. UnwindPut(c) \/ EditStep(c)
        BY <1>5, <2>3, <3>3, CreateActs
        DEF CreateRead, SignupCap, SignupMine, CreateKc, CreatePut, WriteTuple,
            Join, UrisGet, UrisPut, UnwindTuple, UnwindJoin, UnwindKc, Unwound, On
      <4>2. EditStep(c) => req' = req
        BY DEF EditStep, orgVars
      <4>3. UnwindPut(c) => org'[o] = NoRec
        BY <1>1, <1>2 DEF UnwindPut, StoreTypeOK
      <4> QED BY <4>1, <4>2, <4>3, SMTT(30) DEF Owing, NoRec
    <3> QED BY <2>1, <3>1, <3>2, <3>3
  <2> QED BY <2>2, <2>3
<1> QED BY <1>2, <1>4, <1>5

\* An organization without its URIs is always owed them.
LEMMA UrisOwedStep ==
  ASSUME UriInv, NEW c \in Client, Moves(c), RecMove(c), Step(c) \/ CallFails(c),
         NEW o \in Org
  PROVE  UrisOwed(o)'
<1> SUFFICES ASSUME org'[o].known, <<o, Nobody>> \notin frayed', o \notin uris'
             PROVE  \E d \in Client : Owing(d, o)'
  BY DEF UrisOwed
<1> DEFINE r == req[c]
           s == req'[c]
<1>1. RequestTypeOK /\ StoreTypeOK /\ UriMutex /\ RecordInv /\ ReadKnown(c)
  BY DEF UriInv, TouchInv, RecordInv
<1>2. <<o, Nobody>> \notin frayed
  BY Writers
<1>3. r.pc # "idle" /\ r \in InFlight
  BY DEF Moves, InFlight, Point, PlainPoint, UriPoint, LeavePoint
<1>4. CASE org[o].known /\ o \notin uris
  <2>1. PICK d \in Client : Owing(d, o)
    BY <1>2, <1>4 DEF UriInv, UrisOwed
  <2>2. CASE d = c
    BY <2>1, <2>2, OwingStep
  <2>3. CASE d # c
    <3>1. req'[d] = req[d]
      BY <1>1, <2>3, MovesType
    <3> QED BY <2>1, <3>1 DEF Owing
  <2> QED BY <2>2, <2>3
<1>5. CASE ~org[o].known
  <2>1. WritesRecord(c)
    BY <1>5, Writers
  <2>2. PICK n : RecordWrite(c, n)
    BY <1>1, <1>5, <2>1, RecordWrites
  <2>3. r.org = o /\ org'[o] = n
    BY <1>1, <1>5, <2>2 DEF RecordWrite, StoreTypeOK
  <2>4. n # NoRec
    BY <2>3, SMTT(30) DEF NoRec
  <2>5. ~Carries(c, n)
    BY <1>1, <1>2, <1>5, <2>3 DEF Carries, ReadKnown
  <2>6. r.op \in CreateOp /\ r.pc = "put" /\ ~r.rec.known
    BY <2>2, <2>4, <2>5 DEF RecordWrite
  <2>7. ~CallFails(c)
    BY <1>5 DEF CallFails
  <2>8. req' = req \/ s.pc = "tuple"
    BY <1>1, <2>6, <2>7, CreateTable DEF CreateEdge, CreateEnd
  <2>9. req' # req
    <3>1. CreatePut(c)
      BY <2>1, <2>6 DEF WritesRecord, RewritePut, UnwindPut, DisablePut, EnablePut,
         DeleteRecord, On, CreateOp, RewriteOp
    <3>2. Goto(c, "tuple")
      BY <3>1 DEF CreatePut
    <3> QED BY <1>1, <1>3, <2>6, <3>2, GotoPoint
  <2>10. s # Idle /\ s.op = r.op /\ s.org = o /\ s.rec = r.rec
    BY <2>3, <2>6, <2>8, <2>9, SMTT(30)
       DEF Moves, Same, RecMove, Idle, CreateOp, RemoveOp
  <2> QED BY <2>6, <2>8, <2>9, <2>10 DEF Owing
<1>6. CASE org[o].known /\ o \in uris
  <2>1. ~CallFails(c)
    BY <1>1, <1>6, SMTT(30) DEF CallFails, UriMutex, PutPoint
  <2>2. UrisPut(c)
    BY <1>6, <2>1, Writers DEF WritesUris
  <2>3. r.pc \in PutPoint /\ r.seen = uris
    BY <1>1, <2>2 DEF UrisPut, UriMutex, PutPoint
  <2>4. /\ r.pc = "unUrisPut" /\ r.org = o
        /\ Goto(c, IF r.op = "delete" THEN "kcDelete" ELSE "unTuple")
    BY <1>6, <2>2, <2>3 DEF UrisPut, PutPoint
  <2>5. s.pc = IF r.op = "delete" THEN "kcDelete" ELSE "unTuple"
    BY <1>1, <1>3, <2>4, GotoPoint
  <2>6. r.op \in CreateOp \cup {"delete"}
    BY <1>1, <1>3, <2>4, ServedIfNotIdle DEF Serving, Addressed, UriPoint
  <2>7. s # Idle /\ s.op = r.op /\ s.org = o /\ s.rec = r.rec
    BY <2>4, <2>5, <2>6, SMTT(30) DEF Moves, Same, RecMove, Idle, CreateOp, RemoveOp
  <2>8. r.op \in CreateOp => ~r.rec.known
    BY <1>1, <1>2, <2>4 DEF ReadKnown, Unwinding, WriteOp
  <2> QED BY <2>5, <2>6, <2>7, <2>8 DEF Owing, CreateOp
<1> QED BY <1>4, <1>5, <1>6

\* At the start nothing is in flight and every known organization has its URIs.
LEMMA UriInit == Init => UriInv
<1> SUFFICES ASSUME Init PROVE UriInv
  OBVIOUS
<1>1. \A c \in Client : req[c].pc = "idle" /\ req[c].op = "none"
  BY DEF Init, Idle
<1>2. \A o \in Org : org[o].known => o \in uris
  BY SMTT(30) DEF Init, NoRec
<1> QED BY <1>1, <1>2, TouchInit
        DEF UriInv, UriMutex, PutPoint, ReadKnown, WriteOp, RewriteOp, CreateOp,
            UrisOwed

\* Every step keeps the invariant.
LEMMA UriNext == UriInv /\ [Next]_vars => UriInv'
<1> SUFFICES ASSUME UriInv, [Next]_vars PROVE UriInv'
  OBVIOUS
<1>1. RequestTypeOK /\ StoreTypeOK /\ TouchInv'
  BY TouchNext DEF UriInv, TouchInv, RecordInv
<1>2. CASE UNCHANGED orgVars
  <2>1. org' = org /\ uris' = uris /\ req' = req /\ frayed' = frayed
    BY <1>2 DEF orgVars, history
  <2>2. UriMutex'
    BY <2>1, SMTT(30) DEF UriInv, UriMutex
  <2>3. \A c \in Client : ReadKnown(c)'
    BY <2>1 DEF UriInv, ReadKnown
  <2>4. \A o \in Org : UrisOwed(o)'
    BY <2>1, SMTT(30) DEF UriInv, UrisOwed, Owing
  <2> QED BY <1>1, <2>2, <2>3, <2>4 DEF UriInv
<1>3. ASSUME NEW c \in Client, Begins(c) PROVE UriInv'
  <2>1. /\ org' = org /\ uris' = uris /\ frayed \subseteq frayed'
        /\ req[c].pc = "idle" /\ req'[c].pc = "read" /\ req'[c].rec = NoRec
    BY <1>3 DEF Begins
  <2>2. ASSUME NEW d \in Client \ {c}
        PROVE  \/ req'[d] = req[d]
               \/ /\ req'[d].pc = req[d].pc /\ req'[d].op = req[d].op
                  /\ req'[d].org = req[d].org /\ req'[d].rec = req[d].rec
                  /\ req'[d].seen = req[d].seen
    <3>1. CASE req[d].pc # "idle" /\ req'[d] = [req[d] EXCEPT !.clean = FALSE]
      <4>1. req[d] \in InFlight
        BY <1>1, <3>1, ServedIfNotIdle DEF Serving
      <4> QED BY <3>1, <4>1 DEF InFlight
    <3> QED BY <1>3, <3>1 DEF Begins
  <2>3. UriMutex'
    BY <2>1, <2>2, SMTT(30) DEF UriInv, UriMutex, PutPoint
  <2>4. ASSUME NEW d \in Client PROVE ReadKnown(d)'
    BY <2>1, <2>2, SMTT(30) DEF UriInv, ReadKnown, NoRec
  <2>5. ASSUME NEW o \in Org PROVE UrisOwed(o)'
    <3>1. ASSUME NEW d \in Client, Owing(d, o) PROVE Owing(d, o)'
      <4>1. d # c
        BY <2>1, <3>1 DEF Owing
      <4> QED BY <2>2, <3>1, <4>1 DEF Owing
    <3> QED BY <2>1, <3>1 DEF UriInv, UrisOwed
  <2> QED BY <1>1, <2>3, <2>4, <2>5 DEF UriInv
<1>4. ASSUME NEW c \in Client, Moves(c), RecMove(c), Step(c) \/ CallFails(c)
      PROVE  UriInv'
  <2>1. UriMutex'
    BY <1>1, <1>4, UriMutexStep, Writers DEF UriInv
  <2>2. \A d \in Client : ReadKnown(d)'
    BY <1>4, ReadKnownStep
  <2>3. \A o \in Org : UrisOwed(o)'
    BY <1>4, UrisOwedStep
  <2> QED BY <1>1, <2>1, <2>2, <2>3 DEF UriInv
<1> QED BY <1>1, <1>2, <1>3, <1>4, NextSplit

\* Organizations created and deleted at once, in any number, do not lose each
\* other's satellite URIs: a known organization nothing conflicting happened to
\* has them, once no request is at work on it.
THEOREM UrisKept == Spec => []SatelliteUrisKept
<1>1. UriInv => SatelliteUrisKept
  <2> SUFFICES ASSUME UriInv, NEW o \in Org, org[o].known, Quiet(o, Nobody),
                      <<o, Nobody>> \notin frayed, o \notin uris
               PROVE  FALSE
    BY DEF SatelliteUrisKept
  <2>1. PICK c \in Client : Owing(c, o)
    BY DEF UriInv, UrisOwed
  <2>2. c \in Touching(o, Nobody)
    BY <2>1 DEF Owing, Touching, CreateOp
  <2> QED BY <2>2 DEF Quiet
<1> QED BY <1>1, UriInit, UriNext, PTL DEF Spec

-----------------------------------------------------------------------------
(* What a suspension locks                                                   *)

\* A request is at work in organization o; a user delete is in all of them.
OnOrg(r, o) ==
  /\ r.pc # "idle" /\ r.op \notin AccountOp
  /\ r.org = o \/ r.op = "deleteUser"

\* Whatever two requests at work on the same member touch is torn.
TornSeen ==
  \A c, d \in Client, o \in Org :
    c # d /\ OnOrg(req[c], o) /\ OnOrg(req[d], o) /\ Overlap(req[c], req[d]) =>
      o \in torn

\* Which steps forget that an organization was torn, and which start an agent.
LEMMA TornWriters ==
  ASSUME NEW c \in Client
  PROVE  Step(c) \/ CallFails(c) =>
           /\ DisableAgents(c) \/ torn \subseteq torn'
           /\ SpawnAgent(c) \/ live' \subseteq live
<1> DEFINE Kept == /\ DisableAgents(c) \/ torn \subseteq torn'
                   /\ SpawnAgent(c) \/ live' \subseteq live
<1>1. ASSUME torn' = torn, live' = live PROVE Kept
  BY <1>1
<1>2. ASSUME ReadOrg(c) \/ ListForDisable(c) \/ ListForEnable(c)
             \/ EditMembersDone(c) \/ UrisGet(c)
      PROVE  Kept
  BY <1>1, <1>2 DEF ReadOrg, ListForDisable, ListForEnable, EditMembersDone,
        UrisGet, Reads, history
<1>3. ASSUME CreateRead(c) \/ SignupCap(c) \/ SignupMine(c) \/ Unwound(c)
             \/ DeleteList(c)
      PROVE  Kept
  BY <1>1, <1>3 DEF CreateRead, SignupCap, SignupMine, Unwound, DeleteList, Reads,
     history
<1>4. ASSUME RoleCheck(c) \/ RemoveLoad(c) \/ DeleteUserEstate(c)
             \/ DeleteUserOrgs(c) \/ DeleteUserNext(c)
      PROVE  Kept
  BY <1>1, <1>4 DEF RoleCheck, RemoveLoad, DeleteUserEstate, DeleteUserOrgs,
        DeleteUserNext, Reads, history
<1>5. ASSUME EditMember(c) \/ EditStep(c) \/ RemoveUnlock(c) \/ RemoveUnlocked(c)
             \/ UserEdit(c)
      PROVE  Kept
  BY <1>1, <1>5 DEF EditMember, EditStep, RemoveUnlock, RemoveUnlocked, UserEdit,
        history, orgVars
<1>6. ASSUME RewritePut(c) \/ CreatePut(c) \/ UnwindPut(c) \/ DisablePut(c)
             \/ EnablePut(c) \/ DeleteRecord(c)
      PROVE  Kept
  BY <1>1, <1>6 DEF RewritePut, CreatePut, UnwindPut, DisablePut, EnablePut,
        DeleteRecord, history
<1>7. ASSUME UnwindJoin(c) \/ UnwindKc(c) \/ DeleteKc(c) \/ RemoveLeave(c)
             \/ DeleteUserAccount(c) \/ UrisPut(c) \/ CreateKc(c)
      PROVE  Kept
  BY <1>1, <1>7 DEF UnwindJoin, UnwindKc, DeleteKc, RemoveLeave, DeleteUserAccount,
        UrisPut, CreateKc, history
<1>8. ASSUME WriteTuple(c) \/ UnwindTuple(c) \/ DeleteTuples(c) \/ RoleDropOther(c)
             \/ RemoveTuples(c)
      PROVE  Kept
  BY <1>1, <1>8 DEF WriteTuple, UnwindTuple, DeleteTuples, RoleDropOther,
        RemoveTuples, history
<1>9. ASSUME Join(c) PROVE Kept
  BY <1>9 DEF Join
<1>10. ASSUME SpawnAgent(c) PROVE Kept
  BY <1>10 DEF SpawnAgent, history
<1>11. ASSUME DisableAgents(c) PROVE Kept
  BY <1>11 DEF DisableAgents
<1>12. ASSUME RemoveDispose(c) PROVE Kept
  BY <1>12 DEF RemoveDispose, history
<1>13. ASSUME UserEdited(c) PROVE Kept
  BY <1>13 DEF UserEdited, history
<1>14. ASSUME CallFails(c) PROVE Kept
  BY <1>14 DEF CallFails
<1> QED BY <1>2, <1>3, <1>4, <1>5, <1>6, <1>7, <1>8, <1>9, <1>10, <1>11, <1>12, <1>13,
      <1>14 DEF Step

\* A call that fails tears the organization it was about.
LEMMA FailureTears ==
  ASSUME NEW c \in Client, CallFails(c), req[c].org \in Org
  PROVE  req[c].org \in torn'
<1>1. torn' = torn \cup ({req[c].org} \cap Org)
  BY DEF CallFails
<1> QED BY <1>1

\* Nothing else is at work in an organization that a clean suspension is in.
LEMMA CleanAlone ==
  ASSUME RequestTypeOK, OverlapSeen, NEW c \in Client, req[c].pc # "idle",
         req[c].op = "disable", req[c].clean, NEW d \in Client \ {c}
  PROVE  ~OnOrg(req[d], req[c].org)
<1>1. About(req[c].op, req[c].user) = Nobody
  BY ServedIfNotIdle DEF Serving, Addressed, About
<1>2. OnOrg(req[d], req[c].org) => Overlap(req[c], req[d])
  BY <1>1 DEF OnOrg, Overlap, AccountOp
<1> QED BY <1>2 DEF OverlapSeen, OnOrg

\* What was torn stays so, but for a clean suspension.
LEMMA Untorn ==
  ASSUME RequestTypeOK, OverlapSeen, NEW c \in Client, Step(c) \/ CallFails(c),
         NEW o \in Org, o \notin torn', o \in torn
  PROVE  /\ DisableAgents(c) /\ req[c].org = o /\ req[c].clean /\ req'[c] = Idle
         /\ \A d \in Client \ {c} : ~OnOrg(req[d], o)
<1>1. DisableAgents(c)
  BY TornWriters
<1>2. req[c].org = o /\ req[c].clean /\ req'[c] = Idle
  BY <1>1 DEF DisableAgents, Reply, RequestTypeOK
<1> QED BY <1>1, <1>2, CleanAlone DEF DisableAgents, On

\* A request stays at work where it was.
LEMMA OnOrgKept ==
  ASSUME RequestTypeOK, NEW c \in Client, Moves(c), NEW d \in Client, NEW o \in Org
  PROVE  OnOrg(req[d], o)' => OnOrg(req[d], o)
<1>1. CASE d # c
  BY <1>1, MovesType DEF OnOrg
<1>2. CASE d = c /\ req'[c] = Idle
  BY <1>2, IdleFields DEF OnOrg
<1>3. CASE d = c /\ Same(req[c], req'[c])
  BY <1>3 DEF OnOrg, Same, Moves, InFlight, Point, PlainPoint, UriPoint, LeavePoint
<1> QED BY <1>1, <1>2, <1>3 DEF Moves

\* The marks of overlaps last as long as the requests do.
LEMMA TornStep ==
  ASSUME RequestTypeOK, OverlapSeen, TornSeen, NEW c \in Client, Moves(c) \/ req' = req,
         Step(c) \/ CallFails(c)
  PROVE  TornSeen'
<1> SUFFICES ASSUME NEW x \in Client, NEW y \in Client, NEW o \in Org, x # y,
                    OnOrg(req[x], o)', OnOrg(req[y], o)', Overlap(req'[x], req'[y])
             PROVE  o \in torn'
  BY DEF TornSeen
<1>1. OnOrg(req[x], o) /\ OnOrg(req[y], o)
  BY OnOrgKept DEF OnOrg
<1>2. ASSUME NEW d \in Client, OnOrg(req[d], o)'
      PROVE  /\ req'[d].op = req[d].op /\ req'[d].user = req[d].user
             /\ req'[d].org = req[d].org \/ req[d].op = "deleteUser"
  <2>1. d = c => req'[c] # Idle
    BY <1>2, IdleFields DEF OnOrg
  <2> QED BY <2>1, MovesType DEF Moves, Same
<1>3. Overlap(req[x], req[y])
  BY <1>2 DEF Overlap
<1>4. o \in torn
  BY <1>1, <1>3 DEF TornSeen
<1>5. ASSUME o \notin torn' PROVE FALSE
  <2>1. req'[c] = Idle /\ \A d \in Client \ {c} : ~OnOrg(req[d], o)
    BY <1>4, <1>5, Untorn
  <2>2. x # c \/ y # c
    OBVIOUS
  <2> QED BY <1>1, <2>1, IdleFields DEF OnOrg
<1> QED BY <1>5

LEMMA TornBegins ==
  ASSUME RequestTypeOK, TornSeen, NEW c \in Client, Begins(c)
  PROVE  TornSeen'
<1> SUFFICES ASSUME NEW x \in Client, NEW y \in Client, NEW o \in Org, x # y,
                    OnOrg(req[x], o)', OnOrg(req[y], o)', Overlap(req'[x], req'[y])
             PROVE  o \in torn'
  BY DEF TornSeen
<1>1. ASSUME NEW d \in Client \ {c}
      PROVE  /\ req'[d].op = req[d].op /\ req'[d].org = req[d].org
             /\ req'[d].user = req[d].user /\ req'[d].pc = req[d].pc
  <2>1. CASE req'[d] = req[d]
    BY <2>1
  <2>2. CASE req[d].pc # "idle" /\ req'[d] = [req[d] EXCEPT !.clean = FALSE]
    <3>1. req[d] \in InFlight
      BY <2>2, ServedIfNotIdle DEF Serving
    <3> QED BY <2>2, <3>1 DEF InFlight
  <2> QED BY <2>1, <2>2 DEF Begins
<1>2. CASE x # c /\ y # c
  <2>1. OnOrg(req[x], o) /\ OnOrg(req[y], o)
    BY <1>1, <1>2 DEF OnOrg
  <2>2. Overlap(req[x], req[y])
    BY <1>1, <1>2 DEF Overlap
  <2>3. torn \subseteq torn'
    BY DEF Begins
  <2> QED BY <2>1, <2>2, <2>3 DEF TornSeen
<1>3. ASSUME NEW d \in Client \ {c}, OnOrg(req[c], o)', OnOrg(req[d], o)',
             Overlap(req'[c], req[d])
      PROVE  o \in torn'
  <2>1. ~req'[c].clean
    BY <1>1, <1>3 DEF Begins, OnOrg
  <2> QED BY <1>3, <2>1 DEF Begins, OnOrg
<1>4. CASE x = c
  BY <1>1, <1>3, <1>4 DEF Overlap
<1>5. CASE y = c
  BY <1>1, <1>3, <1>5 DEF Overlap
<1> QED BY <1>2, <1>4, <1>5

\* A request that is no longer clean has torn its organization.
CleanSeen ==
  \A c \in Client :
    req[c].pc # "idle" /\ req[c].op \notin UserOp /\ ~req[c].clean => req[c].org \in torn

\* No step of its own but a failure makes a request unclean.
LEMMA Cleanly ==
  ASSUME RequestTypeOK, StoreTypeOK, NEW c \in Client, req[c].op \notin UserOp, Step(c)
  PROVE  req'[c] = Idle \/ req'[c].clean = req[c].clean
<1> DEFINE r == req[c]
           s == req'[c]
           Goal == s = Idle \/ s.clean = r.clean
<1>0. r.op # "deleteUser"
  BY DEF UserOp
<1>1. r.pc # "idle" => r \in InFlight
  BY ServedIfNotIdle DEF Serving
<1>2. ASSUME PlainMove(c) PROVE Goal
  <2>1. ASSUME NEW p \in Point, r \in InFlight PROVE At(r, p).clean = r.clean
    BY <2>1 DEF At, InFlight
  <2> QED BY <1>2, <2>1 DEF PlainMove, Moves
<1>3. ASSUME ListForDisable(c) \/ ListForEnable(c) \/ DeleteList(c) \/ DeleteTuples(c)
      PROVE  Goal
  <2>1. r.pc # "idle" /\ \E p, v : req' = [req EXCEPT ![c].pc = p, ![c].todo = v]
    BY <1>3 DEF ListForDisable, ListForEnable, DeleteList, DeleteTuples, On
  <2>2. PICK p, v : req' = [req EXCEPT ![c].pc = p, ![c].todo = v]
    BY <2>1
  <2>3. s = [r EXCEPT !.pc = p, !.todo = v]
    BY <2>2 DEF RequestTypeOK
  <2> QED BY <1>1, <2>1, <2>3 DEF InFlight
<1>4. ASSUME CreateRead(c) PROVE Goal
  <2>1. r.pc # "idle" /\ \E p, v : req' = [req EXCEPT ![c].rec = v, ![c].pc = p]
    BY <1>4 DEF CreateRead, On
  <2>2. PICK p, v : req' = [req EXCEPT ![c].rec = v, ![c].pc = p]
    BY <2>1
  <2>3. s = [r EXCEPT !.rec = v, !.pc = p]
    BY <2>2 DEF RequestTypeOK
  <2> QED BY <1>1, <2>1, <2>3 DEF InFlight
<1>5. ASSUME RemoveLoad(c) \/ ReadOrg(c) PROVE Goal
  <2>1. r.pc # "idle" /\ (Reply(c)
            \/ \E p, v : req' = [req EXCEPT ![c].pc = p, ![c].rec = v])
    BY <1>5 DEF RemoveLoad, ReadOrg, On
  <2>2. CASE Reply(c)
    BY <2>2 DEF Reply, RequestTypeOK
  <2>3. ASSUME NEW p, NEW v, req' = [req EXCEPT ![c].pc = p, ![c].rec = v] PROVE Goal
    <3>1. s = [r EXCEPT !.pc = p, !.rec = v]
      BY <2>3 DEF RequestTypeOK
    <3> QED BY <1>1, <2>1, <3>1 DEF InFlight
  <2> QED BY <2>1, <2>2, <2>3
<1>6. ASSUME UrisGet(c) PROVE Goal
  <2> DEFINE p == IF r.pc = "uris" THEN "urisPut" ELSE "unUrisPut"
  <2>1. r.pc # "idle" /\ s = [r EXCEPT !.seen = uris, !.pc = p]
    BY <1>6 DEF UrisGet, RequestTypeOK
  <2> HIDE DEF p
  <2> QED BY <1>1, <2>1 DEF InFlight
<1>7. ASSUME EditMember(c) PROVE Goal
  <2>1. r.pc # "idle" /\ \E u : req' = [req EXCEPT ![c].todo = @ \ {u}]
    BY <1>7 DEF EditMember, On
  <2>2. PICK u : req' = [req EXCEPT ![c].todo = @ \ {u}]
    BY <2>1
  <2>3. s = [r EXCEPT !.todo = r.todo \ {u}]
    BY <2>2 DEF RequestTypeOK
  <2> QED BY <1>1, <2>1, <2>3 DEF InFlight
<1>8. ASSUME RemoveDispose(c) \/ RemoveUnlocked(c) PROVE Goal
  <2>1. r.pc # "idle" /\ r.op = "remove" /\ s \in {[r EXCEPT !.pc = "unlock"], RemoveNext(r)}
    BY <1>0, <1>8 DEF RemoveDispose, RemoveUnlocked, On, RemoveOp, RequestTypeOK
  <2>2. RemoveNext(r) = Idle
    BY <2>1 DEF RemoveNext
  <2>3. [r EXCEPT !.pc = "unlock"].clean = r.clean
    BY <1>1, <2>1 DEF InFlight
  <2> QED BY <2>1, <2>2, <2>3
<1>9. ASSUME EditStep(c) PROVE Goal
  BY <1>9 DEF EditStep, orgVars
<1>10. ~DeleteUserOrgs(c) /\ ~DeleteUserNext(c)
  BY <1>0 DEF DeleteUserOrgs, DeleteUserNext, On
<1> QED BY <1>2, <1>3, <1>4, <1>5, <1>6, <1>7, <1>8, <1>9, <1>10, PlainMoves DEF Step

LEMMA CleanStep ==
  ASSUME RequestTypeOK, StoreTypeOK, OverlapSeen, CleanSeen, NEW c \in Client,
         Moves(c) \/ req' = req, Step(c) \/ CallFails(c)
  PROVE  CleanSeen'
<1> SUFFICES ASSUME NEW d \in Client, req'[d].pc # "idle", req'[d].op \notin UserOp,
                    ~req'[d].clean
             PROVE  req'[d].org \in torn'
  BY DEF CleanSeen
<1>0. req'[d] # Idle
  BY IdleFields
<1>1. /\ req'[d].op = req[d].op /\ req'[d].org = req[d].org /\ req[d].pc # "idle"
      /\ req[d].op \notin UserOp /\ req[d].org \in Org
  <2>1. CASE d # c \/ req' = req
    BY <2>1, MovesType, ServedIfNotIdle DEF Serving, Addressed
  <2>2. CASE d = c /\ Moves(c)
    <3>1. /\ req'[d].op = req[d].op /\ (req'[d].org = req[d].org \/ req[d].op = "deleteUser")
          /\ req[c] \in InFlight
      BY <1>0, <2>2 DEF Moves, Same
    <3>2. req[c].pc # "idle"
      BY <3>1 DEF InFlight, Point, PlainPoint, UriPoint, LeavePoint
    <3> QED BY <2>2, <3>1, <3>2, ServedIfNotIdle DEF Serving, Addressed, UserOp
  <2> QED BY <2>1, <2>2
<1>2. CASE d = c /\ CallFails(c)
  BY <1>1, <1>2, FailureTears
<1>3. CASE d # c \/ Step(c)
  <2>1. ~req[d].clean
    BY <1>0, <1>1, <1>3, Cleanly, MovesType
  <2>2. req[d].org \in torn
    BY <1>1, <2>1 DEF CleanSeen
  <2>3. ASSUME req[d].org \notin torn' PROVE FALSE
    <3>1. /\ req[c].org = req[d].org /\ req[c].clean /\ req'[c] = Idle
          /\ \A x \in Client \ {c} : ~OnOrg(req[x], req[d].org)
      BY <1>1, <2>2, <2>3, Untorn
    <3>2. OnOrg(req[d], req[d].org)
      BY <1>1 DEF OnOrg, AccountOp, UserOp
    <3> QED BY <1>0, <3>1, <3>2
  <2> QED BY <1>1, <2>3
<1> QED BY <1>2, <1>3

LEMMA CleanBegins ==
  ASSUME RequestTypeOK, CleanSeen, NEW c \in Client, Begins(c)
  PROVE  CleanSeen'
<1> SUFFICES ASSUME NEW d \in Client, req'[d].pc # "idle", req'[d].op \notin UserOp,
                    ~req'[d].clean
             PROVE  req'[d].org \in torn'
  BY DEF CleanSeen
<1>1. CASE d = c
  <2>1. req'[c].org \in Org
    BY <1>1 DEF Begins, Serving, Addressed
  <2> QED BY <1>1, <2>1 DEF Begins
<1>2. CASE d # c /\ req'[d] = req[d]
  BY <1>2 DEF CleanSeen, Begins
<1>3. CASE d # c /\ req'[d] # req[d]
  <2>1. req[d].pc # "idle" /\ req'[d] = [req[d] EXCEPT !.clean = FALSE]
    BY <1>3 DEF Begins
  <2>2. req[d] \in InFlight
    BY <2>1, ServedIfNotIdle DEF Serving
  <2>3. req'[d].op = req[d].op /\ req'[d].org = req[d].org
    BY <2>1, <2>2 DEF InFlight
  <2> QED BY <1>3, <2>3 DEF Begins
<1> QED BY <1>1, <1>2, <1>3

\* The members' accounts exist, until they leave.
MemberKnown == \A o \in Org, u \in User : In(o, u) => acct[u].known

\* Who becomes a member is joined.
LEMMA Joined ==
  ASSUME NEW c \in Client, Step(c) \/ CallFails(c), NEW o \in Org, NEW u \in User,
         ~In(o, u), In(o, u)'
  PROVE  Join(c) /\ req[c].org = o /\ req[c].user = u
<1>1. WritesMember(c)
  BY Writers DEF In
<1>2. CASE Join(c)
  BY <1>2 DEF Join, In
<1>3. CASE UnwindJoin(c) \/ RemoveLeave(c) \/ UnwindKc(c) \/ DeleteKc(c) \/ DeleteUserAccount(c)
  <2>1. member' \subseteq member
    BY <1>3 DEF UnwindJoin, RemoveLeave, UnwindKc, DeleteKc, DeleteUserAccount
  <2> QED BY <2>1 DEF In
<1> QED BY <1>1, <1>2, <1>3 DEF WritesMember

\* An account stays, unless it is deleted.
LEMMA KnownKept ==
  ASSUME DirInv, NEW c \in Client, Step(c) \/ CallFails(c), NEW u \in User,
         acct[u].known, ~(DeleteUserAccount(c) /\ req[c].user = u)
  PROVE  acct'[u].known
<1>1. acct \in [User -> Rep] /\ edit \in [Client -> Edit \cup {NoEdit}]
  BY DEF DirInv, DirTypeOK
<1>2. CASE acct' = acct
  BY <1>2
<1>3. CASE EditMember(c) \/ RemoveUnlock(c) \/ UserEdit(c) \/ CallFails(c)
  BY <1>2, <1>3 DEF EditMember, RemoveUnlock, UserEdit, CallFails, EditFails, EditGet,
     dirVars
<1>4. CASE Join(c) /\ CreateUser(req[c].user)
  <2>1. ~acct[req[c].user].known /\ acct' = [acct EXCEPT ![req[c].user] = FreshAccount]
    BY <1>4 DEF CreateUser
  <2> QED BY <1>1, <2>1
<1>5. CASE DeleteUserAccount(c) /\ DeleteUser(req[c].user)
  <2>1. acct' = [acct EXCEPT ![req[c].user] = NoAccount]
    BY <1>5 DEF DeleteUser
  <2> QED BY <1>1, <1>5, <2>1
<1>6. CASE EditStep(c)
  <2>1. CASE Logout(c)
    BY <1>2, <2>1 DEF Logout
  <2>2. CASE EditPut(c)
    <3>1. /\ edit[c].pc = "put"
          /\ acct' = IF edit[c].stale THEN acct
                     ELSE [acct EXCEPT ![edit[c].user] = EditedRep(edit[c])]
      BY <2>2 DEF EditPut
    <3>2. CASE edit[c].stale \/ edit[c].user # u
      BY <1>1, <3>1, <3>2
    <3>3. CASE ~edit[c].stale /\ edit[c].user = u
      <4>1. EditedRep(edit[c]).known
        BY <3>1, <3>3, EditedRepOK DEF DirInv
      <4> QED BY <1>1, <3>1, <3>3, <4>1
    <3> QED BY <3>2, <3>3
  <2> QED BY <1>6, <2>1, <2>2 DEF EditStep
<1> QED BY <1>2, <1>3, <1>4, <1>5, <1>6, Editors DEF Join, DeleteUserAccount, dirVars

LEMMA MemberStep ==
  ASSUME RequestTypeOK, DirInv, MemberKnown, NEW c \in Client, Step(c) \/ CallFails(c)
  PROVE  MemberKnown'
<1> SUFFICES ASSUME NEW o \in Org, NEW u \in User, In(o, u)' PROVE acct'[u].known
  BY DEF MemberKnown
<1>1. CASE In(o, u)
  <2>1. ~(DeleteUserAccount(c) /\ req[c].user = u)
    <3>1. DeleteUserAccount(c) => member' = {m \in member : m[2] # req[c].user}
      BY DEF DeleteUserAccount
    <3> QED BY <3>1, SMTT(30) DEF In
  <2> QED BY <1>1, <2>1, KnownKept DEF MemberKnown
<1>2. CASE ~In(o, u)
  <2>1. /\ req[c].user = u
        /\ IF acct[u].known THEN UNCHANGED dirVars ELSE CreateUser(u)
    BY <1>2, Joined DEF Join
  <2>2. FreshAccount.known
    BY SMTT(30) DEF FreshAccount, NoAccount
  <2>3. CASE CreateUser(u)
    BY <2>2, <2>3 DEF CreateUser, DirInv, DirTypeOK
  <2> QED BY <2>1, <2>3 DEF dirVars
<1> QED BY <1>1, <1>2

\* Requests open no session.
LEMMA SessionsEnd ==
  ASSUME NEW c \in Client, Step(c) \/ CallFails(c)
  PROVE  session' \subseteq session
<1>1. CASE EditMember(c) \/ RemoveUnlock(c) \/ UserEdit(c) \/ CallFails(c)
  BY <1>1 DEF EditMember, RemoveUnlock, UserEdit, CallFails, EditFails, EditGet, dirVars
<1>2. CASE Join(c) \/ DeleteUserAccount(c)
  BY <1>2 DEF Join, DeleteUserAccount, CreateUser, DeleteUser, dirVars
<1>3. CASE EditStep(c)
  BY <1>3 DEF EditStep, EditPut, Logout
<1> QED BY <1>1, <1>2, <1>3, Editors DEF dirVars

\* The member's account is locked by the organization, and signed out.
Shut(o, u) == Tagged(o, u) /\ u \notin session

\* A lock is lifted by the PUT of a lift, or goes with the account.
LEMMA ShutEnds ==
  ASSUME RequestTypeOK, DirInv, NEW c \in Client, Step(c) \/ CallFails(c), NEW o \in Org,
         NEW u \in User, Shut(o, u), ~Shut(o, u)'
  PROVE  \/ EditStep(c) /\ Editing(c, "lift", o, u)
         \/ DeleteUserAccount(c) /\ req[c].user = u
<1>1. Tagged(o, u) /\ ~Tagged(o, u)'
  BY SessionsEnd DEF Shut
<1> QED BY <1>1, EditWrites, TagKept

-----------------------------------------------------------------------------
(* Joins and spawns of a suspended organization                              *)

\* While a request is at work in an organization that is not torn, nobody else
\* forgets that it was torn, nor writes its record.
LEMMA UntornOther ==
  ASSUME RequestTypeOK, OverlapSeen, NEW c \in Client, Step(c) \/ CallFails(c),
         NEW d \in Client \ {c}, NEW o \in Org, OnOrg(req[d], o), o \notin torn'
  PROVE  o \notin torn
BY Untorn

LEMMA RecordOther ==
  ASSUME RequestTypeOK, StoreTypeOK, TornSeen, NEW c \in Client, Step(c) \/ CallFails(c),
         NEW d \in Client \ {c}, NEW o \in Org, OnOrg(req[d], o), o \notin torn
  PROVE  org'[o] = org[o]
<1>1. CASE ~WritesRecord(c)
  BY <1>1, Writers
<1>2. CASE WritesRecord(c)
  <2>1. /\ Serving(c) /\ req[c].org \in Org /\ req[c].op \in WriteOp \cup {"delete"}
        /\ org' = org \/ \E n : RecordWrite(c, n)
    BY <1>2, RecordWrites
  <2>2. req[c].org # o
    <3>1. ASSUME req[c].org = o PROVE FALSE
      <4>1. About(req[c].op, req[c].user) = Nobody /\ req[c].op \notin AccountOp
        BY <2>1 DEF Serving, Addressed, About, WriteOp, RewriteOp, CreateOp, AccountOp
      <4>2. req[c].pc # "idle"
        BY <2>1 DEF Serving, InFlight, Point, PlainPoint, UriPoint, LeavePoint
      <4>3. OnOrg(req[c], o) /\ Overlap(req[c], req[d])
        BY <3>1, <4>1, <4>2 DEF OnOrg, Overlap
      <4> QED BY <4>3 DEF TornSeen
    <3> QED BY <3>1
  <2>3. ASSUME NEW n, RecordWrite(c, n) PROVE org'[o] = org[o]
    BY <2>1, <2>2, <2>3 DEF RecordWrite, StoreTypeOK
  <2> QED BY <2>1, <2>3
<1> QED BY <1>1, <1>2

\* A request that has read the record and is to add a member or an agent.
Knows(r) ==
  \/ r.op \in {"add", "spawn"} /\ r.pc # "read"
  \/ r.op \in CreateOp /\ r.pc \in {"tuple", "join"}

\* It knows whether the organization is suspended.
FlagOK(c) ==
  /\ Knows(req[c]) /\ req[c].org \notin torn =>
       (req[c].rec.disabled <=> org[req[c].org].disabled)
  /\ req[c].op = "spawn" /\ req[c].pc # "read" => ~req[c].rec.disabled

\* It does as long as nothing overlaps ...
LEMMA FlagOther ==
  ASSUME RecordInv, TornSeen, NEW c \in Client, Step(c) \/ CallFails(c),
         NEW d \in Client \ {c}, req'[d] = req[d], FlagOK(d)
  PROVE  FlagOK(d)'
<1>1. RequestTypeOK /\ StoreTypeOK /\ OverlapSeen
  BY DEF RecordInv
<1>2. ASSUME Knows(req[d]), req[d].org \notin torn'
      PROVE  req[d].rec.disabled <=> org'[req[d].org].disabled
  <2>1. req[d].op \in {"add", "spawn"} \cup CreateOp
    BY <1>2 DEF Knows
  <2>2. req[d].op # "none" /\ req[d].op \notin UserOp
    BY <2>1 DEF CreateOp, UserOp
  <2>3. req[d] # Idle
    BY <2>2, IdleFields
  <2>4. Serving(d) /\ req[d].pc # "idle"
    <3>1. Serving(d) /\ req[d].pc \in Point
      BY <1>1, <2>3 DEF RequestTypeOK, Serving, InFlight
    <3> QED BY <3>1 DEF Point, PlainPoint, UriPoint, LeavePoint
  <2>5. req[d].org \in Org /\ OnOrg(req[d], req[d].org)
    BY <2>2, <2>4 DEF Serving, Addressed, OnOrg, AccountOp, UserOp
  <2>6. req[d].org \notin torn
    BY <1>1, <1>2, <2>5, UntornOther
  <2>7. org'[req[d].org] = org[req[d].org]
    BY <1>1, <2>5, <2>6, RecordOther
  <2> QED BY <1>2, <2>6, <2>7 DEF FlagOK
<1> QED BY <1>2 DEF FlagOK, Knows

\* ... and through its own steps.
LEMMA FlagOwn ==
  ASSUME RecordInv, NEW c \in Client, Step(c) \/ CallFails(c), Moves(c), RecMove(c),
         ~EditStep(c), FlagOK(c)
  PROVE  FlagOK(c)'
<1> DEFINE r == req[c]
           s == req'[c]
           o == r.org
<1>1. RequestTypeOK /\ StoreTypeOK /\ OverlapSeen /\ WriterOK(c) /\ r \in InFlight
  BY DEF RecordInv, Moves
<1>2. CASE s = Idle \/ s.op \notin {"add", "spawn"} \cup CreateOp
  BY <1>2, IdleFields DEF FlagOK, Knows, CreateOp
<1>3. CASE s # Idle /\ s.op \in {"add", "spawn"} \cup CreateOp
  <2>1. /\ s.op = r.op /\ s.org = o /\ r.op \notin UserOp /\ r.op \notin RemoveOp
        /\ r.op # "disable"
    BY <1>3 DEF Moves, Same, CreateOp, UserOp, RemoveOp
  <2>2. r.pc # "idle" /\ o \in Org /\ Serving(c)
    <3>1. r.pc # "idle"
      BY <1>1 DEF InFlight, Point, PlainPoint, UriPoint, LeavePoint
    <3> QED BY <1>1, <2>1, <3>1, ServedIfNotIdle DEF Serving, Addressed
  <2>3. o \notin torn' => o \notin torn
    BY <1>1, <2>1, <2>2, Untorn DEF DisableAgents, On
  <2>4. ASSUME r.pc # "read", ~WritesRecord(c), Knows(r) \/ ~Knows(s) PROVE FlagOK(c)'
    <3>1. s.rec = r.rec /\ org' = org
      BY <1>3, <2>1, <2>4, Writers DEF RecMove, UserOp
    <3>2. r.op = "spawn" => ~r.rec.disabled
      BY <2>4 DEF FlagOK
    <3> QED BY <2>1, <2>3, <2>4, <3>1, <3>2 DEF FlagOK
  <2>5. CASE r.op \in {"add", "spawn"}
    <3>1. ~WritesRecord(c) /\ r.op \in SharedOp /\ r.pc \notin UriPoint
      BY <2>2, <2>5 DEF WritesRecord, RewritePut, CreatePut, UnwindPut, DisablePut, EnablePut,
         DeleteRecord, On, RewriteOp, CreateOp, SharedOp, Serving, Addressed
    <3>2. CASE r.pc # "read"
      BY <2>4, <2>5, <3>1, <3>2 DEF Knows
    <3>3. CASE r.pc = "read" /\ CallFails(c)
      <4>1. AfterFailure(r) = "idle"
        BY <2>5, <3>3 DEF AfterFailure, CreateOp, RemoveOp
      <4> QED BY <1>1, <1>3, <3>3, <4>1, FailureMoves
    <3>4. CASE r.pc = "read" /\ Step(c)
      <4>1. ~(ReadOnly(c) \/ RecordOnly(c) \/ Join(c) \/ WriteTuple(c) \/ UnwindJoin(c)
              \/ RoleCheck(c) \/ RoleDropOther(c) \/ SpawnAgent(c))
        BY <3>4 DEF ReadOnly, RecordOnly, Join, WriteTuple, UnwindJoin, RoleCheck,
           RoleDropOther, SpawnAgent, ListForDisable, DisableAgents, ListForEnable,
           EditMember, EditMembersDone, RewritePut, DisablePut, EnablePut, On
      <4>2. ReadOrg(c)
        BY <3>1, <3>4, <4>1, SharedActs
      <4>3. s.rec = org[o] /\ ~s.rec.disabled /\ org' = org
        BY <1>1, <1>3, <2>5, <3>1, <4>2, ReadOrgMoves, Writers
      <4> QED BY <2>1, <4>3 DEF FlagOK
    <3> QED BY <3>2, <3>3, <3>4
  <2>6. CASE r.op \in CreateOp
    <3>0. r.op # "spawn" /\ r.op # "add"
      BY <2>6 DEF CreateOp
    <3>1. CASE s.pc \notin {"tuple", "join"}
      BY <2>1, <3>0, <3>1 DEF FlagOK, Knows
    <3>2. CASE CallFails(c)
      BY <2>1, <2>2, <3>0, <3>2, FailureTears DEF FlagOK
    <3>3. CASE Step(c) /\ s.pc \in {"tuple", "join"}
      <4>1. r.pc \in {"put", "tuple", "join"}
        BY <1>1, <1>3, <2>6, <3>3, CreateTable DEF CreateEdge
      <4>2. CASE r.pc \in {"tuple", "join"}
        <5>1. ~WritesRecord(c)
          BY <4>2 DEF WritesRecord, RewritePut, CreatePut, UnwindPut, DisablePut, EnablePut,
             DeleteRecord, On
        <5> QED BY <2>4, <2>6, <4>2, <5>1 DEF Knows
      <4>3. CASE r.pc = "put"
        <5>1. CreatePut(c)
          BY <2>6, <3>3, <4>3, CreateActs DEF CreateRead, SignupCap, SignupMine, CreateKc,
             WriteTuple, Join, UrisGet, UrisPut, UnwindTuple, UnwindJoin, UnwindPut,
             UnwindKc, Unwound, On
        <5>2. org'[o] = IF r.rec.known THEN [r.rec EXCEPT !.sub = "none"] ELSE NewRec
          BY <2>2, <5>1 DEF CreatePut, StoreTypeOK, RecordInv
        <5>3. s.rec = r.rec /\ r.rec \in OrgRec /\ (r.rec.disabled => r.rec.known)
          <6>1. s.rec = r.rec
            BY <1>3, <2>1, <4>3 DEF RecMove, UserOp
          <6>2. r.rec \in OrgRec
            BY <1>1 DEF InFlight
          <6>3. RecOK(proven, o, r.rec)
            BY <1>1, <2>6 DEF WriterOK, WriteOp
          <6> QED BY <6>1, <6>2, <6>3 DEF RecOK
        <5>4. r.rec.known => (org'[o].disabled <=> r.rec.disabled)
          BY <5>2, <5>3 DEF OrgRec
        <5>5. ~NewRec.disabled
          BY SMTT(30) DEF NewRec, NoRec
        <5> QED BY <2>1, <3>0, <5>2, <5>3, <5>4, <5>5 DEF FlagOK
      <4> QED BY <4>1, <4>2, <4>3
    <3> QED BY <3>1, <3>2, <3>3
  <2> QED BY <1>3, <2>1, <2>5, <2>6
<1> QED BY <1>2, <1>3

-----------------------------------------------------------------------------
(* A removal lifts the lock of who has left                                  *)

GoneOK(c) ==
  \A o \in Org : Leaving(req[c], o) /\ o \notin torn => ~In(o, req[c].user)

LEMMA GoneOther ==
  ASSUME RecordInv, TornSeen, NEW c \in Client, Step(c) \/ CallFails(c),
         NEW d \in Client \ {c}, req'[d] = req[d], GoneOK(d)
  PROVE  GoneOK(d)'
<1> SUFFICES ASSUME NEW o \in Org, Leaving(req[d], o), o \notin torn',
                    In(o, req[d].user)'
             PROVE  FALSE
  BY DEF GoneOK, Leaving
<1>1. RequestTypeOK /\ OverlapSeen
  BY DEF RecordInv
<1>2. req[d].pc # "idle" /\ req[d].op \in RemoveOp /\ req[d].org = o
  BY DEF Leaving
<1>3. req[d].user \in User
  BY <1>1, <1>2, ServedIfNotIdle DEF Serving, Addressed, RemoveOp, UserOp
<1>4. OnOrg(req[d], o)
  BY <1>2 DEF OnOrg, RemoveOp, AccountOp
<1>5. o \notin torn /\ ~In(o, req[d].user)
  BY <1>1, <1>4, UntornOther DEF GoneOK
<1>6. Join(c) /\ req[c].org = o /\ req[c].user = req[d].user
  BY <1>3, <1>5, Joined
<1>7. req[c].pc # "idle" /\ req[c].op \in CreateOp \cup {"add"}
  BY <1>6 DEF Join, On
<1>8. OnOrg(req[c], o)
  BY <1>6, <1>7 DEF OnOrg, AccountOp, CreateOp
<1>9. Overlap(req[c], req[d])
  BY <1>2, <1>6, <1>7 DEF Overlap, About, AccountOp, CreateOp, RemoveOp
<1> QED BY <1>4, <1>5, <1>8, <1>9 DEF TornSeen

\* How a removal comes to where the user has left.
LEMMA LeavingMoves ==
  ASSUME RequestTypeOK, StoreTypeOK, NEW c \in Client, Step(c), Moves(c), ~EditStep(c),
         NEW o \in Org, Leaving(req[c], o)'
  PROVE  \/ RemoveLeave(c) /\ req[c].org = o
         \/ Leaving(req[c], o) /\ ~Join(c)
<1> DEFINE r == req[c]
           s == req'[c]
           Goal == \/ RemoveLeave(c) /\ r.org = o
                   \/ Leaving(r, o) /\ ~Join(c)
<1>1. s.op \in RemoveOp /\ s.org = o /\ s.pc \in {"load", "disp", "unlock", "unlocking"}
  BY DEF Leaving
<1>2. s # Idle /\ r.op = s.op /\ r.op \in RemoveOp /\ r \in InFlight
  BY <1>1, IdleFields DEF Moves, Same, RemoveOp
<1>3. r.pc # "idle" /\ r.pc \notin UriPoint
  <2>1. r.pc # "idle"
    BY <1>2 DEF InFlight, Point, PlainPoint, UriPoint, LeavePoint
  <2> QED BY <1>2, <2>1, ServedIfNotIdle DEF Serving, Addressed, CreateOp, RemoveOp
<1>4. ~Join(c)
  BY <1>2 DEF Join, On, RemoveOp, CreateOp
<1>5. Reply(c) => s = Idle
  BY DEF Reply, RequestTypeOK
<1>6. ASSUME NEW p, Goto(c, p) PROVE s.pc = p /\ s.org = r.org
  <2>1. s = [r EXCEPT !.pc = p]
    BY <1>6 DEF Goto, RequestTypeOK
  <2> QED BY <1>2, <2>1 DEF InFlight
<1>7. CASE ReadOrg(c)
  <2>1. r.op = "remove"
    BY <1>2, <1>7 DEF ReadOrg, RemoveOp, UserOp
  <2>2. Reply(c) \/ req' = [req EXCEPT ![c].pc = "untuple", ![c].rec = org[r.org]]
    BY <1>7, <2>1 DEF ReadOrg
  <2>3. CASE ~Reply(c)
    <3>1. s = [r EXCEPT !.pc = "untuple", !.rec = org[r.org]]
      BY <2>2, <2>3 DEF RequestTypeOK
    <3>2. s.pc = "untuple"
      BY <1>2, <3>1 DEF InFlight
    <3> QED BY <1>1, <3>2
  <2> QED BY <1>2, <1>5, <2>3
<1>8. CASE RemoveTuples(c)
  BY <1>1, <1>6, <1>8 DEF RemoveTuples
<1>9. CASE RemoveLeave(c)
  BY <1>1, <1>6, <1>9 DEF RemoveLeave
<1>10. CASE RemoveLoad(c)
  <2>1. r.pc = "load" /\ s = [r EXCEPT !.pc = "disp", !.rec = org[r.org]]
    BY <1>10 DEF RemoveLoad, On, RequestTypeOK
  <2>2. s.org = r.org
    BY <1>2, <2>1 DEF InFlight
  <2> QED BY <1>1, <1>2, <1>4, <2>1, <2>2 DEF Leaving
<1>11. ASSUME s = RemoveNext(r) PROVE FALSE
  <2>1. CASE r.op = "remove"
    BY <1>2, <1>11, <2>1 DEF RemoveNext
  <2>2. CASE r.op # "remove"
    <3>1. s = [r EXCEPT !.pc = "next", !.rec = NoRec]
      BY <1>11, <2>2 DEF RemoveNext
    <3>2. s.pc = "next"
      BY <1>2, <3>1 DEF InFlight
    <3> QED BY <1>1, <3>2
  <2> QED BY <2>1, <2>2
<1>12. CASE RemoveDispose(c)
  <2>1. r.pc = "disp" /\ s \in {[r EXCEPT !.pc = "unlock"], RemoveNext(r)}
    BY <1>12 DEF RemoveDispose, On, RequestTypeOK
  <2>2. [r EXCEPT !.pc = "unlock"].org = r.org
    BY <1>2 DEF InFlight
  <2> QED BY <1>1, <1>2, <1>4, <1>11, <2>1, <2>2 DEF Leaving
<1>13. CASE RemoveUnlock(c)
  <2>1. r.pc = "unlock" /\ s.org = r.org
    BY <1>6, <1>13 DEF RemoveUnlock, On
  <2> QED BY <1>1, <1>2, <1>4, <2>1 DEF Leaving
<1>14. CASE RemoveUnlocked(c)
  BY <1>11, <1>14 DEF RemoveUnlocked, RequestTypeOK
<1>15. CASE DeleteUserEstate(c) \/ DeleteUserAccount(c)
  BY <1>1, <1>2, <1>5, <1>6, <1>15 DEF DeleteUserEstate, DeleteUserAccount
<1>16. CASE DeleteUserOrgs(c)
  <2>1. \E v : req' = [req EXCEPT ![c].pc = "next", ![c].rest = v]
    BY <1>16 DEF DeleteUserOrgs
  <2>2. PICK v : s = [r EXCEPT !.pc = "next", !.rest = v]
    BY <2>1 DEF RequestTypeOK
  <2>3. s.pc = "next"
    BY <1>2, <2>2 DEF InFlight
  <2> QED BY <1>1, <2>3
<1>17. CASE DeleteUserNext(c)
  BY <1>1, <1>17, NextOrgMoves
<1> QED BY <1>2, <1>3, <1>7, <1>8, <1>9, <1>10, <1>12, <1>13, <1>14, <1>15, <1>16, <1>17,
      RemoveActs

LEMMA GoneOwn ==
  ASSUME RecordInv, NEW c \in Client, Step(c) \/ CallFails(c), Moves(c), ~EditStep(c),
         GoneOK(c)
  PROVE  GoneOK(c)'
<1> SUFFICES ASSUME NEW o \in Org, Leaving(req[c], o)', o \notin torn'
             PROVE  ~In(o, req[c].user)'
  BY DEF GoneOK
<1>1. RequestTypeOK /\ StoreTypeOK /\ OverlapSeen
  BY DEF RecordInv
<1>2. /\ req'[c] # Idle /\ req'[c].user = req[c].user /\ req'[c].org = o
      /\ req[c].op \in RemoveOp /\ req[c] \in InFlight
  BY IdleFields DEF Moves, Same, Leaving
<1>3. req[c].user \in User
  <2>1. req[c].pc # "idle"
    BY <1>2 DEF InFlight, Point, PlainPoint, UriPoint, LeavePoint
  <2> QED BY <1>1, <1>2, <2>1, ServedIfNotIdle DEF Serving, Addressed, RemoveOp, UserOp
<1>4. CASE CallFails(c)
  BY <1>1, <1>2, <1>4, FailureMoves, FailureTears
<1>5. CASE Step(c)
  <2>1. CASE RemoveLeave(c) /\ req[c].org = o
    BY <1>2, <2>1 DEF RemoveLeave, In
  <2>2. CASE Leaving(req[c], o) /\ ~Join(c)
    <3>1. o \notin torn
      BY <1>1, <1>2, Untorn DEF DisableAgents, On, RemoveOp
    <3> QED BY <1>2, <1>3, <2>2, <3>1, Joined DEF GoneOK
  <2> QED BY <1>1, <1>5, <2>1, <2>2, LeavingMoves
<1> QED BY <1>4, <1>5

-----------------------------------------------------------------------------
(* A suspension that nothing overlaps with reaches every member              *)

\* The suspension has still to lock u's account or to end its sessions.
Underway(c, u) ==
  \/ u \in req[c].todo
  \/ Editing(c, "suspend", req[c].org, u)
  \/ /\ edit[c].pc = "logout" /\ ~edit[c].stale /\ edit[c].user = u
     /\ Tagged(req[c].org, u)

DisableOK(c) ==
  req[c].op = "disable" /\ req[c].clean =>
    \A u \in User \ {Root} : In(req[c].org, u) =>
      /\ req[c].pc = "edit" => Shut(req[c].org, u) \/ Underway(c, u)
      /\ req[c].pc = "agents" => Shut(req[c].org, u)

\* A request that unlocks an account or deletes one is at work there.
LEMMA Unlocks ==
  ASSUME RequestTypeOK, NEW c \in Client, EditOf(c), NEW o \in Org, NEW u \in User,
         \/ Editing(c, "lift", o, u)
         \/ DeleteUserAccount(c)
  PROVE  OnOrg(req[c], o) /\ req[c].op # "disable"
<1>1. CASE Editing(c, "lift", o, u)
  BY <1>1 DEF Editing, EditOf, OnOrg, AccountOp, RemoveOp
<1>2. CASE DeleteUserAccount(c)
  BY <1>2 DEF DeleteUserAccount, On, OnOrg, AccountOp
<1> QED BY <1>1, <1>2

LEMMA DisableOther ==
  ASSUME RecordInv, DirInv, NEW c \in Client, EditOf(c), Step(c) \/ CallFails(c),
         NEW d \in Client \ {c}, req'[d] = req[d], DisableOK(d)
  PROVE  DisableOK(d)'
<1> DEFINE o == req[d].org
<1>1. RequestTypeOK /\ OverlapSeen /\ DirTypeOK
  BY DEF RecordInv, DirInv
<1> SUFFICES ASSUME req[d].op = "disable", req[d].clean, req[d].pc \in {"edit", "agents"},
                    NEW u \in User \ {Root}, In(o, u)'
             PROVE  /\ req[d].pc = "edit" => Shut(o, u)' \/ Underway(d, u)'
                    /\ req[d].pc = "agents" => Shut(o, u)'
  BY DEF DisableOK
<1>2. ~OnOrg(req[c], o) /\ o \in Org
  BY <1>1, CleanAlone, ServedIfNotIdle DEF Serving, Addressed, UserOp
<1>3. ~Editing(c, "lift", o, u) /\ ~DeleteUserAccount(c)
  BY <1>1, <1>2, Unlocks
<1>4. In(o, u)
  <2>1. Join(c) => OnOrg(req[c], req[c].org)
    BY DEF Join, On, OnOrg, AccountOp, CreateOp
  <2> QED BY <1>2, <2>1, Joined
<1>5. Shut(o, u) => Shut(o, u)'
  BY <1>1, <1>2, <1>3, ShutEnds
<1>6. Tagged(o, u) => Tagged(o, u)'
  BY <1>1, <1>2, <1>3, EditWrites, TagKept
<1>7. edit'[d] = edit[d]
  BY <1>1, <1>3, EditMoves
<1>8. Underway(d, u) => Underway(d, u)'
  BY <1>6, <1>7 DEF Underway, Editing
<1> QED BY <1>4, <1>5, <1>8 DEF DisableOK

\* The PUT and the logout take a member from one stage to the next.
LEMMA DisableEdit ==
  ASSUME RecordInv, DirInv, NEW c \in Client, EditOf(c), EditStep(c), Step(c), DisableOK(c)
  PROVE  DisableOK(c)'
<1> DEFINE e == edit[c]
<1>1. /\ RequestTypeOK /\ req' = req /\ member' = member
      /\ edit \in [Client -> Edit \cup {NoEdit}]
  BY DEF RecordInv, EditStep, orgVars, DirInv, DirTypeOK
<1>2. e.pc # "idle"
  BY DEF EditStep, EditPut, Logout
<1> SUFFICES ASSUME req[c].op = "disable", req[c].clean, req[c].pc \in {"edit", "agents"},
                    NEW u \in User \ {Root}, In(req[c].org, u)
             PROVE  /\ req[c].pc = "edit" => Shut(req[c].org, u)' \/ Underway(c, u)'
                    /\ req[c].pc = "agents" => Shut(req[c].org, u)'
  BY <1>1 DEF DisableOK, In
<1> PICK o \in Org : req[c].org = o
  BY <1>1, ServedIfNotIdle DEF Serving, Addressed, UserOp
<1>3. /\ e \in Edit /\ e.kind = "suspend" /\ e.by = o /\ req[c].pc = "edit"
  BY <1>1, <1>2, NoEditIsIdle DEF EditOf, AccountOp, RemoveOp
<1>4. CASE Shut(o, u)
  <2>1. Shut(o, u)'
    BY <1>1, <1>4, ShutEnds, Unlocks
  <2> QED BY <1>1, <2>1
<1>5. CASE u \in req[c].todo
  BY <1>1, <1>3, <1>5 DEF Underway
<1>6. CASE Editing(c, "suspend", o, u)
  <2>1. Tagged(o, u)'
    <3>1. ~Editing(c, "lift", o, u)
      BY <1>6 DEF Editing
    <3> QED BY <1>3, <1>6, <3>1, EditWrites
  <2>2. e.pc = "put" /\ ~e.stale /\ e.user = u
    BY <1>6 DEF Editing
  <2>3. edit'[c] = [e EXCEPT !.pc = "logout"]
    BY <1>1, <1>3, <2>2 DEF EditStep, EditPut, Logout
  <2>4. edit'[c].pc = "logout" /\ ~edit'[c].stale /\ edit'[c].user = u
    BY <1>3, <2>2, <2>3 DEF Edit
  <2> QED BY <1>1, <1>3, <2>1, <2>4 DEF Underway
<1>7. CASE e.pc = "logout" /\ ~e.stale /\ e.user = u /\ Tagged(o, u)
  <2>1. Logout(c)
    BY <1>7 DEF EditStep, EditPut
  <2>2. session' = session \ {u} /\ acct' = acct
    BY <1>7, <2>1 DEF Logout
  <2>3. Shut(o, u)'
    BY <1>1, <1>7, <2>2 DEF Shut, Tagged
  <2> QED BY <1>1, <2>3
<1> QED BY <1>3, <1>4, <1>5, <1>6, <1>7 DEF DisableOK, Underway

\* The other steps of a suspension.
LEMMA DisableOwn ==
  ASSUME RecordInv, DirInv, MemberKnown, NEW c \in Client, EditOf(c),
         Step(c) \/ CallFails(c), Moves(c), ~EditStep(c), DisableOK(c)
  PROVE  DisableOK(c)'
<1> DEFINE r == req[c]
           s == req'[c]
<1>0. RequestTypeOK /\ StoreTypeOK /\ r \in InFlight
  BY DEF RecordInv, Moves
<1> SUFFICES ASSUME s.op = "disable", s.clean, s.pc \in {"edit", "agents"},
                    NEW u \in User \ {Root}, In(req[c].org, u)'
             PROVE  /\ s.pc = "edit" => Shut(req[c].org, u)' \/ Underway(c, u)'
                    /\ s.pc = "agents" => Shut(req[c].org, u)'
  BY DEF DisableOK
<1>1. s # Idle /\ r.op = "disable" /\ r.clean /\ s.org = r.org /\ r.op \in SharedOp
  <2>1. s # Idle
    BY IdleFields
  <2>2. r.op = "disable" /\ r.clean /\ s.org = r.org
    BY <2>1 DEF Moves, Same
  <2> QED BY <2>1, <2>2 DEF SharedOp
<1>2. r.pc # "idle" /\ r.pc \notin UriPoint /\ r.org \in Org
  <2>1. r.pc # "idle"
    BY <1>0 DEF InFlight, Point, PlainPoint, UriPoint, LeavePoint
  <2> QED BY <1>0, <1>1, <2>1, ServedIfNotIdle DEF Serving, Addressed, CreateOp, UserOp
<1> PICK o \in Org : r.org = o
  BY <1>2
<1>3. ~(\/ ListForEnable(c) \/ RewritePut(c) \/ EnablePut(c) \/ Join(c) \/ WriteTuple(c)
        \/ UnwindJoin(c) \/ RoleCheck(c) \/ RoleDropOther(c) \/ SpawnAgent(c))
  BY <1>1 DEF ListForEnable, RewritePut, EnablePut, Join, WriteTuple, UnwindJoin, RoleCheck,
     RoleDropOther, SpawnAgent, On, RewriteOp, CreateOp, GrantOp
<1>4. In(o, u) /\ (Shut(o, u) => Shut(req[c].org, u)')
  <2>1. In(o, u)
    <3>1. In(o, u)'
      BY <1>1 DEF In
    <3> QED BY <1>2, <1>3, <3>1, Joined
  <2>2. Shut(o, u) => Shut(o, u)'
    BY <1>0, <1>1, ShutEnds, Unlocks
  <2>3. Shut(o, u)' => Shut(req[c].org, u)'
    BY <1>1
  <2> QED BY <2>1, <2>2, <2>3
<1>5. Reply(c) => s = Idle
  BY <1>0 DEF Reply, RequestTypeOK
<1>6. ASSUME NEW p, Goto(c, p) PROVE s.pc = p
  <2>1. s = [r EXCEPT !.pc = p]
    BY <1>0, <1>6 DEF Goto, RequestTypeOK
  <2> QED BY <1>0, <2>1 DEF InFlight
<1>7. ~CallFails(c)
  <2>1. AfterFailure(r) = "idle"
    BY <1>1 DEF AfterFailure, CreateOp, RemoveOp
  <2> QED BY <1>0, <1>1, <2>1, FailureMoves
<1>8. CASE ReadOrg(c)
  <2>1. Reply(c) \/ req' = [req EXCEPT ![c].pc = "put", ![c].rec = org[r.org]]
    BY <1>1, <1>8 DEF ReadOrg
  <2>2. CASE ~Reply(c)
    <3>1. s = [r EXCEPT !.pc = "put", !.rec = org[r.org]]
      BY <1>0, <2>1, <2>2 DEF RequestTypeOK
    <3>2. s.pc = "put"
      BY <1>0, <3>1 DEF InFlight
    <3> QED BY <3>2
  <2> QED BY <1>1, <1>5, <2>2
<1>9. CASE DisablePut(c)
  BY <1>6, <1>9 DEF DisablePut
<1>10. CASE ListForDisable(c)
  <2> DEFINE v == MembersOf(o) \ {Root}
  <2>1. u \in v
    BY <1>4 DEF MembersOf, In
  <2> HIDE DEF v
  <2>2. s = [r EXCEPT !.pc = "edit", !.todo = v]
    BY <1>0, <1>10 DEF ListForDisable, RequestTypeOK, v
  <2>3. s.pc = "edit" /\ s.todo = v
    BY <1>0, <2>2 DEF InFlight
  <2> QED BY <2>1, <2>3 DEF Underway
<1>11. CASE EditMember(c)
  <2>1. r.pc = "edit" /\ edit[c].pc = "idle"
    BY <1>11 DEF EditMember, On
  <2>2. PICK v \in r.todo :
               /\ req' = [req EXCEPT ![c].todo = @ \ {v}]
               /\ IF acct[v].known THEN EditGet(c, "suspend", v, o) ELSE UNCHANGED dirVars
    BY <1>1, <1>11 DEF EditMember
  <2>3. s = [r EXCEPT !.todo = r.todo \ {v}]
    BY <1>0, <2>2 DEF RequestTypeOK
  <2>4. s.pc = "edit" /\ s.todo = r.todo \ {v}
    BY <1>0, <2>1, <2>3 DEF InFlight
  <2>5. Shut(o, u) \/ u \in r.todo
    BY <1>1, <1>4, <2>1 DEF DisableOK, Underway, Editing
  <2>6. u = v => Editing(c, "suspend", o, u)'
    <3>1. acct[u].known
      BY <1>2, <1>4 DEF MemberKnown
    <3>2. u = v => EditGet(c, "suspend", u, o)
      BY <2>2, <3>1
    <3> QED BY <3>2, EditBegins
  <2>7. u \in r.todo => Underway(c, u)'
    BY <1>1, <2>4, <2>6 DEF Underway, Editing
  <2> QED BY <1>4, <2>4, <2>5, <2>7
<1>12. CASE EditMembersDone(c)
  <2>1. r.pc = "edit" /\ edit[c].pc = "idle" /\ r.todo = {}
    BY <1>12 DEF EditMembersDone, On
  <2>2. Shut(o, u)
    BY <1>1, <1>4, <2>1 DEF DisableOK, Underway, Editing
  <2> QED BY <1>4, <2>2
<1>13. CASE DisableAgents(c)
  BY <1>1, <1>5, <1>13 DEF DisableAgents
<1> QED BY <1>1, <1>2, <1>3, <1>7, <1>8, <1>9, <1>10, <1>11, <1>12, <1>13, SharedActs
        DEF ReadOnly, RecordOnly

-----------------------------------------------------------------------------
(* A suspension that ran to its end holds                                    *)

\* A request that goes over all the members of o and their locks.
Sweeping(c, o) ==
  /\ req[c].pc # "idle" /\ req[c].org = o
  /\ req[c].op \in {"disable", "enable", "delete"}

\* A delete takes URIs away, it adds none.
DropsUris(c) == req[c].op = "delete" => req[c].pc \notin {"uris", "urisPut"}

LEMMA DropsStep ==
  ASSUME RequestTypeOK, NEW c \in Client, Step(c) \/ CallFails(c), Moves(c), DropsUris(c)
  PROVE  DropsUris(c)'
<1> SUFFICES ASSUME req'[c].op = "delete" PROVE req'[c].pc \notin {"uris", "urisPut"}
  BY DEF DropsUris
<1>1. req'[c] # Idle
  BY IdleFields
<1>2. req[c].op = "delete" /\ req[c].pc \notin {"uris", "urisPut"}
  BY <1>1 DEF Moves, Same, DropsUris
<1>3. CASE Step(c)
  BY <1>1, <1>2, <1>3, DeleteTable DEF DeleteEdge
<1>4. CASE CallFails(c)
  <2>1. AfterFailure(req[c]) \in {"unUris", "kcDelete", "idle"}
    BY <1>2 DEF AfterFailure, CreateOp, RemoveOp
  <2> QED BY <1>1, <1>4, <2>1, FailureMoves
<1> QED BY <1>3, <1>4

\* A request that is refused its read finds no record.
LEMMA SweepRefused ==
  ASSUME RecordInv, NEW c \in Client, NEW o \in Org, ReadOrg(c), Sweeping(c, o),
         req'[c] = Idle
  PROVE  ~org'[o].disabled
<1>1. RequestTypeOK /\ req[c].org = o /\ RecOK(proven, o, org[o])
  BY DEF RecordInv, Sweeping
<1>2. req[c] \in InFlight
  BY <1>1, ServedIfNotIdle DEF Sweeping, Serving
<1>3. org' = org
  BY DEF ReadOrg, Reads
<1>4. CASE ~org[o].known
  BY <1>1, <1>3, <1>4 DEF RecOK
<1>5. CASE org[o].known
  <2>1. \E p \in {"put", "list"} : req' = [req EXCEPT ![c].pc = p, ![c].rec = org[o]]
    <3>1. CASE req[c].op = "disable"
      BY <1>1, <1>5, <3>1 DEF ReadOrg
    <3>2. CASE req[c].op \in {"enable", "delete"}
      BY <1>1, <1>5, <3>2 DEF ReadOrg
    <3> QED BY <3>1, <3>2 DEF Sweeping
  <2>2. PICK p \in {"put", "list"} : req'[c] = [req[c] EXCEPT !.pc = p, !.rec = org[o]]
    BY <1>1, <2>1 DEF RequestTypeOK
  <2>3. req'[c].pc = p
    BY <1>2, <2>2 DEF InFlight
  <2> QED BY <2>3, IdleFields
<1> QED BY <1>4, <1>5

\* How such a request ends: it fails, it has stopped the agents, or the
\* organization is not suspended.
LEMMA SweepEnds ==
  ASSUME RecordInv, NEW c \in Client, Step(c) \/ CallFails(c), Moves(c), ~EditStep(c),
         DropsUris(c), NEW o \in Org, Sweeping(c, o), ~Sweeping(c, o)'
  PROVE  o \in torn' \/ DisableAgents(c) \/ ~org'[o].disabled
<1> DEFINE r == req[c]
           s == req'[c]
           Goal == o \in torn' \/ DisableAgents(c) \/ ~org'[o].disabled
<1>0. RequestTypeOK /\ StoreTypeOK
  BY DEF RecordInv
<1>1. /\ r.org = o /\ r.pc # "idle" /\ r \in InFlight /\ r.pc \notin {"uris", "urisPut"}
      /\ r.op \in {"disable", "enable", "delete"}
  <2>1. r.pc # "idle" /\ r.org = o /\ r.op \in {"disable", "enable", "delete"}
    BY DEF Sweeping
  <2>2. Serving(c)
    BY <1>0, <2>1, ServedIfNotIdle
  <2> QED BY <2>1, <2>2 DEF Serving, Addressed, DropsUris, CreateOp, UriPoint
<1>2. s = Idle
  <2>1. ASSUME s # Idle PROVE FALSE
    <3>1. Same(r, s) /\ s.pc \in Point
      BY <2>1 DEF Moves, Serving, InFlight
    <3>2. s.pc # "idle"
      BY <3>1 DEF Point, PlainPoint, UriPoint, LeavePoint
    <3> QED BY <1>1, <3>1, <3>2 DEF Same, Sweeping
  <2> QED BY <2>1
<1>3. s.pc = "idle"
  BY <1>2, IdleFields
<1>4. CASE CallFails(c)
  BY <1>1, <1>4, FailureTears
<1>5. CASE ReadOrg(c)
  BY <1>2, <1>5, SweepRefused
<1>6. ASSUME NEW p, Goto(c, p) PROVE p = "idle"
  <2>1. s = [r EXCEPT !.pc = p]
    BY <1>0, <1>6 DEF Goto, RequestTypeOK
  <2> QED BY <1>1, <1>3, <2>1 DEF InFlight
<1>7. ASSUME ListForDisable(c) \/ ListForEnable(c) PROVE FALSE
  <2>1. \E v : req' = [req EXCEPT ![c].pc = "edit", ![c].todo = v]
    BY <1>7 DEF ListForDisable, ListForEnable
  <2>2. PICK v : s = [r EXCEPT !.pc = "edit", !.todo = v]
    BY <1>0, <2>1 DEF RequestTypeOK
  <2> QED BY <1>1, <1>3, <2>2 DEF InFlight
<1>8. ASSUME EditMember(c) PROVE FALSE
  <2>1. \E v : req' = [req EXCEPT ![c].todo = @ \ {v}]
    BY <1>8 DEF EditMember
  <2>2. PICK v : s = [r EXCEPT !.todo = r.todo \ {v}]
    BY <1>0, <2>1 DEF RequestTypeOK
  <2> QED BY <1>1, <1>3, <2>2 DEF InFlight
<1>9. ~EditMembersDone(c) /\ ~DisablePut(c)
  BY <1>1, <1>6 DEF EditMembersDone, DisablePut
<1>10. CASE EnablePut(c)
  <2>1. org'[o] = [r.rec EXCEPT !.disabled = FALSE] /\ r.rec \in OrgRec
    BY <1>0, <1>1, <1>10 DEF EnablePut, StoreTypeOK, InFlight
  <2>2. ~org'[o].disabled
    BY <2>1 DEF OrgRec
  <2> QED BY <2>2
<1>11. CASE r.op \in {"disable", "enable"} /\ Step(c)
  <2>1. r.op \in SharedOp /\ r.pc \notin UriPoint
    BY <1>0, <1>1, <1>11, ServedIfNotIdle DEF SharedOp, Serving, Addressed, CreateOp
  <2>2. ~(\/ RewritePut(c) \/ Join(c) \/ WriteTuple(c) \/ UnwindJoin(c) \/ RoleCheck(c)
          \/ RoleDropOther(c) \/ SpawnAgent(c))
    BY <1>11 DEF RewritePut, Join, WriteTuple, UnwindJoin, RoleCheck, RoleDropOther,
       SpawnAgent, On, RewriteOp, CreateOp, GrantOp
  <2> QED BY <1>5, <1>7, <1>8, <1>9, <1>10, <1>11, <2>1, <2>2, SharedActs
          DEF ReadOnly, RecordOnly
<1>12. CASE r.op = "delete" /\ Step(c)
  <2>1. r.pc \in {"read", "storeDelete"}
    BY <1>0, <1>1, <1>2, <1>3, <1>12, DeleteTable DEF DeleteEdge
  <2>2. ~(\/ ListForEnable(c) \/ EditMember(c) \/ EditMembersDone(c) \/ DeleteList(c)
          \/ DeleteTuples(c) \/ UrisGet(c) \/ UrisPut(c) \/ DeleteKc(c))
    BY <2>1 DEF ListForEnable, EditMember, EditMembersDone, DeleteList, DeleteTuples,
       UrisGet, UrisPut, DeleteKc, On
  <2>3. CASE DeleteRecord(c)
    <3>1. org'[o] = NoRec
      BY <1>0, <1>1, <2>3 DEF DeleteRecord, StoreTypeOK
    <3>2. ~NoRec.disabled
      BY SMTT(30) DEF NoRec
    <3> QED BY <3>1, <3>2
  <2> QED BY <1>5, <1>12, <2>2, <2>3, DeleteActs
<1> QED BY <1>1, <1>4, <1>11, <1>12

\* Nobody but the master admin is let in, and no agent runs.
Closed(o) ==
  /\ \A u \in User \ {Root} : In(o, u) => Shut(o, u)
  /\ \A m \in live : m[1] # o

HeldOK(o) ==
  org[o].disabled /\ o \notin torn /\ (\A c \in Client : ~Sweeping(c, o)) => Closed(o)

\* Only a suspension raises the flag of an organization that is not torn.
LEMMA FlagRaised ==
  ASSUME RecordInv, CleanSeen, NEW c \in Client, Step(c) \/ CallFails(c), NEW o \in Org,
         ~Sweeping(c, o), o \notin torn, org'[o].disabled
  PROVE  org[o].disabled
<1>1. RequestTypeOK /\ StoreTypeOK /\ WriterOK(c)
  BY DEF RecordInv
<1>2. CASE org' = org
  BY <1>2
<1>3. CASE org' # org
  <2>1. /\ Serving(c) /\ req[c].org \in Org
        /\ req[c].op \in WriteOp \cup {"delete"}
        /\ \E n : RecordWrite(c, n)
    BY <1>1, <1>3, Writers, RecordWrites
  <2>2. PICK n : RecordWrite(c, n)
    BY <2>1
  <2>3. org' = [org EXCEPT ![req[c].org] = n]
    BY <2>2 DEF RecordWrite
  <2>4. CASE req[c].org # o
    BY <1>1, <2>3, <2>4 DEF StoreTypeOK
  <2>5. CASE req[c].org = o
    <3>1. n.disabled
      BY <1>1, <2>3, <2>5 DEF StoreTypeOK
    <3>2. ~NoRec.disabled /\ ~NewRec.disabled
      BY SMTT(30) DEF NoRec, NewRec
    <3>3. Carries(c, n)
      BY <2>2, <3>1, <3>2 DEF RecordWrite
    <3>4. req[c].pc # "idle"
      BY <2>1 DEF Serving, InFlight, Point, PlainPoint, UriPoint, LeavePoint
    <3>5. req[c].op \notin {"disable", "enable"} /\ req[c].op \in WriteOp
      BY <2>5, <3>3, <3>4 DEF Sweeping, Carries
    <3>6. req[c].rec.disabled /\ req[c].pc = "put"
      BY <3>1, <3>3, <3>5 DEF Carries
    <3>7. req[c].clean
      BY <2>5, <3>4, <3>5 DEF CleanSeen, WriteOp, RewriteOp, CreateOp, UserOp
    <3>8. req[c].rec = org[o]
      BY <1>1, <2>5, <3>5, <3>6, <3>7 DEF WriterOK, FreshPoint
    <3> QED BY <3>6, <3>8
  <2> QED BY <2>4, <2>5
<1> QED BY <1>2, <1>3

\* No member is added and no agent started while it is up ...
LEMMA Barred ==
  ASSUME RecordInv, NEW c \in Client, Step(c) \/ CallFails(c), FlagOK(c), NEW o \in Org,
         org[o].disabled, o \notin torn, o \notin torn'
  PROVE  /\ \A u \in User : In(o, u)' => In(o, u)
         /\ \A m \in live' : m[1] = o => m \in live
<1>1. ASSUME NEW u \in User, In(o, u)', ~In(o, u) PROVE FALSE
  <2>1. Join(c) /\ req[c].org = o
    BY <1>1, Joined
  <2>2. Knows(req[c]) /\ ~req[c].rec.disabled
    BY <2>1 DEF Join, On, Knows
  <2> QED BY <2>1, <2>2 DEF FlagOK
<1>2. ASSUME NEW m \in live', m[1] = o, m \notin live PROVE FALSE
  <2>1. SpawnAgent(c)
    BY <1>2, TornWriters
  <2>2. m = <<req[c].org, req[c].user>>
    BY <1>2, <2>1 DEF SpawnAgent
  <2>3. req[c].org = o
    BY <1>2, <2>2, SMTT(30)
  <2>4. Knows(req[c]) /\ ~req[c].rec.disabled
    BY <2>1 DEF SpawnAgent, On, Knows, FlagOK
  <2> QED BY <2>3, <2>4 DEF FlagOK
<1> QED BY <1>1, <1>2

\* ... and no member's lock is lifted but by an enable or a delete.
LEMMA ShutStays ==
  ASSUME RequestTypeOK, DirInv, NEW c \in Client, Step(c) \/ CallFails(c), EditOf(c),
         GoneOK(c), NEW o \in Org, o \notin torn, ~Sweeping(c, o), NEW u \in User,
         In(o, u), In(o, u)', Shut(o, u)
  PROVE  Shut(o, u)'
<1> SUFFICES ASSUME ~Shut(o, u)' PROVE FALSE
  OBVIOUS
<1>1. CASE Editing(c, "lift", o, u)
  <2>1. edit[c].pc # "idle" /\ edit[c].kind = "lift" /\ edit[c].by = o /\ edit[c].user = u
    BY <1>1 DEF Editing
  <2>2. CASE req[c].op \in {"enable", "delete"} /\ req[c].pc = "edit" /\ req[c].org = o
    BY <2>2 DEF Sweeping
  <2>3. CASE req[c].op \in RemoveOp /\ req[c].pc = "unlocking" /\ req[c].org = o
             /\ req[c].user = u
    BY <2>3 DEF GoneOK, Leaving
  <2>4. "lift" \notin AccountOp
    BY DEF AccountOp
  <2> QED BY <2>1, <2>2, <2>3, <2>4 DEF EditOf
<1>2. CASE DeleteUserAccount(c) /\ req[c].user = u
  <2>1. member' = {m \in member : m[2] # u}
    BY <1>2 DEF DeleteUserAccount
  <2> QED BY <2>1, SMTT(30) DEF In
<1> QED BY <1>1, <1>2, ShutEnds

LEMMA HeldStep ==
  ASSUME RecordInv, DirInv, CleanSeen, NEW c \in Client, Step(c) \/ CallFails(c),
         Moves(c) \/ EditStep(c), EditOf(c), FlagOK(c), GoneOK(c), DisableOK(c),
         DropsUris(c), NEW o \in Org, HeldOK(o)
  PROVE  HeldOK(o)'
<1> SUFFICES ASSUME org'[o].disabled, o \notin torn', \A d \in Client : ~Sweeping(d, o)'
             PROVE  Closed(o)'
  BY DEF HeldOK
<1>1. RequestTypeOK /\ StoreTypeOK /\ OverlapSeen
  BY DEF RecordInv
<1>2. EditStep(c) => req' = req
  BY DEF EditStep, orgVars
<1>3. \A d \in Client \ {c} : ~Sweeping(d, o)
  <2>1. \A d \in Client \ {c} : req'[d] = req[d]
    BY <1>1, <1>2, MovesType
  <2> QED BY <2>1 DEF Sweeping
<1>4. CASE DisableAgents(c) /\ req[c].org = o
  <2>1. req[c].op = "disable" /\ req[c].pc = "agents"
    BY <1>4 DEF DisableAgents, On
  <2>2. req[c].clean
    <3>1. ~req[c].clean => o \in torn /\ torn' = torn
      BY <1>4, <2>1 DEF CleanSeen, UserOp, DisableAgents
    <3> QED BY <3>1
  <2>3. \A u \in User \ {Root} : In(o, u) => Shut(o, u)
    BY <1>4, <2>1, <2>2 DEF DisableOK
  <2>4. member' = member /\ acct' = acct /\ session' = session
        /\ live' = {m \in live : m[1] # o}
    BY <1>4 DEF DisableAgents, dirVars
  <2>5. \A u \in User \ {Root} : In(o, u)' => Shut(o, u)'
    BY <2>3, <2>4 DEF In, Shut, Tagged
  <2> QED BY <2>4, <2>5 DEF Closed
<1>5. CASE ~(DisableAgents(c) /\ req[c].org = o)
  <2>1. o \notin torn
    BY <1>1, <1>5, Untorn
  <2>2. ~Sweeping(c, o)
    <3>1. CASE EditStep(c)
      BY <1>2, <3>1 DEF Sweeping
    <3>2. CASE ~EditStep(c)
      BY <1>5, <3>2, SweepEnds DEF Sweeping
    <3> QED BY <3>1, <3>2
  <2>3. org[o].disabled
    BY <2>1, <2>2, FlagRaised
  <2>4. Closed(o)
    BY <1>3, <2>1, <2>2, <2>3 DEF HeldOK
  <2>5. ASSUME NEW u \in User \ {Root}, In(o, u)' PROVE Shut(o, u)'
    <3>1. In(o, u)
      BY <2>1, <2>3, <2>5, Barred
    <3>2. Shut(o, u)
      BY <2>4, <3>1 DEF Closed
    <3> QED BY <1>1, <2>1, <2>2, <2>5, <3>1, <3>2, ShutStays
  <2>6. \A m \in live' : m[1] # o
    BY <2>1, <2>3, <2>4, Barred DEF Closed
  <2> QED BY <2>5, <2>6 DEF Closed
<1> QED BY <1>4, <1>5

-----------------------------------------------------------------------------
(* Requests that come in, and users who log in                               *)

\* What the requests at work keep when another comes in.
LEMMA BeginsKeeps ==
  ASSUME RequestTypeOK, NEW c \in Client, Begins(c), NEW d \in Client \ {c}
  PROVE  /\ req'[d].op = req[d].op /\ req'[d].pc = req[d].pc /\ req'[d].org = req[d].org
         /\ req'[d].user = req[d].user /\ req'[d].rec = req[d].rec
         /\ req'[d].todo = req[d].todo /\ (req'[d].clean => req[d].clean)
<1>1. CASE req'[d] = req[d]
  BY <1>1
<1>2. CASE req[d].pc # "idle" /\ req'[d] = [req[d] EXCEPT !.clean = FALSE]
  <2>1. req[d] \in InFlight
    BY <1>2, ServedIfNotIdle DEF Serving
  <2>2. ~req'[d].clean
    BY <1>2, <2>1 DEF InFlight
  <2>3. /\ req'[d].op = req[d].op /\ req'[d].pc = req[d].pc /\ req'[d].org = req[d].org
        /\ req'[d].user = req[d].user /\ req'[d].rec = req[d].rec
        /\ req'[d].todo = req[d].todo
    BY <1>2, <2>1 DEF InFlight
  <2> QED BY <2>2, <2>3
<1> QED BY <1>1, <1>2 DEF Begins

\* What each request relies on for the suspension.
RequestHolds(c) == FlagOK(c) /\ GoneOK(c) /\ DisableOK(c) /\ DropsUris(c)

LEMMA HoldsBegins ==
  ASSUME RequestTypeOK, NEW c \in Client, Begins(c), NEW d \in Client, RequestHolds(d)
  PROVE  RequestHolds(d)'
<1>1. /\ torn \subseteq torn' /\ org' = org /\ member' = member /\ acct' = acct
      /\ edit' = edit /\ session' = session
  BY DEF Begins, dirVars
<1>2. CASE d = c
  <2>1. req'[d].pc = "read"
    BY <1>2 DEF Begins
  <2> QED BY <2>1 DEF RequestHolds, FlagOK, Knows, GoneOK, Leaving, DisableOK, DropsUris
<1>3. CASE d # c
  <2>1. /\ req'[d].op = req[d].op /\ req'[d].pc = req[d].pc /\ req'[d].org = req[d].org
        /\ req'[d].user = req[d].user /\ req'[d].rec = req[d].rec
        /\ req'[d].todo = req[d].todo /\ (req'[d].clean => req[d].clean)
    BY <1>3, BeginsKeeps
  <2>2. FlagOK(d)'
    BY <1>1, <2>1 DEF RequestHolds, FlagOK, Knows
  <2>3. GoneOK(d)'
    BY <1>1, <2>1 DEF RequestHolds, GoneOK, Leaving, In
  <2>4. DropsUris(d)'
    BY <2>1 DEF RequestHolds, DropsUris
  <2>5. ASSUME NEW u \in User
        PROVE  /\ In(req[d].org, u)' <=> In(req[d].org, u)
               /\ Shut(req[d].org, u)' <=> Shut(req[d].org, u)
               /\ Underway(d, u)' <=> Underway(d, u)
    BY <1>1, <2>1 DEF In, Shut, Tagged, Underway, Editing
  <2>6. DisableOK(d)'
    BY <2>1, <2>5 DEF RequestHolds, DisableOK
  <2> QED BY <2>2, <2>3, <2>4, <2>6 DEF RequestHolds
<1> QED BY <1>2, <1>3

LEMMA HeldBegins ==
  ASSUME RequestTypeOK, NEW c \in Client, Begins(c), NEW o \in Org, HeldOK(o)
  PROVE  HeldOK(o)'
<1>1. /\ torn \subseteq torn' /\ org' = org /\ member' = member /\ acct' = acct
      /\ live' = live /\ session' = session /\ req[c].pc = "idle"
  BY DEF Begins, dirVars
<1>2. ASSUME NEW d \in Client, Sweeping(d, o) PROVE Sweeping(d, o)'
  BY <1>1, <1>2, BeginsKeeps DEF Sweeping
<1>3. Closed(o) => Closed(o)'
  BY <1>1 DEF Closed, In, Shut, Tagged
<1> QED BY <1>1, <1>2, <1>3 DEF HeldOK

\* A user who logs in has an account that no organization locks.
LEMMA HoldsLogin ==
  ASSUME DirInv, UNCHANGED <<orgVars, acct, edit>>, session' \subseteq User,
         \A u \in session' \ session : acct[u].enabled
  PROVE  /\ \A d \in Client : RequestHolds(d) => RequestHolds(d)'
         /\ \A o \in Org : HeldOK(o) => HeldOK(o)'
<1>1. /\ torn' = torn /\ org' = org /\ member' = member /\ acct' = acct
      /\ edit' = edit /\ live' = live /\ req' = req
  BY DEF orgVars, history
<1>2. ASSUME NEW o, NEW u \in User, Shut(o, u) PROVE Shut(o, u)'
  <2>1. ~acct[u].enabled
    BY <1>2 DEF Shut, Tagged, DirInv, RepOK
  <2> QED BY <1>1, <1>2, <2>1 DEF Shut, Tagged
<1>3. ASSUME NEW d \in Client, RequestHolds(d) PROVE RequestHolds(d)'
  <2>1. FlagOK(d)' /\ GoneOK(d)' /\ DropsUris(d)'
    BY <1>1, <1>3 DEF RequestHolds, FlagOK, Knows, GoneOK, Leaving, In, DropsUris
  <2>2. ASSUME NEW u \in User
        PROVE  /\ In(req[d].org, u)' <=> In(req[d].org, u)
               /\ Shut(req[d].org, u) => Shut(req[d].org, u)'
               /\ Underway(d, u)' <=> Underway(d, u)
    <3>1. Shut(req[d].org, u) => Shut(req[d].org, u)'
      BY <1>1, <1>2
    <3> QED BY <1>1, <3>1 DEF In, Tagged, Underway, Editing
  <2>3. DisableOK(d)'
    BY <1>1, <1>3, <2>2 DEF RequestHolds, DisableOK
  <2> QED BY <2>1, <2>3 DEF RequestHolds
<1>4. ASSUME NEW o \in Org, HeldOK(o) PROVE HeldOK(o)'
  <2>1. Closed(o) => Closed(o)'
    BY <1>1, <1>2 DEF Closed, In
  <2> QED BY <1>1, <1>4, <2>1 DEF HeldOK, Sweeping
<1> QED BY <1>3, <1>4

\* Every step of a request keeps what all of them rely on.
LEMMA HoldsStep ==
  ASSUME RecordInv, DirInv, TornSeen, MemberKnown, NEW c \in Client, Step(c) \/ CallFails(c),
         (Moves(c) /\ RecMove(c)) \/ EditStep(c), EditOf(c),
         NEW d \in Client, RequestHolds(d)
  PROVE  RequestHolds(d)'
<1>1. RequestTypeOK
  BY DEF RecordInv
<1>2. EditStep(c) => UNCHANGED orgVars
  BY DEF EditStep
<1>3. CASE d # c
  <2>1. req'[d] = req[d]
    BY <1>1, <1>2, <1>3, MovesType DEF orgVars
  <2>2. FlagOK(d)' /\ GoneOK(d)' /\ DisableOK(d)'
    BY <1>3, <2>1, FlagOther, GoneOther, DisableOther DEF RequestHolds
  <2>3. DropsUris(d)'
    BY <2>1 DEF RequestHolds, DropsUris
  <2> QED BY <2>2, <2>3 DEF RequestHolds
<1>4. CASE d = c /\ EditStep(c)
  <2>1. FlagOK(c)' /\ GoneOK(c)' /\ DropsUris(c)'
    BY <1>2, <1>4
    DEF RequestHolds, FlagOK, Knows, GoneOK, Leaving, In, DropsUris, orgVars, history
  <2>2. Step(c)
    BY <1>4 DEF Step
  <2>3. DisableOK(c)'
    BY <1>4, <2>2, DisableEdit DEF RequestHolds
  <2> QED BY <1>4, <2>1, <2>3 DEF RequestHolds
<1>5. CASE d = c /\ ~EditStep(c)
  BY <1>1, <1>5, FlagOwn, GoneOwn, DisableOwn, DropsStep DEF RequestHolds
<1> QED BY <1>3, <1>4, <1>5

-----------------------------------------------------------------------------
SuspInv ==
  /\ EditInv /\ TornSeen /\ CleanSeen /\ MemberKnown
  /\ \A c \in Client : RequestHolds(c)
  /\ \A o \in Org : HeldOK(o)

LEMMA SuspInit == Init => SuspInv
<1> SUFFICES ASSUME Init PROVE SuspInv
  OBVIOUS
<1>1. \A c \in Client : req[c].pc = "idle" /\ req[c].op = "none"
  BY IdleFields DEF Init
<1>2. TornSeen /\ CleanSeen
  BY <1>1 DEF TornSeen, CleanSeen, OnOrg
<1>3. MemberKnown
  <2>1. member = {m \in kcOrg \X User : acct[m[2]].known}
    BY DEF Init
  <2> QED BY <2>1, SMTT(30) DEF MemberKnown, In
<1>4. \A c \in Client : RequestHolds(c)
  BY <1>1
  DEF RequestHolds, FlagOK, Knows, GoneOK, Leaving, DisableOK, DropsUris, CreateOp, RemoveOp
<1>5. ASSUME NEW o \in Org PROVE ~org[o].disabled
  <2>1. \E d \in Disposition : org[o] \in {[NewRec EXCEPT !.disp = d], NoRec}
    BY DEF Init
  <2>2. ~NoRec.disabled /\ \A d \in Disposition : ~[NewRec EXCEPT !.disp = d].disabled
    BY SMTT(30) DEF NoRec, NewRec
  <2> QED BY <2>1, <2>2
<1> QED BY <1>2, <1>3, <1>4, <1>5, EditInit DEF SuspInv, HeldOK

LEMMA SuspNext == SuspInv /\ [Next]_vars => SuspInv'
<1> SUFFICES ASSUME SuspInv, [Next]_vars PROVE SuspInv'
  OBVIOUS
<1>1. EditInv' /\ EditInv
  BY EditNext DEF SuspInv
<1>2. /\ RequestTypeOK /\ StoreTypeOK /\ OverlapSeen /\ RecordInv /\ DirInv
      /\ \A c \in Client : EditOf(c)
  BY <1>1 DEF EditInv, RecordInv
<1>3. ASSUME UNCHANGED <<orgVars, acct, edit>>, session' \subseteq User,
             \A u \in session' \ session : acct[u].enabled
      PROVE  SuspInv'
  <2>1. /\ torn' = torn /\ org' = org /\ member' = member /\ acct' = acct /\ req' = req
    BY <1>3 DEF orgVars, history
  <2>2. TornSeen' /\ CleanSeen' /\ MemberKnown'
    BY <2>1 DEF SuspInv, TornSeen, CleanSeen, MemberKnown, In, OnOrg
  <2> QED BY <1>1, <1>2, <1>3, <2>2, HoldsLogin DEF SuspInv
<1>4. ASSUME NEW c \in Client, Begins(c) PROVE SuspInv'
  <2>1. MemberKnown'
    BY <1>4 DEF Begins, SuspInv, MemberKnown, In, dirVars
  <2>2. TornSeen' /\ CleanSeen'
    BY <1>2, <1>4, TornBegins, CleanBegins DEF SuspInv
  <2>3. \A d \in Client : RequestHolds(d)'
    BY <1>2, <1>4, HoldsBegins DEF SuspInv
  <2>4. \A o \in Org : HeldOK(o)'
    BY <1>2, <1>4, HeldBegins DEF SuspInv
  <2> QED BY <1>1, <2>1, <2>2, <2>3, <2>4 DEF SuspInv
<1>5. ASSUME NEW c \in Client, Step(c) \/ CallFails(c), (Moves(c) /\ RecMove(c)) \/ EditStep(c)
      PROVE  SuspInv'
  <2>1. Moves(c) \/ req' = req
    BY <1>5 DEF EditStep, orgVars
  <2>2. TornSeen' /\ CleanSeen' /\ MemberKnown'
    BY <1>2, <1>5, <2>1, TornStep, CleanStep, MemberStep DEF SuspInv
  <2>3. \A d \in Client : RequestHolds(d)'
    BY <1>2, <1>5, HoldsStep DEF SuspInv
  <2>4. \A o \in Org : HeldOK(o)'
    BY <1>2, <1>5, HeldStep DEF SuspInv, RequestHolds
  <2> QED BY <1>1, <2>2, <2>3, <2>4 DEF SuspInv
<1>6. ASSUME NEW u \in User, SignIn(u) PROVE SuspInv'
  <2>1. UNCHANGED <<orgVars, acct, edit>> /\ session' = session \cup {u} /\ acct[u].enabled
    BY <1>6 DEF SignIn, Login
  <2>2. session' \subseteq User
    BY <1>2, <2>1 DEF DirInv, DirTypeOK
  <2> QED BY <1>3, <2>1, <2>2
<1>7. ASSUME UNCHANGED vars PROVE SuspInv'
  <2>1. UNCHANGED <<orgVars, acct, edit>> /\ session' = session
    BY <1>7 DEF vars, dirVars
  <2>2. session' \subseteq User
    BY <1>2, <2>1 DEF DirInv, DirTypeOK
  <2> QED BY <1>3, <2>1, <2>2
<1> QED BY <1>2, <1>4, <1>5, <1>6, <1>7, AcceptBegins, StepMoves DEF Next

\* A suspension that ran to its end holds, whatever joins, spawns, logins,
\* removals and user edits overlap elsewhere: while the record says disabled, no
\* request is at work in the organization and none failed or overlapped there,
\* every member but the master admin is locked by it, cannot log in and has no
\* session, and none of its agents runs (orgs.go, disable: "all members locked").
THEOREM SuspensionsLock == Spec => []SuspendedMembersLocked
<1>1. SuspInv => SuspendedMembersLocked
  <2> SUFFICES ASSUME SuspInv, NEW o \in Org \ torn, org[o].disabled, Quiet(o, Nobody)
               PROVE  /\ \A u \in MembersOf(o) \ {Root} :
                           o \in acct[u].tags /\ ~acct[u].enabled /\ u \notin session
                      /\ \A m \in live : m[1] # o
    BY DEF SuspendedMembersLocked
  <2>1. \A c \in Client : ~Sweeping(c, o)
    <3>1. ASSUME NEW c \in Client, Sweeping(c, o) PROVE c \in Touching(o, Nobody)
      BY <3>1 DEF Sweeping, Touching, About, AccountOp
    <3> QED BY <3>1 DEF Quiet
  <2>2. Closed(o)
    BY <2>1 DEF SuspInv, HeldOK
  <2>3. ASSUME NEW u \in MembersOf(o) \ {Root}
        PROVE  o \in acct[u].tags /\ ~acct[u].enabled /\ u \notin session
    <3>1. u \in User \ {Root} /\ Shut(o, u)
      BY <2>2, <2>3 DEF Closed, MembersOf, In
    <3>2. RepOK(acct[u])
      BY <3>1 DEF SuspInv, EditInv, DirInv
    <3> QED BY <3>1, <3>2 DEF Shut, Tagged, RepOK
  <2> QED BY <2>2, <2>3 DEF Closed
<1> QED BY <1>1, SuspInit, SuspNext, PTL DEF Spec
=============================================================================
