-------------------------- MODULE AccountLifecycle --------------------------
(* What the registry promises about a user account: it is locked for a set   *)
(* of independent reasons, one per suspending organization plus the platform *)
(* ban, each added and lifted on its own, and login is open exactly while    *)
(* no reason is left (internal/orgdirectory/directory.go).                   *)
CONSTANTS User, Reason

VARIABLES
  known,     \* the users that have an account
  reasons,   \* User -> the reasons its account is locked for
  open       \* User -> whether login is open

accountVars == <<known, reasons, open>>

Init ==
  /\ known \in SUBSET User
  /\ reasons \in [User -> SUBSET Reason]
  /\ \A u \in User \ known : reasons[u] = {}
  /\ open = [u \in User |-> u \in known /\ reasons[u] = {}]

SetReasons(u, R) ==
  /\ u \in known
  /\ reasons' = [reasons EXCEPT ![u] = R]
  /\ open' = [open EXCEPT ![u] = (R = {})]
  /\ UNCHANGED known

Lock(u, r) == SetReasons(u, reasons[u] \cup {r})

Lift(u, r) == SetReasons(u, reasons[u] \ {r})

Create(u) ==
  /\ u \notin known
  /\ known' = known \cup {u}
  /\ open' = [open EXCEPT ![u] = TRUE]
  /\ UNCHANGED reasons

Delete(u) ==
  /\ u \in known
  /\ known' = known \ {u}
  /\ reasons' = [reasons EXCEPT ![u] = {}]
  /\ open' = [open EXCEPT ![u] = FALSE]

Next ==
  \E u \in User :
    \/ \E r \in Reason : Lock(u, r) \/ Lift(u, r)
    \/ Create(u)
    \/ Delete(u)

Spec == Init /\ [][Next]_accountVars
=============================================================================
