------------------------ MODULE SidecarTokensProofs -------------------------
(* Proofs about SidecarTokens, for any number of callers and requests and    *)
(* any lifetimes: a denial is terminal, at most one backchannel request is   *)
(* outstanding, and the tokens handed to the agent are live.                 *)
EXTENDS SidecarTokens, FiniteSetTheorems, TLAPS

\* A leaf that names no prover is one for Zenon.
USE ZenonT(30)

TokensSpec ==
  /\ \E callers \in SUBSET Caller, n \in Nat : TokensInit(callers, n)
  /\ [][TokensNext]_tokenVars

Goroutine == Caller \cup {Waiter}

\* Where a goroutine is while it holds mu.
Holding == {"initiate", "opening", "poll", "polling", "mint"}

\* The shapes of the state the proof takes apart.
Shapes ==
  /\ gate = [h \in Goroutine |-> gate[h]]
  /\ source = [held |-> source.held, token |-> source.token,
               auth |-> source.auth, left |-> source.left,
               due |-> source.due, denied |-> source.denied]
  /\ source.denied \in BOOLEAN
  /\ code = [r \in Ask |-> [state |-> code[r].state, left |-> code[r].left]]

\* mu excludes: this is why nobody is in the middle of a call, with what it
\* read of the source before, when a poll brings the denial.
Excludes == \A h \in Goroutine : gate[h] \in Holding => holder = h
NobodyAmidDenied == source.denied => \A h \in Goroutine : gate[h] \notin Holding

\* A request not yet opened is not running out.
UnopenedRests == \A r \in Ask : code[r].state = "none" => code[r].left = 0

DenialInv == Shapes /\ Excludes /\ NobodyAmidDenied /\ UnopenedRests

\* What DenialIsTerminal says of a step.
DenialKept ==
  source.denied =>
    /\ source'.denied
    /\ \A r \in Ask : code[r].state = "none" => code'[r].state = "none"
    /\ \A c \in Caller : gate[c] # "replying" => gate'[c] # "replying"

-----------------------------------------------------------------------------
\* A step of goroutine h that leaves codes and the denial alone, takes mu
\* only when it is free and nothing was denied, and hands out no token then.
Orderly(h) ==
  /\ gate' = [gate EXCEPT ![h] = gate'[h]]
  /\ UNCHANGED <<source, code>>
  /\ \/ UNCHANGED holder /\ (gate'[h] \in Holding => gate[h] \in Holding)
                         /\ (gate[h] \in Holding => gate'[h] \in Holding)
     \/ /\ holder = Nobody \/ gate[h] \in Holding
        /\ holder' = IF gate'[h] \in Holding THEN h ELSE Nobody
        /\ gate'[h] \in Holding => ~source.denied
  /\ source.denied => gate'[h] # "replying"

\* Such a step preserves the invariant, and the denial.
LEMMA OrderlyInv ==
  ASSUME DenialInv, NEW h \in Goroutine, Orderly(h)
  PROVE  DenialInv' /\ DenialKept
<1>1. /\ \A g \in Goroutine \ {h} : gate'[g] = gate[g]
      /\ gate' = [g \in Goroutine |-> gate'[g]]
  BY DEF Orderly, DenialInv, Shapes
<1>2. Shapes' /\ UnopenedRests'
  BY <1>1 DEF Orderly, DenialInv, Shapes, UnopenedRests
<1>3. Excludes'
  BY <1>1, WaiterIsNoCaller, SMTT(30)
     DEF Orderly, DenialInv, Excludes, Goroutine, Nobody, Waiter
<1>4. NobodyAmidDenied'
  BY <1>1 DEF Orderly, DenialInv, NobodyAmidDenied
<1>5. DenialKept
  BY <1>1 DEF Orderly, DenialKept, Goroutine
<1>. QED BY <1>2, <1>3, <1>4, <1>5 DEF DenialInv

\* The calls of the SDK and the looks at the source under mu are orderly.
LEMMA CallsOrderly ==
  ASSUME DenialInv, NEW c \in Caller, Calls(c)
  PROVE  Orderly(c)
<1>1. c \in Goroutine
  BY DEF Goroutine
<1>2. \A pc : [gate EXCEPT ![c] = pc][c] = pc
  BY <1>1 DEF DenialInv, Shapes
<1>3. CASE GetToken(c) \/ GiveUp(c) \/ TokenArrives(c)
  BY <1>2, <1>3 DEF GetToken, GiveUp, TokenArrives, To, Orderly, Holding,
     keycloakVars
<1>4. CASE Get(c)
  BY <1>2, <1>4 DEF Get, Askable, Locked, Unlocked, To, Orderly, Holding,
     keycloakVars
<1>5. CASE GetDenied(c)
  BY <1>2, <1>5 DEF GetDenied, Unlocked, To, Orderly, Holding, keycloakVars
<1>. QED BY <1>3, <1>4, <1>5 DEF Calls

\* So are those of waitForGrant.
LEMMA WaitsOrderly ==
  ASSUME DenialInv, WaitBegins \/ WaitChecks \/ WaitFails
  PROVE  Orderly(Waiter)
<1>1. \A pc : [gate EXCEPT ![Waiter] = pc][Waiter] = pc
  BY DEF DenialInv, Shapes, Goroutine
<1>2. CASE WaitBegins
  BY <1>1, <1>2 DEF WaitBegins, NothingYet, Locked, Unlocked, To, Orderly,
     Holding, keycloakVars
<1>3. CASE WaitChecks
  BY <1>1, <1>3 DEF WaitChecks, Locked, Unlocked, To, Orderly, Holding,
     keycloakVars
<1>4. CASE WaitFails
  BY <1>1, <1>4 DEF WaitFails, To, Orderly, Holding, keycloakVars
<1>. QED BY <1>2, <1>3, <1>4

\* A step of the goroutine that holds mu, or lets it go: no other one is amid
\* a call, and nothing has been denied.
LEMMA HolderMoves ==
  ASSUME DenialInv, NEW h \in Goroutine, gate[h] \in Holding,
         gate' = [gate EXCEPT ![h] = gate'[h]], Shapes', UnopenedRests',
         holder' \in {h, Nobody}, gate'[h] \in Holding => holder' = h,
         source'.denied => gate'[h] \notin Holding
  PROVE  DenialInv' /\ DenialKept
<1>1. ~source.denied
  BY DEF DenialInv, NobodyAmidDenied
<1>2. \A g \in Goroutine \ {h} : gate'[g] = gate[g] /\ gate[g] \notin Holding
  BY DEF DenialInv, Shapes, Excludes
<1>3. Excludes' /\ NobodyAmidDenied'
  BY <1>2 DEF Excludes, NobodyAmidDenied
<1>. QED BY <1>1, <1>3 DEF DenialInv, DenialKept
\* The calls that open and poll a request (initiate, pollOnce) and mint.
LEMMA FetchesInv ==
  ASSUME DenialInv, NEW h \in Goroutine,
         Fetches(h) \/ (h \in Caller /\ (Mint(h) \/ MintFails(h)))
  PROVE  DenialInv' /\ DenialKept
<1>1. \A pc : [gate EXCEPT ![h] = pc][h] = pc
  BY DEF DenialInv, Shapes
<1>2. gate[h] \in Holding /\ holder = h
  BY DEF Fetches, Initiate, Initiated, InitiateFails, Poll, Mint, MintFails,
     Holding, DenialInv, Excludes
<1>3. ~source.denied
  BY <1>2 DEF DenialInv, NobodyAmidDenied
<1>4. CASE Initiate(h)
  <2>1. PICK r \in Ask : RequestAuthentication(r)
    BY <1>4 DEF Initiate
  <2>2. code' = [code EXCEPT ![r] = [state |-> "pending", left |-> AskLife]]
    BY <2>1 DEF RequestAuthentication
  <2>3. /\ gate' = [gate EXCEPT ![h] = "opening"] /\ UNCHANGED <<source, holder>>
    BY <1>4 DEF Initiate, To
  <2>4. Shapes' /\ UnopenedRests'
    BY <2>2, <2>3 DEF DenialInv, Shapes, UnopenedRests
  <2>. QED BY <1>1, <1>2, <1>3, <2>3, <2>4, HolderMoves DEF Holding
<1>5. CASE Initiated(h)
  <2>1. /\ UNCHANGED code /\ gate' = [gate EXCEPT ![h] = gate'[h]]
        /\ gate'[h] \in {"check", "poll", "failing", "asked"}
        /\ holder' \in {h, Nobody} /\ (gate'[h] = "poll" => holder' = h)
    BY <1>1, <1>5 DEF Initiated, CallFailed, Locked, Unlocked, To, keycloakVars
  <2>2. \/ source' = source
        \/ source' = [source EXCEPT !.auth = answer.ask, !.left = AskLife,
                                    !.due = TRUE, !.denied = FALSE]
    BY <1>5 DEF Initiated
  <2>3. /\ source' = [held |-> source'.held, token |-> source'.token,
                      auth |-> source'.auth, left |-> source'.left,
                      due |-> source'.due, denied |-> source'.denied]
        /\ source'.denied = FALSE
    BY <1>3, <2>2 DEF DenialInv, Shapes
  <2>4. Shapes' /\ UnopenedRests'
    BY <2>1, <2>3 DEF DenialInv, Shapes, UnopenedRests
  <2>. QED BY <1>2, <2>1, <2>3, <2>4, HolderMoves DEF Holding
<1>6. CASE InitiateFails(h) \/ (h \in Caller /\ MintFails(h))
  <2>1. /\ UNCHANGED <<code, source>> /\ holder' = Nobody
        /\ gate' = [gate EXCEPT ![h] = gate'[h]]
        /\ gate'[h] \in {"failing", "asked"}
    BY <1>1, <1>6 DEF InitiateFails, MintFails, CallFailed, Unlocked, To,
       keycloakVars
  <2>2. Shapes' /\ UnopenedRests'
    BY <2>1 DEF DenialInv, Shapes, UnopenedRests
  <2>. QED BY <1>2, <2>1, <2>2, HolderMoves DEF Holding
<1>7. CASE Poll(h)
  <2>1. /\ UNCHANGED <<source, holder>> /\ gate' = [gate EXCEPT ![h] = "polling"]
        /\ code' \in {code, [code EXCEPT ![source.auth] =
                                [state |-> "gone", left |-> 0]]}
    BY <1>7 DEF Poll, To
  <2>2. Shapes' /\ UnopenedRests'
    BY <2>1, SMTT(30) DEF DenialInv, Shapes, UnopenedRests
  <2>. QED BY <1>1, <1>2, <1>3, <2>1, <2>2, HolderMoves DEF Holding
<1>8. CASE h \in Caller /\ Mint(h)
  <2>1. /\ UNCHANGED <<code, source, holder>>
        /\ gate' = [gate EXCEPT ![h] = "polling"]
    BY <1>8 DEF Mint, To, keycloakVars
  <2>2. Shapes' /\ UnopenedRests'
    BY <2>1 DEF DenialInv, Shapes, UnopenedRests
  <2>. QED BY <1>1, <1>2, <1>3, <2>1, <2>2, HolderMoves DEF Holding
<1>. QED BY <1>4, <1>5, <1>6, <1>7, <1>8 DEF Fetches

\* pollOnce leaves the source in shape whatever the verdict.
LEMMA PolledShape ==
  ASSUME DenialInv, NEW verdict, source' = Polled(verdict)
  PROVE  /\ source' = [held |-> source'.held, token |-> source'.token,
                       auth |-> source'.auth, left |-> source'.left,
                       due |-> source'.due, denied |-> source'.denied]
         /\ source'.denied \in BOOLEAN
<1>1. \/ source' = [source EXCEPT !.held = TRUE, !.token = answer.token,
                                  !.auth = NoAsk]
      \/ source' = [source EXCEPT !.due = FALSE]
      \/ source' = [source EXCEPT !.auth = NoAsk, !.denied = TRUE]
      \/ source' = [source EXCEPT !.auth = NoAsk]
      \/ source' = source
  BY DEF Polled
<1>. QED BY <1>1 DEF DenialInv, Shapes

\* The answer to a poll is the end of the call, and may bring the denial.
LEMMA AnsweredInv ==
  ASSUME DenialInv, WaiterPolled \/ \E c \in Caller : CallerPolled(c)
  PROVE  DenialInv' /\ DenialKept
<1>1. PICK h \in Goroutine, verdict \in {answer.kind, "error"} :
        /\ gate[h] = "polling" /\ source' = Polled(verdict)
        /\ \E pc \in {"granted", "sleep", "failing", "replying", "idle", "asked"} :
             Unlocked(h, pc)
        /\ UNCHANGED code
  <2>1. CASE WaiterPolled
    <3>1. PICK verdict \in {answer.kind, "error"} :
            /\ source' = Polled(verdict)
            /\ Unlocked(Waiter,
                        CASE verdict = "granted" -> "granted"
                          [] source'.auth # NoAsk /\ verdict # "error" -> "sleep"
                          [] OTHER -> "failing")
      BY <2>1 DEF WaiterPolled
    <3>2. \E pc \in {"granted", "sleep", "failing"} : Unlocked(Waiter, pc)
      BY <3>1
    <3>. QED BY <2>1, <3>1, <3>2 DEF WaiterPolled, Goroutine, keycloakVars
  <2>2. ASSUME NEW c \in Caller, CallerPolled(c)
        PROVE  /\ c \in Goroutine /\ gate[c] = "polling" /\ UNCHANGED code
               /\ \E verdict \in {answer.kind, "error"} :
                    /\ source' = Polled(verdict)
                    /\ \E pc \in {"replying", "idle", "asked"} : Unlocked(c, pc)
    BY <2>2 DEF CallerPolled, Goroutine, keycloakVars
  <2>. QED BY <2>1, <2>2
<1>2. PICK pc \in {"granted", "sleep", "failing", "replying", "idle", "asked"} :
        gate' = [gate EXCEPT ![h] = pc] /\ holder' = Nobody
  BY <1>1 DEF Unlocked, To
<1>3. gate'[h] = pc /\ gate' = [gate EXCEPT ![h] = gate'[h]]
  BY <1>2 DEF DenialInv, Shapes
<1>4. Shapes' /\ UnopenedRests'
  BY <1>1, <1>2, PolledShape DEF DenialInv, Shapes, UnopenedRests
<1>. QED BY <1>1, <1>2, <1>3, <1>4, HolderMoves DEF Holding

\* Keycloak's poller, the user and a restart of Keycloak open no request.
LEMMA OutsideInv ==
  ASSUME DenialInv,
         \/ \E r \in Ask : \/ PollOne(r)
                           \/ \E v \in {"approved", "denied"} : Decide(r, v)
         \/ UserChanges \/ KeycloakRestarts
  PROVE  DenialInv' /\ DenialKept
<1>1. UNCHANGED <<source, holder, gate>>
  BY DEF PollOne, Decide, UserChanges, KeycloakRestarts
<1>2. \/ UNCHANGED code
      \/ \E r \in Ask, v \in {"approved", "denied"} :
           code' = [code EXCEPT ![r].state = IF @ = "pending" THEN v ELSE @]
  BY DEF PollOne, Decide, UserChanges, KeycloakRestarts, keycloakVars
<1>3. /\ code' = [r \in Ask |-> [state |-> code'[r].state, left |-> code'[r].left]]
      /\ \A r \in Ask : /\ code'[r].state = "none" <=> code[r].state = "none"
                        /\ code'[r].left = code[r].left
  <2>1. CASE UNCHANGED code
    BY <2>1 DEF DenialInv, Shapes
  <2>2. ASSUME NEW q \in Ask, NEW v \in {"approved", "denied"},
               code' = [code EXCEPT ![q].state = IF @ = "pending" THEN v ELSE @]
        PROVE  /\ code' = [r \in Ask |-> [state |-> code'[r].state,
                                           left |-> code'[r].left]]
               /\ \A r \in Ask :
                    /\ code'[r].state = "none" <=> code[r].state = "none"
                    /\ code'[r].left = code[r].left
    <3>1. \A r \in Ask : code'[r] =
            [state |-> IF r = q /\ code[r].state = "pending" THEN v
                       ELSE code[r].state,
             left |-> code[r].left]
      BY <2>2, SMTT(30) DEF DenialInv, Shapes
    <3>2. code' = [r \in Ask |-> code'[r]]
      BY <2>2 DEF DenialInv, Shapes
    <3>. QED BY <3>1, <3>2, SMTT(30)
  <2>. QED BY <1>2, <2>1, <2>2
<1>. QED BY <1>1, <1>3 DEF DenialInv, Shapes, Excludes, NobodyAmidDenied,
         UnopenedRests, DenialKept

\* Time passes: what was never opened does not expire.
LEMMA TickInv ==
  ASSUME DenialInv, Tick
  PROVE  DenialInv' /\ DenialKept
<1>1. /\ code' = [r \in Ask |-> [state |-> code'[r].state, left |-> code'[r].left]]
      /\ \A r \in Ask : code[r].state = "none" =>
           code'[r].state = "none"
      /\ \A r \in Ask : code'[r].state = "none" => code'[r].left = 0
  BY SMTT(30) DEF Tick, Less, DenialInv, Shapes, UnopenedRests
<1>2. PICK b : source' = [source EXCEPT !.token = Aged(@), !.left = Less(@),
                                        !.due = b]
  BY DEF Tick
<1>3. /\ source' = [held |-> source'.held, token |-> source'.token,
                    auth |-> source'.auth, left |-> source'.left,
                    due |-> source'.due, denied |-> source'.denied]
      /\ source'.denied = source.denied
  BY <1>2 DEF DenialInv, Shapes
<1>4. /\ gate' = [h \in Goroutine |-> gate'[h]] /\ UNCHANGED holder
      /\ \A h \in Goroutine : gate'[h] = gate[h] \/ gate'[h] = "check"
  BY DEF Tick, DenialInv, Shapes
<1>5. Shapes' /\ UnopenedRests'
  BY <1>1, <1>3, <1>4 DEF DenialInv, Shapes, UnopenedRests
<1>6. Excludes' /\ NobodyAmidDenied'
  BY <1>3, <1>4 DEF DenialInv, Excludes, NobodyAmidDenied, Holding
<1>7. DenialKept
  BY <1>1, <1>3, <1>4 DEF DenialKept, Goroutine
<1>. QED BY <1>5, <1>6, <1>7 DEF DenialInv

\* Every step preserves the invariant and the denial.
LEMMA DenialNext ==
  ASSUME DenialInv, TokensNext
  PROVE  DenialInv' /\ DenialKept
<1>1. ASSUME NEW c \in Caller, Calls(c) PROVE DenialInv' /\ DenialKept
  BY <1>1, CallsOrderly, OrderlyInv DEF Goroutine
<1>2. ASSUME NEW c \in Caller, Holds(c) PROVE DenialInv' /\ DenialKept
  BY <1>2, FetchesInv, AnsweredInv DEF Holds, Goroutine
<1>3. CASE Waits
  BY <1>3, WaitsOrderly, OrderlyInv, FetchesInv, AnsweredInv DEF Waits, Goroutine
<1>. QED BY <1>1, <1>2, <1>3, OutsideInv, TickInv DEF TokensNext

\* Whatever /token, waitForGrant and the user's phone interleave, a denial
\* that a poll has brought stays: no request is opened after it and no call
\* of /token is answered with a token.
THEOREM DenialStays == TokensSpec => DenialIsTerminal
<1>1. ASSUME NEW callers \in SUBSET Caller, NEW n \in Nat, TokensInit(callers, n)
      PROVE  DenialInv
  BY <1>1, WaiterIsNoCaller DEF TokensInit, DenialInv, Shapes, Excludes,
     NobodyAmidDenied, UnopenedRests, Goroutine, Holding
<1>2. (\E callers \in SUBSET Caller, n \in Nat : TokensInit(callers, n))
        => DenialInv
  BY <1>1
<1>3. DenialInv /\ [TokensNext]_tokenVars => DenialInv'
  <2>1. CASE UNCHANGED tokenVars
    BY <2>1 DEF tokenVars, DenialInv, Shapes, Excludes, NobodyAmidDenied,
       UnopenedRests
  <2>. QED BY <2>1, DenialNext
<1>4. DenialInv /\ [TokensNext]_tokenVars => [DenialKept]_tokenVars
  BY DenialNext
<1>5. TokensSpec => [][DenialKept]_tokenVars
  BY <1>2, <1>3, <1>4, PTL DEF TokensSpec
<1>. QED BY <1>5 DEF DenialIsTerminal, DenialKept

-----------------------------------------------------------------------------
(* At most one outstanding backchannel request, and live tokens              *)

Pc == {"begin", "granted", "idle", "out", "initiate", "opening", "check",
       "poll", "polling", "failing", "failed", "asked", "sleep", "replying",
       "mint"}
Kind == {"none", "opened", "granted", "pending", "denied", "expired", "error"}

\* The types, those of the goroutines and of Keycloak's answer included.
Typed ==
  /\ TokensTypeOK
  /\ gate \in [Goroutine -> Pc]
  /\ answer \in [kind : Kind, ask : Ask \cup {NoAsk}, token : Token]

\* Tokens are handed on with life to spare: what Keycloak mints has its whole
\* life, and what /token answers more than the SDK's buffer.
Spare ==
  /\ answer.kind = "granted" => answer.token.left = TokenLife
  /\ \A c \in Caller : gate[c] = "replying" => inbound[c].left > Buffer

TokenInv == DenialInv /\ Typed /\ Spare

\* A new token, none, and those time makes of them are tokens.
LEMMA TokenTypes ==
  /\ Fresh \in Token /\ NoToken \in Token
  /\ \A t \in Token : /\ Aged(t) \in Token
                      /\ Delayed(t) \in Token /\ Delayed(t).left = t.left
<1>1. 0 \in 0..TokenLife /\ 0 \in 0..(Buffer + 1) /\ TokenLife \in 0..TokenLife
  BY TokenTimes, SMTT(30)
<1>2. Fresh \in Token /\ NoToken \in Token
  BY <1>1 DEF Fresh, NoToken, Token
<1>3. ASSUME NEW t \in Token PROVE Aged(t) \in Token
  <2>1. t.left \in 0..TokenLife
    BY DEF Token
  <2>2. ~ (t.left <= 1) => t.left - 1 \in 0..TokenLife
    BY <2>1, TokenTimes, SMTT(30)
  <2>. QED BY <1>2, <2>2 DEF Aged, Token
<1>4. ASSUME NEW t \in Token PROVE Delayed(t) \in Token /\ Delayed(t).left = t.left
  <2>1. t.late \in 0..(Buffer + 1)
    BY DEF Token
  <2>2. ~ (t.late > Buffer) => t.late + 1 \in 0..(Buffer + 1)
    BY <2>1, TokenTimes, SMTT(30)
  <2>. QED BY <2>2 DEF Delayed, Token
<1>. QED BY <1>2, <1>3, <1>4

\* A smaller number of ticks, never below zero.
LEMMA LessTypes ==
  ASSUME NEW m \in Nat, NEW n \in 0..m
  PROVE  Less(n) \in 0..m /\ (n # 0 => Less(n) = n - 1) /\ (n = 0 => Less(n) = 0)
  BY SMTT(30) DEF Less

\* Fewer surprises are left than before.
LEMMA SurpriseTypes ==
  ASSUME surprises \in Nat, Surprise \/ surprises' = surprises
  PROVE  surprises' \in Nat
  BY SMTT(30) DEF Surprise

\* The calls of the SDK, and waitForGrant's looks at the source.
LEMMA CallsTyped ==
  ASSUME TokenInv, NEW c \in Caller, Calls(c)
  PROVE  Typed' /\ Spare'
<1>0. c \in Goroutine /\ Typed /\ Spare
  BY DEF Goroutine, TokenInv
<1>1. CASE GetToken(c) \/ GiveUp(c) \/ GetDenied(c)
  <2>0. \E pc \in {"asked", "idle"} : gate' = [gate EXCEPT ![c] = pc]
    BY <1>1 DEF GetToken, GiveUp, GetDenied, Unlocked, To
  <2>1. /\ gate' \in [Goroutine -> Pc]
        /\ \A d \in Caller : gate'[d] = "replying" => gate[d] = "replying"
    BY <1>0, <2>0 DEF Typed, Pc, Goroutine
  <2>3. /\ holder' \in {holder, Nobody}
        /\ admitted' \in {admitted, FALSE} /\ failed' \in {failed, TRUE}
    BY <1>1 DEF GetToken, GiveUp, GetDenied, Unlocked, FailConsent, outcome,
                userVars
  <2>2. UNCHANGED <<gated, code, link, prompt, stored, source, answer, cache,
                    inbound, lost, surprises>>
    BY <1>1 DEF GetToken, GiveUp, GetDenied, keycloakVars, userVars, sdkVars,
                outcome
  <2>4. /\ admitted' \in BOOLEAN /\ failed' \in BOOLEAN
        /\ holder' \in Caller \cup {Waiter, Nobody}
    BY <1>0, <2>3 DEF Typed, TokensTypeOK
  <2>. QED BY <1>0, <2>1, <2>2, <2>4, SMTT(30) DEF Typed, TokensTypeOK, Spare
<1>2. CASE Get(c)
  <2>0. source.token \in Token /\ source.token.left \in Nat
    BY <1>0, SMTT(30) DEF Typed, TokensTypeOK, Token
  <2>1. /\ gate' \in [Goroutine -> Pc] /\ holder' \in {c, Nobody}
        /\ \A d \in Caller : d # c /\ gate'[d] = "replying" => gate[d] = "replying"
    BY <1>0, <1>2 DEF Get, Locked, Unlocked, To, Typed, Pc, Goroutine
  <2>2. /\ UNCHANGED <<gated, code, link, prompt, stored, admitted, source,
                       answer, cache, failed, lost, surprises>>
        /\ \/ inbound' = inbound /\ gate'[c] # "replying"
           \/ /\ inbound' = [inbound EXCEPT ![c] = source.token]
              /\ source.token.left > Margin
    BY <1>0, <1>2 DEF Get, Locked, Unlocked, To, Typed, keycloakVars, userVars,
                      outcome
  <2>3. source.token.left > Margin => source.token.left > Buffer
    BY <2>0, TokenTimes, SMTT(30)
  <2>4. inbound \in [Caller -> Token]
    BY <1>0 DEF Typed, TokensTypeOK
  <2>5. inbound' \in [Caller -> Token] /\ Spare'
    BY <1>0, <2>0, <2>1, <2>2, <2>3, <2>4 DEF Spare
  <2>. QED BY <1>0, <2>1, <2>2, <2>5, SMTT(30) DEF Typed, TokensTypeOK
<1>3. CASE TokenArrives(c)
  <2>1. /\ gate' \in [Goroutine -> Pc] /\ gate'[c] = "idle"
        /\ \A d \in Caller : d # c => gate'[d] = gate[d]
    BY <1>0, <1>3 DEF TokenArrives, To, Typed, Pc, Goroutine
  <2>2. inbound \in [Caller -> Token] /\ NoToken \in Token
    BY <1>0, TokenTypes DEF Typed, TokensTypeOK
  <2>3. /\ cache' \in Token /\ inbound' \in [Caller -> Token]
        /\ \A d \in Caller : d # c => inbound'[d] = inbound[d]
    BY <1>3, <2>2 DEF TokenArrives
  <2>4. UNCHANGED <<gated, code, link, prompt, stored, admitted, source,
                    holder, answer, failed, lost, surprises>>
    BY <1>3 DEF TokenArrives, keycloakVars, userVars, outcome
  <2>. QED BY <1>0, <2>1, <2>3, <2>4, SMTT(30) DEF Typed, TokensTypeOK, Spare
<1>. QED BY <1>1, <1>2, <1>3 DEF Calls

\* waitForGrant's looks at the source, and its end.
LEMMA WaitsTyped ==
  ASSUME TokenInv, WaitBegins \/ WaitChecks \/ WaitFails
  PROVE  Typed' /\ Spare'
<1>0. Waiter \in Goroutine /\ Typed /\ Spare /\ Waiter \notin Caller
  BY WaiterIsNoCaller DEF Goroutine, TokenInv
<1>1. \E pc \in Pc : gate' = [gate EXCEPT ![Waiter] = pc]
  <2>1. CASE WaitBegins
    BY <2>1 DEF WaitBegins, Locked, Unlocked, To, Pc
  <2>2. CASE WaitChecks
    BY <2>2 DEF WaitChecks, Locked, Unlocked, To, Pc
  <2>3. CASE WaitFails
    BY <2>3 DEF WaitFails, To, Pc
  <2>. QED BY <2>1, <2>2, <2>3
<1>2. /\ gate' \in [Goroutine -> Pc]
      /\ \A c \in Caller : gate'[c] = gate[c]
  BY <1>0, <1>1 DEF Typed, Goroutine
<1>3. /\ holder' \in {holder, Waiter, Nobody}
      /\ UNCHANGED <<gated, code, link, prompt, stored, source, answer, cache,
                     inbound, lost, surprises>>
  BY DEF WaitBegins, WaitChecks, WaitFails, Locked, Unlocked, keycloakVars,
         userVars, sdkVars, outcome
<1>4. admitted' \in BOOLEAN /\ failed' \in BOOLEAN
  BY <1>0 DEF WaitBegins, WaitChecks, WaitFails, userVars, outcome,
              FailConsent, Typed, TokensTypeOK
<1>. QED BY <1>0, <1>2, <1>3, <1>4, SMTT(30) DEF Typed, TokensTypeOK, Spare

\* Opening a request at Keycloak.
LEMMA InitiateTyped ==
  ASSUME TokenInv, NEW h \in Goroutine, Initiate(h)
  PROVE  Typed' /\ Spare'
<1>0. Typed /\ Spare
  BY DEF TokenInv
<1>1. PICK r \in Ask : /\ RequestAuthentication(r)
                       /\ answer' = [NoAnswer EXCEPT !.kind = "opened", !.ask = r]
  BY DEF Initiate
<1>2. /\ gate' = [gate EXCEPT ![h] = "opening"]
      /\ UNCHANGED <<gated, admitted, stored, source, holder, cache, inbound,
                     failed, lost>>
  BY DEF Initiate, To, sdkVars
<1>3. gate' \in [Goroutine -> Pc]
      /\ \A c \in Caller : gate'[c] = "replying" => gate[c] = "replying"
  BY <1>0, <1>2 DEF Typed, Pc, Goroutine
<1>4. /\ answer' \in [kind : Kind, ask : Ask \cup {NoAsk}, token : Token]
      /\ answer'.kind = "opened"
  BY <1>1, TokenTypes DEF NoAnswer, Kind
<1>5. code' \in [Ask -> [state : {"none", "pending", "approved", "denied",
                                 "expired", "gone"}, left : 0 .. AskLife]]
  <2>1. AskLife \in 0..AskLife
    BY TokenTimes, SMTT(30)
  <2>. QED BY <1>0, <1>1, <2>1 DEF RequestAuthentication, Typed, TokensTypeOK
<1>6. link' \in [Ask -> Ask \cup {NoAsk}]
  BY <1>0, <1>1 DEF RequestAuthentication, Typed, TokensTypeOK
<1>7. prompt' \in [Ask -> {"none", "pending", "approved", "denied"}]
  BY <1>0, <1>1 DEF RequestAuthentication, Typed, TokensTypeOK
<1>8. surprises' \in Nat
  BY <1>0, <1>1, SurpriseTypes DEF RequestAuthentication, Typed, TokensTypeOK
<1>. QED BY <1>0, <1>2, <1>3, <1>4, <1>5, <1>6, <1>7, <1>8, SMTT(30)
         DEF Typed, TokensTypeOK, Spare

\* The answer to that, and the failures of a call.
LEMMA InitiatedTyped ==
  ASSUME TokenInv, NEW h \in Goroutine,
         \/ Initiated(h) \/ InitiateFails(h)
         \/ h \in Caller /\ (Mint(h) \/ MintFails(h))
  PROVE  Typed' /\ Spare'
<1>0. Typed /\ Spare
  BY DEF TokenInv
<1>1. \E pc \in Pc \ {"replying"} : gate' = [gate EXCEPT ![h] = pc]
  BY DEF Initiated, InitiateFails, Mint, MintFails, CallFailed, Locked,
         Unlocked, To, Pc
<1>2. gate' \in [Goroutine -> Pc]
      /\ \A c \in Caller : gate'[c] = "replying" => gate[c] = "replying"
  BY <1>0, <1>1 DEF Typed, Goroutine
<1>3. /\ UNCHANGED <<gated, code, link, admitted, prompt, stored, cache,
                     inbound, failed>>
      /\ holder' \in {holder, h, Nobody}
  BY DEF Initiated, InitiateFails, Mint, MintFails, CallFailed, Locked,
         Unlocked, keycloakVars, userVars, sdkVars, outcome
<1>4. surprises' \in Nat /\ lost' \in BOOLEAN
  <2>1. /\ Surprise \/ surprises' = surprises
        /\ lost' = TRUE \/ lost' = lost
    BY DEF Initiated, InitiateFails, Mint, MintFails, outcome
  <2>. QED BY <1>0, <2>1, SurpriseTypes DEF Typed, TokensTypeOK
<1>5. source' \in [held : BOOLEAN, token : Token, auth : Ask \cup {NoAsk},
                  left : 0 .. AskLife, due : BOOLEAN, denied : BOOLEAN]
  <2>1. \/ source' = source
        \/ source' = [source EXCEPT !.auth = answer.ask, !.left = AskLife,
                                    !.due = TRUE, !.denied = FALSE]
    BY DEF Initiated, InitiateFails, Mint, MintFails
  <2>2. AskLife \in 0..AskLife /\ answer.ask \in Ask \cup {NoAsk}
    BY <1>0, TokenTimes, SMTT(30) DEF Typed
  <2>3. source \in [held : BOOLEAN, token : Token, auth : Ask \cup {NoAsk},
                   left : 0 .. AskLife, due : BOOLEAN, denied : BOOLEAN]
    BY <1>0 DEF Typed, TokensTypeOK
  <2>4. CASE source' = [source EXCEPT !.auth = answer.ask, !.left = AskLife,
                                      !.due = TRUE, !.denied = FALSE]
    BY <2>2, <2>3, <2>4
  <2>. QED BY <2>1, <2>3, <2>4
<1>6. /\ answer' \in [kind : Kind, ask : Ask \cup {NoAsk}, token : Token]
      /\ answer'.kind = "granted" => answer'.token.left = TokenLife
  <2>1. \/ answer' = answer \/ answer' = NoAnswer
        \/ answer' = [NoAnswer EXCEPT !.kind = "granted", !.token = Fresh]
    BY DEF Initiated, InitiateFails, Mint, MintFails
  <2>2. CASE answer' = NoAnswer
    BY <2>2, TokenTypes DEF NoAnswer, Kind
  <2>3. CASE answer' = [NoAnswer EXCEPT !.kind = "granted", !.token = Fresh]
    <3>1. answer' = [kind |-> "granted", ask |-> NoAsk, token |-> Fresh]
      BY <2>3 DEF NoAnswer
    <3>2. Fresh.left = TokenLife
      BY DEF Fresh
    <3>. QED BY <3>1, <3>2, TokenTypes DEF Kind
  <2>. QED BY <1>0, <2>1, <2>2, <2>3 DEF Typed, Spare
<1>7. holder' \in Caller \cup {Waiter, Nobody}
  BY <1>0, <1>3 DEF Typed, TokensTypeOK, Goroutine
<1>. QED BY <1>0, <1>2, <1>3, <1>4, <1>5, <1>6, <1>7
         DEF Typed, TokensTypeOK, Spare

\* A poll at the token endpoint.
LEMMA PollTyped ==
  ASSUME TokenInv, NEW h \in Goroutine, Poll(h), source.auth # NoAsk
  PROVE  Typed' /\ Spare'
<1>0. Typed /\ Spare /\ source.auth \in Ask
  BY DEF TokenInv, Typed, TokensTypeOK
<1>1. PICK verdict \in PollVerdict(source.auth) :
        /\ code' = IF verdict \in {"granted", "denied"}
                   THEN [code EXCEPT ![source.auth] =
                           [state |-> "gone", left |-> 0]] ELSE code
        /\ answer' = [kind |-> verdict, ask |-> source.auth,
                      token |-> IF verdict = "granted" THEN Fresh ELSE NoToken]
  BY DEF Poll
<1>2. /\ gate' = [gate EXCEPT ![h] = "polling"]
      /\ UNCHANGED <<gated, link, admitted, prompt, stored, source, holder,
                     cache, inbound, failed, lost, surprises>>
  BY DEF Poll, To, userVars, sdkVars, outcome
<1>3. gate' \in [Goroutine -> Pc]
      /\ \A c \in Caller : gate'[c] = "replying" => gate[c] = "replying"
  BY <1>0, <1>2 DEF Typed, Pc, Goroutine
<1>4. verdict \in Kind
  <2>1. code[source.auth].state \in {"none", "pending", "approved", "denied",
                                     "expired", "gone"}
    BY <1>0 DEF Typed, TokensTypeOK
  <2>. QED BY <2>1 DEF PollVerdict, Kind
<1>5. /\ answer' \in [kind : Kind, ask : Ask \cup {NoAsk}, token : Token]
      /\ answer'.kind = "granted" => answer'.token.left = TokenLife
  BY <1>0, <1>1, <1>4, TokenTypes DEF Fresh
<1>6. code' \in [Ask -> [state : {"none", "pending", "approved", "denied",
                                 "expired", "gone"}, left : 0 .. AskLife]]
  <2>1. 0 \in 0..AskLife
    BY TokenTimes, SMTT(30)
  <2>. QED BY <1>0, <1>1, <2>1 DEF Typed, TokensTypeOK
<1>. QED BY <1>0, <1>2, <1>3, <1>5, <1>6, SMTT(30) DEF Typed, TokensTypeOK, Spare

\* What the sidecar makes of the answer.
LEMMA PolledTyped ==
  ASSUME TokenInv, WaiterPolled \/ \E c \in Caller : CallerPolled(c)
  PROVE  Typed' /\ Spare'
<1>0. Typed /\ Spare /\ Waiter \notin Caller
  BY WaiterIsNoCaller DEF TokenInv
<1>1. /\ answer' = NoAnswer /\ holder' = Nobody
      /\ UNCHANGED <<gated, code, link, prompt, stored, cache, lost>>
      /\ Surprise \/ surprises' = surprises
      /\ \E verdict : source' = Polled(verdict)
  BY DEF WaiterPolled, CallerPolled, Unlocked, keycloakVars, userVars, sdkVars
<1>2. source' \in [held : BOOLEAN, token : Token, auth : Ask \cup {NoAsk},
                  left : 0 .. AskLife, due : BOOLEAN, denied : BOOLEAN]
  <2>1. \/ source' = [source EXCEPT !.held = TRUE, !.token = answer.token,
                                    !.auth = NoAsk]
        \/ source' = [source EXCEPT !.due = FALSE]
        \/ source' = [source EXCEPT !.auth = NoAsk, !.denied = TRUE]
        \/ source' = [source EXCEPT !.auth = NoAsk]
        \/ source' = source
    BY <1>1 DEF Polled
  <2>2. answer.token \in Token
    BY <1>0 DEF Typed
  <2>3. source \in [held : BOOLEAN, token : Token, auth : Ask \cup {NoAsk},
                   left : 0 .. AskLife, due : BOOLEAN, denied : BOOLEAN]
    BY <1>0 DEF Typed, TokensTypeOK
  <2>4. CASE source' = [source EXCEPT !.held = TRUE, !.token = answer.token,
                                      !.auth = NoAsk]
    BY <2>2, <2>3, <2>4
  <2>5. CASE source' = [source EXCEPT !.due = FALSE]
    BY <2>3, <2>5
  <2>6. CASE source' = [source EXCEPT !.auth = NoAsk, !.denied = TRUE]
    BY <2>3, <2>6
  <2>7. CASE source' = [source EXCEPT !.auth = NoAsk]
    BY <2>3, <2>7
  <2>. QED BY <2>1, <2>3, <2>4, <2>5, <2>6, <2>7
<1>3. answer' \in [kind : Kind, ask : Ask \cup {NoAsk}, token : Token]
      /\ answer'.kind = "none"
  BY <1>1, TokenTypes DEF NoAnswer, Kind
<1>4. surprises' \in Nat
  BY <1>0, <1>1, SurpriseTypes DEF Typed, TokensTypeOK
<1>5. CASE WaiterPolled
  <2>1. \E pc \in {"granted", "sleep", "failing"} : gate' = [gate EXCEPT ![Waiter] = pc]
    BY <1>5 DEF WaiterPolled, Unlocked, To
  <2>2. gate' \in [Goroutine -> Pc] /\ \A c \in Caller : gate'[c] = gate[c]
    BY <1>0, <2>1, SMTT(30) DEF Typed, Pc, Goroutine
  <2>3. UNCHANGED <<admitted, inbound, failed>>
    BY <1>5 DEF WaiterPolled, userVars, sdkVars
  <2>. QED BY <1>0, <1>1, <1>2, <1>3, <1>4, <2>2, <2>3
           DEF Typed, TokensTypeOK, Spare
<1>6. ASSUME NEW c \in Caller, CallerPolled(c) PROVE Typed' /\ Spare'
  <2>1. \/ /\ gate' = [gate EXCEPT ![c] = "replying"]
           /\ answer.kind = "granted"
           /\ inbound' = [inbound EXCEPT ![c] = answer.token]
           /\ UNCHANGED <<failed, admitted>>
        \/ /\ gate' = [gate EXCEPT ![c] = "idle"] /\ inbound' = inbound
           /\ FailConsent
        \/ /\ gate' = [gate EXCEPT ![c] = "asked"] /\ inbound' = inbound
           /\ UNCHANGED <<failed, admitted>>
    BY <1>6 DEF CallerPolled, Unlocked, To
  <2>2. gate' \in [Goroutine -> Pc]
        /\ \A d \in Caller : d # c => gate'[d] = gate[d]
    BY <1>0, <2>1 DEF Typed, Pc, Goroutine
  <2>3. admitted' \in BOOLEAN /\ failed' \in BOOLEAN
    BY <1>0, <2>1 DEF FailConsent, Typed, TokensTypeOK
  <2>4. inbound' \in [Caller -> Token] /\ Spare'
    <3>1. inbound \in [Caller -> Token] /\ answer.token \in Token
          /\ gate \in [Goroutine -> Pc] /\ c \in Goroutine
      BY <1>0 DEF Typed, TokensTypeOK, Goroutine
    <3>2. TokenLife > Buffer
      BY TokenTimes, SMTT(30)
    <3>3. inbound' \in [Caller -> Token]
          /\ \A d \in Caller : d # c => inbound'[d] = inbound[d]
      BY <2>1, <3>1
    <3>4. gate'[c] = "replying" => inbound'[c].left > Buffer
      BY <1>0, <2>1, <3>1, <3>2 DEF Spare
    <3>. QED BY <1>0, <1>3, <2>2, <3>3, <3>4 DEF Spare
  <2>. QED BY <1>0, <1>1, <1>2, <1>3, <1>4, <2>2, <2>3, <2>4
           DEF Typed, TokensTypeOK
<1>. QED BY <1>5, <1>6

\* Keycloak's poller, the user and a restart of Keycloak.
LEMMA OutsideTyped ==
  ASSUME TokenInv,
         \/ \E r \in Ask : \/ PollOne(r)
                           \/ \E v \in {"approved", "denied"} : Decide(r, v)
         \/ UserChanges \/ KeycloakRestarts
  PROVE  Typed' /\ Spare'
<1>0. Typed /\ Spare
  BY DEF TokenInv
<1>1. UNCHANGED <<gated, source, holder, gate, answer, cache, inbound, failed,
                  lost>>
  BY DEF PollOne, Decide, UserChanges, KeycloakRestarts, sdkVars, outcome
<1>2. surprises' \in Nat
  <2>1. Surprise \/ surprises' = surprises
    BY DEF PollOne, Decide, UserChanges, KeycloakRestarts, outcome
  <2>. QED BY <1>0, <2>1, SurpriseTypes DEF Typed, TokensTypeOK
<1>3. stored' \in BOOLEAN /\ admitted' \in BOOLEAN
  BY <1>0 DEF PollOne, Decide, UserChanges, KeycloakRestarts, Typed,
     TokensTypeOK
<1>4. link' \in [Ask -> Ask \cup {NoAsk}]
  BY <1>0 DEF PollOne, Decide, UserChanges, KeycloakRestarts, keycloakVars,
     Typed, TokensTypeOK
<1>5. prompt' \in [Ask -> {"none", "pending", "approved", "denied"}]
  BY <1>0, SMTT(30) DEF PollOne, Decide, UserChanges, KeycloakRestarts, Typed,
     TokensTypeOK
<1>6. code' \in [Ask -> [state : {"none", "pending", "approved", "denied",
                                 "expired", "gone"}, left : 0 .. AskLife]]
  <2>1. \/ UNCHANGED code
        \/ \E r \in Ask, v \in {"approved", "denied"} :
             code' = [code EXCEPT ![r].state = IF @ = "pending" THEN v ELSE @]
    BY DEF PollOne, Decide, UserChanges, KeycloakRestarts, keycloakVars
  <2>. QED BY <1>0, <2>1, SMTT(30) DEF Typed, TokensTypeOK
<1>. QED BY <1>0, <1>1, <1>2, <1>3, <1>4, <1>5, <1>6, SMTT(30)
         DEF Typed, TokensTypeOK, Spare

\* Time passes.
LEMMA TickTyped ==
  ASSUME TokenInv, Tick
  PROVE  Typed' /\ Spare'
<1>0. Typed /\ Spare /\ Waiter \notin Caller /\ AskLife \in Nat
  BY WaiterIsNoCaller, TokenTimes DEF TokenInv
<1>1. UNCHANGED <<gated, link, admitted, prompt, stored, holder, failed, lost,
                  surprises>>
  BY DEF Tick, userVars, outcome
<1>2. gate' \in [Goroutine -> Pc] /\ \A c \in Caller : gate'[c] = gate[c]
  BY <1>0 DEF Tick, Typed, Pc, Goroutine
<1>3. /\ answer' \in [kind : Kind, ask : Ask \cup {NoAsk}, token : Token]
      /\ answer'.kind = answer.kind /\ answer'.token.left = answer.token.left
  BY <1>0, TokenTypes DEF Tick, Typed
<1>4. /\ cache' \in Token /\ inbound' \in [Caller -> Token]
      /\ \A c \in Caller : inbound'[c].left = inbound[c].left
  BY <1>0, TokenTypes DEF Tick, Typed, TokensTypeOK
<1>5. source' \in [held : BOOLEAN, token : Token, auth : Ask \cup {NoAsk},
                  left : 0 .. AskLife, due : BOOLEAN, denied : BOOLEAN]
  <2>1. PICK b \in {source.due, source.auth # NoAsk} :
          source' = [source EXCEPT !.token = Aged(@), !.left = Less(@), !.due = b]
    BY DEF Tick
  <2>2. b \in BOOLEAN
    BY <1>0, <2>1 DEF Typed, TokensTypeOK
  <2>3. Aged(source.token) \in Token /\ Less(source.left) \in 0..AskLife
    BY <1>0, TokenTypes, LessTypes DEF Typed, TokensTypeOK
  <2>. QED BY <1>0, <2>1, <2>2, <2>3 DEF Typed, TokensTypeOK
<1>6. code' \in [Ask -> [state : {"none", "pending", "approved", "denied",
                                 "expired", "gone"}, left : 0 .. AskLife]]
  <2>1. \A r \in Ask : Less(code[r].left) \in 0..AskLife /\ 0 \in 0..AskLife
    BY <1>0, LessTypes, SMTT(30) DEF Typed, TokensTypeOK
  <2>. QED BY <1>0, <2>1, SMTT(30) DEF Tick, Typed, TokensTypeOK
<1>. QED BY <1>0, <1>1, <1>2, <1>3, <1>4, <1>5, <1>6, SMTT(30)
         DEF Typed, TokensTypeOK, Spare

\* A request the user could still answer, or that could still be redeemed.
Open(r) == code[r].state \in {"pending", "approved"}

\* Where only the goroutines of a consent-gated agent get.
Asking == {"initiate", "opening", "poll"}

\* Unless the answer to an opening was lost, the open request is the one the
\* source polls, or the one whose opening is under way; it runs out no later
\* than the source believes, and a verdict that ends it finds it ended.
Owned ==
  /\ \A h \in Goroutine : gate[h] = "initiate" => \A r \in Ask : ~ Open(r)
  /\ \A h \in Goroutine :
       gate[h] = "opening" => \A r \in Ask : Open(r) => r = answer.ask
  /\ (\A h \in Goroutine : gate[h] # "opening") =>
       \A r \in Ask : Open(r) => r = source.auth /\ code[r].left <= source.left
  /\ \A h \in Goroutine :
       gate[h] = "polling" /\ answer.kind \in {"granted", "denied", "expired"} =>
         \A r \in Ask : r = source.auth => ~ Open(r)

Requests ==
  /\ \A r \in Ask : Open(r) => code[r].left # 0
  /\ \A h \in Goroutine :
       /\ gate[h] = "poll" => source.auth # NoAsk
       /\ gate[h] = "mint" => ~ gated
       /\ gate[h] = "opening" => answer.ask \in Ask
       /\ gate[h] \in Asking => gated
  /\ gate[Waiter] # "granted" => gated
  /\ ~ gated => \A r \in Ask : ~ Open(r)
  /\ lost \/ Owned

RequestInv == TokenInv /\ Requests

\* A step of h that only decides what h does next.
LEMMA LooksKeep ==
  ASSUME RequestInv, NEW h \in Goroutine,
         gate' = [gate EXCEPT ![h] = gate'[h]],
         UNCHANGED <<gated, source, code, answer, lost>>,
         gate[h] \notin {"opening", "polling"},
         gate'[h] \notin {"opening", "polling"},
         gate'[h] = "poll" => source.auth # NoAsk,
         gate'[h] = "mint" => ~ gated,
         gate'[h] = "initiate" => lost \/ \A r \in Ask : ~ Open(r),
         gate'[h] \in Asking \/ h = Waiter => gated
  PROVE  Requests'
<1>1. \A g \in Goroutine : g # h => gate'[g] = gate[g]
  BY DEF RequestInv, TokenInv, Typed
<1>2. \A r \in Ask : Open(r)' <=> Open(r)
  BY DEF Open
<1>3. lost \/ Owned'
  BY <1>1, <1>2 DEF RequestInv, Requests, Owned
<1>4. Waiter \in Goroutine
  BY DEF Goroutine
<1>. QED BY <1>1, <1>2, <1>3, <1>4 DEF RequestInv, Requests, Asking

\* Nobody opens a request while one is open: mu is free, so none is being
\* opened, and the source's own has been given up or has run out.
LEMMA NothingOpen ==
  ASSUME RequestInv, holder = Nobody, source.auth = NoAsk \/ source.left = 0
  PROVE  lost \/ \A r \in Ask : ~ Open(r)
<1>1. \A h \in Goroutine : gate[h] # "opening"
  BY WaiterIsNoCaller DEF RequestInv, TokenInv, DenialInv, Excludes, Holding,
                          Goroutine, Nobody, Waiter
<1>2. ASSUME NEW r \in Ask, Open(r), ~ lost PROVE FALSE
  <2>1. /\ r = source.auth /\ code[r].left <= source.left /\ code[r].left # 0
        /\ code[r].left \in 0..AskLife /\ AskLife \in Nat
    BY <1>1, <1>2, TokenTimes DEF RequestInv, Requests, Owned, TokenInv,
                                  Typed, TokensTypeOK
  <2>. QED BY <2>1, NoAskIsNoRequest, SMTT(30)
<1>. QED BY <1>2

\* The calls of the SDK, the looks under mu, and the calls that fail.
LEMMA CallsRequests ==
  ASSUME RequestInv, NEW c \in Caller, Calls(c)
  PROVE  Requests'
<1>0. c \in Goroutine /\ gate \in [Goroutine -> Pc] /\ c # Waiter
  BY WaiterIsNoCaller DEF Goroutine, RequestInv, TokenInv, Typed
<1>1. CASE GetToken(c) \/ GiveUp(c) \/ GetDenied(c) \/ TokenArrives(c)
  <2>1. /\ gate[c] \in {"idle", "asked", "replying"}
        /\ gate'[c] \in {"idle", "asked"}
        /\ gate' = [gate EXCEPT ![c] = gate'[c]]
        /\ UNCHANGED <<gated, source, code, answer, lost>>
    BY <1>0, <1>1 DEF GetToken, GiveUp, GetDenied, TokenArrives, Unlocked, To,
                      keycloakVars, outcome
  <2>. QED BY <1>0, <2>1, LooksKeep DEF Asking
<1>2. CASE Get(c)
  <2>1. /\ gate[c] = "asked" /\ holder = Nobody
        /\ gate' = [gate EXCEPT ![c] = gate'[c]]
        /\ UNCHANGED <<gated, source, code, answer, lost>>
        /\ \/ gate'[c] = "replying"
           \/ gate'[c] = "mint" /\ ~ gated
           \/ /\ gate'[c] = "initiate" /\ gated
              /\ source.auth = NoAsk \/ source.left = 0
           \/ gate'[c] = "poll" /\ gated /\ source.auth # NoAsk
    BY <1>0, <1>2 DEF Get, Locked, Unlocked, To, keycloakVars, outcome
  <2>. QED BY <1>0, <2>1, LooksKeep, NothingOpen DEF Asking
<1>. QED BY <1>1, <1>2 DEF Calls

\* waitForGrant opens a request only when there is none.
LEMMA WaitsRequests ==
  ASSUME RequestInv, WaitBegins \/ WaitChecks \/ WaitFails
  PROVE  Requests'
<1>0. Waiter \in Goroutine /\ gate \in [Goroutine -> Pc]
  BY DEF Goroutine, RequestInv, TokenInv, Typed
<1>1. /\ gate[Waiter] \in {"begin", "check", "failing"}
      /\ UNCHANGED <<gated, source, code, answer, lost>>
  <2>1. CASE WaitBegins
    BY <2>1 DEF WaitBegins, keycloakVars, outcome
  <2>2. CASE WaitChecks
    BY <2>2 DEF WaitChecks, keycloakVars, outcome
  <2>3. CASE WaitFails
    BY <2>3 DEF WaitFails, keycloakVars
  <2>. QED BY <2>1, <2>2, <2>3
<1>2. gated
  BY <1>1 DEF RequestInv, Requests
<1>3. CASE WaitBegins
  <2>1. /\ gate' = [gate EXCEPT ![Waiter] = gate'[Waiter]] /\ holder = Nobody
        /\ \/ gate'[Waiter] = "check"
           \/ gate'[Waiter] = "initiate" /\ source.auth = NoAsk
    BY <1>0, <1>3 DEF WaitBegins, NothingYet, Locked, Unlocked, To
  <2>. QED BY <1>0, <1>1, <1>2, <2>1, LooksKeep, NothingOpen
<1>4. CASE WaitChecks
  <2>0. source.held \in BOOLEAN /\ source.denied \in BOOLEAN
    BY DEF RequestInv, TokenInv, Typed, TokensTypeOK
  <2>1. /\ gate' = [gate EXCEPT ![Waiter] = gate'[Waiter]]
        /\ \/ gate'[Waiter] \in {"failing", "granted"}
           \/ gate'[Waiter] = "poll" /\ source.auth # NoAsk
    BY <1>0, <1>4, <2>0 DEF WaitChecks, Locked, Unlocked, To
  <2>. QED BY <1>0, <1>1, <1>2, <2>1, LooksKeep
<1>5. CASE WaitFails
  <2>1. gate' = [gate EXCEPT ![Waiter] = gate'[Waiter]] /\ gate'[Waiter] = "failed"
    BY <1>0, <1>5 DEF WaitFails, To
  <2>. QED BY <1>0, <1>1, <1>2, <2>1, LooksKeep
<1>. QED BY <1>3, <1>4, <1>5

\* A call that fails before Keycloak has answered opens nothing.
LEMMA FailuresRequests ==
  ASSUME RequestInv, NEW h \in Goroutine,
         InitiateFails(h) \/ (h \in Caller /\ MintFails(h))
  PROVE  Requests'
<1>0. gate \in [Goroutine -> Pc]
  BY DEF RequestInv, TokenInv, Typed
<1>1. /\ gate' = [gate EXCEPT ![h] = gate'[h]]
      /\ gate'[h] = IF h = Waiter THEN "failing" ELSE "asked"
      /\ gate[h] = "initiate" \/ (h # Waiter /\ gate[h] = "mint")
      /\ UNCHANGED <<gated, source, code, answer, lost>>
  <2>1. CASE InitiateFails(h)
    BY <1>0, <2>1 DEF InitiateFails, CallFailed, Unlocked, To, keycloakVars
  <2>2. CASE h \in Caller /\ MintFails(h)
    <3>1. h # Waiter
      BY <2>2, WaiterIsNoCaller
    <3>. QED BY <1>0, <2>2, <3>1 DEF MintFails, CallFailed, Unlocked, To,
                                     keycloakVars
  <2>. QED BY <2>1, <2>2
<1>2. gate[h] = "initiate" => gated
  BY DEF RequestInv, Requests, Asking
<1>. QED BY <1>1, <1>2, LooksKeep DEF Asking

\* While a goroutine is amid a call no other one is.
LEMMA Alone ==
  ASSUME DenialInv, NEW h \in Goroutine, gate[h] \in Holding, NEW pc,
         gate' = [gate EXCEPT ![h] = pc]
  PROVE  /\ gate'[h] = pc
         /\ \A g \in Goroutine :
              g # h => gate'[g] = gate[g] /\ gate[g] \notin Holding
  BY DEF DenialInv, Shapes, Excludes

\* Keycloak opens the one request there is.
LEMMA InitiateRequests ==
  ASSUME RequestInv, NEW h \in Goroutine, Initiate(h)
  PROVE  Requests'
<1>0. /\ gate \in [Goroutine -> Pc] /\ Requests /\ AskLife # 0
      /\ code = [r \in Ask |-> [state |-> code[r].state, left |-> code[r].left]]
  BY TokenTimes DEF RequestInv, TokenInv, Typed, DenialInv, Shapes
<1>1. PICK r \in Ask : /\ RequestAuthentication(r)
                       /\ answer' = [NoAnswer EXCEPT !.kind = "opened", !.ask = r]
  BY DEF Initiate
<1>2. /\ gate[h] = "initiate" /\ gate' = [gate EXCEPT ![h] = "opening"]
      /\ UNCHANGED <<gated, source, lost>>
  BY DEF Initiate, To
<1>3. /\ \A q \in Ask : q # r => code'[q] = code[q]
      /\ code'[r].left = AskLife /\ answer'.ask = r
  BY <1>0, <1>1 DEF RequestAuthentication, NoAnswer
<1>4. /\ gate'[h] = "opening"
      /\ \A g \in Goroutine : g # h => gate'[g] = gate[g] /\ gate[g] \notin Holding
  BY <1>2, Alone DEF RequestInv, TokenInv, Holding
<1>5. \A q \in Ask : q # r => (Open(q)' <=> Open(q))
  BY <1>3 DEF Open
<1>6. gated
  BY <1>0, <1>2 DEF Requests, Asking
<1>7. lost \/ Owned'
  <2>1. lost \/ \A q \in Ask : ~ Open(q)
    BY <1>0, <1>2 DEF Requests, Owned
  <2>. QED BY <1>3, <1>4, <1>5, <2>1 DEF Owned, Holding
<1>8. \A q \in Ask : Open(q)' => code'[q].left # 0
  BY <1>0, <1>3, <1>5 DEF Requests
<1>. QED BY <1>0, <1>2, <1>3, <1>4, <1>6, <1>7, <1>8 DEF Requests, Holding

\* The source takes the request over, or the answer is lost.
LEMMA InitiatedRequests ==
  ASSUME RequestInv, NEW h \in Goroutine, Initiated(h)
  PROVE  Requests'
<1>0. /\ gate \in [Goroutine -> Pc] /\ Requests /\ Typed
  BY DEF RequestInv, TokenInv, Typed
<1>1. /\ gate[h] = "opening" /\ gate' = [gate EXCEPT ![h] = gate'[h]]
      /\ gate'[h] \in {"check", "poll", "failing", "asked"}
      /\ gate'[h] \in Asking => gated
      /\ UNCHANGED <<gated, code>>
      /\ \/ /\ lost' = lost
            /\ source' = [source EXCEPT !.auth = answer.ask, !.left = AskLife,
                                        !.due = TRUE, !.denied = FALSE]
         \/ lost' = TRUE /\ source' = source /\ gate'[h] \in {"failing", "asked"}
  <2>1. gate[h] = "opening" /\ UNCHANGED <<gated, code>>
    BY DEF Initiated, keycloakVars
  <2>2. gated
    BY <1>0, <2>1 DEF Requests, Asking
  <2>. QED BY <1>0, <2>1, <2>2 DEF Initiated, CallFailed, Locked, Unlocked, To
<1>2. \A g \in Goroutine : g # h => gate'[g] = gate[g] /\ gate[g] \notin Holding
  BY <1>1, Alone DEF RequestInv, TokenInv, Holding
<1>3. \A r \in Ask : Open(r)' <=> Open(r)
  BY <1>1 DEF Open
<1>4. answer.ask \in Ask /\ answer.ask # NoAsk
  BY <1>0, <1>1, NoAskIsNoRequest DEF Requests
<1>5. Waiter \in Goroutine /\ gated
  BY <1>0, <1>1 DEF Goroutine, Requests, Asking
<1>6. CASE lost' = TRUE /\ source' = source /\ gate'[h] \in {"failing", "asked"}
  BY <1>0, <1>1, <1>2, <1>3, <1>6, <1>5 DEF Requests, Holding, Asking
<1>7. CASE /\ lost' = lost
           /\ source' = [source EXCEPT !.auth = answer.ask, !.left = AskLife,
                                       !.due = TRUE, !.denied = FALSE]
  <2>1. source'.auth = answer.ask /\ source'.left = AskLife
    BY <1>0, <1>7 DEF Typed, TokensTypeOK
  <2>2. \A r \in Ask : code[r].left <= AskLife
    BY <1>0, TokenTimes, SMTT(30) DEF Typed, TokensTypeOK
  <2>3. lost \/ Owned'
    BY <1>0, <1>1, <1>2, <1>3, <2>1, <2>2, SMTT(30) DEF Requests, Owned, Holding
  <2>. QED BY <1>0, <1>1, <1>2, <1>3, <1>4, <1>7, <1>5, <2>1, <2>3, SMTT(30)
           DEF Requests, Holding, Asking
<1>. QED BY <1>1, <1>6, <1>7

\* A poll that brings a verdict ends the request.
LEMMA PollRequests ==
  ASSUME RequestInv, NEW h \in Goroutine, Poll(h)
  PROVE  Requests'
<1>0. /\ gate \in [Goroutine -> Pc] /\ Requests /\ Typed
  BY DEF RequestInv, TokenInv, Typed
<1>1. /\ gate[h] = "poll" /\ gate' = [gate EXCEPT ![h] = "polling"]
      /\ UNCHANGED <<gated, source, lost>>
  BY DEF Poll, To, outcome
<1>2. source.auth \in Ask
  BY <1>0, <1>1 DEF Requests, Typed, TokensTypeOK
<1>3. PICK verdict \in PollVerdict(source.auth) :
        /\ code' = IF verdict \in {"granted", "denied"}
                   THEN [code EXCEPT ![source.auth] =
                           [state |-> "gone", left |-> 0]] ELSE code
        /\ answer' = [kind |-> verdict, ask |-> source.auth,
                      token |-> IF verdict = "granted" THEN Fresh ELSE NoToken]
  BY DEF Poll
<1>4. verdict = "expired" => code[source.auth].state = "expired"
  BY <1>3 DEF PollVerdict
<1>5. /\ \A r \in Ask : Open(r)' => Open(r) /\ code'[r] = code[r]
      /\ verdict \in {"granted", "denied", "expired"} => ~ Open(source.auth)'
  <2>1. CASE verdict \in {"granted", "denied"}
    <3>1. code'[source.auth].state = "gone"
      BY <1>0, <1>2, <1>3, <2>1 DEF Typed, TokensTypeOK
    <3>2. \A r \in Ask : r # source.auth => code'[r] = code[r]
      BY <1>0, <1>2, <1>3, <2>1 DEF Typed, TokensTypeOK
    <3>. QED BY <1>1, <1>2, <3>1, <3>2 DEF Open
  <2>2. CASE verdict \notin {"granted", "denied"}
    BY <1>1, <1>3, <1>4, <2>2 DEF Open
  <2>. QED BY <2>1, <2>2
<1>6. /\ gate'[h] = "polling" /\ answer'.kind = verdict
      /\ \A g \in Goroutine : g # h => gate'[g] = gate[g] /\ gate[g] \notin Holding
  BY <1>1, <1>3, Alone DEF RequestInv, TokenInv, Holding
<1>7. lost \/ Owned'
  BY <1>0, <1>1, <1>5, <1>6, SMTT(30) DEF Requests, Owned, Holding
<1>. QED BY <1>0, <1>1, <1>5, <1>6, <1>7 DEF Requests, Holding, Asking

\* Minting asks nobody.
LEMMA MintRequests ==
  ASSUME RequestInv, NEW c \in Caller, Mint(c)
  PROVE  Requests'
<1>0. /\ gate \in [Goroutine -> Pc] /\ Requests /\ c \in Goroutine /\ c # Waiter
  BY WaiterIsNoCaller DEF RequestInv, TokenInv, Typed, Goroutine
<1>1. /\ gate[c] = "mint" /\ gate' = [gate EXCEPT ![c] = "polling"]
      /\ UNCHANGED <<gated, source, code, lost>>
  BY DEF Mint, To, keycloakVars, outcome
<1>2. \A r \in Ask : ~ Open(r) /\ ~ Open(r)'
  BY <1>0, <1>1 DEF Requests, Open
<1>3. /\ gate'[c] = "polling"
      /\ \A g \in Goroutine : g # c => gate'[g] = gate[g] /\ gate[g] \notin Holding
  BY <1>0, <1>1, Alone DEF RequestInv, TokenInv, Holding
<1>. QED BY <1>0, <1>1, <1>2, <1>3, SMTT(30) DEF Requests, Owned, Holding, Asking

\* The source lets go of a request only when it has ended.
LEMMA PolledRequests ==
  ASSUME RequestInv, WaiterPolled \/ \E c \in Caller : CallerPolled(c)
  PROVE  Requests'
<1>0. /\ gate \in [Goroutine -> Pc] /\ Requests /\ Typed
  BY DEF RequestInv, TokenInv, Typed
<1>1. PICK h \in Goroutine, verdict \in {answer.kind, "error"},
           pc \in {"granted", "sleep", "failing", "replying", "idle", "asked"} :
        /\ gate[h] = "polling" /\ source' = Polled(verdict)
        /\ gate' = [gate EXCEPT ![h] = pc]
        /\ UNCHANGED <<code, gated, lost>>
  <2>1. CASE WaiterPolled
    <3>1. PICK verdict \in {answer.kind, "error"} :
            /\ source' = Polled(verdict)
            /\ Unlocked(Waiter,
                        CASE verdict = "granted" -> "granted"
                          [] source'.auth # NoAsk /\ verdict # "error" -> "sleep"
                          [] OTHER -> "failing")
      BY <2>1 DEF WaiterPolled
    <3>2. \E pc \in {"granted", "sleep", "failing"} : gate' = [gate EXCEPT ![Waiter] = pc]
      <4>1. CASE verdict = "granted"
        <5>1. source'.auth = NoAsk
          BY <1>0, <3>1, <4>1 DEF Polled, Typed, TokensTypeOK
        <5>2. gate' = [gate EXCEPT ![Waiter] = "granted"]
          BY <3>1, <4>1, <5>1 DEF Unlocked, To
        <5>. QED BY <5>2
      <4>2. CASE verdict # "granted" /\ source'.auth # NoAsk /\ verdict # "error"
        <5>1. gate' = [gate EXCEPT ![Waiter] = "sleep"]
          BY <3>1, <4>2 DEF Unlocked, To
        <5>. QED BY <5>1
      <4>3. CASE verdict # "granted" /\ ~ (source'.auth # NoAsk /\ verdict # "error")
        <5>1. gate' = [gate EXCEPT ![Waiter] = "failing"]
          BY <3>1, <4>3 DEF Unlocked, To
        <5>. QED BY <5>1
      <4>. QED BY <4>1, <4>2, <4>3
    <3>. QED BY <2>1, <3>1, <3>2 DEF WaiterPolled, Goroutine, keycloakVars
  <2>2. ASSUME NEW c \in Caller, CallerPolled(c)
        PROVE  /\ c \in Goroutine /\ gate[c] = "polling"
               /\ UNCHANGED <<code, gated, lost>>
               /\ \E verdict \in {answer.kind, "error"} :
                    /\ source' = Polled(verdict)
                    /\ \E pc \in {"replying", "idle", "asked"} :
                         gate' = [gate EXCEPT ![c] = pc]
    BY <2>2 DEF CallerPolled, Goroutine, keycloakVars, Unlocked, To
  <2>. QED BY <2>1, <2>2
<1>2. /\ gate'[h] = pc
      /\ \A g \in Goroutine : g # h => gate'[g] = gate[g] /\ gate[g] \notin Holding
  BY <1>1, Alone DEF RequestInv, TokenInv, Holding
<1>3. gate'[Waiter] # "granted" => gated
  <2>1. Waiter \in Goroutine
    BY DEF Goroutine
  <2>. QED BY <1>0, <1>1, <1>2, <2>1 DEF Requests
<1>4. \A r \in Ask : Open(r)' <=> Open(r)
  BY <1>1 DEF Open
<1>5. \/ source'.auth = source.auth /\ source'.left = source.left
      \/ verdict \in {"granted", "denied", "expired"}
  BY <1>0, <1>1 DEF Polled, Typed, TokensTypeOK
<1>6. lost \/ Owned'
  <2> SUFFICES ASSUME ~ lost PROVE Owned'
    OBVIOUS
  <2>1. /\ \A g \in Goroutine : gate[g] # "opening"
        /\ \A g \in Goroutine : gate'[g] \notin Holding
    BY <1>1, <1>2 DEF Holding
  <2>2. \A r \in Ask : Open(r) => r = source.auth /\ code[r].left <= source.left
    BY <1>0, <2>1 DEF Requests, Owned
  <2>3. verdict \in {"granted", "denied", "expired"} =>
          \A r \in Ask : r = source.auth => ~ Open(r)
    BY <1>0, <1>1 DEF Requests, Owned
  <2>. QED BY <1>1, <1>4, <1>5, <2>1, <2>2, <2>3 DEF Owned, Holding
<1>. QED BY <1>0, <1>1, <1>2, <1>3, <1>4, <1>6 DEF Requests, Holding, Asking

\* A verdict in the registry opens no request, and takes nobody's away.
LEMMA OutsideRequests ==
  ASSUME RequestInv,
         \/ \E r \in Ask : \/ PollOne(r)
                           \/ \E v \in {"approved", "denied"} : Decide(r, v)
         \/ UserChanges \/ KeycloakRestarts
  PROVE  Requests'
<1>0. Requests /\ Typed
  BY DEF RequestInv, TokenInv
<1>1. UNCHANGED <<gated, source, gate, answer, lost>>
  BY DEF PollOne, Decide, UserChanges, KeycloakRestarts, outcome
<1>2. \A r \in Ask : (Open(r)' => Open(r)) /\ code'[r].left = code[r].left
  <2>1. \/ UNCHANGED code
        \/ \E r \in Ask, v \in {"approved", "denied"} :
             code' = [code EXCEPT ![r].state = IF @ = "pending" THEN v ELSE @]
    BY DEF PollOne, Decide, UserChanges, KeycloakRestarts, keycloakVars
  <2>. QED BY <1>0, <2>1, SMTT(30) DEF Open, Typed, TokensTypeOK
<1>3. lost \/ Owned'
  BY <1>0, <1>1, <1>2 DEF Requests, Owned
<1>. QED BY <1>0, <1>1, <1>2, <1>3 DEF Requests

\* Keycloak's clock and the source's run together.
LEMMA TickRequests ==
  ASSUME RequestInv, Tick
  PROVE  Requests'
<1>0. Requests /\ Typed /\ AskLife \in Nat
  BY TokenTimes DEF RequestInv, TokenInv
<1>1. /\ UNCHANGED <<gated, lost>> /\ answer'.ask = answer.ask
      /\ answer'.kind = answer.kind
  BY <1>0 DEF Tick, outcome, Typed
<1>2. /\ \A h \in Goroutine : h # Waiter => gate'[h] = gate[h]
      /\ \/ gate'[Waiter] = gate[Waiter]
         \/ gate[Waiter] = "sleep" /\ gate'[Waiter] = "check"
  BY <1>0 DEF Tick, Typed, Goroutine
<1>3. source'.auth = source.auth /\ source'.left = Less(source.left)
  <2>1. source \in [held : BOOLEAN, token : Token, auth : Ask \cup {NoAsk},
                   left : 0 .. AskLife, due : BOOLEAN, denied : BOOLEAN]
    BY <1>0 DEF Typed, TokensTypeOK
  <2>2. PICK b : source' = [source EXCEPT !.token = Aged(@), !.left = Less(@),
                                          !.due = b]
    BY DEF Tick
  <2> QED BY <2>1, <2>2
<1>4. ASSUME NEW r \in Ask, Open(r)'
      PROVE  Open(r) /\ code[r].left # 1 /\ code'[r].left = Less(code[r].left)
  BY <1>0, <1>4, SMTT(30) DEF Tick, Open, Typed, TokensTypeOK
<1>5. ASSUME NEW r \in Ask, Open(r)'
      PROVE  /\ code'[r].left # 0
             /\ code[r].left <= source.left => code'[r].left <= source'.left
  <2>1. /\ code[r].left \in 0..AskLife /\ source.left \in 0..AskLife
        /\ code[r].left # 0 /\ code[r].left # 1
    BY <1>0, <1>4, <1>5 DEF Typed, TokensTypeOK, Requests
  <2>. QED BY <1>0, <1>3, <1>4, <1>5, <2>1, SMTT(30) DEF Less
<1>6. lost \/ Owned'
  BY <1>0, <1>1, <1>2, <1>3, <1>4, <1>5, SMTT(30) DEF Requests, Owned
<1>. QED BY <1>0, <1>1, <1>2, <1>3, <1>4, <1>5, <1>6, SMTT(30) DEF Requests, Asking

\* Every step preserves the invariant.
LEMMA RequestNext ==
  ASSUME RequestInv, TokensNext
  PROVE  RequestInv'
<1>0. TokenInv /\ DenialInv'
  BY DenialNext DEF RequestInv, TokenInv
<1> SUFFICES Typed' /\ Spare' /\ Requests'
  BY <1>0 DEF RequestInv, TokenInv
<1>1. ASSUME NEW h \in Goroutine, Fetches(h) PROVE Typed' /\ Spare' /\ Requests'
  <2>1. CASE Initiate(h)
    BY <1>0, <2>1, InitiateTyped, InitiateRequests
  <2>2. CASE Initiated(h)
    BY <1>0, <2>2, InitiatedTyped, InitiatedRequests
  <2>3. CASE InitiateFails(h)
    BY <1>0, <2>3, InitiatedTyped, FailuresRequests
  <2>4. CASE Poll(h)
    <3>1. source.auth # NoAsk
      BY <2>4 DEF Poll, RequestInv, Requests
    <3>. QED BY <1>0, <2>4, <3>1, PollTyped, PollRequests
  <2>. QED BY <1>1, <2>1, <2>2, <2>3, <2>4 DEF Fetches
<1>2. ASSUME NEW c \in Caller, Calls(c) PROVE Typed' /\ Spare' /\ Requests'
  BY <1>0, <1>2, CallsTyped, CallsRequests
<1>3. ASSUME NEW c \in Caller, Holds(c) PROVE Typed' /\ Spare' /\ Requests'
  <2>0. c \in Goroutine
    BY DEF Goroutine
  <2>1. CASE CallerPolled(c)
    BY <1>0, <2>1, PolledTyped, PolledRequests
  <2>2. CASE Mint(c)
    BY <1>0, <2>0, <2>2, InitiatedTyped, MintRequests
  <2>3. CASE MintFails(c)
    BY <1>0, <2>0, <2>3, InitiatedTyped, FailuresRequests
  <2>. QED BY <1>1, <1>3, <2>0, <2>1, <2>2, <2>3 DEF Holds
<1>4. CASE Waits
  <2>0. Waiter \in Goroutine
    BY DEF Goroutine
  <2>1. CASE WaitBegins \/ WaitChecks \/ WaitFails
    BY <1>0, <2>1, WaitsTyped, WaitsRequests
  <2>2. CASE WaiterPolled
    BY <1>0, <2>2, PolledTyped, PolledRequests
  <2>. QED BY <1>1, <1>4, <2>0, <2>1, <2>2 DEF Waits
<1>5. CASE \/ \E r \in Ask : \/ PollOne(r)
                             \/ \E v \in {"approved", "denied"} : Decide(r, v)
           \/ UserChanges \/ KeycloakRestarts
  BY <1>0, <1>5, OutsideTyped, OutsideRequests
<1>6. CASE Tick
  BY <1>0, <1>6, TickTyped, TickRequests
<1>. QED BY <1>2, <1>3, <1>4, <1>5, <1>6 DEF TokensNext

\* It holds of a sidecar that starts, gated or not.
LEMMA RequestInit ==
  ASSUME NEW callers \in SUBSET Caller, NEW n \in Nat, TokensInit(callers, n)
  PROVE  RequestInv
<1>1. DenialInv
  BY WaiterIsNoCaller DEF TokensInit, DenialInv, Shapes, Excludes,
     NobodyAmidDenied, UnopenedRests, Goroutine, Holding
<1>2. 0 \in 0..AskLife /\ NoToken \in Token
  BY TokenTimes, TokenTypes, SMTT(30)
<1>3. TokensTypeOK
  <2>1. /\ code \in [Ask -> [state : {"none", "pending", "approved", "denied",
                                      "expired", "gone"}, left : 0 .. AskLife]]
        /\ source \in [held : BOOLEAN, token : Token, auth : Ask \cup {NoAsk},
                       left : 0 .. AskLife, due : BOOLEAN, denied : BOOLEAN]
    BY <1>2 DEF TokensInit
  <2>2. gated \in BOOLEAN /\ admitted \in BOOLEAN /\ stored \in BOOLEAN
    BY DEF TokensInit
  <2>. QED BY <1>2, <2>1, <2>2 DEF TokensInit, TokensTypeOK
<1>4. gate \in [Goroutine -> Pc]
  BY DEF TokensInit, Goroutine, Pc
<1>5. /\ answer \in [kind : Kind, ask : Ask \cup {NoAsk}, token : Token]
      /\ answer.kind = "none"
  BY <1>2 DEF TokensInit, NoAnswer, Kind
<1>6. \A h \in Goroutine :
        \/ gate[h] \in {"idle", "out", "granted"}
        \/ gate[h] = "begin" /\ gated
  BY DEF TokensInit, Goroutine
<1>7. Spare
  BY <1>5, <1>6 DEF Spare, Goroutine
<1>8. \A r \in Ask : ~ Open(r)
  BY DEF TokensInit, Open
<1>9. gate[Waiter] # "granted" => gated
  BY DEF TokensInit
<1>10. Requests
  BY <1>5, <1>6, <1>8, <1>9 DEF Requests, Owned, Asking
<1>. QED BY <1>1, <1>3, <1>4, <1>5, <1>7, <1>10 DEF RequestInv, TokenInv, Typed

\* It only reads the tokens' variables.
LEMMA RequestStutters ==
  ASSUME RequestInv, UNCHANGED tokenVars
  PROVE  RequestInv'
<1>1. UNCHANGED <<gated, admitted, code, link, prompt, stored, source, holder,
                  gate, answer, cache, inbound, failed, lost, surprises>>
  BY DEF tokenVars
<1>2. DenialInv'
  BY <1>1 DEF RequestInv, TokenInv, DenialInv, Shapes, Excludes,
              NobodyAmidDenied, UnopenedRests
<1>3. Typed' /\ Spare'
  BY <1>1, SMTT(30) DEF RequestInv, TokenInv, Typed, TokensTypeOK, Spare
<1>4. Requests'
  BY <1>1 DEF RequestInv, Requests, Owned, Open
<1>. QED BY <1>2, <1>3, <1>4 DEF RequestInv, TokenInv

\* The inductive invariant: mu excludes, answers and tokens carry what their
\* stage of the call calls for, and the one open request is accounted for.
THEOREM TokensInvariant == TokensSpec => []RequestInv
<1>1. (\E callers \in SUBSET Caller, n \in Nat : TokensInit(callers, n))
        => RequestInv
  BY RequestInit
<1>2. RequestInv /\ [TokensNext]_tokenVars => RequestInv'
  BY RequestNext, RequestStutters
<1>. QED BY <1>1, <1>2, PTL DEF TokensSpec

\* However /token and waitForGrant interleave, the user never has two live
\* prompts of one sidecar, unless the answer to an opening was lost.
THEOREM OneRequest == TokensSpec => []OneOutstandingRequest
<1>1. RequestInv => OneOutstandingRequest
  <2> SUFFICES ASSUME RequestInv, ~ lost
               PROVE  Cardinality({r \in Ask : Open(r)}) <= 1
    BY DEF OneOutstandingRequest, Open
  <2> DEFINE opened == {r \in Ask : Open(r)}
  <2>1. \E x : opened \subseteq {x}
    <3>1. CASE \A h \in Goroutine : gate[h] # "opening"
      BY <3>1, SMTT(30) DEF RequestInv, Requests, Owned
    <3>2. ASSUME NEW h \in Goroutine, gate[h] = "opening"
          PROVE  opened \subseteq {answer.ask}
      BY <3>2 DEF RequestInv, Requests, Owned
    <3>. QED BY <3>1, <3>2
  <2>2. PICK x : opened \subseteq {x}
    BY <2>1
  <2>. HIDE DEF opened
  <2>3. IsFiniteSet({x}) /\ Cardinality({x}) = 1
    BY FS_Singleton
  <2>4. Cardinality(opened) <= Cardinality({x})
    BY <2>2, <2>3, FS_Subset
  <2>. QED BY <2>3, <2>4 DEF opened
<1>. QED BY <1>1, TokensInvariant, PTL

\* The sidecar renews before the SDK would ask again, and what /token answers
\* outlives the SDK's buffer: no token handed to the agent has expired, unless
\* its answer was in flight for longer than that buffer.
THEOREM HandedLive == TokensSpec => []HandedTokensLive
<1>1. ASSUME NEW t \in Token, t.left > Buffer PROVE Live(t)
  <2>1. t.left \in 0..TokenLife /\ t.late \in 0..(Buffer + 1)
    BY DEF Token
  <2>. QED BY <1>1, <2>1, TokenTimes, SMTT(30) DEF Live
<1>2. RequestInv => HandedTokensLive
  <2> SUFFICES ASSUME RequestInv PROVE HandedTokensLive
    OBVIOUS
  <2>1. cache \in Token /\ \A c \in Caller : inbound[c] \in Token
    BY DEF RequestInv, TokenInv, Typed, TokensTypeOK
  <2>. QED BY <1>1, <2>1 DEF RequestInv, TokenInv, Spare, HandedTokensLive, Usable
<1>. QED BY <1>2, TokensInvariant, PTL
=============================================================================
