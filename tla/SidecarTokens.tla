--------------------------- MODULE SidecarTokens ---------------------------
(* How an agent gets its access token.  The SDK's TokenClient caches what    *)
(* the sidecar's /token answers; the sidecar caches what Keycloak mints.  A  *)
(* consent-gated agent's tokens come from the CIBA grant: waitForGrant opens *)
(* a backchannel request at startup and polls it, /token renews and polls it *)
(* at the same time, under one mutex held across the HTTP calls.  Keycloak's *)
(* authentication channel opens (or joins) the registry's consent request,   *)
(* and its poller carries the registry's verdict back to the device code.    *)
(* cmd/agent-sidecar (ciba.go, main.go), sdks/go and the CIBA providers of   *)
(* keycloak/providers.                                                       *)
EXTENDS Naturals, FiniteSets

CONSTANTS
  Ask, NoAsk,     \* backchannel requests; bounds how many are ever opened
  Caller,         \* goroutines of the agent that call GetToken
  TokenLife,      \* ticks a token lives; a tick is the SDK's expiryBuffer
  AskLife,        \* ticks a backchannel request stays open
  Margin,         \* ticks of life under which the sidecar renews (30 s)
  Buffer          \* ticks of life under which the SDK asks again (5 s)

ASSUME TokenTimes == /\ TokenLife \in Nat /\ AskLife \in Nat \ {0}
                     /\ Margin \in Nat /\ Buffer \in Nat
                     /\ Buffer <= Margin /\ Margin < TokenLife

VARIABLES
  gated,      \* CONSENT_REQUIRED: the agent's tokens need the user's consent
  admitted,   \* the record's status passes Keycloak's liveness gate
  code,       \* device codes in Keycloak: [state, left]
  link,       \* ConsentRequestTracker: the registry request of a code
  prompt,     \* the registry's consent requests for this spawn edge
  stored,     \* a stored consent covers the edge
  source,     \* cibaTokenSource (or tokenCache): what mu guards
  holder,     \* who holds mu
  gate,       \* where waitForGrant and each GetToken are
  answer,     \* Keycloak's answer on its way to the holder of mu
  cache,      \* the TokenClient's cached token
  inbound,    \* /token's answer on its way to a caller
  failed,     \* failOnce has run
  surprises,  \* bound: failed calls, changes of mind, restarts to come
  lost        \* history: an opened request whose answer never arrived

tokenVars == <<gated, admitted, code, link, prompt, stored, source, holder,
               gate, answer, cache, inbound, failed, lost,
               surprises>>
keycloakVars == <<code, link>>
userVars == <<admitted, prompt, stored>>
sdkVars == <<cache, inbound>>
outcome == <<failed, lost, surprises>>

Waiter == "waitForGrant"
Nobody == "nobody"
ASSUME NoAskIsNoRequest == NoAsk \notin Ask
ASSUME WaiterIsNoCaller == {Waiter, Nobody} \cap Caller = {}

\* left: the ticks its holder believes it lives; late: how much too many that
\* is, because the answer that carried it was so long in flight.
Token == [left : 0 .. TokenLife, late : 0 .. Buffer + 1]
NoToken == [left |-> 0, late |-> 0]
NoAnswer == [kind |-> "none", ask |-> NoAsk, token |-> NoToken]
Fresh == [left |-> TokenLife, late |-> 0]

TokensTypeOK ==
  /\ gated \in BOOLEAN /\ admitted \in BOOLEAN /\ stored \in BOOLEAN
  /\ code \in [Ask -> [state : {"none", "pending", "approved", "denied",
                                "expired", "gone"}, left : 0 .. AskLife]]
  /\ link \in [Ask -> Ask \cup {NoAsk}]
  /\ prompt \in [Ask -> {"none", "pending", "approved", "denied"}]
  /\ source \in [held : BOOLEAN, token : Token, auth : Ask \cup {NoAsk},
                 left : 0 .. AskLife, due : BOOLEAN, denied : BOOLEAN]
  /\ holder \in Caller \cup {Waiter, Nobody}
  /\ cache \in Token /\ inbound \in [Caller -> Token]
  /\ failed \in BOOLEAN /\ lost \in BOOLEAN
  /\ surprises \in Nat

\* callers are the goroutines that ever call; n bounds the surprises.
TokensInit(callers, n) ==
  /\ gated \in BOOLEAN
  /\ admitted = TRUE
  /\ code = [r \in Ask |-> [state |-> "none", left |-> 0]]
  /\ link = [r \in Ask |-> NoAsk]
  /\ prompt = [r \in Ask |-> "none"]
  /\ stored \in BOOLEAN
  /\ source = [held |-> FALSE, token |-> NoToken, auth |-> NoAsk, left |-> 0,
               due |-> FALSE, denied |-> FALSE]
  /\ holder = Nobody
  /\ gate = [h \in Caller \cup {Waiter} |->
               IF h = Waiter THEN IF gated THEN "begin" ELSE "granted"
               ELSE IF h \in callers THEN "idle" ELSE "out"]
  /\ answer = NoAnswer
  /\ cache = NoToken
  /\ inbound = [c \in Caller |-> NoToken]
  /\ failed = FALSE
  /\ lost = FALSE
  /\ surprises = n

Surprise == surprises > 0 /\ surprises' = surprises - 1

To(h, pc) == gate' = [gate EXCEPT ![h] = pc]

\* h goes on at pc, holding mu or not.
Locked(h, pc) == To(h, pc) /\ holder' = h
Unlocked(h, pc) == To(h, pc) /\ holder' = Nobody

-----------------------------------------------------------------------------
(* Keycloak and the registry                                                 *)

\* Keycloak opens a device code; its channel asks the registry to create the
\* consent request, or to reuse the pending one, and tracks the pair.
\* A stored consent makes the request approved from the start; a registry
\* that cannot be reached leaves the code untracked.
RequestAuthentication(r) ==
  LET pending == {o \in Ask : prompt[o] = "pending"}
  IN  /\ admitted
      /\ code[r].state = "none"
      /\ code' = [code EXCEPT ![r] = [state |-> "pending", left |-> AskLife]]
      /\ \/ Surprise /\ UNCHANGED <<link, prompt>>
         \/ /\ stored
            /\ prompt' = [prompt EXCEPT ![r] = "approved"]
            /\ link' = [link EXCEPT ![r] = r]
            /\ UNCHANGED surprises
         \/ /\ ~stored /\ pending = {}
            /\ prompt' = [prompt EXCEPT ![r] = "pending"]
            /\ link' = [link EXCEPT ![r] = r]
            /\ UNCHANGED surprises
         \/ /\ ~stored
            /\ \E o \in pending : link' = [link EXCEPT ![r] = o]
            /\ UNCHANGED <<prompt, surprises>>

\* What the token endpoint says of the polled code, and what becomes of it.
PollVerdict(r) ==
  IF ~admitted THEN {"error"}
  ELSE CASE code[r].state = "approved" -> {"granted"}
         [] code[r].state = "expired" -> {"expired", "error"}
         [] code[r].state = "gone" -> {"error"}
         [] OTHER -> {code[r].state}

\* One entry of a run of the completion poller: an expired entry is swept, an
\* unresolved one is left for the next run (a covering stored consent resolves
\* it in the registry's GET), and a verdict is carried to the code.
\* recordDurableConsent approves the approved request again: no change.
PollOne(r) ==
  LET o == link[r]
      backstop == prompt[o] = "pending" /\ stored
      verdict == IF backstop THEN "approved" ELSE prompt[o]
  IN  /\ o # NoAsk
      /\ IF code[r].state = "expired"
         THEN UNCHANGED <<code, prompt>>
         ELSE /\ verdict \in {"approved", "denied"}
              /\ prompt' = [prompt EXCEPT ![o] = verdict]
              /\ code' = [code EXCEPT ![r].state =
                            IF @ = "pending" THEN verdict ELSE @]
      /\ link' = [link EXCEPT ![r] = NoAsk]
      /\ UNCHANGED <<gated, admitted, stored, source, holder, gate, answer,
                     sdkVars, outcome>>

\* The tracker is in memory: a restart loses it.
KeycloakRestarts ==
  /\ \E r \in Ask : link[r] # NoAsk
  /\ link' = [r \in Ask |-> NoAsk]
  /\ Surprise
  /\ UNCHANGED <<gated, admitted, code, prompt, stored, source, holder, gate,
                 answer, sdkVars, failed, lost>>

\* The user answers the prompt (an approval stores the consent), consents on
\* the same edge elsewhere, revokes the consent, or the agent is revoked.
Decide(r, verdict) ==
  /\ prompt[r] = "pending"
  /\ prompt' = [prompt EXCEPT ![r] = verdict]
  /\ stored' = (stored \/ verdict = "approved")
  /\ UNCHANGED <<gated, admitted, keycloakVars, source, holder, gate, answer,
                 sdkVars, outcome>>

UserChanges ==
  /\ \/ stored' = ~stored /\ UNCHANGED admitted
     \/ admitted /\ admitted' = FALSE /\ UNCHANGED stored
  /\ Surprise
  /\ UNCHANGED <<gated, keycloakVars, prompt, source, holder, gate, answer,
                 sdkVars, failed, lost>>

-----------------------------------------------------------------------------
(* The sidecar.  h is waitForGrant or a /token request, and holds mu from    *)
(* its first look at the source to the end of its last HTTP call.            *)

\* initiate or pollOnce ended in an error that leaves the source alone.
\* waitForGrant gives up on it; /token answers 500, which the SDK retries.
CallFailed(h) ==
  Unlocked(h, IF h = Waiter THEN "failing" ELSE "asked")

\* initiate sends the backchannel request ...
Initiate(h) ==
  /\ gate[h] = "initiate"
  /\ \E r \in Ask : code[r].state = "none"
  /\ LET r == CHOOSE o \in Ask : code[o].state = "none"
     IN  /\ RequestAuthentication(r)
         /\ answer' = [NoAnswer EXCEPT !.kind = "opened", !.ask = r]
  /\ To(h, "opening")
  /\ UNCHANGED <<gated, admitted, stored, source, holder, sdkVars, failed, lost>>

\* ... whose answer sets the poll state, or is lost.  /token polls at once.
Initiated(h) ==
  /\ gate[h] = "opening"
  /\ answer' = NoAnswer
  /\ \/ /\ source' = [source EXCEPT !.auth = answer.ask, !.left = AskLife,
                                    !.due = TRUE, !.denied = FALSE]
        /\ IF h = Waiter THEN Unlocked(h, "check") ELSE Locked(h, "poll")
        /\ UNCHANGED <<lost, surprises>>
     \/ CallFailed(h) /\ Surprise /\ lost' = TRUE /\ UNCHANGED source
  /\ UNCHANGED <<gated, keycloakVars, userVars, sdkVars, failed>>

\* No credential, no connection, or Keycloak refuses the agent.
InitiateFails(h) ==
  /\ gate[h] = "initiate"
  /\ CallFailed(h)
  /\ IF admitted /\ \E r \in Ask : code[r].state = "none"
     THEN Surprise ELSE UNCHANGED surprises
  /\ UNCHANGED <<gated, keycloakVars, userVars, source, answer, sdkVars,
                 failed, lost>>

\* pollOnce redeems the request at the token endpoint: a verdict ends it.
Poll(h) ==
  /\ gate[h] = "poll"
  /\ \E verdict \in PollVerdict(source.auth) :
       /\ code' = IF verdict \in {"granted", "denied"}
                  THEN [code EXCEPT ![source.auth] =
                          [state |-> "gone", left |-> 0]] ELSE code
       /\ answer' = [kind |-> verdict, ask |-> source.auth,
                     token |-> IF verdict = "granted" THEN Fresh ELSE NoToken]
  /\ To(h, "polling")
  /\ UNCHANGED <<gated, link, userVars, source, holder, sdkVars, outcome>>

\* What pollOnce makes of the verdict.
PolledNeverExpires(verdict) ==
  CASE verdict = "granted" ->
         [source EXCEPT !.held = TRUE, !.token = answer.token, !.auth = NoAsk]
    [] verdict \in {"pending", "expired"} -> [source EXCEPT !.due = FALSE]
    [] verdict = "denied" ->
         [source EXCEPT !.auth = NoAsk, !.denied = TRUE]
    [] OTHER -> source

Polled(verdict) ==
  CASE verdict = "granted" ->
         [source EXCEPT !.held = TRUE, !.token = answer.token, !.auth = NoAsk]
    [] verdict = "pending" -> [source EXCEPT !.due = FALSE]
    [] verdict = "denied" -> [source EXCEPT !.auth = NoAsk, !.denied = TRUE]
    [] verdict = "expired" -> [source EXCEPT !.auth = NoAsk]
    [] OTHER -> source

\* waitForGrant returns the verdict, or sleeps until the next poll.
WaiterPolled ==
  /\ gate[Waiter] = "polling"
  /\ \E verdict \in {answer.kind, "error"} :
       /\ source' = Polled(verdict)
       /\ Unlocked(Waiter,
                   CASE verdict = "granted" -> "granted"
                     [] source'.auth # NoAsk /\ verdict # "error" -> "sleep"
                     [] OTHER -> "failing")
       /\ IF verdict # answer.kind THEN Surprise ELSE UNCHANGED surprises
  /\ answer' = NoAnswer
  /\ UNCHANGED <<gated, keycloakVars, userVars, sdkVars, failed, lost>>

\* failConsent, once: the record is marked failed, or the PATCH is lost.
FailConsent ==
  /\ failed' = TRUE
  /\ admitted' \in IF failed THEN {admitted} ELSE {admitted, FALSE}

\* get answers with the new token, "pending" (503, retried), "denied" (403,
\* which is terminal and not retried) or an error (500, retried).
CallerPolled(c) ==
  /\ gate[c] = "polling"
  /\ \E verdict \in {answer.kind, "error"} :
       /\ source' = Polled(verdict)
       /\ CASE verdict = "granted" ->
                 /\ Unlocked(c, "replying")
                 /\ inbound' = [inbound EXCEPT ![c] = answer.token]
                 /\ UNCHANGED <<failed, admitted>>
            [] verdict = "denied" ->
                 Unlocked(c, "idle") /\ FailConsent /\ UNCHANGED inbound
            [] OTHER ->
                 Unlocked(c, "asked") /\ UNCHANGED <<failed, admitted, inbound>>
       /\ IF verdict # answer.kind THEN Surprise ELSE UNCHANGED surprises
  /\ answer' = NoAnswer
  /\ UNCHANGED <<gated, keycloakVars, prompt, stored, cache, lost>>

\* waitForGrant: an early /token call may have opened the request, polled the
\* grant or the denial already.
NothingYetAssumed == TRUE

NothingYet == source.auth = NoAsk /\ ~source.held /\ ~source.denied

WaitBegins ==
  /\ gate[Waiter] = "begin" /\ holder = Nobody
  /\ IF NothingYet
     THEN Locked(Waiter, "initiate") ELSE Unlocked(Waiter, "check")
  /\ UNCHANGED <<gated, keycloakVars, userVars, source, answer, sdkVars,
                 outcome>>

WaitChecks ==
  /\ gate[Waiter] = "check" /\ holder = Nobody
  /\ CASE source.denied -> Unlocked(Waiter, "failing")
       [] ~source.denied /\ source.held -> Unlocked(Waiter, "granted")
       [] ~source.denied /\ ~source.held /\ source.auth = NoAsk ->
            Unlocked(Waiter, "failing")
       [] OTHER -> Locked(Waiter, "poll")
  /\ UNCHANGED <<gated, keycloakVars, userVars, source, answer, sdkVars,
                 outcome>>

WaitFails ==
  /\ gate[Waiter] = "failing"
  /\ FailConsent
  /\ To(Waiter, "failed")
  /\ UNCHANGED <<gated, keycloakVars, prompt, stored, source, holder, answer,
                 sdkVars, lost, surprises>>

\* GET /token: get of the CIBA source, or of the client_credentials cache,
\* which mints instead of asking.  A denial is never asked about again.
AskableAlways == TRUE

Askable == ~source.denied

Get(c) ==
  /\ gate[c] = "asked" /\ holder = Nobody /\ Askable
  /\ \/ /\ source.held /\ source.token.left > Margin
        /\ inbound' = [inbound EXCEPT ![c] = source.token]
        /\ Unlocked(c, "replying")
     \/ /\ source.held => source.token.left <= Margin
        /\ UNCHANGED inbound
        /\ \/ ~gated /\ Locked(c, "mint")
           \/ /\ gated /\ (source.auth = NoAsk \/ source.left = 0)
              /\ Locked(c, "initiate")
           \/ /\ gated /\ source.auth # NoAsk /\ source.left > 0 /\ source.due
              /\ Locked(c, "poll")
  /\ UNCHANGED <<gated, keycloakVars, userVars, source, answer, cache, outcome>>

GetDenied(c) ==
  /\ gate[c] = "asked" /\ holder = Nobody /\ source.denied
  /\ FailConsent
  /\ Unlocked(c, "idle")
  /\ UNCHANGED <<gated, keycloakVars, prompt, stored, source, answer, sdkVars,
                 lost, surprises>>

Mint(c) ==
  /\ gate[c] = "mint" /\ admitted
  /\ answer' = [NoAnswer EXCEPT !.kind = "granted", !.token = Fresh]
  /\ To(c, "polling")
  /\ UNCHANGED <<gated, keycloakVars, userVars, source, holder, sdkVars,
                 outcome>>

MintFails(c) ==
  /\ gate[c] = "mint"
  /\ CallFailed(c)
  /\ IF admitted THEN Surprise ELSE UNCHANGED surprises
  /\ UNCHANGED <<gated, keycloakVars, userVars, source, answer, sdkVars,
                 failed, lost>>

-----------------------------------------------------------------------------
(* The SDK and time                                                          *)

\* GetToken hands out the cached token while it is usable (which changes
\* nothing) and otherwise asks the sidecar, again on 5xx until the deadline.
UsableToTheEnd(t) == t.left > 0

Usable(t) == t.left > Buffer

GetToken(c) ==
  /\ gate[c] = "idle"
  /\ ~Usable(cache)
  /\ To(c, "asked")
  /\ UNCHANGED <<gated, keycloakVars, userVars, source, holder, answer,
                 sdkVars, outcome>>

GiveUp(c) ==
  /\ gate[c] = "asked"
  /\ To(c, "idle")
  /\ UNCHANGED <<gated, keycloakVars, userVars, source, holder, answer,
                 sdkVars, outcome>>

TokenArrives(c) ==
  /\ gate[c] = "replying"
  /\ cache' = inbound[c]
  /\ inbound' = [inbound EXCEPT ![c] = NoToken]
  /\ To(c, "idle")
  /\ UNCHANGED <<gated, keycloakVars, userVars, source, holder, answer,
                 outcome>>

Less(n) == IF n = 0 THEN 0 ELSE n - 1
\* A token at rest, and one on its way: expires_in does not count down there.
Aged(t) == IF t.left <= 1 THEN NoToken ELSE [t EXCEPT !.left = @ - 1]
Delayed(t) ==
  [t EXCEPT !.late = IF t = NoToken \/ @ > Buffer THEN @ ELSE @ + 1]

\* waitForGrant's sleep is over after a tick; slow_down may put the shared
\* nextPoll off for longer.
Tick ==
  /\ code' = [r \in Ask |->
                IF code[r].left = 1 THEN [state |-> "expired", left |-> 0]
                ELSE [code[r] EXCEPT !.left = Less(@)]]
  /\ source' \in {[source EXCEPT !.token = Aged(@), !.left = Less(@), !.due = b]
                  : b \in {source.due, source.auth # NoAsk}}
  /\ answer' = [answer EXCEPT !.token = Delayed(@)]
  /\ cache' = Aged(cache)
  /\ inbound' = [c \in Caller |-> Delayed(inbound[c])]
  /\ gate' = [gate EXCEPT ![Waiter] = IF @ = "sleep" THEN "check" ELSE @]
  /\ UNCHANGED <<gated, link, userVars, holder, outcome>>

-----------------------------------------------------------------------------
Fetches(h) == Initiate(h) \/ Initiated(h) \/ InitiateFails(h) \/ Poll(h)
Calls(c) == \/ GetToken(c) \/ Get(c) \/ GetDenied(c) \/ GiveUp(c)
            \/ TokenArrives(c)
Holds(c) == Fetches(c) \/ CallerPolled(c) \/ Mint(c) \/ MintFails(c)
Waits == WaitBegins \/ WaitChecks \/ Fetches(Waiter) \/ WaiterPolled \/ WaitFails

TokensNext ==
  \/ \E c \in Caller : Calls(c) \/ Holds(c)
  \/ Waits
  \/ \E r \in Ask : PollOne(r) \/ \E v \in {"approved", "denied"} : Decide(r, v)
  \/ UserChanges \/ KeycloakRestarts \/ Tick

-----------------------------------------------------------------------------
(* Properties                                                                *)

\* "At most one outstanding backchannel request": whatever waitForGrant and
\* /token interleave, the user never has two live prompts of this sidecar
\* (unless the answer to an opening was lost).
OneOutstandingRequest ==
  lost \/ Cardinality({r \in Ask : code[r].state \in {"pending", "approved"}})
            <= 1

\* A denial is terminal: once a poll has brought it, /token opens no further
\* request and hands out no token, however many callers retry.
DenialIsTerminal ==
  [][source.denied =>
       /\ source'.denied
       /\ \A r \in Ask : code[r].state = "none" => code'[r].state = "none"
       /\ \A c \in Caller : gate[c] # "replying" => gate'[c] # "replying"
    ]_tokenVars

\* Two caches in a row never hand the agent an expired token, as long as the
\* answers that carried it were in flight for no longer than the SDK's buffer.
Live(t) == t.left > t.late \/ t.late > Buffer

HandedTokensLive ==
  /\ Usable(cache) => Live(cache)
  /\ \A c \in Caller : gate[c] = "replying" => Live(inbound[c])

\* waitForGrant reaches a verdict (approved, denied, expired or failed), and
\* no later poll of /token undoes it.
VerdictReached == <>[](gate[Waiter] \in {"granted", "failed"})
=============================================================================
