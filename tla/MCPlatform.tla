----------------------------- MODULE MCPlatform -----------------------------
(* One TLC instance for the components around the registry.  They share the  *)
(* agent records but not their steps, so a behaviour is about one of them:   *)
(* focus says which, and the others stay at rest.                            *)
EXTENDS AgentSuspension, SubstrateDispatch, SidecarTokens, MobileGateway,
        DashboardSessions, TLC

CONSTANTS l1, c1, p1, t1, o1, pat, root

VARIABLE focus

vars == <<focus, registryVars, suspensionVars, entryVars, dispatchVars,
          tokenVars, gatewayVars, dashboardVars>>

-----------------------------------------------------------------------------
(* Constants                                                                 *)

\* What may happen to a substrate in one behaviour, and how often.
Scene(d) == d @@ [h \in Happening |-> 0]
MCScenes ==
  { Scene([spawn |-> 1, dismiss |-> 1, channel |-> 1]),
    Scene([spawn |-> 1, dismiss |-> 1, call |-> 2]),
    Scene([spawn |-> 1, stop |-> 1]),
    Scene([spawn |-> 1, dismiss |-> 1, restart |-> 1]),
    Scene([spawn |-> 1, restart |-> 1, call |-> 1]),
    Scene([spawn |-> 1, dismiss |-> 1, pod |-> 1]),
    Scene([spawn |-> 1, pod |-> 2]),
    Scene([spawn |-> 1, reap |-> 1, call |-> 1]),
    Scene([spawn |-> 2, reap |-> 1, offline |-> 1]),
    Scene([spawn |-> 1, admin |-> 1, install |-> 1]),
    Scene([admin |-> 2, install |-> 1]) }
StillScene == Scene([spawn |-> 0])
AllScenes == MCScenes \cup {StillScene}

MCOwner == [d \in Phone |-> "pat"]
MCMemberOf == pat :> {o1} @@ root :> {}

-----------------------------------------------------------------------------
SubstrateRests ==
  EntriesInit(NoLeaf) /\ ~wired /\ DispatchInit /\ budget = StillScene
TokensRest == TokensInit({}, 0) /\ ~gated /\ ~stored
GatewayRests == GatewayInit(0, {}, {})
DashboardRests == DashboardInit({}, 0, 0) /\ ~subdomains

\* A substrate is connected from the start, except where it is the connecting
\* that is looked at.
SubstrateStarts ==
  /\ DispatchInit /\ budget # StillScene
  /\ EntriesInit(IF budget["spawn"] = 0 THEN NoLeaf ELSE l1)

Init ==
  /\ SuspensionInit
  /\ \/ focus = "suspension" /\ SubstrateRests /\ TokensRest /\ GatewayRests
                             /\ DashboardRests
     \/ focus = "substrate" /\ SubstrateStarts /\ TokensRest /\ GatewayRests
                            /\ DashboardRests
     \/ focus = "tokens" /\ SubstrateRests /\ GatewayRests /\ DashboardRests
          /\ \/ TokensInit({c1}, 1) /\ ~stored
             \/ TokensInit(Caller, 0) /\ stored
     \/ focus = "gateway" /\ SubstrateRests /\ TokensRest /\ DashboardRests
          /\ (\/ GatewayInit(0, Phone, {}) \/ GatewayInit(1, {p1}, {})
              \/ GatewayInit(1, {}, Stream))
     \/ focus = "dashboard" /\ SubstrateRests /\ TokensRest /\ GatewayRests
          /\ (DashboardInit({t1}, 3, 1) \/ DashboardInit(Tab, 3, 0))

-----------------------------------------------------------------------------
SuspensionFocus ==
  /\ focus = "suspension" /\ SuspensionNext
  /\ UNCHANGED <<focus, entryVars, dispatchVars, tokenVars, gatewayVars,
                 dashboardVars>>
SubstrateFocus ==
  /\ focus = "substrate" /\ SubstrateNext
  /\ UNCHANGED <<focus, suspensionVars, tokenVars, gatewayVars, dashboardVars>>
TokensFocus ==
  /\ focus = "tokens" /\ TokensNext
  /\ UNCHANGED <<focus, registryVars, suspensionVars, entryVars, dispatchVars,
                 gatewayVars, dashboardVars>>
GatewayFocus ==
  /\ focus = "gateway" /\ GatewayNext
  /\ UNCHANGED <<focus, registryVars, suspensionVars, entryVars, dispatchVars,
                 tokenVars, dashboardVars>>
DashboardFocus ==
  /\ focus = "dashboard" /\ DashboardNext
  /\ UNCHANGED <<focus, registryVars, suspensionVars, entryVars, dispatchVars,
                 tokenVars, gatewayVars>>

Next == \/ SuspensionFocus \/ SubstrateFocus \/ TokensFocus \/ GatewayFocus
        \/ DashboardFocus

-----------------------------------------------------------------------------
(* Fairness, of the component that moves                                     *)

\* Goroutines run, the dialer and the ticker keep firing, and SPIRE renews
\* what its entries allow.  Nobody is obliged to connect or to install.
OnSubstrate(A) == focus = "substrate" /\ A
SubstrateFairness ==
  /\ WF_substrateVars(OnSubstrate(OpMoves))
  /\ WF_substrateVars(OnSubstrate(ConvergeBegins))
  /\ WF_substrateVars(OnSubstrate(CallerMoves))
  /\ WF_substrateVars(OnSubstrate(HandleDown))
  /\ WF_substrateVars(OnSubstrate(NoticeClosed))
  /\ WF_substrateVars(OnSubstrate(Dial))
  /\ \A c \in Conn : WF_substrateVars(OnSubstrate(ChannelMoves(c)))
  /\ WF_substrateVars(OnSubstrate(SpireMoves))

\* Time passes; goroutines run; a goroutine waiting for a Go mutex gets it in
\* the end although others keep taking it (the mutex is starvation-free).
OnTokens(A) == focus = "tokens" /\ A
TokensFairness ==
  /\ WF_tokenVars(OnTokens(Tick))
  /\ SF_tokenVars(OnTokens(WaitBegins \/ WaitChecks))
  /\ WF_tokenVars(OnTokens(Fetches(Waiter) \/ WaiterPolled \/ WaitFails))
  /\ \A c \in Caller : WF_tokenVars(OnTokens(Holds(c)))

\* Browsers follow redirects and servers answer; nobody has to act or sign in.
DashboardFairness ==
  \A t \in Tab : WF_dashboardVars(focus = "dashboard" /\ Follows(t))

Spec ==
  /\ Init /\ [][Next]_vars
  /\ SubstrateFairness /\ TokensFairness /\ DashboardFairness
=============================================================================
