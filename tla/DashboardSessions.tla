------------------------- MODULE DashboardSessions -------------------------
(* The dashboard as a relying party: how a browser's tabs get a session and  *)
(* keep it in the organization their address names.  Each organization lives *)
(* on a subdomain of its own; cookies are per host, Keycloak's single        *)
(* sign-on is shared by all of them, and a token names at most one           *)
(* organization.  Two loop guards keep a tab from being redirected for ever: *)
(* the server's heal cookie and the page's own sessionStorage entry.         *)
(* cmd/dashboard: auth.go, host.go, main.go and the start of index.html.     *)
EXTENDS Naturals, FiniteSets

CONSTANTS
  Org, NoOrg,       \* organizations; NoOrg is also the apex host
  Person, NoPerson, \* who may sign in
  Root,             \* the realm administrator, a member of no organization
  MemberOf,         \* the organizations of each person
  Tab,
  Session, NoSession,     \* session ids
  LoginState, NoLogin     \* the state parameters of logins under way

ASSUME DashboardConstants ==
  /\ NoOrg \notin Org /\ NoPerson \notin Person /\ Root \in Person
  /\ MemberOf \in [Person -> SUBSET Org] /\ MemberOf[Root] = {}

VARIABLES
  subdomains, \* APEX_DOMAIN is set
  sessions,   \* the session map
  logins,     \* the pending map, and the organization and mode of each login
  jar,        \* the cookies of each host
  sso,        \* who Keycloak's own session belongs to
  tab,        \* where each tab is
  visits,     \* bound: what the users still do
  upsets      \* bound: what else still happens

dashboardVars == <<subdomains, sessions, logins, jar, sso, tab, visits, upsets>>

\* resolveOrg: the host names an organization, or is the apex.
Host == IF subdomains THEN Org \cup {NoOrg} ELSE {NoOrg}
OrgOrNone == Org \cup {NoOrg}

Cookies == [session : Session \cup {NoSession},
            login : LoginState \cup {NoLogin},
            heal : OrgOrNone]
NoCookies == [session |-> NoSession, login |-> NoLogin, heal |-> NoOrg]

\* Where a tab rests until its user acts, and where it is on its way.
Rest == {"closed", "blank", "form", "page", "stopped"}
OnItsWay == {"load", "heal", "signin", "viewas", "switch", "silent", "asked",
             "code", "error", "served"}

Place == [at : Rest \cup OnItsWay, host : OrgOrNone, org : OrgOrNone,
          login : LoginState \cup {NoLogin},
          session : Session \cup {NoSession},
          person : Person \cup {NoPerson},
          tried : [OrgOrNone -> OrgOrNone]]

Nowhere == [at |-> "blank", host |-> NoOrg, org |-> NoOrg, login |-> NoLogin,
            session |-> NoSession, person |-> NoPerson,
            tried |-> [h \in OrgOrNone |-> NoOrg]]

Absent == [person |-> NoPerson, org |-> NoOrg, viewing |-> NoOrg, live |-> FALSE]

DashboardTypeOK ==
  /\ subdomains \in BOOLEAN
  /\ sessions \in [Session -> [person : Person \cup {NoPerson}, org : OrgOrNone,
                               viewing : OrgOrNone, live : BOOLEAN]]
  /\ logins \in [LoginState -> {"none", "silent", "prompted"} \X OrgOrNone]
  /\ jar \in [OrgOrNone -> Cookies]
  /\ sso \in Person \cup {NoPerson}
  /\ tab \in [Tab -> Place]
  /\ visits \in Nat /\ upsets \in Nat

DashboardInit(open, v, u) ==
  /\ subdomains \in BOOLEAN
  /\ sessions = [s \in Session |-> Absent]
  /\ logins = [l \in LoginState |-> <<"none", NoOrg>>]
  /\ jar = [h \in OrgOrNone |-> NoCookies]
  /\ sso = NoPerson
  /\ tab = [t \in Tab |-> [Nowhere EXCEPT !.at = IF t \in open THEN @ ELSE "closed"]]
  /\ visits = v /\ upsets = u

----------------------------------------------------------------------------
Exists(s) == s # NoSession /\ sessions[s].person # NoPerson
IsAdmin(s) == Exists(s) /\ sessions[s].person = Root

\* activeOrg: an administrator's is what they view, anyone else's the token's.
ActiveOrg(s) == IF ~Exists(s) THEN NoOrg
                ELSE IF IsAdmin(s) THEN sessions[s].viewing ELSE sessions[s].org

Dropped(s) == IF s = NoSession THEN sessions
              ELSE [sessions EXCEPT ![s] = Absent]

\* The next request a tab makes, with nothing of the previous one left over.
Goes(t, at, org) ==
  tab' = [tab EXCEPT ![t].at = at, ![t].org = org, ![t].login = NoLogin,
                     ![t].session = NoSession, ![t].person = NoPerson]
GoesTo(t, at, host) ==
  tab' = [tab EXCEPT ![t].at = at, ![t].host = host, ![t].org = NoOrg,
                     ![t].login = NoLogin, ![t].session = NoSession,
                     ![t].person = NoPerson]

\* A login no tab can complete any more, and a session no cookie or request
\* names, are collected (after ten minutes, after eight hours).
Held == {tab[t].login : t \in Tab}
Named == {jar[h].session : h \in OrgOrNone} \cup {tab[t].session : t \in Tab}

Collected == [l \in LoginState |-> IF l \in Held THEN logins[l] ELSE <<"none", NoOrg>>]
Reaped == [s \in Session |-> IF s \in Named THEN sessions[s] ELSE Absent]

\* The cookie of a session that is gone is as good as none.
Forgotten(map) ==
  [h \in OrgOrNone |-> IF jar[h].session # NoSession
                          /\ map[jar[h].session].person = NoPerson
                       THEN [jar[h] EXCEPT !.session = NoSession] ELSE jar[h]]

\* startAuth: remember the login, bind its state to this host's cookie, and
\* send the browser to Keycloak.
StartAuth(t, org, mode) ==
  LET l == CHOOSE l \in LoginState : l \notin Held IN
    /\ logins' = [Collected EXCEPT ![l] = <<mode, org>>]
    /\ jar' = [jar EXCEPT ![tab[t].host].login = l,
                          ![tab[t].host].session =
                              IF mode = "silent" THEN NoSession ELSE @]
    /\ tab' = [tab EXCEPT ![t].at = IF mode = "silent" THEN "silent" ELSE "asked",
                          ![t].org = org, ![t].login = l]

----------------------------------------------------------------------------
\* require: without a session a page load starts a login; with one it goes on
\* to the host check.  The session it found may be gone by then.
Require(t) ==
  LET s == jar[tab[t].host].session IN
  /\ tab[t].at = "load"
  /\ IF Exists(s)
     THEN tab' = [tab EXCEPT ![t].at = "heal", ![t].session = s]
     ELSE Goes(t, "signin", NoOrg)
  /\ UNCHANGED <<sessions, logins, jar, sso>>

HealNeverTried(h) == FALSE

HealTried(h) == jar[h].heal = h

\* selfHeal: on an organization's host a session of another organization is
\* re-scoped once; the heal cookie says it was tried.
SelfHeal(t) ==
  LET h == tab[t].host
      s == tab[t].session
      settled == h = NoOrg \/ IsAdmin(s) \/ ActiveOrg(s) = h
                 \/ HealTried(h) IN
  /\ tab[t].at = "heal"
  /\ sessions' = IF h # NoOrg /\ IsAdmin(s)
                 THEN [sessions EXCEPT ![s].viewing = h] ELSE sessions
  /\ jar' = [jar EXCEPT ![h].heal = IF settled THEN NoOrg ELSE h]
  /\ IF settled THEN Goes(t, "served", NoOrg) ELSE Goes(t, "switch", h)
  /\ UNCHANGED <<logins, sso>>

\* handleLogin: the host decides the organization, except for ?viewas=1.
HandleLogin(t) ==
  /\ \/ /\ tab[t].at = "signin"
        /\ StartAuth(t, IF tab[t].host # NoOrg THEN tab[t].host ELSE tab[t].org,
                     "prompted")
     \/ /\ tab[t].at = "viewas"
        /\ StartAuth(t, NoOrg, "prompted")
  /\ UNCHANGED <<sessions, sso>>

\* handleSwitchOrg: an administrator only changes what they view; anyone
\* else's session is dropped and the login repeated without interaction.
HandleSwitchOrg(t) ==
  LET s == jar[tab[t].host].session IN
  /\ tab[t].at = "switch"
  /\ IF IsAdmin(s)
     THEN /\ sessions' = [sessions EXCEPT ![s].viewing = tab[t].org]
          /\ Goes(t, "load", NoOrg)
          /\ UNCHANGED <<logins, jar>>
     ELSE sessions' = Dropped(s) /\ StartAuth(t, tab[t].org, "silent")
  /\ UNCHANGED sso

\* Keycloak's answer for a person it knows: a code whose token names the
\* requested organization if they belong to it, and otherwise none; on an
\* organization's own host it may refuse a stranger instead.
Issue(t, p) ==
  \/ tab' = [tab EXCEPT ![t].at = "code", ![t].person = p,
               ![t].org = IF tab[t].org \in MemberOf[p] THEN @ ELSE NoOrg]
  \/ /\ tab[t].host # NoOrg /\ tab[t].org # NoOrg /\ tab[t].org \notin MemberOf[p]
     /\ tab' = [tab EXCEPT ![t].at = "error"]

\* prompt=none without a usable session is an error, never a form.
Authorize(t) ==
  /\ \/ tab[t].at \in {"silent", "asked"} /\ sso # NoPerson /\ Issue(t, sso)
     \/ tab[t].at = "silent" /\ tab' = [tab EXCEPT ![t].at = "error"]
     \/ tab[t].at = "asked" /\ sso = NoPerson /\ tab' = [tab EXCEPT ![t].at = "form"]
  /\ UNCHANGED <<sessions, logins, jar, sso>>

\* handleCallback: the cookie must hold the state, and the state be known; a
\* silent login that failed is repeated with a form, any other is an error;
\* a code becomes a session.
HandleCallback(t) ==
  LET h == tab[t].host
      l == tab[t].login
      known == jar[h].login = l /\ logins[l][1] # "none"
      cleared == [jar EXCEPT ![h].login = IF @ = l THEN NoLogin ELSE @] IN
  /\ tab[t].at \in {"code", "error"}
  /\ logins' = IF jar[h].login = l
               THEN [logins EXCEPT ![l] = <<"none", NoOrg>>] ELSE logins
  /\ \/ /\ ~known \/ (tab[t].at = "error" /\ logins[l][1] # "silent")
        /\ Goes(t, "stopped", NoOrg)
        /\ jar' = cleared
        /\ UNCHANGED sessions
     \/ /\ known /\ tab[t].at = "error" /\ logins[l][1] = "silent"
        /\ Goes(t, "signin", logins[l][2])
        /\ jar' = cleared
        /\ UNCHANGED sessions
     \/ /\ known /\ tab[t].at = "code"
        /\ LET s == CHOOSE s \in Session : s \notin Named IN
           /\ sessions' = [Reaped EXCEPT
                 ![s] = [person |-> tab[t].person, org |-> tab[t].org,
                         viewing |-> NoOrg, live |-> sso = tab[t].person]]
           /\ jar' = [cleared EXCEPT ![h].session = s]
        /\ Goes(t, "load", NoOrg)
  /\ UNCHANGED sso

\* What the page does with the answer of its first call: a person with one
\* organization and none active is switched into it, once per tab.
Landing(t, s) ==
  LET h == tab[t].host
      mine == MemberOf[sessions[s].person]
      tried == tab[t].tried[h] IN
  IF ActiveOrg(s) # NoOrg
  THEN tab' = [tab EXCEPT ![t].at = "page", ![t].tried[h] = NoOrg]
  ELSE IF IsAdmin(s) \/ Cardinality(mine) # 1
  THEN Goes(t, "page", NoOrg)
  ELSE IF tried \in mine
  THEN Goes(t, "stopped", NoOrg)
  ELSE tab' = [tab EXCEPT ![t].at = "switch", ![t].tried[h] = CHOOSE o \in mine : TRUE,
                          ![t].org = CHOOSE o \in mine : TRUE]

\* The page's first call, GET /api/me.  A 401 sends it to log in again; a
\* session whose refresh token Keycloak rejects is dropped first.
ApiMe(t) ==
  LET h == tab[t].host
      s == jar[h].session IN
  /\ tab[t].at = "served"
  /\ \/ /\ ~Exists(s)
        /\ Goes(t, "load", NoOrg)
        /\ UNCHANGED <<sessions, jar>>
     \/ /\ Exists(s) /\ ~sessions[s].live
        /\ sessions' = Dropped(s)
        /\ jar' = [jar EXCEPT ![h].session = NoSession]
        /\ Goes(t, "load", NoOrg)
     \/ Exists(s) /\ Landing(t, s) /\ UNCHANGED <<sessions, jar>>
  /\ UNCHANGED <<logins, sso>>

Follows(t) ==
  /\ \/ Require(t) \/ SelfHeal(t) \/ HandleLogin(t) \/ HandleSwitchOrg(t)
     \/ Authorize(t) \/ HandleCallback(t) \/ ApiMe(t)
  /\ UNCHANGED <<subdomains, visits, upsets>>

----------------------------------------------------------------------------
\* What the user of a tab does: open an address, sign in at the form, pick an
\* organization (the picker's links and enterOrg of the page), or log out.
Visit(t) ==
  /\ tab[t].at \in Rest \ {"closed"}
  /\ \E h \in Host : GoesTo(t, "load", h)
  /\ UNCHANGED <<sessions, jar, logins, sso>>

SignIn(t) ==
  /\ tab[t].at = "form"
  /\ \E p \in Person : sso' = p /\ Issue(t, p)
  /\ UNCHANGED <<sessions, jar, logins>>

EnterOrg(t) ==
  LET s == jar[tab[t].host].session IN
  /\ tab[t].at = "page" /\ Exists(s)
  /\ \E o \in OrgOrNone :
       \/ ~subdomains /\ Goes(t, "switch", o)
       \/ subdomains /\ o # NoOrg
            /\ GoesTo(t, IF IsAdmin(s) THEN "viewas" ELSE "load", o)
       \/ subdomains /\ o = NoOrg /\ tab[t].host = NoOrg /\ Goes(t, "switch", o)
  /\ UNCHANGED <<sessions, jar, logins, sso>>

\* handleLogout, and Keycloak's end_session behind it.
HandleLogout(t) ==
  LET s == jar[tab[t].host].session IN
  /\ tab[t].at = "page"
  /\ sessions' = [x \in Session |-> [Dropped(s)[x] EXCEPT !.live = FALSE]]
  /\ jar' = [jar EXCEPT ![tab[t].host].session = NoSession]
  /\ sso' = NoPerson
  /\ GoesTo(t, "load", NoOrg)
  /\ UNCHANGED logins

UserActs ==
  /\ visits > 0 /\ visits' = visits - 1
  /\ \E t \in Tab : Visit(t) \/ SignIn(t) \/ EnterOrg(t) \/ HandleLogout(t)
  /\ UNCHANGED <<subdomains, upsets>>

----------------------------------------------------------------------------
\* What else happens: Keycloak's session ends; a session passes its idle
\* window; the dashboard restarts; a login or the heal cookie lapses; a call
\* to Keycloak or the orchestrator fails.
SsoEnds ==
  /\ sso # NoPerson /\ sso' = NoPerson
  /\ sessions' = [s \in Session |-> [sessions[s] EXCEPT !.live = FALSE]]
  /\ UNCHANGED <<logins, jar, tab>>

SessionLapses ==
  /\ \E s \in Session : Exists(s) /\ sessions' = Dropped(s)
  /\ jar' = Forgotten(sessions')
  /\ UNCHANGED <<logins, tab, sso>>

DashboardRestarts ==
  /\ sessions' = [s \in Session |-> Absent]
  /\ logins' = [l \in LoginState |-> <<"none", NoOrg>>]
  /\ jar' = Forgotten(sessions')
  /\ UNCHANGED <<tab, sso>>

HealCookieLapses ==
  /\ \E h \in Org : jar[h].heal # NoOrg /\ jar' = [jar EXCEPT ![h].heal = NoOrg]
  /\ UNCHANGED <<sessions, logins, tab, sso>>

CallFailsAt(t) ==
  /\ \/ tab[t].at \in {"signin", "viewas", "switch", "served"}
        /\ UNCHANGED <<logins, jar>>
     \/ /\ tab[t].at = "code" /\ jar[tab[t].host].login = tab[t].login
        /\ logins' = [logins EXCEPT ![tab[t].login] = <<"none", NoOrg>>]
        /\ jar' = [jar EXCEPT ![tab[t].host].login = NoLogin]
  /\ Goes(t, "stopped", NoOrg)
  /\ UNCHANGED <<sessions, sso>>

Upset ==
  /\ upsets > 0 /\ upsets' = upsets - 1
  /\ \/ SsoEnds \/ SessionLapses \/ DashboardRestarts \/ HealCookieLapses
     \/ \E t \in Tab : CallFailsAt(t)
  /\ UNCHANGED <<subdomains, visits>>

DashboardNext == UserActs \/ Upset \/ \E t \in Tab : Follows(t)

----------------------------------------------------------------------------
\* A page load comes to rest - on the page, on Keycloak's form or on an error
\* - and is not redirected for ever, unless another tab of the same browser is
\* too: selfHeal's heal cookie and the page's spawnly.autoOrg, each of which
\* undoes what the other one did, stop the loop ("let the app render the
\* denied/not-a-member path"), whatever other tabs left in the cookies.
NavigationSettles ==
  \A t \in Tab : (\A u \in Tab \ {t} : <>[](tab[u].at \in Rest))
                  => []<>(tab[t].at \in Rest)

============================================================================
