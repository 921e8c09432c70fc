\* The components around the registry, one at a time.
SPECIFICATION Spec
CONSTANTS
  Agent = {a1, a2}
  NoAgent = NoAgent
  Handler = {h1, h2}
  Faults = {"registry"}
  Suspender = h2
  MaxAgentRequests = 4

  l1 = l1
  Leaf = {l1, l2, l3}
  NoLeaf = NoLeaf
  Boot = Boot
  Admin = {x1, x2}
  Conn = {k1, k2}
  NoConn = NoConn
  SendBuffer = 1
  MaxPasses = 2
  Scenes <- AllScenes

  c1 = c1
  Ask = {r1, r2}
  NoAsk = NoAsk
  Caller = {c1, c2}
  TokenLife = 2
  AskLife = 1
  Margin = 1
  Buffer = 1

  User = {"pat", "sam"}
  p1 = p1
  Phone = {p1, p2}
  Owner <- MCOwner
  Webhook = {w1, w2}
  Stream = {s1, s2}
  MaxStreams = 1
  StreamBuffer = 1

  o1 = o1
  pat = pat
  root = root
  t1 = t1
  Org = {o1, o2}
  NoOrg = NoOrg
  Person = {pat, root}
  NoPerson = NoPerson
  Root = root
  MemberOf <- MCMemberOf
  Tab = {t1, t2}
  Session = {d1, d2, d3, d4, d5, d6}
  NoSession = NoSession
  LoginState = {g1, g2}
  NoLogin = NoLogin
INVARIANTS
  SuspensionHolds
  
  HubHoldsTheLiveChannel
  WorkloadsKeepTheirIdentity
  
  OneOutstandingRequest
  HandedTokensLive
  
PROPERTIES
  ClusterFollowsRecords
  DenialIsTerminal
  VerdictReached
  NavigationSettles
CHECK_DEADLOCK FALSE
