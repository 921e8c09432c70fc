CONSTANTS
  e1 = e1  e2 = e2  a1 = a1  a2 = a2  s1 = s1  s2 = s2
  c1 = c1  c2 = c2  r1 = r1  r2 = r2  r3 = r3
  Edge = {e1, e2}
  Agent = {a1, a2}
  NoAgent = NoAgent
  Scope = {s1, s2}
  ReqId = {r1, r2, r3}
  NoReq = NoReq
  Call = {c1, c2}
  Asks <- MCAsks
  Narrowed <- MCNarrowed
  Expiring = {e2}
SPECIFICATION Spec
SYMMETRY Symmetry
INVARIANTS TypeOK OpenIffPending
PROPERTIES RefinesBroker RevokedEdgeReprompts
CHECK_DEADLOCK FALSE
