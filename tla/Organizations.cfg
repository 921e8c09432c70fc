CONSTANTS
  o1 = o1
  o2 = o2
  User = {u1, root}
  Org = {o1, o2}
  Client = {c1, c2}
  Platform = Platform
  Nobody = Nobody
  Root = root
  Account = {a1, a2}
  MaxOrgs = 2
  Mixes <- MCMixes
SYMMETRY Sym
SPECIFICATION Spec
INVARIANTS
  
  TagMeansMember
  AccessMeansMember
  ActiveAnchorProven
  UnwindLeavesNothing
  SatelliteUrisKept
PROPERTIES
  OnlyEnableLiftsSuspension
  RefinesAccounts
CHECK_DEADLOCK FALSE
