SPECIFICATION MCSpec
CONSTANTS
  Agent = {a1, a2}
  NoAgent = NoAgent
  Faults = {"registry"}
  Handler = {}
  Gated = {}
  LongLived = {a1, a2}
  maxPasses = 2

  k1 = k1
  k2 = k2
  o1 = o1
  AgentType = {k1, k2}
  ScopeOrg = {o1, o2}
  Global = Global
  Body <- MCBody
  CatalogCall = {q1, q2}
  MaxRecords = 3
SYMMETRY Sym
VIEW MCView
INVARIANTS ConvergedLeavesOnlyNewborns SpawnsFollowTheCatalog
PROPERTIES LineageFixed CatalogGuardsHold
CHECK_DEADLOCK FALSE
