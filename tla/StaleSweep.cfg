SPECIFICATION StaleSpec
CONSTANTS
  Agent = {a1}
  NoAgent = NoAgent
  Faults = {"spicedb", "registry", "restart"}
  Handler = {h1}
  Gated = {a1}
  LongLived = {}
  MaxRebuilds = 1
INVARIANTS StaleTypeOK EnabledOnlyWhileLive
 
CHECK_DEADLOCK FALSE
