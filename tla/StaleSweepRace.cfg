SPECIFICATION StaleSpec
CONSTANTS
  Agent = {a1}
  NoAgent = NoAgent
  Faults = {"spicedb", "registry", "restart"}
  Handler = {h1}
  Gated = {}
  LongLived = {}
  MaxRebuilds = 0
PROPERTY SweepSparesBacked
CHECK_DEADLOCK FALSE
