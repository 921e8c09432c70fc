SPECIFICATION CascadeSpec
CONSTANTS
  Agent = {a1, a2, a3}
  NoAgent = NoAgent
  Faults = {"spicedb", "registry", "restart"}
  Handler = {h1}
  Patches = {"failed"}
  Started = {a1}
SYMMETRY Sym
INVARIANTS EnabledOnlyWhileLive 
CHECK_DEADLOCK FALSE
