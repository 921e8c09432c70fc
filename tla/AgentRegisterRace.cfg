SPECIFICATION CascadeSpec
CONSTANTS
  Agent = {a1}
  NoAgent = NoAgent
  Faults = {"spicedb", "registry", "restart"}
  Handler = {h1}
  Patches = {}
  Started = {a1}
PROPERTY RevokedUntilResume
CHECK_DEADLOCK FALSE
