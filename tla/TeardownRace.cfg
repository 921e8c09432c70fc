SPECIFICATION DeletionSpec
CONSTANTS
  Agent = {a1, a2}
  NoAgent = NoAgent
  Faults = {}
  Handler = {}
  Gated = {}
  LongLived = {}
  maxPasses = 2
SYMMETRY Sym
INVARIANT ConvergedLeavesNothing
CHECK_DEADLOCK FALSE
