\* Any design on four contexts of two lanes, cases of at most three cycles.
CONSTANTS
  Lanes = 2
  CycleBound = 3
  Codes = {0, 1}
  ContextLength = 2
  Oracle <- MCOracle
  Requests <- MCRequests
  Malformed = Malformed
  Immutable = Immutable
  None = None
SPECIFICATION Spec
CHECK_DEADLOCK FALSE
INVARIANTS
  ReceiptIsEarned
  VerdictsAreTrue
PROPERTIES
  SimulationEnds
