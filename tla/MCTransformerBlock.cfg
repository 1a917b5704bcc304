\* Three tokens, each after a reset: the use the simulations and the board's
\* cold starts exercise.
CONSTANTS
  Tokens = 3
  Lanes = 2
  ColdStart = TRUE
SPECIFICATION Spec
INVARIANTS
  OutputIsTheTokens
  InputsAreSettled
PROPERTIES
  TokenFinishes
