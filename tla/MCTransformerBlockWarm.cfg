\* Two tokens one after the other, with no reset between them.
CONSTANTS
  Tokens = 2
  Lanes = 2
  ColdStart = FALSE
SPECIFICATION Spec
INVARIANTS
  OutputIsTheTokens
