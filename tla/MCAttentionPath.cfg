\* Two heads of two dimensions, rows of up to three keys, two runs at any two
\* positions.
CONSTANTS
  TMax = 3
  Blank = Blank
  Heads = 2
  Runs = 2
  HD = 2
SPECIFICATION AttentionSpec
INVARIANTS
  SoftmaxIsRight
  ContextIsRight
PROPERTIES
  ImplementsScheduler
  AttentionFinishes
