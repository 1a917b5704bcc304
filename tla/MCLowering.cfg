\* Q9.4 numbers, floats of 5 fraction bits whose exponents reach beyond 2 W.
CONSTANTS
  W = 13
  F = 4
  N = 4
  Single <- FewSingle
  Double <- FewDouble
  Unary <- UnaryOps
  Binary <- BinaryOps
  Args0 <- Inputs0
  Args1 <- Inputs1
  Tokens <- Pieces
  Signatures <- MCSignatures
  Casts <- MCCasts
  Factors = {2, 3}
  MaxValues = 4
  IntBits = 6
  CodeBits = 3
  Unit = 4
  RescaleShift = 4
  FewBits = {1, 2, 3, 4}
  Groups <- MCGroups
  Sharings <- MCSharings
  PlainRegister = "r"
  Latency = 2
  MaxRuns = 2
  Headers <- MCHeaders
  BOOT_RESET_CYCLES = 1
  TIMEOUT_CYCLES = 2
  WideBits = 3
  NarrowBits = 2
  WideConstant = 5
  NarrowConstant = 2
  VectorLength = 4
  ResultModulus = 8
  Frozen <- MCFrozen
  Variants <- MCVariants
  GRAPH_INDEX = 1
  RunIndices = {0, 1, 2}
  SourceOp <- MCSourceOp
  NotWritten = NotWritten
  HalfWritten = HalfWritten
  BridgeSwaps = 2
  BridgeKills = 1
SPECIFICATION LoweringSpec
INVARIANTS
  PairsInOrder
  ResultsAreRight
  AccessIsKept
  ArithmeticIsKept
  CapturesAreOfTheirRun
  LampsAreEarned
  BridgeIsFrozen
\* A part ends.
CHECK_DEADLOCK FALSE
