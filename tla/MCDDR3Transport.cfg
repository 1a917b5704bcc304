\* 32-bit clients, as the adapter's default, of a two-word image; the second word fails.
CONSTANTS
  ClientBytes = 4
  Words = 2
  Byte <- MCBytes
  Memory <- MCMemory
  BadWords = {1}
  None = None
  Silent = Silent
  Fault = Fault
SPECIFICATION Spec
INVARIANTS
  AnswersAreRight
PROPERTIES
  StableUnderBackpressure
  Answered
  ImplementsReadService
