\* A command with one worker that may vanish while it is being sampled.
CONSTANTS
  Root = root
  Workers = {w1}
  Lines = 0
  Statuses = {0}
  None = None
SPECIFICATION Spec
CHECK_DEADLOCK FALSE
INVARIANTS
  SummaryIsWritten
