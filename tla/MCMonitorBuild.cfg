\* A command with two workers, two stage lines and two outcomes.
CONSTANTS
  Root = root
  Workers = {w1, w2}
  Lines = 2
  Statuses = {0, 2}
  None = None
SPECIFICATION Spec
CHECK_DEADLOCK FALSE
INVARIANTS
  ExitStatusIsTheCommands
PROPERTIES
  StopsWithTheCommand
