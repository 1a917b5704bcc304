\* One source, one image and one table: compile, then run what was compiled.
CONSTANTS
  Sources = {s1}
  Images = {i1}
  Tables = {t}
  Invocations = 2
  Absent = Absent
  Torn = Torn
SPECIFICATION Spec
CHECK_DEADLOCK FALSE
INVARIANTS
  SimulatorReadsItsTable
