CONSTANTS
  n1 = n1
  s1 = s1
  None = None
  Ids <- MCIds
  str <- MCstr
  Names = {"t", "u"}
  Records <- WellFormedRecords
  tick_ms = 1
  idle_ms = 2
  START = 5
  MaxTime = 7
  MaxLines = 2
SPECIFICATION Spec
INVARIANT StaysAlive
CHECK_DEADLOCK FALSE
