CONSTANTS
  n1 = n1
  s1 = s1
  None = None
  Ids <- MCIds
  str <- MCstr
  Names = {"t", "u"}
  Records <- MCRecords
  tick_ms = 1
  idle_ms = 2
  START = 5
  MaxTime = 7
  MaxLines = 3
SPECIFICATION Spec
INVARIANTS TypeOK ResultsNameTheirCalls NothingSilentlyDropped
PROPERTIES ImplementsFeed SilenceIsNoticed
CHECK_DEADLOCK FALSE
