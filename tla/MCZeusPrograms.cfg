CONSTANTS
  STACK_SIZE = 4
  CALL_SIZE = 2
  MEMORY_SIZE = 4
  MAX_PACKETS = 2
  MAX_PACKET_SIZE = 2
  Blocks = {b1, b2}
  NULL = NULL
  NoDatagram = NoDatagram
  Values = {}
  Sources = {}
  Stdin = {65}
  Sockets = {3}
  Arrivals <- MCArrivals
  Programs <- PoolPrograms
  ProgramLength = 4
SPECIFICATION OneRun
INVARIANT ReturnsFollowCalls
PROPERTIES StackDiscipline ForwardProgramsStop
CHECK_DEADLOCK FALSE
