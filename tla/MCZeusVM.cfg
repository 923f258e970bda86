CONSTANTS
  STACK_SIZE = 4
  CALL_SIZE = 2
  MEMORY_SIZE = 4
  MAX_PACKETS = 2
  MAX_PACKET_SIZE = 2
  Blocks = {b1, b2}
  NULL = NULL
  NoDatagram = NoDatagram
  Values = {}
  Sources = {}
  Stdin = {65}
  Sockets = {3}
  Arrivals <- MCArrivals
  Programs <- MCPrograms
SPECIFICATION Spec
INVARIANTS TypeOK ReturnsFollowCalls StopIsExplained NoPacketLeak
PROPERTIES FailureIsContained StackDiscipline RefusalsAreDeserved WritesStayInWindow ImplementsPacketStore
CHECK_DEADLOCK FALSE
