CONSTANTS
  MAX_PACKETS = 2
  MAX_PACKET_SIZE = 2
  Blocks = {b1, b2, b3}
  NULL = NULL
  NoDatagram = NoDatagram
  Values <- MCValues
  Sources <- MCSources
SPECIFICATION NetSpec
SYMMETRY MCSymmetry
INVARIANTS NetTypeOK BuffersOwned PayloadFits
PROPERTY ImplementsPacketStore
CHECK_DEADLOCK FALSE
