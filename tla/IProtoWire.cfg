SPECIFICATION Spec
CONSTANTS
  Sizes = {0, 16384}
  Modulus = 49220
  Arrivals = {0, 4, 14, 16384}
  MaxArgs = 2
  MaxPackets = 2
INVARIANTS WireTypeOK InAllocation WaitsForThisPacket CursorTrue
PROPERTIES ImplementsChannel
CHECK_DEADLOCK FALSE
