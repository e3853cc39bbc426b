SPECIFICATION Spec
CONSTANTS
  PacketLen = 4
  FieldLen = 6
  Capacity = 3
  NumPackets = 9
  FileLengths = {7, 8}
  Fates = {"lost"}
INVARIANT ReportedSent
CHECK_DEADLOCK FALSE
