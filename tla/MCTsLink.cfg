SPECIFICATION Spec
CONSTANTS
  PacketLen = 4
  FieldLen = 5
  Capacity = 3
  NumPackets = 9
  FileLengths = {5, 6, 8}
  Fates = {"lost", "header", "garbled"}
INVARIANTS
  WrittenGenuine
  LossIsLocal
  Lossless
CHECK_DEADLOCK FALSE
