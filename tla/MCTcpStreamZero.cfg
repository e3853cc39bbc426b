SPECIFICATION Spec
CONSTANTS
  FrameLen = 2
  Window = 2
  Traffics <- MCTraffics
PROPERTY ZeroBlocksForever
CHECK_DEADLOCK FALSE
