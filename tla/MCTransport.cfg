SPECIFICATION TransportSpec
CONSTANTS
  FrameLen = 2
  Window = 2
  Traffics <- MCTraffics
  SeqModulus = 6
  NumFrames = 6
  FirstSeqs = {0, 1, 5}
  Overtaken = 3
  InboxSize = 1
INVARIANTS
  TransportTypeOK
  StreamIntact
  ZeroMeansClosed
PROPERTIES
  FramesForward
  NewerTaken
  CallsEnd
  TimedRecvEnds
CHECK_DEADLOCK FALSE
