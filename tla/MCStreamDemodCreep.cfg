SPECIFICATION Spec
CONSTANTS
  AcqWindow = 5
  WHLen = 2
  SearchRadius = 1
  PLLen = 1
  ShortLen = 8
  LongLen = 12
  Pad = 1
  NumFrames = 4
  Qualities = {"good"}
  Gaps = {4}
  Drifts = {1}
  Trail = 12
  Chunks = {3, 7}
  Disturbed = FALSE
PROPERTIES
  FrameLeavesBuffer
CHECK_DEADLOCK FALSE
