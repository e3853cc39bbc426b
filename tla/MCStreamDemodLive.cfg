SPECIFICATION FairSpec
CONSTANTS
  AcqWindow = 5
  WHLen = 2
  SearchRadius = 1
  PLLen = 1
  ShortLen = 8
  LongLen = 12
  Pad = 1
  NumFrames = 3
  Qualities = {"good", "bad", "lost"}
  Gaps = {4}
  Drifts <- MCDrifts
  Trail = 12
  Chunks = {3}
  Disturbed = FALSE
PROPERTIES
  GoodFramesArrive
CHECK_DEADLOCK FALSE
