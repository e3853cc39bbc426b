SPECIFICATION Spec
CONSTANTS
  AcqWindow = 5
  WHLen = 2
  SearchRadius = 1
  PLLen = 1
  ShortLen = 8
  LongLen = 12
  Pad = 1
  NumFrames = 2
  Qualities = {"good"}
  Gaps = {0}
  Drifts = {0}
  Trail = 0
  Chunks = {12, 8}
  Disturbed = FALSE
INVARIANTS
  ShortMeansIncomplete
CHECK_DEADLOCK FALSE
