SPECIFICATION Spec
CONSTANTS
  AcqWindow = 5
  WHLen = 2
  SearchRadius = 1
  PLLen = 1
  ShortLen = 8
  LongLen = 12
  Pad = 1
  NumFrames = 3
  Qualities = {"good", "lost", "wrong"}
  Gaps = {0, 5}
  Drifts = {0}
  Trail = 10
  Chunks = {4, 7}
  Disturbed = TRUE
INVARIANTS
  TypeOK
  ReturnedOnce
  NoGoodFrameSkipped
  AfcOncePerFrame
PROPERTIES
  LockFollowsOutcomes
  EveryVerdictAdvances
CHECK_DEADLOCK FALSE
