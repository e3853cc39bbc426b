SPECIFICATION PlSpec
CONSTANTS
  Indices <- AllIndices
  GoldCode = 5
  Maps <- MCMaps
  FieldLen = 7
  Turns = {1, 2}
  Reach = 1
  MaxFrames = 2
INVARIANTS
  ArraysFit
  Aligned
  FrameLengths
  GoldSequence
  HeaderSaysModcod
  FieldUndone
CHECK_DEADLOCK FALSE
