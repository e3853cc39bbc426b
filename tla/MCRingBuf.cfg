SPECIFICATION Spec
CONSTANTS
  Width = 4
  Sizes = {0, 1, 2, 3, 4, 6, 8}
  Counts = {1, 2, 5}
INVARIANTS
  NoSlotShared
PROPERTIES
  ImplementsFifo
