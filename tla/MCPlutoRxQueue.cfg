SPECIFICATION FairSpec
CONSTANTS
  NumBlocks = 3
  MaxBlocks = 4
INVARIANTS
  TypeOK
  NoSharedSlot
  InOrder
  ReportCoherent
  BackpressureEpisodes
  ExitStatusTrue
PROPERTIES
  ImplementsChannel
  ProgramEnds
  BlocksAreTaken
