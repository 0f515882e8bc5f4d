SPECIFICATION FairSpec
CONSTANTS
  Configs <- EmptyDef
  MaxTries = 2
  MaxFaults = 0
  MaxOrphans = 1
  Frail <- Runner
PROPERTIES
  RunEnds
