SPECIFICATION Spec
CONSTANTS
  Configs <- TieredDef
  MaxTries = 2
  MaxFaults = 0
PROPERTIES
  MachineForEachTarget
