SPECIFICATION Spec
CONSTANTS
  Configs <- UniformDef
  MaxTries = 3
  MaxFaults = 4
INVARIANTS
  TypeOK
  LeftBehind
PROPERTIES
  MachineForEachTarget
