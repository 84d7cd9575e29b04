CONSTANTS
  FileSystems <- MCFileSystems
  LibNames <- MCLibNames
SPECIFICATION LoaderFairSpec
INVARIANTS
  LoaderTypeOK
  EveryOpenRecorded
  NoRedundantDlopen
  DependenciesFirst
  InTheListOfItsPhase
PROPERTIES
  PhaseFinishes
  ImplementsLoadOrder
CHECK_DEADLOCK FALSE
