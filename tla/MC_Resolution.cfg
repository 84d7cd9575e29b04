CONSTANTS
  FileSystems <- MCFileSystems
  LibNames <- MCLibNames
SPECIFICATION FairSpec
INVARIANTS
  TypeOK
  CopiesAreWhole
  SortedWithoutRepeats
  SortedIsClosedOrder
  LaterPhaseOnlyThroughShim
PROPERTIES
  Ends
  ImplementsResolver
  ImplementsDepthFirst
CHECK_DEADLOCK FALSE
