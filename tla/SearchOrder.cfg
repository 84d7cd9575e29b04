CONSTANTS
  FileSystems <- MCFileSystems
  LibNames <- MCLibNames
SPECIFICATION Spec
INVARIANT ReverseLoadOrder
CHECK_DEADLOCK FALSE
