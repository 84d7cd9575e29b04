CONSTANTS
  FileSystems <- MCFileSystems
  LibNames <- MCLibNames
SPECIFICATION LoaderSpec
INVARIANT NeverReopened
CHECK_DEADLOCK FALSE
