CONSTANTS
  old = old
  new = new
  classloader = classloader
  other = other
  data = data
  File <- MCFile
  Phases <- MCPhases
  Namespace <- MCNamespace
  Other <- MCOther
  MaxStarts = 2
SPECIFICATION FairSpecAll
INVARIANTS
  NothingStale
  LinkerTypeOK
  PathsCoverPhases
  OthersUntouched
PROPERTY StartEnds
CHECK_DEADLOCK FALSE
