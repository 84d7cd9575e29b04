CONSTANTS
  Codes <- MCCodes
  Icalls <- MCIcalls
  Queries <- MCQueries
  MethodLength = 4
  SearchBytes = 12
  SizeModulus = 32
SPECIFICATION FairSpec
INVARIANTS
  TypeOK
  FoundIsNth
  LocationIsTrace
PROPERTY SearchEnds
CHECK_DEADLOCK FALSE
