CONSTANTS
  lib = lib
  e1 = e1
  e2 = e2
  m1 = m1
  m2 = m2
  idA = idA
  idB = idB
  Mod <- Objects
  Id <- MCId
  Version <- MCVersion
  DeclaredInfo <- MCDeclaredInfo
  Requests <- MCRequests
  Exports <- MCExports
  Candidates <- MCCandidates
  Sorted <- MCSorted
  Reentrant <- RequireAnywhere
  DestroyNests = TRUE
  MaxApi = 3
  MaxDepth = 10
SPECIFICATION FairSpec
INVARIANTS
  TypeOK
  AllDelivered
  FlagsTruthful
PROPERTIES
  CallbackOnce
  StagesInOrder
  LoadedMeansReturned
  Quiesces
CHECK_DEADLOCK FALSE
