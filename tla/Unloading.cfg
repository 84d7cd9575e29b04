CONSTANTS
  lib = lib
  e1 = e1
  e2 = e2
  m1 = m1
  m2 = m2
  idA = idA
  idB = idB
  Mod <- Objects
  Id <- MCId
  Version <- MCVersion
  DeclaredInfo <- MCDeclaredInfo
  Requests <- MCRequests
  Exports <- MCExports
  Candidates <- MCCandidatesAll
  Sorted <- MCSortedAll
  Reentrant <- Nowhere
  DestroyNests = FALSE
  MaxApi = 3
  MaxDepth = 8
SPECIFICATION FairSpec
INVARIANTS
  NothingForgotten
  ListedAreOpen
PROPERTIES
  ClosedIsFinal
CHECK_DEADLOCK FALSE
