CONSTANTS
  lib = lib
  e1 = e1
  e2 = e2
  m1 = m1
  m2 = m2
  idA = idA
  idB = idB
  Mod <- Objects
  Id <- MCId
  Version <- MCVersion
  DeclaredInfo <- MCDeclaredInfo
  Requests <- MCRequests
  Exports <- MCExports
  Candidates <- MCCandidates
  Sorted <- MCSorted
  Reentrant <- UnloadAnywhere
  DestroyNests = FALSE
  MaxApi = 1
  MaxDepth = 8
SPECIFICATION Spec
INVARIANT NeverUndefined
CHECK_DEADLOCK FALSE
