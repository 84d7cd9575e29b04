CONSTANTS
  h1 = h1
  h2 = h2
  ModHooks <- MCModHooks
  MaxDepth = 6
SPECIFICATION FairSpec
INVARIANTS
  TypeOK
  AccessAllowed
  ModHooksStay
  WorksOnce
PROPERTY HookWorks
CHECK_DEADLOCK FALSE
