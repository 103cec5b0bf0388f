SPECIFICATION FairSpec
CONSTANTS
  Spaces <- MCSpaces
  s_MaxModules = 3
  Functions <- MCFunctions
  HookLists <- MCHookLists
  HookMax = 10
INVARIANTS
  TypeOK
  ModulesFound
  StackOutlivesThread
  NoHandleLeft
  HandleKnown
  ClaimsMain
  CallsPassHooks
PROPERTY BootEnds
CHECK_DEADLOCK FALSE
