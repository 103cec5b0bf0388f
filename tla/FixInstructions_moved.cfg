SPECIFICATION Spec
CONSTANTS
  Hooks <- MCHooks
  RwShift = 8388608
INVARIANT TypeOK TrampolineIsFunction FitsTrampoline
CHECK_DEADLOCK FALSE
