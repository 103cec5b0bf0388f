SPECIFICATION Spec
CONSTANTS
  Hooks <- MCBehind
  RwShift = 8388608
INVARIANT RelativeAsBefore
CHECK_DEADLOCK FALSE
