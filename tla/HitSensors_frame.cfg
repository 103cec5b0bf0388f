\* A frame is drawn and the model stops.
SPECIFICATION Spec
CONSTANTS
  Frames <- MCFrames
  OptionSets <- MCOptionSets
  Alphas <- MCAlphas
INVARIANTS
  TypeOK
  VisibleIsAsked
  EyesHideOnlyTheirOwn
CHECK_DEADLOCK FALSE
