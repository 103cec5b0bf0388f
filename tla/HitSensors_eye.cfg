\* A frame is drawn and the model stops.
SPECIFICATION Spec
CONSTANTS
  Frames <- MCFrames
  OptionSets <- MCOptionSets
  Alphas <- MCAlphas
INVARIANTS
  FrameAsPromised
CHECK_DEADLOCK FALSE
