CONSTANTS
  MaxTerms = 1
  MaxWindows = 1
  RingSize = 3
  Typed = {"a"}
  MaxTyped = 1
  WmLives = 1
SPECIFICATION FairWmSpec
PROPERTY DirtyIsShown
CHECK_DEADLOCK FALSE
