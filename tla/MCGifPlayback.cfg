SPECIFICATION Spec
CONSTANTS
  Screen = {1, 2}
  Backdrop = backdrop
  Clear = clear
  Animations <- SomeAnimations
  Before <- ScreenBefore
INVARIANTS TypeOK KeepsUp ShowsFrame
CHECK_DEADLOCK FALSE
