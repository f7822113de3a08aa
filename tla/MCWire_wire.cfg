SPECIFICATION Spec
CONSTANTS
  Messages <- AllMessages
  Noises = {1, 2, 4, 8, 16, 32, 64, 128, 129, 90, 255}
  MaxTouched = 400
INVARIANTS
  ReadOrSkipped
  NothingPassedOver
  FitsTheAsker
  FramesAreJudgedAlike
CHECK_DEADLOCK FALSE
