SPECIFICATION FairSpec
CONSTANTS
  p1 = p1
  p2 = p2
  b1 = b1
  t1 = t1
  t2 = t2
  Pins <- MCPins
  BigPins <- MCBigPins
  NumChannels = 2
  TouchPins <- MCTouchPins
  MaxTouch = 2
  Tunes <- MCTune
  MaxCalls = 3
INVARIANTS PoolIsPinned TouchIsForItsPin CallbacksHeld
PROPERTY TuneEnds
CHECK_DEADLOCK FALSE
