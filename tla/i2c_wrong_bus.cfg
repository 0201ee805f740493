SPECIFICATION I2CSpec
CONSTANTS
  e1 = e1
  e2 = e2
  e3 = e3
  e4 = e4
  p1 = p1
  p2 = p2
  Calls <- MCCalls
  Pins <- MCPins
SYMMETRY MCSymmetry
INVARIANT TransferUsesItsBus
