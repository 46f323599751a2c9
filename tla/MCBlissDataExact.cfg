SPECIFICATION DataSpec
CONSTANTS
  D = 4
  Block = {b1, b2, b3, b4}
  MaxBlocks = 3
  ExactFits = TRUE
INVARIANT RoundTrip
