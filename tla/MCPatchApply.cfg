SPECIFICATION Spec
CONSTANTS
  NAddr = 3
  Patch = {p1, p2, p3, p4}
  NULL = NULL
SYMMETRY BlockSymmetry
INVARIANTS NewestWins NothingLost SweepIsComplete
PROPERTIES PassesAgree
