SPECIFICATION Spec
CONSTANTS
  NBlocks = 3
  NRegions = 1
  Value = {0, 1}
  ClockMod = 4
  IdleLimit = 3
  Exposed = {}
INVARIANTS CommittedMemoryIntact
