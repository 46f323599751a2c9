SPECIFICATION Spec
CONSTANTS
  NBlocks = 2
  NRegions = 1
  Value = {0,1}
  ClockMod = 8
  IdleLimit = 3
  Exposed = {}
INVARIANTS RestoreExact NeverOutOfMemory
