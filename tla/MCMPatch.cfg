SPECIFICATION FairSpec
CONSTANTS
  NBlocks = 3
  NRegions = 2
  Value = {0, 1}
  ClockMod = 2
  IdleLimit = 0
  Exposed = {}
INVARIANTS TypeOK CommittedMemoryIntact BlocksAccounted
PROPERTIES EventuallyRuns ImplementsAtomic
