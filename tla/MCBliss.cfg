SPECIFICATION Spec
CONSTANTS
  NBlocks = 4
  MaxList = 2
INVARIANTS TypeOK CommittedPoolIntact RunningPoolIntact
