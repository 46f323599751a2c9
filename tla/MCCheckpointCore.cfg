SPECIFICATION FairSpec
CONSTANTS
  N = 3
  Shared <- MCShared
  Value <- MCValue
  ClockMod = 4
INVARIANTS TypeOK RestoreConsistent AvailableMeansCommitted
PROPERTIES RestoreSlotStable EventuallyRuns ImplementsAtomic
