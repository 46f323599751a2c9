SPECIFICATION SlotsSpec
CONSTANTS
  NSlots = 1
  MaxAddr = 1
  Room = 1
  CallLimit = 2
INVARIANTS AllStaged
