SPECIFICATION UnitsSpec
CONSTANTS
  Keys = {"A", "B", "Start", "Up"}
  MpuRegions = 2
  SubsPer = 2
  Contents = {0, 1}
  D = 4
  Block = {b1, b2, b3, b4}
  MaxBlocks = 3
  ExactFits = FALSE
  NSlots = 2
  MaxAddr = 1
  Room = 1
  CallLimit = 3
  NumLines = 3
  BarLines = 2
  QueueLimit = 2
  Picture = {"p", "q"}
  Pending = 3
  LowBanks = 2
  TopBank = 6
INVARIANTS
  UnitsTypeOK
  KeyReleased
  RepeatSucceeds MemoryCommitted
  RoundTrip NoOverrun
  AllButFirstStaged NoWriteForgotten
  LinesShown
  FlagMeansEnd XipMeansIdentified
  BusProtocol ImageInOrder
PROPERTIES LinesShownInTheEnd
