SPECIFICATION DeviceSpec
CONSTANTS
  Skip = 5
  Codes = {0, 1, 2, 3}
  BankMod = 16
  Reserved = 4
INVARIANTS
  DeviceTypeOK SkipBound RestoredRomUnchanged GameWhole
PROPERTIES FirstAnswered RequestsServed
