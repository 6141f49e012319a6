CONSTANTS
  RingSize = 16
  HeaderLen = 1
  Fields <- MCFields
  DataLens = {2}
  OtherLens = {3}
  MinData = 2
  BufCap = 4
  IntMod = 32
  WordMod = 64
  MaxHead = 35
SPECIFICATION Spec
INVARIANTS TypeOK Whole FitsButForNew
PROPERTY SkipsOneRecord
CHECK_DEADLOCK FALSE
