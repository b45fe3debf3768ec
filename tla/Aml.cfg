SPECIFICATION Spec
CONSTANTS
  Names <- MCNames
  Tables <- MCTables
  BodySize = 3
  MaxCount = 1
  FirstRoom = 3
  HID = "HID"
  ADR = "ADR"
INVARIANTS ParserSound
 
