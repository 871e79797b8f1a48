CONSTANTS
  Keys <- keys
  Programs <- programs
  MaxTx = 3
  MaxBlocks = 2
  BlockSize = 2
  MaxScans = 1
SPECIFICATION Spec
INVARIANT StateIsSerial
PROPERTY ReadsAreSerial
PROPERTY PhantomsAreReal
CHECK_DEADLOCK FALSE
