CONSTANTS
  Lanes = 2
  NumBlocks = 2
  MaxLen = 9
SPECIFICATION Spec
CHECK_DEADLOCK FALSE
INVARIANTS ScanTypeOK FindsFirst
