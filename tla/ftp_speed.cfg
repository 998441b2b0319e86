CONSTANTS
  Sizes = {1, 2}
  MaxCount = 5
  Garbage = {0, 1}
SPECIFICATION Spec
INVARIANTS
  TypeOK
  EachByteReportedOnce

  
CHECK_DEADLOCK FALSE
