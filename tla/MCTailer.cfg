SPECIFICATION FairTailerSpec
CONSTANTS
  Cap = 1
  MaxWrites = 4
  MaxTruncations = 1
INVARIANT
  TailerTypeOK
PROPERTIES
  ImplementsLineStream
  EachLineArrives
CHECK_DEADLOCK FALSE
