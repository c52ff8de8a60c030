SPECIFICATION Spec
CONSTANTS
  th1 = th1  th2 = th2
  Thief <- Thieves
  MaxPush = 4
  Capacity = 2
INVARIANTS TypeOK CopiesAreFresh
PROPERTIES ImplementsBag ItemsTaken
CHECK_DEADLOCK FALSE
