SPECIFICATION Spec
CONSTANTS
  w = w  r1 = r1  r2 = r2  x1 = x1  x2 = x2  x3 = x3
  none = none
  Item <- Items
  Writer <- Writers
  Reader <- Readers
SYMMETRY Symmetry
INVARIANTS VisitsStable RecyclesInTime
CHECK_DEADLOCK FALSE
