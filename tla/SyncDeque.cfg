SPECIFICATION Spec
CONSTANTS
  p1 = p1  p2 = p2  c1 = c1  c2 = c2
  x1 = x1  x2 = x2  x3 = x3
  Producer <- Producers
  Consumer <- Consumers
  Item <- Items
  Sizes <- LimitOrNot
INVARIANT LimitHolds
PROPERTY ItemsArrive
CHECK_DEADLOCK FALSE
