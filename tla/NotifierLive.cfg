SPECIFICATION Spec
CONSTANTS
  w1 = w1  w2 = w2  c1 = c1  c2 = c2
  none = none
  Waiter <- Waiters
  Caller = {c1}
  Epochs = 8
  MaxWork = 1
PROPERTIES ImplementsEventCount
