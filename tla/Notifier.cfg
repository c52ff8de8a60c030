INIT Init
NEXT Next
CONSTANTS
  w1 = w1  w2 = w2  c1 = c1  c2 = c2
  none = none
  Waiter <- Waiters
  Caller <- Callers
  Epochs = 8
  MaxWork = 1
SYMMETRY Symmetry
INVARIANTS TurnsInOrder SleepersHeld NoMissedWork
PROPERTIES NoFullCircle ImplementsEventCountSafely
