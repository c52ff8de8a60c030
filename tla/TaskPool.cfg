SPECIFICATION Spec
CONSTANTS
  w1 = w1  w2 = w2  k1 = k1  k2 = k2  k3 = k3
  Exit = Exit  User = User
  Worker <- Workers
  Task <- Tasks
  MaxJoins = 2
INVARIANTS TypeOK WakeupsCover ExitClosures FifoOrder JobsOnce
PROPERTIES JoinTerminates ImplementsExecutor
CHECK_DEADLOCK FALSE
