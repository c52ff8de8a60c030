SPECIFICATION Spec
CONSTANTS
  w1 = w1  w2 = w2  t1 = t1  t2 = t2  t3 = t3
  Client = Client  none = none
  Worker <- Workers
  Task <- Tasks
INVARIANTS TypeOK CentralIsWatched NobodyRestsPastExit
PROPERTIES DestructorReturns ImplementsExecutor
CHECK_DEADLOCK FALSE
