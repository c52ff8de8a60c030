SPECIFICATION Safe
CONSTANTS
  c1 = c1  c2 = c2
  k1 = k1  k2 = k2  k3 = k3  k4 = k4  k5 = k5
  entry = entry  in = in  in2 = in2  out = out
  Entry = entry
  Client <- Clients
  Pin <- Pins
  Task <- Tasks5
  Script <- LiveScript
  Processes <- OneProcess
  Out <- DemoOut
  OutPins <- DemoOutPins
  MaxSends = 4
  MayThrow = TRUE
  Width = 2
SYMMETRY TaskSymmetry
INVARIANTS TypeOK TaskAccounting FinishIsQuiet OnFinishOnce CallbackBeforeFinish NoLostWakeup
CHECK_DEADLOCK FALSE
