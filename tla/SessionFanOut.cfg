SPECIFICATION Spec
CONSTANTS
  c1 = c1  c2 = c2
  k1 = k1  k2 = k2  k3 = k3  k4 = k4  k5 = k5
  entry = entry  in = in  in2 = in2  out = out
  Entry = entry
  Client <- Clients
  Pin <- Pins
  Task <- Tasks3
  Script <- LiveScript
  Processes <- TwoProcess
  Out <- FanOut
  OutPins <- FanOutPins
  MaxSends = 1
  MayThrow = TRUE
  Width = 2
PROPERTIES JoinReturns TasksEnd
CHECK_DEADLOCK FALSE
