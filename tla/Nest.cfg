SPECIFICATION CloneSpec
CONSTANTS
  r = r  q = q  a = a  ai = ai  ao = ao  ri = ri  ro = ro
  t1 = t1  t2 = t2  x1 = x1  x2 = x2  x3 = x3
  none = none
  Spore <- Spores
  InPin <- InPins
  OutPin <- OutPins
  Path <- Paths
  Typed <- TypedPins
  Thread <- Threads
  Built <- Tree
  MaxCalls = 4
SYMMETRY Symmetry
INVARIANTS TypeOK HomeLists NoTwins LiveIsListed PinsListLive CloneMirrors
CHECK_DEADLOCK FALSE
