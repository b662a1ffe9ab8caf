SPECIFICATION FairSpec
CONSTANTS
  c1 = c1
  c2 = c2
  NoConn = NoConn
  Conns = {c1}
  mic = mic
  tab = tab
  Lanes = {mic, tab}
  Capacity = 1
  MaxFrames = 2
PROPERTIES
  AcceptedIsFed
  StopTerminates
CHECK_DEADLOCK FALSE
