\* Expected to fail: see the README.
SPECIFICATION ByeSpec
CONSTANTS
  NoConn = NoConn
  Conns = {c1, c2}
  Lanes = {mic}
  Capacity = 1
  MaxFrames = 1
PROPERTIES
  SecondGoneIsHarmless
CHECK_DEADLOCK FALSE
