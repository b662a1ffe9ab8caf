SPECIFICATION SessionSpec
CONSTANTS
  NoConn = NoConn
  Conns = {c1, c2, c3}
  Mine = {c1, c2}
  MaxDrops = 1
  MaxRestarts = 1
INVARIANTS
  SingleProducer
PROPERTIES
  SlotReleasedLoudly
  CaptureGetsSlot
CHECK_DEADLOCK FALSE
