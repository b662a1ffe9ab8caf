SPECIFICATION Spec
CONSTANTS
  c1 = c1
  c2 = c2
  NoConn = NoConn
  Conns = {c1, c2}
  mic = mic
  tab = tab
  Lanes = {mic, tab}
  Capacity = 1
  MaxFrames = 2
INVARIANTS
  NoBroadcastAfterReset
  EngineOutlivesWorkers
  DrainedAtStop
  NoGhostClient
PROPERTIES
  LanesAreChannels
SYMMETRY Symmetry
CHECK_DEADLOCK FALSE
