SPECIFICATION DgSpec
CONSTANTS
  Lanes = {0, 1}
  Texts = {}
  Times = {}
  MaxFinals = 2
  Fallback = 3
  MaxClock = 2
INVARIANTS
  LaneInSpokenOrder
  KeepAliveBeforeReset
CHECK_DEADLOCK FALSE
