SPECIFICATION ExtSpec
CONSTANTS
  MaxGen = 3
  Socks = {s1, s2}
  NoSock = NoSock
  MaxMail = 2
  MaxDrops = 1
  MaxClicks = 3
  MaxEvictions = 1
INVARIANTS
  ShownRunningIsRunning
  StopEndsEverything
  NeverStranded
  BailedLeavesNothingOn
  HelloBeforeAudio
PROPERTIES
  StartingIsLeft
CHECK_DEADLOCK FALSE
