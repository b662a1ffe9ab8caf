SPECIFICATION FairSpec
CONSTANTS
  Lanes = {0}
  Texts = {}
  Times = {}
  MaxFinals = 0
  Fallback = 3
  Lookback = 2
  FirstDelay = 2
  Interval = 2
  HistoryMax = 4
  MaxSpeech = 2
  Chunks = {1, 2}
  MaxSegs = 2
  MaxAudio = 5
INVARIANTS
  FlushedAtStop
  NoAudioTwice
  HeadKept
PROPERTIES
  NoStaleInterim
  StopReturns
CHECK_DEADLOCK FALSE
