SPECIFICATION FairSpec
CONSTANTS
  Capacity = 2
  CloseCredits = 2
  MaxFrames = 5
INVARIANTS
  NoSlotRace
  EmptyOnlyAfterClose
PROPERTIES
  ImplementsChannel
  EveryFrameArrives
  CloseEndsConsumer
CHECK_DEADLOCK FALSE
