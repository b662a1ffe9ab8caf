SPECIFICATION SherpaSpec
CONSTANTS
  Lanes = {0, 1}
  Texts = {0, 1}
  Times = {0, 1}
  MaxFinals = 3
  Fallback = 3
  Provider = "cuda"
INVARIANTS
  SortedByTime
  KeepsEveryFinal
  BaselineIsEarliest
  CuesRunOn
PROPERTIES
  SilenceSaysNothing
  EventsShareTheStart
