SPECIFICATION AppSpec
CONSTANTS
  Modes = {deepgram, local}
  Default = deepgram
  NoMode = NoMode
  MaxLaunches = 2
  MaxPicks = 2
INVARIANTS OneChain ShownModeRuns SettingsSurvive
PROPERTIES SwapEnds
CHECK_DEADLOCK FALSE
