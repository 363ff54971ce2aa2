SPECIFICATION FairClientSpec
CONSTANTS
  Ui = Ui
  Callers = {Ui}
  Tempos = {1, 2}
  StartTempo = 1
  MaxPeers = 1
  QueueSize = 1
  InboxSize = 1
  Asked <- Keys
  Heard <- Comings
  NoCommand = NoCommand
  MaxCalls = 2
  CloseWithin = FALSE
  ClockSteps = TRUE
INVARIANTS
  ClientTypeOK
  NudgesAreKept
PROPERTIES
  ScreenSettles
  QuitLeaves
CHECK_DEADLOCK FALSE
