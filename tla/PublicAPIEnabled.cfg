SPECIFICATION Spec
CONSTANTS
  Callers = {c1}
  Tempos = {1, 2}
  StartTempo = 1
  MaxPeers = 1
  QueueSize = 1
  InboxSize = 1
  Asked <- AllCommands
  Heard <- Comings
  NoCommand = NoCommand
  MaxCalls = 2
  CloseWithin = FALSE
  ClockSteps = FALSE
INVARIANTS
  EnabledReports
CHECK_DEADLOCK FALSE
