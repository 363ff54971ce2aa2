SPECIFICATION FairSpec
CONSTANTS
  Callers = {c1, c2}
  Tempos = {1, 2}
  StartTempo = 1
  MaxPeers = 1
  QueueSize = 1
  InboxSize = 1
  Asked <- FewCommands
  Heard <- Comings
  NoCommand = NoCommand
  MaxCalls = 3
  CloseWithin = TRUE
  ClockSteps = TRUE
INVARIANTS
  TypeOK
  ReadersCurrent
PROPERTIES
  CallsReturn
  CloseCompletes
CHECK_DEADLOCK FALSE
