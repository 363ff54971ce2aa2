SPECIFICATION FairSpec
CONSTANTS
  Capacity = 2
  MaxTimers = 5
INVARIANTS
  TypeOK
  LostOnlyIfMany
PROPERTIES
  ImplementsService
  EveryTimerEnds
CHECK_DEADLOCK FALSE
