SPECIFICATION FairSpec
CONSTANTS
  s1 = s1
  s2 = s2
  Sessions <- TwoSessions
  Offset <- FarApart
  Peers = {p1}
  MaxPoints = 2
  MaxStarts = 1
  Failed = Failed
  NoSession = NoSession
  NoMeasurer = NoMeasurer
  MaxDelay = 1
  MaxFlight = 2
  MaxChanges = 1
  StartTime = 1
  MaxNow = 2
INVARIANTS
  TypeOK
  EstimateAccurate
PROPERTIES
  ImplementsContract
