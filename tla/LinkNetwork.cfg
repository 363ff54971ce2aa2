SPECIFICATION FairSpec
CONSTANTS
  Nodes <- TwoNodes
  Ids = {1, 2, 3, 4, 5, 6}
  StartIds <- Middle
  Instants = {0, 2}
  Epsilon = 1
  Tempos = {1, 2}
  NodeTempos = {1, 2}
  MinTempo = 1
  MaxTempo = 2
  StartTempo <- OwnTempo
  MissCost = 2
  MaxSpent = 2
  NoPeer = NoPeer
  NoSession = NoSession
  NoMessage = NoMessage
  OwnIds <- Interleaved
  Anchors = {0}
  Unmeasurable = {}
  Skew <- Ahead
  Beats = {0}
INVARIANTS
  TypeOK
  SameSessionSameClock
  OriginIdentifiesTimeline
PROPERTIES
  Converges
  
