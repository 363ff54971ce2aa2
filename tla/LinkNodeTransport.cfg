SPECIFICATION Spec
CONSTANTS
  Ids = {1, 4, 6}
  OwnIds = {4, 6}
  PeerIds = {1}
  PeerSessions = {1, 4}
  Tempos = {1, 2}
  MinTempo = 1
  MaxTempo = 2
  Anchors = {0}
  Unmeasurable = {}
  Epsilon = 1
  NoPeer = NoPeer
  NoSession = NoSession
  NoMessage = NoMessage
  PeerTimelines <- OneTimeline
  PeerTransports <- Transports3
  Offsets = {0}
  Beats = {0}
  NodeTempos = {1}
  Times = {0, 1}
  Silent = {4, 6}
  SyncModes = {TRUE, FALSE}
  Loopback = TRUE
  MaxOrigin = 1
  MaxNow = 0
INVARIANTS
  
  ChangesAreAnnounced
PROPERTIES
  TransportOnlyAdvances
