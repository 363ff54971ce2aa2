SPECIFICATION Spec
CONSTANTS
  Ids = {1, 4, 6, 9}
  OwnIds = {4, 6}
  PeerIds = {1, 9}
  PeerSessions = {1, 9}
  Tempos = {1, 2}
  MinTempo = 1
  MaxTempo = 2
  Anchors = {0}
  Unmeasurable = {9}
  Epsilon = 1
  NoPeer = NoPeer
  NoSession = NoSession
  NoMessage = NoMessage
  PeerTimelines <- OneTimeline
  PeerTransports <- NoTransports
  Offsets = {0, 2}
  Beats = {0}
  NodeTempos = {1}
  Times = {}
  Silent = {1}
  SyncModes = {FALSE}
  Loopback = FALSE
  MaxOrigin = 1
  MaxNow = 1
INVARIANTS
  TypeOK
  PeerCountExact
  DisabledKnowsNobody
  CurrentIsNotOther
  SnapshotCoherent
  ForeignSessionRemeasured
PROPERTIES
  SessionChangesJustified
