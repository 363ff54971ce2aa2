SPECIFICATION Spec
CONSTANTS
  Ids = {1, 4, 6, 9}
  OwnIds = {4, 6}
  PeerIds = {1, 9}
  PeerSessions = {1}
  Tempos = {1, 2}
  MinTempo = 1
  MaxTempo = 2
  Anchors = {0, 1}
  Unmeasurable = {}
  Epsilon = 1
  NoPeer = NoPeer
  NoSession = NoSession
  NoMessage = NoMessage
  PeerTimelines <- RivalTimelines
  PeerTransports <- NoTransports
  Offsets = {0}
  Beats = {0}
  NodeTempos = {1}
  Times = {}
  Silent = {}
  SyncModes = {FALSE}
  Loopback = FALSE
  MaxOrigin = 2
  MaxNow = 0
INVARIANTS
  PeersNeverAhead
  ChangesAreAnnounced
PROPERTIES
  TimelineOnlyAdvances
