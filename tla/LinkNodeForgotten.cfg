SPECIFICATION Spec
CONSTANTS
  Ids = {1, 4, 6}
  OwnIds = {4, 6}
  PeerIds = {1}
  PeerSessions = {1}
  Tempos = {1, 2}
  MinTempo = 1
  MaxTempo = 2
  Anchors = {0}
  Unmeasurable = {}
  Epsilon = 1
  NoPeer = NoPeer
  NoSession = NoSession
  NoMessage = NoMessage
  PeerTimelines <- OneTimeline
  PeerTransports <- NoTransports
  Offsets = {0}
  Beats = {0}
  NodeTempos = {1}
  Times = {}
  Silent = {1}
  SyncModes = {FALSE}
  Loopback = FALSE
  MaxOrigin = 1
  MaxNow = 0
PROPERTIES
  ForgottenSessionsMeasuredAgain
