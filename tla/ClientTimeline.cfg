SPECIFICATION Spec
CONSTANTS
  Unit = 10
  MinPerBeat = 2
  MaxPerBeat = 30
  PeerBeats = {7}
  PeerTimes = {3}
  Asked = {1, 30}
  Offsets = {3}
  Beats = {4}
  Times = {2}
  Quanta = {10, 20}
  MaxNow = 1
  MaxOrigin = 15
  MaxDrift = 30
INVARIANTS
  TypeOK
  GridAnchored
  RoundTrip
PROPERTIES
  Continuous
  FoundingContinuous
  CommitsAdvance
  ForcedBeatOccurs
