------------------------- MODULE ClientTimelineProofs -------------------------
(* Theorems about ClientTimeline, for every value of its constants. *)
EXTENDS ClientTimeline, TLAPS

-----------------------------------------------------------------------------
(* Rounding. *)

\* Rounding gives an integer.
LEMMA LLRoundType ==
  ASSUME NEW n \in Int, NEW d \in Nat \ {0}
  PROVE  LLRound(n, d) \in Int
BY DEF LLRound

\* Rounding is symmetric about 0, as math.Round is.
LEMMA LLRoundOdd ==
  ASSUME NEW n \in Int, NEW d \in Nat \ {0}
  PROVE  LLRound(-n, d) = -LLRound(n, d)
<1>1. CASE n > 0
  <2>1. d - 2 * (-n) = 2 * n + d
    BY <1>1
  <2> QED BY <1>1, <2>1 DEF LLRound
<1>2. CASE n = 0
  <2>1. d \div (2 * d) = 0
    OBVIOUS
  <2> QED BY <1>2, <2>1 DEF LLRound
<1>3. CASE n < 0
  <2>1. 2 * (-n) + d = d - 2 * n
    BY <1>3
  <2> QED BY <1>3, <2>1 DEF LLRound
<1> QED BY <1>1, <1>2, <1>3

\* Nothing is rounded to nothing.
LEMMA LLRoundZero ==
  ASSUME NEW d \in Nat \ {0}
  PROVE  LLRound(0, d) = 0
<1>1. d \div (2 * d) = 0
  OBVIOUS
<1> QED BY <1>1 DEF LLRound

-----------------------------------------------------------------------------
(* The types of the arithmetic. *)

\* A phase is an integer, for the quantum 0 too.
LEMMA PhaseType ==
  ASSUME NEW b \in Int, NEW q \in Nat
  PROVE  Phase(b, q) \in Int
BY DEF Phase, Magnitude

\* The phase matches of beats are beats.
LEMMA PhaseMatchType ==
  ASSUME NEW x \in Int, NEW b \in Int, NEW q \in Nat \ {0}
  PROVE  /\ NextPhaseMatch(x, b, q) \in Int
         /\ ClosestPhaseMatch(x, b, q) \in Int
<1>1. ASSUME NEW y \in Int PROVE NextPhaseMatch(y, b, q) \in Int
  <2>1. Phase(b, q) \in Int /\ Phase(y, q) \in Int
    BY PhaseType
  <2> QED BY <2>1 DEF NextPhaseMatch
<1>2. Half(q) \in Int
  <2>1. 2 * Unit \in Nat \ {0}
    BY UnitAssumption
  <2> QED BY <2>1, LLRoundType DEF Half
<1> QED BY <1>1, <1>2 DEF ClosestPhaseMatch

\* Every value of a tempo asked for is clamped into the range.
LEMMA ClampTempoType ==
  ASSUME NEW m \in Int
  PROVE  ClampTempo(m) \in PerBeats
BY UnitAssumption DEF ClampTempo, PerBeats

\* A timeline with any tempo, clamped or not.
AnyTimelines == [perBeat : Nat \ {0}, beat : Int, time : Int]

\* A clamped tempo is a tempo.
LEMMA TimelinesAreAny == Timelines \subseteq AnyTimelines
BY UnitAssumption DEF Timelines, AnyTimelines, PerBeats

\* ToBeats and FromBeats convert between integers.
LEMMA ConversionTypes ==
  ASSUME NEW tl \in AnyTimelines, NEW v \in Int
  PROVE  ToBeats(tl, v) \in Int /\ FromBeats(tl, v) \in Int
<1>1. /\ (v - tl.time) * Unit \in Int /\ (v - tl.beat) * tl.perBeat \in Int
      /\ tl.perBeat \in Nat \ {0} /\ Unit \in Nat \ {0}
      /\ tl.beat \in Int /\ tl.time \in Int
  BY UnitAssumption DEF AnyTimelines
<1> QED BY <1>1, LLRoundType, SMTT(60) DEF ToBeats, FromBeats

\* So do the phase-encoded conversions, for a quantum other than 0.
LEMMA EncodingTypes ==
  ASSUME NEW tl \in AnyTimelines, NEW v \in Int, NEW q \in Nat \ {0}
  PROVE  ToPhaseEncodedBeats(tl, v, q) \in Int /\ FromPhaseEncodedBeats(tl, v, q) \in Int
<1>1. tl.beat \in Int
  BY DEF AnyTimelines
<1>2. ToPhaseEncodedBeats(tl, v, q) \in Int
  <2> DEFINE raw == ToBeats(tl, v)
  <2>1. raw \in Int
    BY ConversionTypes
  <2> HIDE DEF raw
  <2>2. raw - tl.beat \in Int
    BY <1>1, <2>1
  <2>3. ClosestPhaseMatch(raw, raw - tl.beat, q) \in Int
    BY <2>1, <2>2, PhaseMatchType
  <2> QED BY <2>3 DEF ToPhaseEncodedBeats, raw
<1>3. FromPhaseEncodedBeats(tl, v, q) \in Int
  <2> DEFINE phase  == Phase(v - tl.beat, q)
             offset == ClosestPhaseMatch(q - phase, q - Phase(v, q), q)
  <2>1. phase \in Int /\ Phase(v, q) \in Int
    BY <1>1, PhaseType
  <2> HIDE DEF phase
  <2>2. offset \in Int
    BY <2>1, PhaseMatchType
  <2> HIDE DEF offset
  <2>3. FromBeats(tl, v - phase + q - offset) \in Int
    BY <2>1, <2>2, ConversionTypes
  <2> QED BY <2>3 DEF FromPhaseEncodedBeats, phase, offset
<1> QED BY <1>2, <1>3

\* Forcing a beat keeps a timeline a timeline, with its tempo (timeline.go:102).
LEMMA ForceType ==
  ASSUME NEW tl \in Timelines, NEW b \in Int, NEW t \in Int, NEW q \in Nat \ {0}
  PROVE  ForceBeatAtTimeImpl(tl, b, t, q) \in Timelines
<1> DEFINE current == ToPhaseEncodedBeats(tl, t, q)
           closest == ClosestPhaseMatch(current, b, q)
           shift   == closest - current
<1>1. tl \in AnyTimelines
  BY TimelinesAreAny
<1>2. current \in Int
  BY <1>1, EncodingTypes
<1>3. closest \in Int
  BY <1>2, PhaseMatchType
<1> HIDE DEF current, closest
<1>4. FromBeats(tl, shift) \in Int /\ FromBeats(tl, 0) \in Int
  BY <1>1, <1>2, <1>3, ConversionTypes
<1>5. ShiftClientTimeline(tl, shift) \in Timelines
  BY <1>4 DEF ShiftClientTimeline, Timelines
<1>6. [ShiftClientTimeline(tl, shift) EXCEPT !.beat = @ + b - closest] \in Timelines
  BY <1>3, <1>5 DEF Timelines
<1> QED BY <1>6 DEF ForceBeatAtTimeImpl, current, closest

\* The client's timeline after a change of the session is a timeline (timeline.go:73).
LEMMA FromSessionType ==
  ASSUME NEW c \in Timelines, NEW s \in Timelines, NEW t \in Int, NEW x \in Int
  PROVE  UpdateClientTimelineFromSession(c, s, t, x) \in Timelines
<1> DEFINE zero == GhostToHost(x, FromBeats(s, 0))
           here == [perBeat |-> s.perBeat, beat |-> ToBeats(c, t), time |-> t]
<1>1. zero \in Int
  BY TimelinesAreAny, ConversionTypes DEF GhostToHost
<1>2. ToBeats(c, t) \in Int
  BY TimelinesAreAny, ConversionTypes
<1>3. here \in Timelines
  BY <1>2 DEF Timelines
<1> HIDE DEF zero, here
<1>4. ToBeats(here, zero) \in Int
  BY <1>1, <1>3, TimelinesAreAny, ConversionTypes
<1>5. [perBeat |-> s.perBeat, beat |-> ToBeats(here, zero), time |-> zero] \in Timelines
  BY <1>1, <1>4 DEF Timelines
<1> QED BY <1>5 DEF UpdateClientTimelineFromSession, zero, here

\* The session's timeline after a change of the client is a timeline (timeline.go:83).
LEMMA FromClientType ==
  ASSUME NEW s \in Timelines, NEW c \in Timelines, NEW t \in Int, NEW x \in Int
  PROVE  UpdateSessionTimelineFromClient(s, c, t, x) \in Timelines
<1> DEFINE zero   == HostToGhost(x, c.time)
           at     == ToBeats(s, HostToGhost(x, t))
           origin == IF at < s.beat + 1 THEN s.beat + 1 ELSE at
           from0  == [perBeat |-> c.perBeat, beat |-> 0, time |-> zero]
<1>1. zero \in Int /\ HostToGhost(x, t) \in Int /\ s.beat \in Int
  BY DEF HostToGhost, Timelines
<1>2. at \in Int
  BY <1>1, TimelinesAreAny, ConversionTypes
<1> HIDE DEF zero, at
<1>3. origin \in Int
  BY <1>1, <1>2
<1>4. from0 \in Timelines
  BY <1>1 DEF Timelines
<1> HIDE DEF origin, from0
<1>5. FromBeats(from0, origin) \in Int
  BY <1>3, <1>4, TimelinesAreAny, ConversionTypes
<1>6. [perBeat |-> c.perBeat, beat |-> origin, time |-> FromBeats(from0, origin)] \in Timelines
  BY <1>3, <1>5 DEF Timelines
<1> QED BY <1>6 DEF UpdateSessionTimelineFromClient, zero, at, origin, from0

-----------------------------------------------------------------------------
(* Type correctness. *)

\* updateSessionTiming clamps whatever tempo it is given.
LEMMA UpdateSessionTimingType ==
  ASSUME TypeOK, NEW c \in Timelines, NEW tl \in AnyTimelines, NEW x \in Int,
         UpdateSessionTiming(c, tl, x)
  PROVE  /\ session' \in Timelines /\ client' \in Timelines /\ shown' \in Timelines
         /\ xform' \in Int
<1> DEFINE new == [tl EXCEPT !.perBeat = ClampTempo(@)]
<1>1. new \in Timelines
  <2>1. ClampTempo(tl.perBeat) \in PerBeats
    BY ClampTempoType DEF AnyTimelines
  <2> QED BY <2>1 DEF AnyTimelines, Timelines
<1>2. session' = new /\ xform' = x
  BY DEF UpdateSessionTiming
<1>3. \/ client' = c /\ UNCHANGED shown
      \/ client' = UpdateClientTimelineFromSession(c, new, now, x) /\ shown' = client'
  BY DEF UpdateSessionTiming
<1> HIDE DEF new
<1>4. UpdateClientTimelineFromSession(c, new, now, x) \in Timelines
  BY <1>1, FromSessionType DEF TypeOK
<1> QED BY <1>1, <1>2, <1>3, <1>4 DEF TypeOK

\* A commit of any timeline of the client keeps the types.
LEMMA CommitType ==
  ASSUME TypeOK, NEW c \in Timelines, NEW at \in Int, CommitClientTimeline(c, at)
  PROVE  /\ session' \in Timelines /\ client' \in Timelines /\ shown' \in Timelines
         /\ xform' \in Int
<1>1. UpdateSessionTimelineFromClient(session, c, at, xform) \in AnyTimelines
  BY FromClientType, TimelinesAreAny DEF TypeOK
<1> QED BY <1>1, UpdateSessionTimingType DEF CommitClientTimeline, TypeOK

\* Peers announce timelines of any tempo.
LEMMA AnnouncedType == Announced \subseteq AnyTimelines
BY ClientTimelineAssumption DEF Announced, AnyTimelines

\* The timeline a node founds a session with.
LEMMA FoundedType ==
  ASSUME TypeOK
  PROVE  [perBeat |-> session.perBeat,
          beat |-> ToBeats(session, HostToGhost(xform, GhostToHost(-now, 0))),
          time |-> HostToGhost(-now, GhostToHost(-now, 0))] \in AnyTimelines
<1>1. /\ HostToGhost(xform, GhostToHost(-now, 0)) \in Int
      /\ HostToGhost(-now, GhostToHost(-now, 0)) \in Int
  BY DEF TypeOK, HostToGhost, GhostToHost
<1>2. session \in AnyTimelines
  BY TimelinesAreAny DEF TypeOK
<1>3. ToBeats(session, HostToGhost(xform, GhostToHost(-now, 0))) \in Int
  BY <1>1, <1>2, ConversionTypes
<1> QED BY <1>1, <1>2, <1>3 DEF AnyTimelines

\* The timeline a tempo change asks for is one, whatever the tempo.
LEMMA AskedType ==
  ASSUME TypeOK, NEW m \in Asked, NEW at \in Times
  PROVE  AskedTimeline(m, at) \in Timelines
<1> DEFINE desired == [perBeat |-> ClampTempo(m), beat |-> ToBeats(client, at), time |-> at]
<1>1. at \in Int /\ ClampTempo(m) \in PerBeats /\ client.beat \in Int
  BY ClientTimelineAssumption, ClampTempoType DEF TypeOK, Timelines
<1>2. ToBeats(client, at) \in Int
  BY <1>1, TimelinesAreAny, ConversionTypes DEF TypeOK
<1>3. desired \in Timelines
  BY <1>1, <1>2 DEF Timelines
<1>4. FromBeats(desired, client.beat) \in Int /\ desired.perBeat \in PerBeats
  <2> HIDE DEF desired
  <2> QED BY <1>1, <1>3, TimelinesAreAny, ConversionTypes DEF Timelines
<1>5. AskedTimeline(m, at) = [client EXCEPT !.perBeat = desired.perBeat,
                                            !.time = FromBeats(desired, client.beat)]
  BY DEF AskedTimeline
<1> HIDE DEF desired
<1> QED BY <1>4, <1>5 DEF TypeOK, Timelines

\* So is the one both steps of applyForceBeatAtTime leave.
LEMMA ForcedType ==
  ASSUME TypeOK, NEW b \in Int, NEW t \in Int, NEW q \in Nat \ {0}
  PROVE  Forced(b, t, q) \in Timelines
<1> DEFINE once == ForceBeatAtTimeImpl(client, b, t, q)
<1>1. once \in Timelines
  BY ForceType DEF TypeOK
<1> HIDE DEF once
<1>2. ForceBeatAtTimeImpl(once, b, t + 1, q) \in Timelines
  BY <1>1, ForceType
<1> QED BY <1>1, <1>2 DEF Forced, once

\* A requested beat is forced at an integer time.
LEMMA RequestedType ==
  ASSUME TypeOK, NEW b \in Int, NEW t \in Int, NEW q \in Nat \ {0}
  PROVE  FromPhaseEncodedBeats(client, NextPhaseMatch(ToPhaseEncodedBeats(client, t, q), b, q), q) \in Int
<1>1. client \in AnyTimelines
  BY TimelinesAreAny DEF TypeOK
<1>2. ToPhaseEncodedBeats(client, t, q) \in Int
  BY <1>1, EncodingTypes
<1>3. NextPhaseMatch(ToPhaseEncodedBeats(client, t, q), b, q) \in Int
  BY <1>2, PhaseMatchType
<1> QED BY <1>1, <1>3, EncodingTypes

\* The node starts with timelines in the range.
LEMMA InitType == Init => TypeOK
<1> SUFFICES ASSUME Init PROVE TypeOK
  OBVIOUS
<1>1. PICK m \in Asked : session = [perBeat |-> ClampTempo(m), beat |-> 0, time |-> 0]
  BY DEF Init
<1>2. ClampTempo(m) \in PerBeats
  BY ClampTempoType, ClientTimelineAssumption
<1>3. session \in Timelines
  BY <1>1, <1>2 DEF Timelines
<1>4. client \in Timelines
  BY <1>3 DEF Init, GhostToHost, Timelines
<1> QED BY <1>3, <1>4 DEF Init, TypeOK

\* Every operation keeps them there.
LEMMA NextType == TypeOK /\ [Next]_vars => TypeOK'
<1> SUFFICES ASSUME TypeOK, [Next]_vars PROVE TypeOK'
  OBVIOUS
<1>1. ASSUME NEW tl \in Announced, AdoptTimeline(tl) PROVE TypeOK'
  BY <1>1, AnnouncedType, UpdateSessionTimingType DEF AdoptTimeline, TypeOK
<1>2. ASSUME NEW x \in Offsets, Remeasured(x) PROVE TypeOK'
  BY <1>2, ClientTimelineAssumption, TimelinesAreAny, UpdateSessionTimingType DEF Remeasured, TypeOK
<1>3. ASSUME NEW tl \in Announced, NEW x \in Offsets, Joined(tl, x) PROVE TypeOK'
  BY <1>3, ClientTimelineAssumption, AnnouncedType, UpdateSessionTimingType DEF Joined, TypeOK
<1>4. CASE ResetState
  <2> DEFINE tl == [perBeat |-> session.perBeat,
                    beat |-> ToBeats(session, HostToGhost(xform, GhostToHost(-now, 0))),
                    time |-> HostToGhost(-now, GhostToHost(-now, 0))]
  <2>1. UpdateSessionTiming(client, tl, -now) /\ alone' = TRUE /\ UNCHANGED now
    BY <1>4 DEF ResetState
  <2>2. tl \in AnyTimelines
    BY FoundedType
  <2> HIDE DEF tl
  <2>3. -now \in Int /\ client \in Timelines
    BY DEF TypeOK
  <2> QED BY <2>1, <2>2, <2>3, UpdateSessionTimingType DEF TypeOK
<1>5. ASSUME NEW m \in Asked, NEW at \in Times, ApplyTempoChange(m, at) PROVE TypeOK'
  BY <1>5, AskedType, CommitType, ClientTimelineAssumption DEF ApplyTempoChange, TypeOK
<1>6. ASSUME NEW b \in Int, NEW at \in Int, NEW q \in Nat \ {0}, ApplyForceBeatAtTime(b, at, q)
      PROVE  TypeOK'
  BY <1>6, ForcedType, CommitType DEF ApplyForceBeatAtTime, TypeOK
<1>7. ASSUME NEW b \in Int, NEW at \in Int, NEW q \in Nat \ {0}, ApplyRequestBeatAtTime(b, at, q)
      PROVE  TypeOK'
  BY <1>6, <1>7, RequestedType DEF ApplyRequestBeatAtTime
<1>8. CASE Tick
  BY <1>8 DEF Tick, TypeOK
<1>9. CASE UNCHANGED vars
  BY <1>9 DEF vars, TypeOK
<1> QED
  BY <1>1, <1>2, <1>3, <1>4, <1>5, <1>6, <1>7, <1>8, <1>9, ClientTimelineAssumption
     DEF Next, FromSession, FromApplication

\* The timelines of a node are always timelines of a tempo in the range, whatever
\* tempi peers announce and the application asks for.
THEOREM TypeCorrect == Spec => []TypeOK
BY InitType, NextType, PTL DEF Spec

-----------------------------------------------------------------------------
(* Continuity. *)

\* A client's timeline that follows the session's is, at the time of the change,
\* where it was: the way to the session's beat 0 and the way back are rounded alike.
LEMMA FollowingContinuous ==
  ASSUME NEW c \in AnyTimelines, NEW s \in AnyTimelines, NEW t \in Int, NEW x \in Int
  PROVE  ToBeats(UpdateClientTimelineFromSession(c, s, t, x), t) = ToBeats(c, t)
<1> DEFINE zero == GhostToHost(x, FromBeats(s, 0))
           beat == ToBeats(c, t)
           here == [perBeat |-> s.perBeat, beat |-> beat, time |-> t]
           there == (zero - t) * Unit
<1>1. zero \in Int
  BY ConversionTypes DEF GhostToHost
<1>2. beat \in Int
  BY ConversionTypes
<1>3. s.perBeat \in Nat \ {0} /\ Unit \in Int
  BY UnitAssumption DEF AnyTimelines
<1>4. UpdateClientTimelineFromSession(c, s, t, x)
        = [perBeat |-> s.perBeat, beat |-> ToBeats(here, zero), time |-> zero]
  BY DEF UpdateClientTimelineFromSession
<1> HIDE DEF zero, beat
<1>5. ToBeats(here, zero) = beat + LLRound(there, s.perBeat)
  BY DEF ToBeats
<1>6. ToBeats([perBeat |-> s.perBeat, beat |-> ToBeats(here, zero), time |-> zero], t)
        = ToBeats(here, zero) + LLRound((t - zero) * Unit, s.perBeat)
  BY DEF ToBeats
<1>7. (t - zero) * Unit = -there /\ there \in Int
  BY <1>1, <1>3
<1> HIDE DEF there
<1>8. LLRound(-there, s.perBeat) = -LLRound(there, s.perBeat) /\ LLRound(there, s.perBeat) \in Int
  BY <1>3, <1>7, LLRoundOdd, LLRoundType
<1> QED BY <1>2, <1>4, <1>5, <1>6, <1>7, <1>8 DEF beat

\* updateSessionTiming does not make the client's beat jump, whether it returns early or not.
LEMMA TimingContinuous ==
  ASSUME TypeOK, NEW tl \in AnyTimelines, NEW x \in Int, UpdateSessionTiming(client, tl, x)
  PROVE  ToBeats(client', now) = ToBeats(client, now)
<1> DEFINE new == [tl EXCEPT !.perBeat = ClampTempo(@)]
<1>1. new \in AnyTimelines
  <2>1. ClampTempo(tl.perBeat) \in PerBeats
    BY ClampTempoType DEF AnyTimelines
  <2>2. new \in Timelines
    BY <2>1 DEF AnyTimelines, Timelines
  <2> QED BY <2>2, TimelinesAreAny
<1>2. \/ client' = client
      \/ client' = UpdateClientTimelineFromSession(client, new, now, x)
  BY DEF UpdateSessionTiming
<1> HIDE DEF new
<1>3. client \in AnyTimelines /\ now \in Int
  BY TimelinesAreAny DEF TypeOK
<1> QED BY <1>1, <1>2, <1>3, FollowingContinuous

\* No timeline, measurement, session joined or session founded makes the client's beat
\* jump, whatever their tempi, origins and clocks.
THEOREM ClientContinuous == Spec => Continuous
<1>1. TypeOK /\ [Next]_vars => [FromSession => ToBeats(client', now) = ToBeats(client, now)]_vars
  <2> SUFFICES ASSUME TypeOK, FromSession
               PROVE  ToBeats(client', now) = ToBeats(client, now)
    OBVIOUS
  <2>1. ASSUME NEW tl \in Announced, AdoptTimeline(tl)
        PROVE  ToBeats(client', now) = ToBeats(client, now)
    BY <2>1, AnnouncedType, TimingContinuous DEF AdoptTimeline, TypeOK
  <2>2. ASSUME NEW x \in Offsets, Remeasured(x)
        PROVE  ToBeats(client', now) = ToBeats(client, now)
    BY <2>2, ClientTimelineAssumption, TimelinesAreAny, TimingContinuous DEF Remeasured, TypeOK
  <2>3. ASSUME NEW tl \in Announced, NEW x \in Offsets, Joined(tl, x)
        PROVE  ToBeats(client', now) = ToBeats(client, now)
    BY <2>3, ClientTimelineAssumption, AnnouncedType, TimingContinuous DEF Joined
  <2>4. CASE ResetState
    <3> DEFINE tl == [perBeat |-> session.perBeat,
                      beat |-> ToBeats(session, HostToGhost(xform, GhostToHost(-now, 0))),
                      time |-> HostToGhost(-now, GhostToHost(-now, 0))]
    <3>1. UpdateSessionTiming(client, tl, -now)
      BY <2>4 DEF ResetState
    <3>2. tl \in AnyTimelines /\ -now \in Int
      BY FoundedType DEF TypeOK
    <3> HIDE DEF tl
    <3> QED BY <3>1, <3>2, TimingContinuous
  <2> QED BY <2>1, <2>2, <2>3, <2>4 DEF FromSession
<1> QED BY <1>1, TypeCorrect, PTL DEF Spec, Continuous

\* A session founded by the node starts at the beat the old one had reached.
THEOREM FoundingIsContinuous == Spec => FoundingContinuous
<1> DEFINE Kept == ToBeats(session', HostToGhost(xform', now))
                     = ToBeats(session, HostToGhost(xform, now))
<1>1. TypeOK /\ [Next]_vars => [ResetState => Kept]_vars
  <2> SUFFICES ASSUME TypeOK, ResetState PROVE Kept
    OBVIOUS
  <2> DEFINE reached == ToBeats(session, HostToGhost(xform, now))
  <2>1. GhostToHost(-now, 0) = now /\ HostToGhost(-now, now) = 0
    BY DEF TypeOK, GhostToHost, HostToGhost
  <2>2. xform' = -now
    BY DEF ResetState, UpdateSessionTiming
  <2>3. session' = [perBeat |-> ClampTempo(session.perBeat), beat |-> reached, time |-> 0]
    BY <2>1 DEF ResetState, UpdateSessionTiming
  <2>4. session \in AnyTimelines /\ HostToGhost(xform, now) \in Int
    BY TimelinesAreAny DEF TypeOK, HostToGhost
  <2>5. reached \in Int
    BY <2>4, ConversionTypes
  <2>6. ClampTempo(session.perBeat) \in Nat \ {0}
    BY <2>4, ClampTempoType, UnitAssumption DEF AnyTimelines, PerBeats
  <2> HIDE DEF reached
  <2>7. HostToGhost(xform', now) = 0
    BY <2>1, <2>2
  <2>8. ToBeats(session', 0) = reached + LLRound(0, ClampTempo(session.perBeat))
    BY <2>3, UnitAssumption DEF ToBeats
  <2> QED BY <2>5, <2>6, <2>7, <2>8, LLRoundZero DEF reached
<1> QED BY <1>1, TypeCorrect, PTL DEF Spec, FoundingContinuous

-----------------------------------------------------------------------------
(* Commits. *)

\* A commit leaves the session's timeline alone or moves its origin up.
LEMMA CommitAdvances ==
  ASSUME TypeOK, NEW c \in Timelines, NEW at \in Int, CommitClientTimeline(c, at)
  PROVE  session' = session \/ session'.beat > session.beat
<1> DEFINE stl == UpdateSessionTimelineFromClient(session, c, at, xform)
<1>1. stl = session \/ stl.beat >= session.beat + 1
  <2>1. HostToGhost(xform, at) \in Int /\ session.beat \in Int
    BY DEF TypeOK, HostToGhost, Timelines
  <2>2. ToBeats(session, HostToGhost(xform, at)) \in Int
    BY <2>1, TimelinesAreAny, ConversionTypes DEF TypeOK
  <2> QED BY <2>1, <2>2 DEF UpdateSessionTimelineFromClient
<1>2. stl \in Timelines
  BY FromClientType DEF TypeOK
<1>3. session' = [stl EXCEPT !.perBeat = ClampTempo(@)]
  BY DEF CommitClientTimeline, UpdateSessionTiming
<1> HIDE DEF stl
<1>4. ClampTempo(stl.perBeat) = stl.perBeat
  BY <1>2, UnitAssumption DEF Timelines, PerBeats, ClampTempo
<1>5. session' = stl
  BY <1>2, <1>3, <1>4 DEF Timelines
<1> QED BY <1>1, <1>2, <1>5 DEF TypeOK, Timelines

\* Every change the application commits wins over the timeline it changes, whatever the
\* time, tempo, beat and quantum it names.
THEOREM CommitsAlwaysAdvance == Spec => CommitsAdvance
<1> DEFINE Advances == session' = session \/ session'.beat > session.beat
<1>1. TypeOK /\ [Next]_vars => [FromApplication => Advances]_vars
  <2> SUFFICES ASSUME TypeOK, FromApplication PROVE Advances
    OBVIOUS
  <2>1. ASSUME NEW m \in Asked, NEW at \in Times, ApplyTempoChange(m, at) PROVE Advances
    <3> DEFINE asked == AskedTimeline(m, at)
    <3>1. CommitClientTimeline(asked, at)
      BY <2>1 DEF ApplyTempoChange
    <3>2. asked \in Timelines /\ at \in Int
      BY AskedType, ClientTimelineAssumption
    <3> HIDE DEF asked
    <3> QED BY <3>1, <3>2, CommitAdvances
  <2>2. ASSUME NEW b \in Int, NEW at \in Int, NEW q \in Nat \ {0}, ApplyForceBeatAtTime(b, at, q)
        PROVE  Advances
    BY <2>2, ForcedType, CommitAdvances DEF ApplyForceBeatAtTime
  <2>3. ASSUME NEW b \in Int, NEW at \in Int, NEW q \in Nat \ {0}, ApplyRequestBeatAtTime(b, at, q)
        PROVE  Advances
    BY <2>2, <2>3, RequestedType DEF ApplyRequestBeatAtTime
  <2> QED BY <2>1, <2>2, <2>3, ClientTimelineAssumption DEF FromApplication
<1> QED BY <1>1, TypeCorrect, PTL DEF Spec, CommitsAdvance

-----------------------------------------------------------------------------
(* The grid.                                                                *)

\* An integer is the multiple of a divisor below it and a remainder.
LEMMA DivisionForm ==
  ASSUME NEW n \in Int, NEW d \in Nat \ {0}
  PROVE  /\ n \div d \in Int /\ n % d \in Int
         /\ n = (n \div d) * d + (n % d) /\ 0 <= n % d /\ n % d < d
<1>1. n \div d \in Int /\ n % d \in Int
  OBVIOUS
<1>2. 0 <= n % d /\ n % d < d
  OBVIOUS
<1>3. n = (n \div d) * d + (n % d)
  OBVIOUS
<1> QED BY <1>1, <1>2, <1>3

\* Rounding is wrong by half of the divisor at most.
LEMMA LLRoundError ==
  ASSUME NEW n \in Int, NEW d \in Nat \ {0}
  PROVE  2 * (LLRound(n, d) * d - n) <= d /\ 2 * (n - LLRound(n, d) * d) <= d
<1> DEFINE half(m) == (2 * m + d) \div (2 * d)
<1>1. ASSUME NEW m \in Int
      PROVE  half(m) \in Int /\ 2 * (half(m) * d - m) <= d /\ 2 * (m - half(m) * d) <= d
  <2>1. 2 * d \in Nat \ {0} /\ 2 * m + d \in Int
    OBVIOUS
  <2>2. /\ half(m) \in Int /\ half(m) * (2 * d) <= 2 * m + d
        /\ 2 * m + d < half(m) * (2 * d) + 2 * d
    <3>1. PICK r \in Int : 2 * m + d = half(m) * (2 * d) + r /\ 0 <= r /\ r < 2 * d
      BY <2>1, DivisionForm
    <3>2. half(m) \in Int
      BY <2>1, DivisionForm
    <3> HIDE DEF half
    <3> QED BY <3>1, <3>2
  <2> HIDE DEF half
  <2>3. half(m) * (2 * d) = 2 * (half(m) * d)
    BY <2>2
  <2> QED BY <2>2, <2>3
<1>2. CASE n >= 0
  BY <1>1, <1>2 DEF LLRound
<1>3. CASE n < 0
  <2>1. LLRound(n, d) = -half(-n) /\ -n \in Int
    BY <1>3 DEF LLRound
  <2> HIDE DEF half
  <2>2. half(-n) \in Int /\ (-half(-n)) * d = -(half(-n) * d)
    BY <1>1, <2>1
  <2> QED BY <1>1, <2>1, <2>2
<1> QED BY <1>2, <1>3

\* A time at which the session reads beat 0 is the time of its beat 0, up to both
\* roundings.
LEMMA BeatZeroTime ==
  ASSUME NEW s \in Timelines, NEW t \in Int, ToBeats(s, t) = 0
  PROVE  2 * Unit * Magnitude(t - FromBeats(s, 0)) <= s.perBeat + Unit
<1> DEFINE from == (t - s.time) * Unit
           back == (0 - s.beat) * s.perBeat
           r    == LLRound(from, s.perBeat)
           f    == LLRound(back, Unit)
<1>1. /\ s.perBeat \in Nat \ {0} /\ Unit \in Nat \ {0} /\ s.beat \in Int /\ s.time \in Int
      /\ from \in Int /\ back \in Int
  BY UnitAssumption DEF Timelines, PerBeats
<1>2. r \in Int /\ 2 * (r * s.perBeat - from) <= s.perBeat /\ 2 * (from - r * s.perBeat) <= s.perBeat
  BY <1>1, LLRoundType, LLRoundError
<1>3. f \in Int /\ 2 * (f * Unit - back) <= Unit /\ 2 * (back - f * Unit) <= Unit
  BY <1>1, LLRoundType, LLRoundError
<1>4. s.beat + r = 0 /\ FromBeats(s, 0) = s.time + f
  BY DEF ToBeats, FromBeats
<1> HIDE DEF r, f
<1>5. r = 0 - s.beat
  BY <1>1, <1>2, <1>4
<1>6. r * s.perBeat = back
  BY <1>5
<1> HIDE DEF back
<1>7. from - f * Unit = Unit * (t - s.time - f)
  BY <1>1, <1>3
<1> DEFINE off == t - s.time - f
<1>8. off \in Int /\ Unit * off = from - f * Unit /\ t - FromBeats(s, 0) = off
  BY <1>1, <1>3, <1>4, <1>7
<1> HIDE DEF from, off
<1>9. 2 * (Unit * off) <= s.perBeat + Unit /\ -(2 * (Unit * off)) <= s.perBeat + Unit
  <2>1. f * Unit \in Int /\ back \in Int
    BY <1>1, <1>3
  <2> QED BY <1>1, <1>2, <1>3, <1>6, <1>8, <2>1
<1>10. 2 * Unit * Magnitude(off) <= s.perBeat + Unit
  <2>1. CASE off >= 0
    <3>1. Magnitude(off) = off /\ 2 * Unit * off = 2 * (Unit * off)
      BY <1>1, <1>8, <2>1 DEF Magnitude
    <3> QED BY <1>9, <3>1
  <2>2. CASE off < 0
    <3>1. Magnitude(off) = -off /\ 2 * Unit * (-off) = -(2 * (Unit * off))
      BY <1>1, <1>8, <2>2 DEF Magnitude
    <3> QED BY <1>9, <3>1
  <2> QED BY <1>8, <2>1, <2>2
<1> QED BY <1>8, <1>10

\* A timeline of the client that starts at the session's beat 0.
Anchored(tl, s, x) ==
  /\ tl.perBeat = s.perBeat
  /\ 2 * Unit * Magnitude(tl.time - GhostToHost(x, FromBeats(s, 0))) <= tl.perBeat + Unit

GridInv == TypeOK /\ Anchored(client, session, xform) /\ Anchored(shown, session, xform)

\* What follows the session starts there exactly.
LEMMA FollowingAnchored ==
  ASSUME NEW c \in Timelines, NEW s \in Timelines, NEW t \in Int, NEW x \in Int
  PROVE  Anchored(UpdateClientTimelineFromSession(c, s, t, x), s, x)
<1> DEFINE zero == GhostToHost(x, FromBeats(s, 0))
           y    == UpdateClientTimelineFromSession(c, s, t, x)
<1>1. zero \in Int /\ y.perBeat = s.perBeat /\ y.time = zero
  BY TimelinesAreAny, ConversionTypes DEF GhostToHost, UpdateClientTimelineFromSession
<1>2. s.perBeat \in Nat /\ Unit \in Nat
  BY UnitAssumption DEF Timelines, PerBeats
<1> HIDE DEF zero, y
<1>3. Magnitude(y.time - zero) = 0 /\ 2 * Unit * 0 = 0
  BY <1>1, <1>2 DEF Magnitude
<1> QED BY <1>1, <1>2, <1>3 DEF Anchored, zero, y

\* updateSessionTiming leaves the client's timeline and the one readers have anchored,
\* also when it returns early, if the timeline it was given was.
LEMMA TimingAnchored ==
  ASSUME GridInv, NEW c \in Timelines, NEW tl \in AnyTimelines, NEW x \in Int,
         UpdateSessionTiming(c, tl, x),
         c = client \/ tl = session => Anchored(c, session, xform),
         c = client \/ tl = session \/ tl.beat > session.beat,
         TypeOK'
  PROVE  GridInv'
<1> DEFINE new == [tl EXCEPT !.perBeat = ClampTempo(@)]
<1>1. /\ session' = new /\ xform' = x
      /\ \/ new = session /\ x = xform /\ client' = c /\ UNCHANGED shown
         \/ client' = UpdateClientTimelineFromSession(c, new, now, x) /\ shown' = client'
  BY DEF UpdateSessionTiming
<1>2. new \in Timelines /\ now \in Int
  <2>1. ClampTempo(tl.perBeat) \in PerBeats
    BY ClampTempoType DEF AnyTimelines
  <2> QED BY <2>1 DEF AnyTimelines, Timelines, GridInv, TypeOK
<1>3. new.beat = tl.beat
  BY DEF AnyTimelines
<1> HIDE DEF new
<1>4. CASE new = session /\ x = xform /\ client' = c /\ UNCHANGED shown
  <2>1. c = client \/ tl = session
    BY <1>3, <1>4 DEF GridInv, TypeOK, Timelines
  <2>2. Anchored(c, session, xform)
    BY <1>4, <2>1
  <2> QED BY <1>1, <1>4, <2>2 DEF GridInv
<1>5. CASE client' = UpdateClientTimelineFromSession(c, new, now, x) /\ shown' = client'
  <2>1. Anchored(client', session', xform')
    BY <1>1, <1>2, <1>5, FollowingAnchored
  <2> QED BY <1>5, <2>1 DEF GridInv
<1> QED BY <1>1, <1>4, <1>5

\* A commit that finds nothing to change in the session had an anchored timeline.
LEMMA CommitAnchored ==
  ASSUME GridInv, NEW c \in Timelines, NEW at \in Int, CommitClientTimeline(c, at), TypeOK'
  PROVE  GridInv'
<1> DEFINE stl  == UpdateSessionTimelineFromClient(session, c, at, xform)
           zero == HostToGhost(xform, c.time)
<1>1. session \in Timelines /\ xform \in Int /\ session.beat \in Int /\ c.time \in Int
  BY DEF GridInv, TypeOK, Timelines
<1>2. stl \in Timelines
  BY <1>1, FromClientType
<1>3. \/ stl = session /\ ToBeats(session, zero) = 0 /\ c.perBeat = session.perBeat
      \/ stl.beat > session.beat
  <2>1. HostToGhost(xform, at) \in Int
    BY <1>1 DEF HostToGhost
  <2>2. ToBeats(session, HostToGhost(xform, at)) \in Int
    BY <1>1, <2>1, TimelinesAreAny, ConversionTypes
  <2> QED BY <1>1, <2>2 DEF UpdateSessionTimelineFromClient
<1>4. stl = session => Anchored(c, session, xform)
  <2> SUFFICES ASSUME stl = session PROVE Anchored(c, session, xform)
    OBVIOUS
  <2>1. ToBeats(session, zero) = 0 /\ c.perBeat = session.perBeat
    <3> HIDE DEF stl
    <3> QED BY <1>1, <1>3
  <2>2. zero \in Int /\ FromBeats(session, 0) \in Int
    BY <1>1, TimelinesAreAny, ConversionTypes DEF HostToGhost
  <2>3. zero - FromBeats(session, 0) = c.time - GhostToHost(xform, FromBeats(session, 0))
    BY <1>1, <2>2 DEF HostToGhost, GhostToHost
  <2> HIDE DEF zero, stl
  <2> QED BY <1>1, <2>1, <2>2, <2>3, BeatZeroTime DEF Anchored
<1>5. c = client => Anchored(c, session, xform)
  BY DEF GridInv
<1>6. UpdateSessionTiming(c, stl, xform)
  BY DEF CommitClientTimeline
<1> HIDE DEF stl
<1> QED BY <1>1, <1>2, <1>3, <1>4, <1>5, <1>6, TimelinesAreAny, TimingAnchored

\* What arrives from the session leaves the timelines anchored.
LEMMA FromSessionAnchored ==
  ASSUME GridInv, NEW tl \in AnyTimelines, NEW x \in Int, UpdateSessionTiming(client, tl, x), TypeOK'
  PROVE  GridInv'
<1>1. client \in Timelines /\ Anchored(client, session, xform)
  BY DEF GridInv, TypeOK
<1> QED BY <1>1, TimingAnchored

\* Every operation keeps the timelines anchored.
LEMMA NextGrid == GridInv /\ [Next]_vars => GridInv'
<1> SUFFICES ASSUME GridInv, [Next]_vars PROVE GridInv'
  OBVIOUS
<1>t. TypeOK /\ TypeOK'
  BY NextType DEF GridInv
<1>1. ASSUME NEW tl \in Announced, AdoptTimeline(tl) PROVE GridInv'
  BY <1>t, <1>1, AnnouncedType, FromSessionAnchored DEF AdoptTimeline, TypeOK
<1>2. ASSUME NEW x \in Offsets, Remeasured(x) PROVE GridInv'
  BY <1>t, <1>2, ClientTimelineAssumption, TimelinesAreAny, FromSessionAnchored
     DEF Remeasured, TypeOK
<1>3. ASSUME NEW tl \in Announced, NEW x \in Offsets, Joined(tl, x) PROVE GridInv'
  BY <1>t, <1>3, ClientTimelineAssumption, AnnouncedType, FromSessionAnchored DEF Joined
<1>4. CASE ResetState
  <2> DEFINE tl == [perBeat |-> session.perBeat,
                    beat |-> ToBeats(session, HostToGhost(xform, GhostToHost(-now, 0))),
                    time |-> HostToGhost(-now, GhostToHost(-now, 0))]
  <2>1. UpdateSessionTiming(client, tl, -now)
    BY <1>4 DEF ResetState
  <2>2. tl \in AnyTimelines /\ -now \in Int
    BY <1>t, FoundedType DEF TypeOK
  <2> HIDE DEF tl
  <2> QED BY <1>t, <2>1, <2>2, FromSessionAnchored
<1>5. ASSUME NEW m \in Asked, NEW at \in Times, ApplyTempoChange(m, at) PROVE GridInv'
  <2> DEFINE asked == AskedTimeline(m, at)
  <2>1. CommitClientTimeline(asked, at)
    BY <1>5 DEF ApplyTempoChange
  <2>2. asked \in Timelines /\ at \in Int
    BY <1>t, AskedType, ClientTimelineAssumption
  <2> HIDE DEF asked
  <2> QED BY <1>t, <2>1, <2>2, CommitAnchored
<1>6. ASSUME NEW b \in Int, NEW at \in Int, NEW q \in Nat \ {0}, ApplyForceBeatAtTime(b, at, q)
      PROVE  GridInv'
  BY <1>t, <1>6, ForcedType, CommitAnchored DEF ApplyForceBeatAtTime
<1>7. ASSUME NEW b \in Int, NEW at \in Int, NEW q \in Nat \ {0}, ApplyRequestBeatAtTime(b, at, q)
      PROVE  GridInv'
  BY <1>t, <1>6, <1>7, RequestedType DEF ApplyRequestBeatAtTime
<1>8. CASE Tick
  BY <1>t, <1>8 DEF Tick, GridInv
<1>9. CASE UNCHANGED vars
  BY <1>t, <1>9 DEF vars, GridInv
<1> QED
  BY <1>1, <1>2, <1>3, <1>4, <1>5, <1>6, <1>7, <1>8, <1>9, ClientTimelineAssumption
     DEF Next, FromSession, FromApplication

\* New starts both timelines at the same moment.
LEMMA InitGrid == Init => GridInv
<1> SUFFICES ASSUME Init PROVE GridInv
  OBVIOUS
<1>1. TypeOK /\ session \in Timelines /\ session.perBeat \in Nat \ {0} /\ Unit \in Nat \ {0}
  BY InitType, UnitAssumption DEF TypeOK, Timelines, PerBeats
<1>2. /\ client.perBeat = session.perBeat /\ client.time = 0 /\ shown = client /\ xform = 0
      /\ session.beat = 0 /\ session.time = 0
  BY <1>1 DEF Init, GhostToHost, Timelines
<1>3. FromBeats(session, 0) = 0
  <2>1. (0 - 0) * session.perBeat = 0
    BY <1>1
  <2> QED BY <1>1, <1>2, <2>1, LLRoundZero DEF FromBeats
<1>4. Anchored(client, session, xform)
  BY <1>1, <1>2, <1>3 DEF Anchored, GhostToHost, Magnitude
<1> QED BY <1>1, <1>2, <1>4 DEF GridInv

\* The client's timeline and the one readers have start where the session's beat 0 is,
\* up to one rounding each way, whatever was adopted, measured, forced or requested
\* (timeline.go:65): so the phases of all nodes of a session agree.
THEOREM GridIsAnchored == Spec => []GridAnchored
<1>1. GridInv => GridAnchored
  BY DEF GridInv, Anchored, GridAnchored
<1> QED BY <1>1, InitGrid, NextGrid, PTL DEF Spec

-----------------------------------------------------------------------------
(* Phases.                                                                  *)

\* Two numbers a whole number of quanta apart.
Congruent(x, y, q) == \E k \in Int : y = x + k * q

\* Congruence is a congruence.
LEMMA CongruentSum ==
  ASSUME NEW q \in Nat, NEW x \in Int, NEW y \in Int, NEW v \in Int, NEW w \in Int,
         Congruent(x, y, q), Congruent(v, w, q)
  PROVE  Congruent(x + v, y + w, q) /\ Congruent(x - v, y - w, q) /\ Congruent(y, x, q)
<1>1. PICK j \in Int : y = x + j * q
  BY DEF Congruent
<1>2. PICK k \in Int : w = v + k * q
  BY DEF Congruent
<1>3. /\ j * q \in Int /\ k * q \in Int /\ (j + k) * q = j * q + k * q
      /\ (j - k) * q = j * q - k * q /\ (-j) * q = -(j * q)
  OBVIOUS
<1>4. /\ y + w = x + v + (j + k) * q
      /\ y - w = (x - v) + (j - k) * q
      /\ x = y + (-j) * q
  BY <1>1, <1>2, <1>3
<1>5. j + k \in Int /\ j - k \in Int /\ -j \in Int
  OBVIOUS
<1> QED BY <1>4, <1>5 DEF Congruent

\* ... and transitive.
LEMMA CongruentTransitive ==
  ASSUME NEW q \in Nat, NEW x \in Int, NEW y \in Int, NEW z \in Int,
         Congruent(x, y, q), Congruent(y, z, q)
  PROVE  Congruent(x, z, q)
<1>1. PICK j \in Int : y = x + j * q
  BY DEF Congruent
<1>2. PICK k \in Int : z = y + k * q
  BY DEF Congruent
<1>3. /\ j * q \in Int /\ k * q \in Int /\ (j + k) * q = j * q + k * q
  OBVIOUS
<1>4. z = x + (j + k) * q /\ j + k \in Int
  BY <1>1, <1>2, <1>3
<1> QED BY <1>4 DEF Congruent

\* In a half-open window one quantum long, congruent numbers are equal.
LEMMA CongruentInWindow ==
  ASSUME NEW q \in Nat \ {0}, NEW a \in Int, NEW x \in Int, NEW y \in Int,
         a < x, x <= a + q, a < y, y <= a + q, Congruent(x, y, q)
  PROVE  x = y
<1>1. PICK k \in Int : y = x + k * q
  BY DEF Congruent
<1>2. k * q < q /\ -q < k * q /\ k * q \in Int
  BY <1>1
<1>3. k < 1
  <2>1. k >= 1 => k * q >= q
    OBVIOUS
  <2> QED BY <1>2, <2>1
<1>4. k > -1
  <2>1. k <= -1 => k * q <= -q
    OBVIOUS
  <2> QED BY <1>2, <2>1
<1>5. k = 0 /\ k * q = 0
  BY <1>3, <1>4
<1> QED BY <1>1, <1>5

\* The phase of a beat is congruent to it, and less than the quantum, also below 0.
LEMMA PhaseCongruent ==
  ASSUME NEW b \in Int, NEW q \in Nat \ {0}
  PROVE  Congruent(b, Phase(b, q), q) /\ 0 <= Phase(b, q) /\ Phase(b, q) < q
<1> DEFINE m == (Magnitude(b) + q) \div q
           n == b + m * q
           k == n \div q
<1>1. m \in Int
  <2>1. Magnitude(b) + q \in Int
    BY DEF Magnitude
  <2> QED BY <2>1, DivisionForm
<1> HIDE DEF m
<1>2. n \in Int /\ m * q \in Int
  BY <1>1
<1>3. k \in Int /\ n % q \in Int /\ n = k * q + (n % q) /\ 0 <= n % q /\ n % q < q
  BY <1>2, DivisionForm
<1>4. Phase(b, q) = n % q
  BY DEF Phase, m
<1> HIDE DEF k
<1>5. (m - k) * q = m * q - k * q /\ k * q \in Int /\ m - k \in Int
  BY <1>1, <1>3
<1>6. n % q = b + (m - k) * q
  BY <1>2, <1>3, <1>5
<1> QED BY <1>3, <1>4, <1>5, <1>6 DEF Congruent

\* The closest match of a phase has it, and is in the quantum that begins half a
\* quantum, as the code halves it, below.
LEMMA ClosestMatch ==
  ASSUME NEW x \in Int, NEW target \in Int, NEW q \in Nat \ {0}
  PROVE  LET y == ClosestPhaseMatch(x, target, q)
         IN  /\ y \in Int /\ Congruent(target, y, q)
             /\ x - Half(q) <= y /\ y < x - Half(q) + q
<1> DEFINE low  == x - Half(q)
           gap  == Phase(target, q) - Phase(low, q) + q
           y    == low + (gap % q)
           k    == gap \div q
<1>1. Half(q) \in Int /\ low \in Int
  BY UnitAssumption, LLRoundType DEF Half
<1> HIDE DEF low
<1>2. /\ Phase(target, q) \in Int /\ Phase(low, q) \in Int
      /\ Congruent(target, Phase(target, q), q) /\ Congruent(low, Phase(low, q), q)
  BY <1>1, PhaseType, PhaseCongruent
<1>3. gap \in Int
  BY <1>2
<1> HIDE DEF gap
<1>4. k \in Int /\ gap % q \in Int /\ gap = k * q + (gap % q) /\ 0 <= gap % q /\ gap % q < q
  BY <1>3, DivisionForm
<1>5. Congruent(gap, gap % q, q)
  <2>1. (-k) * q = -(k * q) /\ k * q \in Int /\ -k \in Int
    BY <1>4
  <2>2. gap % q = gap + (-k) * q
    BY <1>3, <1>4, <2>1
  <2> QED BY <2>1, <2>2 DEF Congruent
<1>6. Congruent(target - low, gap, q)
  <2>1. Congruent(target - low, Phase(target, q) - Phase(low, q), q)
    BY <1>1, <1>2, CongruentSum
  <2>2. Congruent(0, q, q)
    <3>1. q = 0 + 1 * q
      OBVIOUS
    <3> QED BY <3>1 DEF Congruent
  <2>3. Congruent((target - low) + 0, (Phase(target, q) - Phase(low, q)) + q, q)
    BY <1>1, <1>2, <2>1, <2>2, CongruentSum
  <2> QED BY <1>1, <1>2, <2>3 DEF gap
<1>7. Congruent(low, low, q)
  <2>1. low = low + 0 * q
    BY <1>1
  <2> QED BY <2>1 DEF Congruent
<1>8. Congruent(target - low, gap % q, q) /\ target - low \in Int
  BY <1>1, <1>3, <1>4, <1>5, <1>6, CongruentTransitive
<1>9. Congruent(low + (target - low), y, q)
  BY <1>1, <1>4, <1>7, <1>8, CongruentSum
<1>10. low + (target - low) = target /\ y \in Int /\ low <= y /\ y < low + q
  BY <1>1, <1>4
<1>11. ClosestPhaseMatch(x, target, q) = y
  BY DEF ClosestPhaseMatch, NextPhaseMatch, low, gap
<1> HIDE DEF y
<1> QED BY <1>9, <1>10, <1>11 DEF low

\* The inverse of the phase encoding finds the beat that was encoded, whatever the
\* origin of the timeline: what is found is congruent to the beat and in the same window.
LEMMA EncodingInverted ==
  ASSUME NEW tl \in AnyTimelines, NEW t \in Int, NEW q \in Nat \ {0}
  PROVE  FromPhaseEncodedBeats(tl, ToPhaseEncodedBeats(tl, t, q), q)
           = FromBeats(tl, ToBeats(tl, t))
<1> DEFINE raw    == ToBeats(tl, t)
           origin == tl.beat
           beat   == ClosestPhaseMatch(raw, raw - origin, q)
           phase  == Phase(beat - origin, q)
           whole  == Phase(beat, q)
           offset == ClosestPhaseMatch(q - phase, q - whole, q)
           half   == Half(q)
<1>1. raw \in Int /\ origin \in Int
  BY ConversionTypes DEF AnyTimelines
<1>2. FromPhaseEncodedBeats(tl, beat, q) = FromBeats(tl, beat - phase + q - offset)
  BY DEF FromPhaseEncodedBeats
<1>3. ToPhaseEncodedBeats(tl, t, q) = beat
  BY DEF ToPhaseEncodedBeats
<1>4. Half(q) \in Int
  BY UnitAssumption, LLRoundType DEF Half
<1> HIDE DEF raw, origin
<1>5. raw - origin \in Int
  BY <1>1
<1>6. /\ beat \in Int /\ Congruent(raw - origin, beat, q)
      /\ raw - Half(q) <= beat /\ beat < raw - Half(q) + q
  BY <1>1, <1>5, ClosestMatch
<1> HIDE DEF beat
<1>7. beat - origin \in Int
  BY <1>1, <1>6
<1>8. /\ phase \in Int /\ Congruent(beat - origin, phase, q)
      /\ whole \in Int /\ Congruent(beat, whole, q)
  BY <1>6, <1>7, PhaseType, PhaseCongruent
<1> HIDE DEF phase, whole
<1>9. q - phase \in Int /\ q - whole \in Int
  BY <1>8
<1>10. /\ offset \in Int /\ Congruent(q - whole, offset, q)
       /\ q - phase - Half(q) <= offset /\ offset < q - phase - Half(q) + q
  BY <1>9, ClosestMatch
<1> HIDE DEF offset
<1>11. beat - phase + q - offset = raw
  <2>1. PICK i \in Int : beat = (raw - origin) + i * q
    BY <1>6 DEF Congruent
  <2>2. PICK j \in Int : phase = (beat - origin) + j * q
    BY <1>8 DEF Congruent
  <2>3. PICK k \in Int : whole = beat + k * q
    BY <1>8 DEF Congruent
  <2>4. PICK l \in Int : offset = (q - whole) + l * q
    BY <1>10 DEF Congruent
  <2> DEFINE found == beat - phase + q - offset
             a     == beat + half - q
  <2>5. /\ i * q \in Int /\ j * q \in Int /\ k * q \in Int /\ l * q \in Int
        /\ i - j + k - l \in Int
        /\ (i - j + k - l) * q = i * q - j * q + k * q - l * q
    OBVIOUS
  <2>6. /\ half \in Int /\ raw - half <= beat /\ beat < raw - half + q
        /\ q - phase - half <= offset /\ offset < q - phase - half + q
    BY <1>4, <1>6, <1>10
  <2> HIDE DEF half
  <2>7. found = raw + (i * q - j * q + k * q - l * q)
    BY <1>1, <1>6, <1>8, <1>10, <2>1, <2>2, <2>3, <2>4, <2>5
  <2>8. /\ found \in Int /\ a \in Int
        /\ a < raw /\ raw <= a + q /\ a < found /\ found <= a + q
    BY <1>1, <1>6, <1>8, <1>10, <2>6
  <2> HIDE DEF found, a
  <2>9. Congruent(raw, found, q)
    BY <2>5, <2>7 DEF Congruent
  <2>10. raw = found
    BY <1>1, <2>8, <2>9, CongruentInWindow
  <2> QED BY <2>10 DEF found
<1> QED BY <1>2, <1>3, <1>11 DEF raw

\* TimeAtBeat is the inverse of BeatAtTime up to the rounding of one conversion, for
\* every time and quantum and whatever the timeline (timeline.go:49): no matching of
\* phases is lost on the way.
THEOREM EncodingRoundTrips == Spec => []RoundTrip
<1>1. TypeOK => RoundTrip
  BY EncodingInverted, TimelinesAreAny, ClientTimelineAssumption DEF TypeOK, RoundTrip
<1> QED BY <1>1, TypeCorrect, PTL

-----------------------------------------------------------------------------
(* Forced beats.                                                            *)

\* A commit gives the client the very timeline that was committed: the session's beat 0
\* is put where the timeline starts, exactly, and the way back finds it there.
LEMMA CommitKeepsClient ==
  ASSUME TypeOK, NEW c \in Timelines, NEW at \in Int, CommitClientTimeline(c, at)
  PROVE  client' = c
<1> DEFINE stl    == UpdateSessionTimelineFromClient(session, c, at, xform)
           zero   == HostToGhost(xform, c.time)
           reads  == ToBeats(session, HostToGhost(xform, at))
           origin == IF reads < session.beat + 1 THEN session.beat + 1 ELSE reads
           from0  == [perBeat |-> c.perBeat, beat |-> 0, time |-> zero]
           found  == [perBeat |-> c.perBeat, beat |-> origin, time |-> FromBeats(from0, origin)]
           new    == [stl EXCEPT !.perBeat = ClampTempo(@)]
<1>1. /\ session \in Timelines /\ xform \in Int /\ now \in Int /\ session.beat \in Int
      /\ c.time \in Int /\ c.beat \in Int /\ c.perBeat \in Nat \ {0} /\ Unit \in Nat \ {0}
      /\ c.perBeat \in PerBeats
  BY UnitAssumption DEF TypeOK, Timelines, PerBeats
<1>2. HostToGhost(xform, at) \in Int /\ zero \in Int
  BY <1>1 DEF HostToGhost
<1>3. reads \in Int
  BY <1>1, <1>2, TimelinesAreAny, ConversionTypes
<1>4. stl = session \/ stl = found
  BY DEF UpdateSessionTimelineFromClient
<1>5. stl \in Timelines
  BY <1>1, FromClientType
<1>6. \/ new = session /\ client' = c
      \/ ~(new = session /\ xform = xform) /\ client' = UpdateClientTimelineFromSession(c, new, now, xform)
  BY DEF CommitClientTimeline, UpdateSessionTiming
<1> HIDE DEF stl, reads
<1>7. origin \in Int
  BY <1>1, <1>3
<1>8. new = stl
  <2>1. ClampTempo(stl.perBeat) = stl.perBeat
    BY <1>5, UnitAssumption DEF Timelines, PerBeats, ClampTempo
  <2> QED BY <1>5, <2>1 DEF Timelines
<1> HIDE DEF new, origin, zero
<1>9. CASE client' = c
  BY <1>9
<1>10. CASE stl = found /\ client' = UpdateClientTimelineFromSession(c, found, now, xform)
  <2> DEFINE way == origin * c.perBeat
             gap == (now - c.time) * Unit
  <2>1. /\ way \in Int /\ -way \in Int /\ (origin - 0) * c.perBeat = way
        /\ (0 - origin) * c.perBeat = -way
    BY <1>1, <1>7
  <2>2. /\ LLRound(way, Unit) \in Int /\ LLRound(-way, Unit) = -LLRound(way, Unit)
    BY <1>1, <2>1, LLRoundType, LLRoundOdd
  <2> HIDE DEF way
  <2>3. FromBeats(from0, origin) = zero + LLRound(way, Unit)
    BY <2>1 DEF FromBeats
  <2>4. FromBeats(found, 0) = FromBeats(from0, origin) + LLRound(-way, Unit)
    BY <2>1 DEF FromBeats
  <2>5. FromBeats(found, 0) = zero
    BY <1>2, <2>2, <2>3, <2>4
  <2>6. GhostToHost(xform, FromBeats(found, 0)) = c.time
    BY <1>1, <1>2, <2>5 DEF zero, HostToGhost, GhostToHost
  <2>7. client' = [perBeat |-> c.perBeat,
                   beat |-> ToBeats([perBeat |-> c.perBeat, beat |-> ToBeats(c, now), time |-> now], c.time),
                   time |-> c.time]
    <3>1. found.perBeat = c.perBeat
      OBVIOUS
    <3> HIDE DEF found
    <3> QED BY <1>10, <2>6, <3>1 DEF UpdateClientTimelineFromSession
  <2>8. gap \in Int /\ (c.time - now) * Unit = -gap
    BY <1>1
  <2>9. LLRound(gap, c.perBeat) \in Int /\ LLRound(-gap, c.perBeat) = -LLRound(gap, c.perBeat)
    BY <1>1, <2>8, LLRoundType, LLRoundOdd
  <2>10. ToBeats(c, now) = c.beat + LLRound(gap, c.perBeat)
    BY DEF ToBeats
  <2> HIDE DEF gap
  <2>11. ToBeats([perBeat |-> c.perBeat, beat |-> ToBeats(c, now), time |-> now], c.time)
          = ToBeats(c, now) + LLRound(-gap, c.perBeat)
    BY <2>8 DEF ToBeats
  <2>12. client' = [perBeat |-> c.perBeat, beat |-> c.beat, time |-> c.time]
    BY <1>1, <2>7, <2>9, <2>10, <2>11
  <2> QED BY <2>12 DEF Timelines
<1> HIDE DEF found
<1> QED BY <1>4, <1>6, <1>8, <1>9, <1>10

\* How far forcing a beat moves the origin of a timeline, and what it reads after that.
\* The phases match, so nothing is left but what the conversions round: at every time u
\* the encoded beat differs from the forced one by what they make of the move.
LEMMA ForcedReads ==
  ASSUME NEW c \in Timelines, NEW b \in Int, NEW t \in Int, NEW q \in Nat \ {0}
  PROVE  \E s \in Int :
           LET f     == ForceBeatAtTimeImpl(c, b, t, q)
               moved == FromBeats(c, s) - FromBeats(c, 0)
           IN  /\ f \in Timelines /\ f.perBeat = c.perBeat
               /\ moved \in Int /\ f.time = c.time - moved
               /\ \A u \in Int :
                    ToPhaseEncodedBeats(f, u, q)
                      = b + LLRound((u - f.time) * Unit, c.perBeat)
                          - LLRound((t - c.time) * Unit, c.perBeat) - s
<1> DEFINE e       == LLRound((t - c.time) * Unit, c.perBeat)
           current == ToPhaseEncodedBeats(c, t, q)
           closest == ClosestPhaseMatch(current, b, q)
           s       == closest - current
           moved   == FromBeats(c, s) - FromBeats(c, 0)
           f       == ForceBeatAtTimeImpl(c, b, t, q)
           half    == Half(q)
<1>1. /\ c.time \in Int /\ c.beat \in Int /\ c.perBeat \in Nat \ {0} /\ Unit \in Nat \ {0}
      /\ c \in AnyTimelines /\ half \in Int
  <2>1. half \in Int
    BY UnitAssumption, LLRoundType DEF Half
  <2> QED BY <2>1, UnitAssumption, TimelinesAreAny DEF Timelines, PerBeats
<1>2. e \in Int
  BY <1>1, LLRoundType
<1>3. ToBeats(c, t) = c.beat + e
  BY DEF ToBeats
<1>4. current = ClosestPhaseMatch(c.beat + e, e, q)
  <2>1. ToBeats(c, t) - c.beat = e
    BY <1>1, <1>2, <1>3
  <2> QED BY <1>3, <2>1 DEF ToPhaseEncodedBeats
<1> HIDE DEF e, half
<1>5. /\ current \in Int /\ Congruent(e, current, q)
      /\ c.beat + e - Half(q) <= current /\ current < c.beat + e - Half(q) + q
  <2> DEFINE raw == c.beat + e
  <2>1. raw \in Int /\ current = ClosestPhaseMatch(raw, e, q)
    BY <1>1, <1>2, <1>4
  <2> HIDE DEF current, raw
  <2>2. /\ current \in Int /\ Congruent(e, current, q)
        /\ raw - Half(q) <= current /\ current < raw - Half(q) + q
    BY <1>2, <2>1, ClosestMatch
  <2> QED BY <1>1, <1>2, <2>2 DEF raw, half
<1> HIDE DEF current
<1>6. closest \in Int /\ Congruent(b, closest, q)
  BY <1>5, ClosestMatch
<1> HIDE DEF closest
<1>7. s \in Int
  BY <1>5, <1>6
<1>8. moved \in Int
  BY <1>1, <1>7, ConversionTypes
<1>9. f \in Timelines
  BY ForceType
<1>10. f = [perBeat |-> c.perBeat, beat |-> c.beat + b - closest, time |-> c.time - moved]
  <2>1. ShiftClientTimeline(c, s) = [c EXCEPT !.time = @ - moved]
    BY DEF ShiftClientTimeline
  <2>2. f = [ShiftClientTimeline(c, s) EXCEPT !.beat = @ + b - closest]
    BY DEF ForceBeatAtTimeImpl, current, closest
  <2> HIDE DEF moved, f, s
  <2> QED BY <2>1, <2>2 DEF Timelines
<1> HIDE DEF s, moved
<1>11. f.perBeat = c.perBeat /\ f.beat = c.beat + b - closest /\ f.time = c.time - moved
  BY <1>10
<1> HIDE DEF f
<1>12. ASSUME NEW u \in Int
       PROVE  ToPhaseEncodedBeats(f, u, q) = b + LLRound((u - f.time) * Unit, c.perBeat) - e - s
  <2> DEFINE v    == LLRound((u - f.time) * Unit, c.perBeat)
             read == ToPhaseEncodedBeats(f, u, q)
             want == b + v - e - s
  <2>1. f.time \in Int /\ f.beat \in Int
    BY <1>9 DEF Timelines
  <2>2. v \in Int
    BY <1>1, <2>1, LLRoundType
  <2>3. ToBeats(f, u) = f.beat + v
    BY <1>11 DEF ToBeats
  <2>4. read = ClosestPhaseMatch(f.beat + v, v, q)
    <3>1. ToBeats(f, u) - f.beat = v
      BY <2>1, <2>2, <2>3
    <3> QED BY <2>3, <3>1 DEF ToPhaseEncodedBeats
  <2> HIDE DEF v
  <2>5. /\ read \in Int /\ Congruent(v, read, q)
        /\ f.beat + v - half <= read /\ read < f.beat + v - half + q
    <3> DEFINE raw == f.beat + v
    <3>1. raw \in Int /\ read = ClosestPhaseMatch(raw, v, q)
      BY <2>1, <2>2, <2>4
    <3> HIDE DEF read, raw
    <3>2. /\ read \in Int /\ Congruent(v, read, q)
          /\ raw - Half(q) <= read /\ read < raw - Half(q) + q
      BY <2>2, <3>1, ClosestMatch
    <3> QED BY <1>1, <2>1, <2>2, <3>2 DEF raw, half
  <2> HIDE DEF read
  <2>6. want \in Int /\ f.beat + v - half <= want /\ want < f.beat + v - half + q
    <3>1. want - (f.beat + v) = current - (c.beat + e)
      BY <1>1, <1>2, <1>5, <1>6, <1>11, <2>2 DEF s
    <3>2. c.beat + e - half <= current /\ current < c.beat + e - half + q
      BY <1>5 DEF half
    <3>3. want \in Int
      BY <1>2, <1>7, <2>2
    <3> HIDE DEF want
    <3> QED BY <1>1, <1>2, <1>5, <2>1, <2>2, <3>1, <3>2, <3>3
  <2>7. Congruent(v, want, q)
    <3>1. Congruent(closest, b, q) /\ Congruent(current, e, q)
      BY <1>2, <1>5, <1>6, CongruentSum
    <3>2. Congruent(b - closest, closest - closest, q) /\ Congruent(current - e, current - current, q)
      <4>1. Congruent(closest, closest, q) /\ Congruent(current, current, q)
        <5>1. closest = closest + 0 * q /\ current = current + 0 * q
          BY <1>5, <1>6
        <5> QED BY <5>1 DEF Congruent
      <4> QED BY <1>2, <1>5, <1>6, <4>1, CongruentSum
    <3>3. b - closest \in Int /\ current - e \in Int /\ closest - closest = 0 /\ current - current = 0
      BY <1>2, <1>5, <1>6
    <3>4. Congruent((b - closest) + (current - e), 0 + 0, q)
      BY <3>2, <3>3, CongruentSum
    <3>5. (b - closest) + (current - e) \in Int /\ 0 + 0 = 0 /\ (b - closest) + (current - e) = want - v
      BY <1>2, <1>5, <1>6, <2>2 DEF s
    <3>6. Congruent(0, want - v, q)
      BY <3>4, <3>5, CongruentSum
    <3>7. PICK k \in Int : want - v = 0 + k * q
      BY <3>6 DEF Congruent
    <3>8. want \in Int
      BY <2>6
    <3> HIDE DEF want
    <3>9. want = v + k * q
      BY <2>2, <3>7, <3>8
    <3> QED BY <3>9 DEF Congruent
  <2> HIDE DEF want
  <2> DEFINE low == f.beat + v - half - 1
  <2>8. low \in Int /\ low < read /\ read <= low + q /\ low < want /\ want <= low + q
    BY <1>1, <2>1, <2>2, <2>5, <2>6
  <2> HIDE DEF low
  <2>9. Congruent(read, want, q)
    <3>1. Congruent(read, v, q)
      BY <2>2, <2>5, CongruentSum
    <3> QED BY <2>2, <2>5, <2>6, <2>7, <3>1, CongruentTransitive
  <2>10. read = want
    BY <2>5, <2>6, <2>8, <2>9, CongruentInWindow
  <2> QED BY <2>10 DEF read, want, v
<1>13. WITNESS s \in Int
<1> QED BY <1>8, <1>9, <1>11, <1>12 DEF f, moved, e

\* How far shiftClientTimeline moves the origin for a shift of s beats, as it converts
\* twice (timeline.go:67): a conversion's unit off at most.
LEMMA ShiftError ==
  ASSUME NEW c \in Timelines, NEW s \in Int
  PROVE  LET moved == FromBeats(c, s) - FromBeats(c, 0)
         IN  /\ moved \in Int
             /\ moved * Unit - s * c.perBeat <= Unit
             /\ s * c.perBeat - moved * Unit <= Unit
<1> DEFINE p == c.perBeat
           n == (s - c.beat) * p
           m == (0 - c.beat) * p
           i == LLRound(n, Unit)
           j == LLRound(m, Unit)
<1>1. /\ p \in Nat \ {0} /\ c.beat \in Int /\ c.time \in Int /\ Unit \in Nat \ {0}
      /\ n \in Int /\ m \in Int
  BY UnitAssumption DEF Timelines, PerBeats
<1>2. FromBeats(c, s) = c.time + i /\ FromBeats(c, 0) = c.time + j
  BY DEF FromBeats
<1>3. s * p = n - m
  BY <1>1
<1> HIDE DEF p, n, m
<1>4. /\ i \in Int /\ 2 * (i * Unit - n) <= Unit /\ 2 * (n - i * Unit) <= Unit
      /\ j \in Int /\ 2 * (j * Unit - m) <= Unit /\ 2 * (m - j * Unit) <= Unit
  BY <1>1, LLRoundType, LLRoundError
<1> HIDE DEF i, j
<1>5. FromBeats(c, s) - FromBeats(c, 0) = i - j
  BY <1>1, <1>2, <1>4
<1>6. (i - j) * Unit = i * Unit - j * Unit /\ i * Unit \in Int /\ j * Unit \in Int
  BY <1>1, <1>4
<1>7. (i - j) * Unit - s * p <= Unit /\ s * p - (i - j) * Unit <= Unit
  BY <1>1, <1>3, <1>4, <1>6
<1> QED BY <1>4, <1>5, <1>7 DEF p

\* What the first step of applyForceBeatAtTime can miss the beat by, either way: the
\* rounding of the move and of the two readings.
LEMMA OnceNear ==
  ASSUME NEW p \in Nat \ {0}, NEW d \in Int, NEW s \in Int, NEW moved \in Int,
         moved * Unit - s * p <= Unit, s * p - moved * Unit <= Unit
  PROVE  LET off == LLRound((d + moved) * Unit, p) - LLRound(d * Unit, p) - s
         IN  off \in Int /\ off * p <= Unit + p /\ -(off * p) <= Unit + p
<1> DEFINE n == (d + moved) * Unit
           m == d * Unit
           i == LLRound(n, p)
           j == LLRound(m, p)
<1>1. Unit \in Nat \ {0} /\ n \in Int /\ m \in Int
  BY UnitAssumption
<1>2. n = m + moved * Unit /\ moved * Unit \in Int /\ s * p \in Int
  BY <1>1
<1> HIDE DEF n, m
<1>3. /\ i \in Int /\ 2 * (i * p - n) <= p /\ 2 * (n - i * p) <= p
      /\ j \in Int /\ 2 * (j * p - m) <= p /\ 2 * (m - j * p) <= p
  BY <1>1, LLRoundType, LLRoundError
<1> HIDE DEF i, j
<1>4. (i - j - s) * p = i * p - j * p - s * p /\ i * p \in Int /\ j * p \in Int
  BY <1>3
<1>5. /\ i - j - s \in Int /\ (i - j - s) * p <= Unit + p /\ -((i - j - s) * p) <= Unit + p
  BY <1>1, <1>2, <1>3, <1>4
<1> QED BY <1>5 DEF i, j, n, m

\* Two conversions, one each way, are not both exact ties: the product of their odd
\* numerators would be a multiple of 4.
LEMMA NoTwoTies ==
  ASSUME NEW u \in Nat \ {0}, NEW p \in Nat \ {0}, NEW a \in Int, NEW y \in Int,
         NEW i \in Int, NEW j \in Int,
         2 * (a * p) = u * (2 * i - 1), 2 * (y * u) = p * (2 * j + 1)
  PROVE  FALSE
<1> DEFINE g == p * u
           k == (2 * i - 1) * (2 * j + 1)
<1>1. g \in Nat \ {0}
  <2>1. p * u > 0
    OBVIOUS
  <2> QED BY <2>1
<1>2. (2 * (a * p)) * (2 * (y * u)) = (4 * (a * y)) * g
  OBVIOUS
<1>3. (u * (2 * i - 1)) * (p * (2 * j + 1)) = k * g
  OBVIOUS
<1>4. (4 * (a * y)) * g = k * g
  BY <1>2, <1>3
<1>5. 4 * (a * y) \in Int /\ k \in Int
  OBVIOUS
<1>6. k = 4 * (i * j) + 2 * i - 2 * j - 1 /\ i * j \in Int /\ a * y \in Int
  OBVIOUS
<1> HIDE DEF g, k
<1>7. 4 * (a * y) = k
  <2> DEFINE x == 4 * (a * y)
  <2>1. x \in Int /\ x * g = k * g
    BY <1>4, <1>5
  <2> HIDE DEF x
  <2>2. (x - k) * g = 0 /\ x - k \in Int
    BY <1>1, <1>5, <2>1
  <2>3. x - k = 0
    BY <1>1, <2>2
  <2> QED BY <1>5, <2>1, <2>3 DEF x
<1> DEFINE w == a * y
           z == i * j
<1>8. 4 * w = 4 * z + 2 * i - 2 * j - 1 /\ w \in Int /\ z \in Int
  BY <1>6, <1>7
<1> HIDE DEF w, z
<1> QED BY <1>8

\* The second step of applyForceBeatAtTime forces the beat a microsecond later, which
\* makes up for all that is rounded: at the time itself the beat is at or below the one
\* forced, as it could be above only if two conversions were exact ties.
LEMMA TwiceNotAbove ==
  ASSUME NEW c \in Timelines, NEW s \in Int, NEW y \in Int
  PROVE  LET p     == c.perBeat
             moved == FromBeats(c, s) - FromBeats(c, 0)
             off   == LLRound((y - 1 + moved) * Unit, p) - LLRound(y * Unit, p) - s
         IN  off \in Int /\ off <= 0 /\ -(off * p) <= 2 * Unit + p
<1> DEFINE p  == c.perBeat
           a  == s - c.beat
           n  == a * p
           m  == (0 - c.beat) * p
           i  == LLRound(n, Unit)
           j  == LLRound(m, Unit)
           v  == y * Unit
           w  == (y - 1 + (i - j)) * Unit
           k  == LLRound(w, p)
           l  == LLRound(v, p)
           off == k - l - s
<1>1. /\ p \in Nat \ {0} /\ c.beat \in Int /\ c.time \in Int /\ Unit \in Nat \ {0}
      /\ a \in Int /\ n \in Int /\ m \in Int /\ v \in Int
  BY UnitAssumption DEF Timelines, PerBeats
<1>2. FromBeats(c, s) = c.time + i /\ FromBeats(c, 0) = c.time + j
  BY DEF FromBeats
<1>3. s * p = n - m /\ s * p \in Int
  BY <1>1
<1> HIDE DEF m
<1>4. /\ i \in Int /\ 2 * (i * Unit - n) <= Unit /\ 2 * (n - i * Unit) <= Unit
      /\ j \in Int /\ 2 * (j * Unit - m) <= Unit /\ 2 * (m - j * Unit) <= Unit
  <2> HIDE DEF n, p
  <2> QED BY <1>1, LLRoundType, LLRoundError
<1> HIDE DEF i, j
<1>5. FromBeats(c, s) - FromBeats(c, 0) = i - j
  BY <1>1, <1>2, <1>4
<1>6. w \in Int /\ w = v - Unit + i * Unit - j * Unit /\ i * Unit \in Int /\ j * Unit \in Int
  BY <1>1, <1>4
<1> HIDE DEF w
<1>7. /\ k \in Int /\ 2 * (k * p - w) <= p /\ 2 * (w - k * p) <= p
      /\ l \in Int /\ 2 * (l * p - v) <= p /\ 2 * (v - l * p) <= p
  <2> HIDE DEF v, p
  <2> QED BY <1>1, <1>6, LLRoundType, LLRoundError
<1> HIDE DEF k, l
<1>8. off \in Int /\ off * p = k * p - l * p - s * p /\ k * p \in Int /\ l * p \in Int
  BY <1>1, <1>7
<1>9. off * p <= p /\ -(off * p) <= 2 * Unit + p
  <2> HIDE DEF off, n, v, p
  <2> QED BY <1>1, <1>3, <1>4, <1>6, <1>7, <1>8
<1>10. off <= 1
  <2> HIDE DEF off, p
  <2>1. off >= 2 => off * p >= 2 * p
    BY <1>1, <1>8
  <2> QED BY <1>1, <1>8, <1>9, <2>1
<1>11. off # 1
  <2> SUFFICES ASSUME off = 1 PROVE FALSE
    OBVIOUS
  <2>1. off * p = p
    BY <1>1
  <2> HIDE DEF off
  <2>2. 2 * (i * Unit - n) = Unit /\ 2 * (v - l * p) = p
    <3> HIDE DEF n, v, p
    <3> QED BY <1>1, <1>3, <1>4, <1>6, <1>7, <1>8, <2>1
  <2>3. 2 * (a * p) = Unit * (2 * i - 1)
    <3>1. Unit * (2 * i - 1) = 2 * (i * Unit) - Unit
      BY <1>1, <1>4
    <3> HIDE DEF a, p
    <3> QED BY <1>1, <1>4, <1>6, <2>2, <3>1
  <2>4. 2 * (y * Unit) = p * (2 * l + 1)
    <3>1. p * (2 * l + 1) = 2 * (l * p) + p
      BY <1>1, <1>7
    <3> HIDE DEF p
    <3> QED BY <1>1, <1>7, <1>8, <2>2, <3>1
  <2> HIDE DEF a, p
  <2>5. p \in Nat \ {0} /\ Unit \in Nat \ {0} /\ a \in Int /\ i \in Int /\ l \in Int
    BY <1>1, <1>4, <1>7
  <2> QED BY <2>3, <2>4, <2>5, NoTwoTies, ZenonT(60)
<1>12. off <= 0
  <2> HIDE DEF off
  <2> QED BY <1>8, <1>10, <1>11
<1> HIDE DEF off
<1>13. LLRound((y - 1 + (i - j)) * Unit, p) - LLRound(y * Unit, p) - s = off
  BY DEF off, k, l, w, v
<1> QED BY <1>5, <1>8, <1>9, <1>12, <1>13

\* What the client reads at the time of a forced beat, once the beat is committed.
LEMMA ForcedReading ==
  ASSUME TypeOK, NEW b \in Int, NEW t \in Int, NEW q \in Nat \ {0}
  PROVE  LET f    == Forced(b, t, q)
             read == ToPhaseEncodedBeats(f, t, q)
         IN  read <= b /\ (b - read) * f.perBeat <= 2 * (Unit + f.perBeat)
<1> DEFINE once  == ForceBeatAtTimeImpl(client, b, t, q)
           next  == t + 1
           twice == ForceBeatAtTimeImpl(once, b, next, q)
           p     == client.perBeat
           moved(c, s) == FromBeats(c, s) - FromBeats(c, 0)
           first == ToPhaseEncodedBeats(once, t, q)
<1>1. client \in Timelines /\ client.time \in Int /\ p \in Nat \ {0} /\ Unit \in Nat \ {0}
  BY UnitAssumption DEF TypeOK, Timelines, PerBeats
<1>2. PICK s \in Int :
        /\ once \in Timelines /\ once.perBeat = p
        /\ moved(client, s) \in Int /\ once.time = client.time - moved(client, s)
        /\ \A u \in Int : ToPhaseEncodedBeats(once, u, q)
             = b + LLRound((u - once.time) * Unit, p) - LLRound((t - client.time) * Unit, p) - s
  BY <1>1, ForcedReads
<1> HIDE DEF once
<1>3. next \in Int
  OBVIOUS
<1>4. first \in Int /\ (b - first) * p <= Unit + p
  <2> DEFINE d   == t - client.time
             mv  == moved(client, s)
             off == LLRound((d + mv) * Unit, p) - LLRound(d * Unit, p) - s
  <2>1. /\ mv \in Int /\ mv * Unit - s * p <= Unit /\ s * p - mv * Unit <= Unit
    BY <1>1, ShiftError
  <2>2. first = b + LLRound((t - once.time) * Unit, p) - LLRound(d * Unit, p) - s
    BY <1>2
  <2>3. d \in Int /\ t - once.time = d + mv
    BY <1>1, <1>2
  <2> HIDE DEF d, mv, p
  <2>4. off \in Int /\ -(off * p) <= Unit + p
    BY <1>1, <2>1, <2>3, OnceNear
  <2>5. /\ LLRound((d + mv) * Unit, p) \in Int /\ LLRound(d * Unit, p) \in Int
    <3>1. (d + mv) * Unit \in Int /\ d * Unit \in Int
      BY <1>1, <2>1, <2>3
    <3> QED BY <1>1, <3>1, LLRoundType
  <2>6. first = b + off
    BY <2>2, <2>3, <2>5
  <2> HIDE DEF off, first
  <2>7. (b - first) * p = -(off * p) /\ first \in Int
    BY <1>1, <2>4, <2>6
  <2> QED BY <2>4, <2>7
<1> HIDE DEF next
<1>5. CASE first <= b
  <2>1. Forced(b, t, q) = once
    BY <1>4, <1>5 DEF Forced, once
  <2> HIDE DEF first
  <2>2. (b - first) * p <= 2 * (Unit + p)
    BY <1>1, <1>4
  <2> QED BY <1>2, <1>5, <2>1, <2>2 DEF first
<1>6. CASE first > b
  <2>1. Forced(b, t, q) = twice
    BY <1>6 DEF Forced, once, next
  <2>2. PICK r \in Int :
        /\ twice \in Timelines /\ twice.perBeat = once.perBeat
        /\ moved(once, r) \in Int /\ twice.time = once.time - moved(once, r)
        /\ \A u \in Int : ToPhaseEncodedBeats(twice, u, q)
             = b + LLRound((u - twice.time) * Unit, once.perBeat)
                 - LLRound((next - once.time) * Unit, once.perBeat) - r
    BY <1>2, <1>3, ForcedReads
  <2> DEFINE y    == next - once.time
             mv   == moved(once, r)
             off  == LLRound((y - 1 + mv) * Unit, p) - LLRound(y * Unit, p) - r
             last == ToPhaseEncodedBeats(twice, t, q)
  <2> HIDE DEF twice
  <2>3. last = b + LLRound((t - twice.time) * Unit, p) - LLRound(y * Unit, p) - r
    BY <1>2, <2>2
  <2>4. once.time \in Int
    BY <1>2 DEF Timelines
  <2>5. y \in Int /\ t - twice.time = y - 1 + mv /\ mv \in Int
    BY <2>2, <2>4 DEF next
  <2> HIDE DEF y, last
  <2>6. off \in Int /\ off <= 0 /\ -(off * p) <= 2 * Unit + p
    BY <1>2, <2>5, TwiceNotAbove
  <2> HIDE DEF mv
  <2>7. LLRound((y - 1 + mv) * Unit, p) \in Int /\ LLRound(y * Unit, p) \in Int
    <3>1. (y - 1 + mv) * Unit \in Int /\ y * Unit \in Int
      BY <1>1, <2>5
    <3> QED BY <1>1, <3>1, LLRoundType
  <2>8. last = b + off
    BY <2>3, <2>5, <2>7
  <2> HIDE DEF off
  <2>9. last <= b /\ (b - last) * p = -(off * p) /\ off * p \in Int
    BY <1>1, <2>6, <2>8
  <2>10. (b - last) * p <= 2 * (Unit + p)
    <3> HIDE DEF p
    <3> QED BY <1>1, <2>6, <2>9
  <2> QED BY <1>2, <2>1, <2>2, <2>9, <2>10 DEF last
<1> QED BY <1>4, <1>5, <1>6

\* A forced beat is the beat the client reads at that time, once the change is committed
\* to the session and has come back, or a little less, and never more: for every beat,
\* time, quantum and tempo (engine.go:711).
THEOREM ForcedBeatsOccur == Spec => ForcedBeatOccurs
<1> DEFINE Occurs(b, t, q) ==
             LET read == ToPhaseEncodedBeats(client', t, q)
             IN  read <= b /\ (b - read) * client'.perBeat <= 2 * (Unit + client'.perBeat)
<1>1. TypeOK /\ [Next]_vars
        => [\A b \in Beats, t \in Times, q \in Quanta : ApplyForceBeatAtTime(b, t, q) => Occurs(b, t, q)]_vars
  <2> SUFFICES ASSUME TypeOK, NEW b \in Beats, NEW t \in Times, NEW q \in Quanta,
                      ApplyForceBeatAtTime(b, t, q)
               PROVE  Occurs(b, t, q)
    OBVIOUS
  <2>1. b \in Int /\ t \in Int /\ q \in Nat \ {0}
    BY ClientTimelineAssumption
  <2>2. CommitClientTimeline(Forced(b, t, q), t)
    BY DEF ApplyForceBeatAtTime
  <2>3. client' = Forced(b, t, q)
    BY <2>1, <2>2, ForcedType, CommitKeepsClient
  <2> QED BY <2>1, <2>3, ForcedReading
<1> QED BY <1>1, TypeCorrect, PTL DEF Spec, ForcedBeatOccurs

==============================================================================
