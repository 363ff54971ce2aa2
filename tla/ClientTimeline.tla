---------------------------- MODULE ClientTimeline ----------------------------
(***************************************************************************)
(* The two timelines of a node, the session's in ghost time and the        *)
(* client's in host time, and the operations of src/link/engine.go that    *)
(* change one and carry the change to the other.  It is the arithmetic     *)
(* that LinkNode leaves out; peers, sessions and packets appear here only  *)
(* as a timeline or a clock offset that arrives.                           *)
(***************************************************************************)
EXTENDS Timelines

CONSTANTS
  PeerBeats, PeerTimes,   \* beat and time origins of the timelines peers announce
  Asked,                  \* tempi asked for or announced, clamped or not
  Offsets,                \* intercepts measurements find
  Beats,                  \* beats the application forces or requests
  Times,                  \* host times it names, and at which beats are read
  Quanta,
  MaxNow, MaxOrigin, MaxDrift   \* BOUNDS: clock, session origin, client origins

ASSUME ClientTimelineAssumption ==
  /\ PeerBeats \subseteq Int /\ PeerTimes \subseteq Int /\ Asked \subseteq Nat \ {0}
  /\ Offsets \subseteq Int /\ Beats \subseteq Int /\ Times \subseteq Int
  /\ Quanta \subseteq Nat \ {0}
  /\ MaxNow \in Nat /\ MaxOrigin \in Nat /\ MaxDrift \in Nat

VARIABLES
  session,   \* sessionTimeline
  client,    \* clientTimeline
  xform,     \* intercept of sessionXForm
  shown,     \* the timeline of the published snapshot
  alone,     \* sessionPeerNbr = 0
  now

vars == <<session, client, xform, shown, alone, now>>

-----------------------------------------------------------------------------
\* initSessionState, then publishSnapshot.
Init ==
  /\ now = 0 /\ xform = 0 /\ alone = TRUE
  /\ \E perBeat \in Asked :
       session = [perBeat |-> ClampTempo(perBeat), beat |-> 0, time |-> 0]
  /\ client = [session EXCEPT !.time = GhostToHost(xform, 0)]
  /\ shown = client

\* BOUND: the states explored.
Bounded ==
  /\ Magnitude(session'.beat) <= MaxOrigin
  /\ Magnitude(client'.beat) <= MaxDrift /\ Magnitude(client'.time) <= MaxDrift

\* updateSessionTiming when the client's timeline has just become c.
UpdateSessionTiming(c, tl, x) ==
  LET new == [tl EXCEPT !.perBeat = ClampTempo(@)]
  IN  /\ session' = new /\ xform' = x
      /\ IF new = session /\ x = xform
         THEN client' = c /\ UNCHANGED shown
         ELSE /\ client' = UpdateClientTimelineFromSession(c, new, now, x)
              /\ shown' = client'
      /\ Bounded

CommitClientTimeline(c, at) ==
  UpdateSessionTiming(c, UpdateSessionTimelineFromClient(session, c, at, xform), xform)

-----------------------------------------------------------------------------
(* Timelines and clocks from the session. *)

\* sawSessionTimeline of the current session.
AdoptTimeline(tl) ==
  /\ tl.beat > session.beat
  /\ UpdateSessionTiming(client, tl, xform)
  /\ UNCHANGED <<alone, now>>

\* A measurement of the current session.
Remeasured(x) ==
  /\ UpdateSessionTiming(client, session, x)
  /\ UNCHANGED <<alone, now>>

\* Joining a session: its timeline and its clock at once.
Joined(tl, x) ==
  /\ UpdateSessionTiming(client, tl, x)
  /\ alone' = FALSE
  /\ UNCHANGED now

\* MUTANT of ResetState: the new session starts at beat 0.
ResetStateAtZero ==
  LET founded == -now
  IN  /\ UpdateSessionTiming(client, [session EXCEPT !.beat = 0, !.time = 0], founded)
      /\ alone' = TRUE
      /\ UNCHANGED now

ResetState ==
  LET founded == -now
      host    == GhostToHost(founded, 0)
      tl      == [perBeat |-> session.perBeat, beat |-> ToBeats(session, HostToGhost(xform, host)),
                  time |-> HostToGhost(founded, host)]
  IN  /\ UpdateSessionTiming(client, tl, founded)
      /\ alone' = TRUE
      /\ UNCHANGED now

-----------------------------------------------------------------------------
(* The application. *)

\* The client's timeline when its tempo changes at the time at.
AskedTimeline(perBeat, at) ==
  LET desired == [perBeat |-> ClampTempo(perBeat), beat |-> ToBeats(client, at), time |-> at]
  IN  [client EXCEPT !.perBeat = desired.perBeat, !.time = FromBeats(desired, client.beat)]

ApplyTempoChange(perBeat, at) ==
  /\ CommitClientTimeline(AskedTimeline(perBeat, at), at)
  /\ UNCHANGED <<alone, now>>

\* MUTANT of Forced: a beat that comes out too high is left so.
ForcedOnce(beat, at, quantum) == ForceBeatAtTimeImpl(client, beat, at, quantum)

\* The client's timeline after both steps of applyForceBeatAtTime.
Forced(beat, at, quantum) ==
  LET once == ForceBeatAtTimeImpl(client, beat, at, quantum)
  IN  IF ToPhaseEncodedBeats(once, at, quantum) > beat
      THEN ForceBeatAtTimeImpl(once, beat, at + 1, quantum) ELSE once

ApplyForceBeatAtTime(beat, at, quantum) ==
  /\ CommitClientTimeline(Forced(beat, at, quantum), at)
  /\ UNCHANGED <<alone, now>>

ApplyRequestBeatAtTime(beat, at, quantum) ==
  LET next == NextPhaseMatch(ToPhaseEncodedBeats(client, at, quantum), beat, quantum)
      when == IF alone THEN at ELSE FromPhaseEncodedBeats(client, next, quantum)
  IN  ApplyForceBeatAtTime(beat, when, quantum)

Tick ==
  /\ now < MaxNow
  /\ now' = now + 1
  /\ UNCHANGED <<session, client, xform, shown, alone>>

-----------------------------------------------------------------------------
Announced == [perBeat : Asked, beat : PeerBeats, time : PeerTimes]

FromSession ==
  \/ \E tl \in Announced : AdoptTimeline(tl)
  \/ \E x \in Offsets : Remeasured(x)
  \/ \E tl \in Announced, x \in Offsets : Joined(tl, x)
  \/ ResetState

FromApplication ==
  \/ \E perBeat \in Asked, at \in Times : ApplyTempoChange(perBeat, at)
  \/ \E beat \in Beats, at \in Times, quantum \in Quanta : ApplyForceBeatAtTime(beat, at, quantum)
  \/ \E beat \in Beats, at \in Times, quantum \in Quanta : ApplyRequestBeatAtTime(beat, at, quantum)

Next == FromSession \/ FromApplication \/ Tick

Spec == Init /\ [][Next]_vars

-----------------------------------------------------------------------------
(* Properties. *)

\* Every variable keeps its type; the tempi stay in the range of clampTempo.
TypeOK ==
  /\ session \in Timelines /\ client \in Timelines /\ shown \in Timelines
  /\ xform \in Int /\ alone \in BOOLEAN /\ now \in Nat

\* The client's timeline starts where the session's beat 0 is (timeline.go:65), up to
\* the rounding of one conversion each way, and so does the one readers have, although
\* it may be older (engine.go:602): it is what makes the phases of all nodes of a
\* session agree, whatever their beats are.
GridAnchored ==
  LET zero == GhostToHost(xform, FromBeats(session, 0))
  IN  \A tl \in {client, shown} :
        /\ tl.perBeat = session.perBeat
        /\ 2 * Unit * Magnitude(tl.time - zero) <= tl.perBeat + Unit

\* TimeAtBeat finds the time BeatAtTime was asked about, up to the rounding of raw
\* beats (timeline.go:49), although the phase encoding moves the beat.
RoundTrip ==
  \A t \in Times, q \in Quanta :
    FromPhaseEncodedBeats(client, ToPhaseEncodedBeats(client, t, q), q)
      = FromBeats(client, ToBeats(client, t))

\* Nothing the session does makes the client's beat jump: at the moment of the change
\* the new timeline is where the old one was (timeline.go:73).
Continuous == [][FromSession => ToBeats(client', now) = ToBeats(client, now)]_vars

\* Founding a session keeps the session's beat where it was, under the new clock
\* (engine.go:578).
FoundingContinuous ==
  [][ResetState => ToBeats(session', HostToGhost(xform', now)) = ToBeats(session, HostToGhost(xform, now))]_vars

\* A commit leaves the session's timeline alone or gives it a greater origin,
\* or no peer would adopt the change (timeline.go:83).
CommitsAdvance ==
  [][FromApplication => session' = session \/ session'.beat > session.beat]_vars

\* After a forced beat the client reads at that time the beat it forced or, by the
\* rounding of the two conversions, a little less, and never more (engine.go:711).
ForcedBeatOccurs ==
  [][\A b \in Beats, t \in Times, q \in Quanta :
       ApplyForceBeatAtTime(b, t, q) =>
         LET read == ToPhaseEncodedBeats(client', t, q)
         IN  read <= b /\ (b - read) * client'.perBeat <= 2 * (Unit + client'.perBeat)]_vars

-----------------------------------------------------------------------------
(* What the documentation of the code says and the code does not do, which  *)
(* a run refutes.                                                           *)

\* RequestBeatAtTime is "respecting the quantum grid when connected to other peers"
\* (link.go:239): the session's beat 0 moves by the rounding of a conversion at most.
GridRespected ==
  [][\A b \in Beats, t \in Times, q \in Quanta :
       ~alone /\ ApplyRequestBeatAtTime(b, t, q)
         => Magnitude(FromBeats(session', 0) - FromBeats(session, 0)) <= 2]_vars

=============================================================================
