------------------------------ MODULE Timelines ------------------------------
(***************************************************************************)
(* The arithmetic of beats and time: src/link/beats.go, timeline.go and    *)
(* tempo.go on integers.  Beats count micro-beats, Unit of them to a beat  *)
(* (10^6 in the code); times and clock offsets count microseconds; a tempo *)
(* is its microseconds per beat, the form MicrosPerBeat gives it and every *)
(* conversion uses.  The floating-point conversions are exact rationals    *)
(* rounded as math.Round rounds them, so the rounding the code depends on  *)
(* is kept and the error of float64 itself is not.                         *)
(***************************************************************************)
EXTENDS Rounding

CONSTANTS
  Unit,                       \* micro-beats per beat
  MinPerBeat, MaxPerBeat      \* the tempo range, as microseconds per beat

ASSUME UnitAssumption ==
  /\ Unit \in Nat \ {0}
  /\ MinPerBeat \in Nat \ {0} /\ MaxPerBeat \in Nat /\ MinPerBeat <= MaxPerBeat

PerBeats == MinPerBeat .. MaxPerBeat
Timelines == [perBeat : PerBeats, beat : Int, time : Int]

-----------------------------------------------------------------------------
(* Phase. *)

Phase(beats, quantum) ==
  IF quantum = 0 THEN 0
  ELSE (beats + ((Magnitude(beats) + quantum) \div quantum) * quantum) % quantum

\* Defined for a quantum other than 0; the code divides by it and panics.
NextPhaseMatch(x, target, quantum) ==
  x + ((Phase(target, quantum) - Phase(x, quantum) + quantum) % quantum)

\* What the code shifts x by: half the quantum in beats, not in micro-beats.
Half(quantum) == LLRound(quantum, 2 * Unit)

ClosestPhaseMatch(x, target, quantum) == NextPhaseMatch(x - Half(quantum), target, quantum)

-----------------------------------------------------------------------------
(* Timelines. *)

\* MUTANT of ClampTempo: tempi that are too fast are let through.
ClampTempoSlow(perBeat) == IF perBeat > MaxPerBeat THEN MaxPerBeat ELSE perBeat

ClampTempo(perBeat) ==
  IF perBeat < MinPerBeat THEN MinPerBeat ELSE IF perBeat > MaxPerBeat THEN MaxPerBeat ELSE perBeat

ToBeats(tl, t)   == tl.beat + LLRound((t - tl.time) * Unit, tl.perBeat)
FromBeats(tl, b) == tl.time + LLRound((b - tl.beat) * tl.perBeat, Unit)

HostToGhost(xform, host)  == host + xform
GhostToHost(xform, ghost) == ghost - xform

ToPhaseEncodedBeats(tl, t, quantum) ==
  ClosestPhaseMatch(ToBeats(tl, t), ToBeats(tl, t) - tl.beat, quantum)

\* MUTANT of FromPhaseEncodedBeats: the inverse phase offset is not matched again.
FromPhaseEncodedBeatsDirect(tl, beat, quantum) ==
  FromBeats(tl, beat - Phase(beat - tl.beat, quantum) + Phase(beat, quantum))

FromPhaseEncodedBeats(tl, beat, quantum) ==
  LET phase  == Phase(beat - tl.beat, quantum)
      offset == ClosestPhaseMatch(quantum - phase, quantum - Phase(beat, quantum), quantum)
  IN  FromBeats(tl, beat - phase + quantum - offset)

ShiftClientTimeline(tl, shift) ==
  [tl EXCEPT !.time = @ - (FromBeats(tl, shift) - FromBeats(tl, 0))]

ForceBeatAtTimeImpl(tl, beat, t, quantum) ==
  LET current == ToPhaseEncodedBeats(tl, t, quantum)
      closest == ClosestPhaseMatch(current, beat, quantum)
  IN  [ShiftClientTimeline(tl, closest - current) EXCEPT !.beat = @ + beat - closest]

\* MUTANT of UpdateClientTimelineFromSession: only the tempo is adopted.
UpdateClientTimelineFromSessionTempo(client, session, t, xform) ==
  [client EXCEPT !.perBeat = session.perBeat]

\* MUTANT of UpdateClientTimelineFromSession: the client's beat is not adjusted.
UpdateClientTimelineFromSessionJumps(client, session, t, xform) ==
  [client EXCEPT !.perBeat = session.perBeat,
                 !.time = GhostToHost(xform, FromBeats(session, 0))]

UpdateClientTimelineFromSession(client, session, t, xform) ==
  LET zero == GhostToHost(xform, FromBeats(session, 0))
      here == [perBeat |-> session.perBeat, beat |-> ToBeats(client, t), time |-> t]
  IN  [perBeat |-> session.perBeat, beat |-> ToBeats(here, zero), time |-> zero]

\* MUTANT of UpdateSessionTimelineFromClient: the origin is not forced to grow.
UpdateSessionTimelineFromClientUnforced(session, client, t, xform) ==
  LET zero   == HostToGhost(xform, client.time)
      origin == ToBeats(session, HostToGhost(xform, t))
      from0  == [perBeat |-> client.perBeat, beat |-> 0, time |-> zero]
  IN  IF ToBeats(session, zero) = 0 /\ client.perBeat = session.perBeat THEN session
      ELSE [perBeat |-> client.perBeat, beat |-> origin, time |-> FromBeats(from0, origin)]

UpdateSessionTimelineFromClient(session, client, t, xform) ==
  LET zero   == HostToGhost(xform, client.time)
      now    == ToBeats(session, HostToGhost(xform, t))
      origin == IF now < session.beat + 1 THEN session.beat + 1 ELSE now
      from0  == [perBeat |-> client.perBeat, beat |-> 0, time |-> zero]
  IN  IF ToBeats(session, zero) = 0 /\ client.perBeat = session.perBeat THEN session
      ELSE [perBeat |-> client.perBeat, beat |-> origin, time |-> FromBeats(from0, origin)]

=============================================================================
