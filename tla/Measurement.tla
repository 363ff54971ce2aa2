---------------------------- MODULE Measurement ----------------------------
(***************************************************************************)
(* The ping/pong clock measurement of src/link/measurement.go: one node    *)
(* measuring peers that answer its pings and may change session meanwhile. *)
(* Packets are lost, delayed and reordered.  Times are microseconds of the *)
(* node's own clock; the ghost clock of a session runs at its rate, Offset *)
(* away from it.                                                           *)
(*                                                                         *)
(* A timer of the hub is "running" until its AfterFunc has put its id in   *)
(* the channel, "fired" until the engine takes it from there.  Cancelling  *)
(* a timer in either state makes its id a dead one, which hub.fire ignores,*)
(* so only the timer a measurement holds is kept.                          *)
(***************************************************************************)
EXTENDS Rounding, FiniteSets, SequencesExt

CONSTANTS
  Sessions, Peers,
  Offset,        \* ghost minus host time, of each session
  MaxPoints,     \* maxMeasurePoints
  MaxStarts,     \* maxMeasureStarts
  Failed, NoSession, NoMeasurer,
  MaxDelay,      \* BOUND on the delay of a packet, its wait for the engine included
  MaxFlight,     \* BOUND on the packets in flight; others are lost
  MaxChanges,    \* BOUND on the session changes of the peers and the calls to Enable(false)
  StartTime,     \* BOUND: the time at which the node starts
  MaxNow         \* BOUND on the clock

ASSUME MeasurementAssumption ==
  /\ IsFiniteSet(Sessions) /\ IsFiniteSet(Peers)
  /\ Offset \in [Sessions -> Int]
  /\ MaxPoints \in Nat \ {0} /\ MaxStarts \in Nat
  /\ NoSession \notin Sessions
  /\ Failed \notin Int
  /\ MaxDelay \in Nat /\ MaxFlight \in Nat /\ MaxChanges \in Nat
  /\ MaxNow \in Nat /\ StartTime \in 0 .. MaxNow

\* A time of 0 is sent as an absent entry, which is how both ends read it.
Absent == 0

\* clock is history: the session whose ghost time prev is.
Pings == [peer : Peers, host : Nat, prev : Int, clock : Sessions]
Pongs == [peer : Peers, session : Sessions, ghost : Int, host : Nat, prev : Int,
          clock : Sessions, sent : Nat]

\* points holds twice each estimate, in increasing order, as median sorts them.
\* mixed is history: how many estimates mix two ghost clocks.
Measurers == [target : Peers, points : Seq(Int), started : 0 .. MaxStarts,
              timer : {"running", "fired"}, mixed : Nat]

ASSUME NoMeasurerAssumption == NoMeasurer \notin Measurers

VARIABLES
  enabled,       \* enabledFlag
  measurer,      \* the measurements, per session
  heard,         \* the session each peer was last heard in
  at,            \* the session each peer is in
  pings, pongs,  \* packets in flight
  changes,       \* how many of those there were
  result,        \* history: how the last measurement ended
  now

vars == <<enabled, measurer, heard, at, pings, pongs, changes, result, now>>

Measured == {s \in Sessions : measurer[s] # NoMeasurer}

Init ==
  /\ enabled = TRUE
  /\ measurer = [s \in Sessions |-> NoMeasurer]
  /\ heard = [p \in Peers |-> NoSession]
  /\ at \in [Peers -> Sessions]
  /\ pings = {} /\ pongs = {}
  /\ changes = 0
  /\ result = [session |-> NoSession, xform |-> Failed, mixed |-> 0]
  /\ now = StartTime

-----------------------------------------------------------------------------
(* Helpers of the handlers. *)

\* A packet more on its way, unless the network is full; an answer takes the
\* place of what it answers.
Sent(flight, packet) ==
  IF Cardinality(pings) + Cardinality(pongs) < MaxFlight THEN flight \cup {packet} ELSE flight
Answered(flight, packet) ==
  IF Cardinality(pings) + Cardinality(pongs) <= MaxFlight THEN flight \cup {packet} ELSE flight

Ping(peer, prevGhost, clock) ==
  [peer |-> peer, host |-> now, prev |-> prevGhost, clock |-> clock]

\* Twice the median of a sorted sequence.
Median(points) ==
  LET n == Len(points) IN points[(n \div 2) + 1] + points[((n - 1) \div 2) + 1]

\* Sorted estimates and one more, twice; Rank is its place among them.
Rank(points, twice) ==
  CHOOSE k \in 1 .. Len(points) + 1 : \A i \in DOMAIN points : points[i] <= twice <=> i < k
With(points, twice) == InsertAt(points, Rank(points, twice), twice)

\* The estimates once a pong has added its own.
Estimates(points, pong) ==
  LET direct == IF pong.ghost # 0 /\ pong.host # Absent
                THEN With(points, 2 * pong.ghost - (now + pong.host)) ELSE points
  IN  IF pong.prev # Absent
      THEN With(direct, pong.ghost + pong.prev - 2 * pong.host) ELSE direct

Mixes(pong) == IF pong.prev # Absent /\ pong.clock # pong.session THEN 1 ELSE 0

\* More estimates are needed: the watchdog is armed again.
Continues(s, points, mixed) ==
  /\ measurer' = [measurer EXCEPT ![s].points = points, ![s].mixed = mixed,
                                  ![s].timer = "running"]
  /\ UNCHANGED result

Ends(s, xform, mixed) ==
  /\ measurer' = [measurer EXCEPT ![s] = NoMeasurer]
  /\ result' = [session |-> s, xform |-> xform, mixed |-> mixed]

-----------------------------------------------------------------------------
(* The node. *)

\* An announcement of p is handled; its session may be measured from now on.
Hear(p) ==
  /\ enabled /\ heard[p] # at[p]
  /\ heard' = [heard EXCEPT ![p] = at[p]]
  /\ UNCHANGED <<enabled, measurer, at, pings, pongs, changes, result, now>>

\* startMeasurement, for a session and a peer launchSessionMeasurement chose.
StartMeasurement(s, p) ==
  /\ s \notin Measured /\ heard[p] = s
  /\ measurer' = [measurer EXCEPT ![s] =
       [target |-> p, points |-> <<>>, started |-> 0, timer |-> "running",
        mixed |-> 0]]
  /\ pings' = Sent(pings, Ping(p, Absent, s))
  /\ UNCHANGED <<enabled, heard, at, pongs, changes, result, now>>

\* MUTANT of Accept: one estimate too many is waited for.
AcceptLate(s, pong) ==
  LET points == Estimates(measurer[s].points, pong)
      mixed  == measurer[s].mixed + Mixes(pong)
  IN  /\ pings' = Answered(pings, Ping(pong.peer, pong.ghost, s))
      /\ IF Len(points) > MaxPoints + 1
         THEN Ends(s, LLRound(Median(points), 4), mixed)
         ELSE Continues(s, points, mixed)

\* A pong of the session being measured: the dialog goes on with a new ping,
\* even when this pong completes the measurement.
Accept(s, pong) ==
  LET points == Estimates(measurer[s].points, pong)
      mixed  == measurer[s].mixed + Mixes(pong)
  IN  /\ pings' = Answered(pings, Ping(pong.peer, pong.ghost, s))
      /\ IF Len(points) > MaxPoints
         THEN Ends(s, LLRound(Median(points), 4), mixed)
         ELSE Continues(s, points, mixed)

\* The measurements a pong may be for; the code takes the first one in the
\* undefined order of a map, whatever session the pong names.
Matching(pong) == {s \in Measured : measurer[s].target = pong.peer}

\* MUTANT of HandlePong: the session of the pong is not looked at.
HandlePongOfAnySession(pong) ==
  /\ pongs' = pongs \ {pong}
  /\ IF ~enabled \/ Matching(pong) = {}
     THEN UNCHANGED <<measurer, pings, result>>
     ELSE \E s \in Matching(pong) : Accept(s, pong)
  /\ UNCHANGED <<enabled, heard, at, changes, now>>

HandlePong(pong) ==
  /\ pongs' = pongs \ {pong}
  /\ IF ~enabled \/ Matching(pong) = {}
     THEN UNCHANGED <<measurer, pings, result>>
     ELSE \E s \in Matching(pong) :
            \/ pong.session = s /\ Accept(s, pong)
            \/ pong.session # s /\ Ends(s, Failed, 0) /\ UNCHANGED pings
  /\ UNCHANGED <<enabled, heard, at, changes, now>>

TimerExpires(s) ==
  /\ s \in Measured /\ measurer[s].timer = "running"
  /\ measurer' = [measurer EXCEPT ![s].timer = "fired"]
  /\ UNCHANGED <<enabled, heard, at, pings, pongs, changes, result, now>>

\* MUTANT of MeasurerTimerFired: retries are not counted.
MeasurerTimerFiredForever(s) ==
  /\ s \in Measured /\ measurer[s].timer = "fired"
  /\ \/ /\ measurer[s].started < MaxStarts
        /\ pings' = Sent(pings, Ping(measurer[s].target, Absent, s))
        /\ measurer' = [measurer EXCEPT ![s].timer = "running"]
        /\ UNCHANGED result
     \/ /\ measurer[s].started >= MaxStarts
        /\ Ends(s, Failed, 0) /\ UNCHANGED pings
  /\ UNCHANGED <<enabled, heard, at, pongs, changes, now>>

MeasurerTimerFired(s) ==
  /\ s \in Measured /\ measurer[s].timer = "fired"
  /\ \/ /\ measurer[s].started < MaxStarts
        /\ pings' = Sent(pings, Ping(measurer[s].target, Absent, s))
        /\ measurer' = [measurer EXCEPT ![s].started = @ + 1, ![s].timer = "running"]
        /\ UNCHANGED result
     \/ /\ measurer[s].started >= MaxStarts
        /\ Ends(s, Failed, 0) /\ UNCHANGED pings
  /\ UNCHANGED <<enabled, heard, at, pongs, changes, now>>

SetEnabled(on) ==
  /\ on # enabled /\ (on \/ changes < MaxChanges)
  /\ enabled' = on
  /\ heard' = [p \in Peers |-> NoSession]
  /\ changes' = IF on THEN changes ELSE changes + 1
  /\ UNCHANGED <<measurer, at, pings, pongs, result, now>>

-----------------------------------------------------------------------------
(* The peers, the network and time. *)

\* A peer runs handlePing: its session, the ghost time, and the ping echoed.
HandlePing(ping) ==
  /\ pings' = pings \ {ping}
  /\ LET s == at[ping.peer]
     IN  pongs' = Answered(pongs, [peer |-> ping.peer, session |-> s, ghost |-> now + Offset[s],
                               host |-> ping.host, prev |-> ping.prev,
                               clock |-> ping.clock, sent |-> now])
  /\ UNCHANGED <<enabled, measurer, heard, at, changes, result, now>>

Move(p, s) ==
  /\ changes < MaxChanges /\ s # at[p]
  /\ at' = [at EXCEPT ![p] = s]
  /\ changes' = changes + 1
  /\ UNCHANGED <<enabled, measurer, heard, pings, pongs, result, now>>

\* A packet nobody has read for MaxDelay is lost.
Tick ==
  /\ now < MaxNow
  /\ now' = now + 1
  /\ pings' = {ping \in pings : now' - ping.host <= MaxDelay}
  /\ pongs' = {pong \in pongs : now' - pong.sent <= MaxDelay}
  /\ UNCHANGED <<enabled, measurer, heard, at, changes, result>>

-----------------------------------------------------------------------------
Next ==
  \/ \E p \in Peers : Hear(p)
  \/ \E s \in Sessions, p \in Peers : StartMeasurement(s, p)
  \/ \E pong \in pongs : HandlePong(pong)
  \/ \E s \in Sessions : TimerExpires(s)
  \/ \E s \in Sessions : MeasurerTimerFired(s)
  \/ \E on \in BOOLEAN : SetEnabled(on)
  \/ \E ping \in pings : HandlePing(ping)
  \/ \E p \in Peers, s \in Sessions : Move(p, s)
  \/ Tick

Spec == Init /\ [][Next]_vars

\* Timers expire, the engine takes their ids from the channel, and time passes;
\* nothing is assumed of the network or of the peers.
FairSpec ==
  /\ Spec
  /\ \A s \in Sessions : WF_vars(TimerExpires(s)) /\ WF_vars(MeasurerTimerFired(s))
  /\ WF_vars(Tick)

-----------------------------------------------------------------------------
(* Properties. *)

\* Every variable keeps its type; a measurement never holds more estimates than
\* handlePong lets it go on with (measurement.go:150), and always has a timer.
TypeOK ==
  /\ enabled \in BOOLEAN
  /\ measurer \in [Sessions -> Measurers \cup {NoMeasurer}]
  /\ \A s \in Measured : Len(measurer[s].points) <= MaxPoints
  /\ heard \in [Peers -> Sessions \cup {NoSession}] /\ at \in [Peers -> Sessions]
  /\ pings \subseteq Pings /\ pongs \subseteq Pongs
  /\ changes \in 0 .. MaxChanges /\ now \in 0 .. MaxNow
  /\ result \in [session : Sessions \cup {NoSession}, xform : Int \cup {Failed}, mixed : Nat]

\* A measurement that succeeds finds the offset of its session's ghost clock to
\* within half the largest packet delay (and the rounding), however the packets
\* were delayed, lost and reordered, if most of its estimates are of one clock:
\* a ping in flight when its target changes session mixes two (handlePong,
\* measurement.go:129-148).
EstimateAccurate ==
  result.xform # Failed /\ 2 * result.mixed <= MaxPoints =>
    2 * Magnitude(result.xform - Offset[result.session]) <= MaxDelay + 1

\* Measurements keep their contract: one at a time for a session, ended once,
\* and every one ends, even if no answer ever comes or the node is disabled
\* (measurerTimerFired, measurement.go:160).
Contract == INSTANCE MeasurementContract
              WITH measured <- Measured, ended <- result.session,
                   succeeded <- result.xform # Failed
ImplementsContract == Contract!Spec

=============================================================================
