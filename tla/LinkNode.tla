------------------------------ MODULE LinkNode ------------------------------
(***************************************************************************)
(* One Link node among peers that may send it anything a Link peer can     *)
(* send.  Every action is one pass through the select loop of engine.run,  *)
(* or the passing of time.  Packets may be lost (no action happens),       *)
(* duplicated and reordered (any state may be announced at any time).      *)
(***************************************************************************)
EXTENDS SessionEngine

CONSTANTS
  OwnIds,          \* ids the node may draw for itself
  PeerIds,         \* ids of the other nodes
  PeerSessions,    \* sessions the peers claim to be in
  PeerTimelines,   \* timelines they announce
  PeerTransports,  \* start/stop states they announce
  Offsets,         \* intercepts a measurement can find
  Beats,           \* beats the session can be at when the node sets or founds a timeline
  NodeTempos,      \* tempi the application asks for
  Times,           \* host times the application passes in
  Silent,          \* peers that may stay silent until their TTL has passed
  SyncModes,       \* settings of start/stop sync
  Loopback,        \* the node hears its own multicasts
  MaxOrigin,       \* BOUND on the beat origin of the timelines the node makes
  MaxNow           \* BOUND on the clock

ASSUME LinkNodeAssumption ==
  /\ OwnIds \subseteq Ids /\ PeerIds \subseteq Ids /\ PeerSessions \subseteq Ids
  /\ OwnIds \cap PeerIds = {}
  /\ PeerTimelines \subseteq Timelines /\ PeerTransports \subseteq Transports
  /\ \A ss \in PeerTransports : ss = NoTransport \/ ss.at > 0
  /\ Offsets \subseteq Int /\ Beats \subseteq Int /\ Times \subseteq Nat
  /\ NodeTempos \subseteq {t \in Tempos : MinTempo <= t /\ t <= MaxTempo}
  /\ Silent \subseteq Ids /\ SyncModes \subseteq BOOLEAN /\ Loopback \in BOOLEAN
  /\ MaxOrigin \in Int /\ MaxNow \in Nat

VARIABLES
  e,      \* the engine
  now     \* its monotonic clock

vars == <<e, now>>

\* What founding a session takes from outside.
Draws(engine) ==
  [id : OwnIds \ InUse(engine), beat : Beats, anchor : Anchors, now : {now}]

-----------------------------------------------------------------------------
(* initSessionState, and the snapshot New publishes. *)

InitialEngine(id, tl, sync) ==
  PublishSnapshot(
   [nodeId |-> id, sessionId |-> id, tl |-> tl, xform |-> -now,
    ss |-> NoTransport, css |-> [playing |-> FALSE, at |-> GhostToHost(-now, 0)],
    lastCb |-> FALSE, sync |-> sync, enabled |-> FALSE,
    peers |-> [p \in Ids |-> NoPeer], others |-> [s \in Ids |-> NoSession],
    measuring |-> [s \in Ids |-> NoPeer], nbr |-> 0, remeasure |-> FALSE,
    recent |-> FALSE, pending |-> FALSE, sent |-> NoMessage, echo |-> FALSE,
    snap |-> [enabled |-> FALSE, numPeers |-> 0, tempo |-> tl.tempo, playing |-> FALSE,
              nodeId |-> id, sessionId |-> id, peers |-> [p \in Ids |-> NoSession]],
    toldTempo |-> tl.tempo, toldPeers |-> 0, forgotten |-> {}])

Init ==
  /\ now = 0
  /\ \E id \in OwnIds, tempo \in NodeTempos, anchor \in Anchors, sync \in SyncModes :
       e = InitialEngine(id, [tempo |-> tempo, origin |-> 0, anchor |-> anchor], sync)

-----------------------------------------------------------------------------
(* Packets. *)

\* An Alive or a Response; the response an Alive is answered with changes
\* nothing in the engine.
PeerSeen(p, s, tl, ss) ==
  /\ e.enabled
  /\ LET state == [session |-> s, tl |-> tl, ss |-> ss, expired |-> FALSE]
     IN  \E d \in Draws(e) : e' = SawPeerState(e, p, state, d)
  /\ UNCHANGED now

PeerSpeaks ==
  \E p \in PeerIds, s \in PeerSessions, tl \in PeerTimelines, ss \in PeerTransports :
    PeerSeen(p, s, tl, ss)

\* The node's own last announcement comes back; its id is checked against the
\* one the node has by now.
OwnMulticastHeard ==
  /\ Loopback /\ e.echo /\ e.sent # NoMessage
  /\ LET heard == [e EXCEPT !.echo = FALSE]
         state == [session |-> e.sent.session, tl |-> e.sent.tl, ss |-> e.sent.ss,
                   expired |-> FALSE]
     IN  IF e.enabled /\ e.sent.node # e.nodeId
         THEN \E d \in Draws(e) : e' = SawPeerState(heard, e.sent.node, state, d)
         ELSE e' = heard
  /\ UNCHANGED now

ByeBye(p) ==
  /\ \E d \in Draws(e) : e' = RemovePeer(e, p, d)
  /\ UNCHANGED now

\* A measurement ends.  Pongs are not read while the node is disabled, so then
\* it can only run out of retries; and a pong names the session its sender is
\* in, so one that reached the node itself under an old id succeeds only for
\* the session the node is in now, with the transform it already has.
MeasurementFails(sid) ==
  /\ sid \in Measured(e)
  /\ e' = SessionMeasurementFailed([e EXCEPT !.measuring[sid] = NoPeer], sid)
  /\ UNCHANGED now

MeasurementSucceeds(sid, offset) ==
  /\ sid \in Measured(e) /\ e.enabled
  /\ e.measuring[sid] \in OwnIds => sid = e.sessionId /\ offset = e.xform
  /\ \E d \in Draws(e) :
       e' = SessionMeasured([e EXCEPT !.measuring[sid] = NoPeer], sid, offset, d)
  /\ UNCHANGED now

-----------------------------------------------------------------------------
(* Timers and time. *)

BroadcastTicker == e' = Broadcast(e) /\ UNCHANGED now

BroadcastTimerFires ==
  /\ e.pending
  /\ e' = BroadcastNow([e EXCEPT !.pending = FALSE])
  /\ UNCHANGED now

BroadcastGapPasses ==
  /\ e.recent
  /\ e' = [e EXCEPT !.recent = FALSE]
  /\ UNCHANGED now

PruneTicker ==
  /\ \E d \in Draws(e) : e' = PrunePeers(e, d)
  /\ UNCHANGED now

TtlPasses(p) ==
  /\ p \in Known(e)
  /\ e' = [e EXCEPT !.peers[p].expired = TRUE]
  /\ UNCHANGED now

\* MUTANT of RemeasureTimerFires: the timer is not armed again.
RemeasureTimerFiresOnce ==
  /\ e.remeasure
  /\ e' = LaunchSessionMeasurement([e EXCEPT !.remeasure = FALSE], e.sessionId)
  /\ UNCHANGED now

RemeasureTimerFires ==
  /\ e.remeasure
  /\ e' = ScheduleRemeasure(
            LaunchSessionMeasurement([e EXCEPT !.remeasure = FALSE], e.sessionId))
  /\ UNCHANGED now

Tick ==
  /\ now < MaxNow
  /\ now' = now + 1
  /\ UNCHANGED e

-----------------------------------------------------------------------------
(* The application. *)

SetTempo(tempo, beat, anchor) ==
  /\ tempo = e.tl.tempo => anchor = e.tl.anchor
  /\ e' = CommitClientTimeline(e, tempo, anchor, beat)
  /\ e'.tl.origin <= MaxOrigin
  /\ UNCHANGED now

\* ForceBeatAtTime and RequestBeatAtTime: the tempo stays, beat 0 may move.
MoveBeat(beat, anchor) ==
  /\ e' = CommitClientTimeline(e, e.tl.tempo, anchor, beat)
  /\ e'.tl.origin <= MaxOrigin
  /\ UNCHANGED now

SetIsPlaying(playing, at) ==
  /\ e' = ApplyPlayingChange(e, playing, at)
  /\ UNCHANGED now

EnableStartStopSync(on) ==
  /\ e' = [e EXCEPT !.sync = on]
  /\ UNCHANGED now

EnableLink ==
  /\ ~e.enabled
  /\ \E d \in Draws(e) : e' = Enable(e, d)
  /\ UNCHANGED now

DisableLink ==
  /\ e.enabled
  /\ e' = Disable(e)
  /\ UNCHANGED now

-----------------------------------------------------------------------------
Next ==
  \/ PeerSpeaks
  \/ OwnMulticastHeard
  \/ \E p \in PeerIds : ByeBye(p)
  \/ \E s \in Ids : MeasurementFails(s)
  \/ \E s \in Ids, offset \in Offsets : MeasurementSucceeds(s, offset)
  \/ BroadcastTicker
  \/ BroadcastTimerFires
  \/ BroadcastGapPasses
  \/ PruneTicker
  \/ \E p \in Silent : TtlPasses(p)
  \/ RemeasureTimerFires
  \/ Tick
  \/ \E tempo \in NodeTempos, beat \in Beats, anchor \in Anchors : SetTempo(tempo, beat, anchor)
  \/ \E beat \in Beats, anchor \in Anchors : MoveBeat(beat, anchor)
  \/ \E playing \in BOOLEAN, at \in Times : SetIsPlaying(playing, at)
  \/ \E on \in SyncModes : EnableStartStopSync(on)
  \/ EnableLink
  \/ DisableLink

Spec == Init /\ [][Next]_vars

-----------------------------------------------------------------------------
(* Properties. *)

\* Every field of the engine keeps its type.
TypeOK == e \in Engines /\ now \in Nat

\* sessionPeerNbr is the number of peers in the current session whenever no
\* handler is running, whichever handler changed the peers or the session
\* (sessionMembershipChanged, engine.go:434).
PeerCountExact == e.nbr = Cardinality(Members(e))

\* A disabled node knows no peer and no other session (setEnabled, engine.go:744).
DisabledKnowsNobody == ~e.enabled => Known(e) = {} /\ Tracked(e) = {} /\ e.nbr = 0

\* The current session is never among the other sessions (engine.go:555).
CurrentIsNotOther == e.sessionId \notin Tracked(e)

\* What the public API reads is one state of the session: its peer count is
\* that of its own session in its own peer list, although most handlers that
\* change peers publish no snapshot (publishSnapshot, engine.go:755).
SnapshotCoherent ==
  e.snap.numPeers = Cardinality({p \in Ids : e.snap.peers[p] = e.snap.sessionId})

\* Tempo(), IsPlaying() and NumPeers() return the values of the engine, and the
\* callbacks have reported them, but for the last peer lost by disabling the
\* node (updateSessionTiming returns before publishing
\* when it thinks nothing changed, engine.go:602).
ReadersAndCallbacksCurrent ==
  /\ e.snap.tempo = e.tl.tempo /\ e.toldTempo = e.tl.tempo
  /\ e.snap.playing = e.css.playing /\ e.lastCb = e.css.playing
  /\ e.snap.numPeers = e.nbr /\ (e.nbr > 0 => e.toldPeers = e.nbr)

\* A node in a session somebody else founded keeps the periodic remeasurement
\* armed (scheduleRemeasure, engine.go:512), so its clock offset is refreshed.
ForeignSessionRemeasured == e.sessionId # e.nodeId => e.remeasure

\* The peers this node knows never hold a timeline that wins over the one it
\* has for their session, unless a failed measurement made it forget that
\* session (sawSessionTimeline, engine.go:459; join and commit).
PeersNeverAhead ==
  \A p \in Known(e) :
    LET s == e.peers[p].session
    IN  s \notin e.forgotten =>
          IF s = e.sessionId THEN e.peers[p].tl.origin <= e.tl.origin
          ELSE s \in Tracked(e) /\ e.peers[p].tl.origin <= e.others[s].origin

\* While enabled, what the node last announced is its current state, or a
\* broadcast is scheduled (broadcast, engine.go:304): the handlers that change
\* the state more than once announce the last change too.
ChangesAreAnnounced ==
  e.enabled => e.pending \/ e.sent = CurrentPeerState(e)

\* Within a session the timeline only changes to one with a greater beat origin,
\* which is what makes peers adopt the change (timeline.go:83, engine.go:461).
TimelineOnlyAdvances ==
  [][e'.sessionId = e.sessionId => e'.tl = e.tl \/ e'.tl.origin > e.tl.origin]_vars

\* Within a session the transport state is only replaced by a later one
\* (engine.go:624 and 681), so no late packet undoes a newer start or stop.
TransportOnlyAdvances ==
  [][e'.sessionId = e.sessionId => e'.ss = e.ss \/ e'.ss.at > e.ss.at]_vars

\* The node changes session only to found one, under a new id of its own and
\* forgetting every peer, or to join one it measured, knew and that won
\* (engine.go:551, 571).
SessionChangesJustified ==
  [][e'.sessionId # e.sessionId =>
       \/ /\ e'.sessionId = e'.nodeId /\ e'.nodeId # e.nodeId
          /\ Known(e') = {} /\ Tracked(e') = {}
          /\ e.enabled => e.nbr > 0
       \/ /\ e'.nodeId = e.nodeId
          /\ e'.sessionId \in Tracked(e) \cap Measured(e)
          /\ SessionWins(e, e'.sessionId, e'.xform)]_vars

-----------------------------------------------------------------------------
(* What the documentation of the code says and the code does not do, which  *)
(* a run refutes.                                                           *)

\* "forget the session (it will be re-measured if seen again)" (engine.go:541):
\* a packet that puts a peer in another session leaves that session tracked
\* or being measured.
ForgottenSessionsMeasuredAgain ==
  [][\A p \in PeerIds, s \in PeerSessions, tl \in PeerTimelines, ss \in PeerTransports :
       /\ e.enabled
       /\ PeerSeen(p, s, tl, ss)
       /\ p \notin Unmeasurable
       => s \in {e'.sessionId} \cup Tracked(e') \cup Measured(e')]_vars

=============================================================================
