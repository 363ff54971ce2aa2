--------------------------- MODULE SessionEngine ---------------------------
(***************************************************************************)
(* The state machine of one Link node: the fields of type engine in        *)
(* src/link/engine.go as one record, and every method that changes them as *)
(* an operator from record to record.  A method that calls another is the  *)
(* composition of their operators, in the order of the code, so a step of  *)
(* LinkNode is a whole run of a handler on the engine goroutine.           *)
(*                                                                         *)
(* Data is abstracted to what the session logic tells apart:               *)
(*  - a timeline is its tempo, its beat origin (whose order decides which  *)
(*    timeline wins) and an anchor, the ghost time of its beat 0;          *)
(*  - a GhostXForm is its intercept, its slope being 1 in every transform  *)
(*    the code builds; Failed is the zero transform of a failed            *)
(*    measurement;                                                         *)
(*  - a start/stop state is whether it plays and when that was said; the   *)
(*    zero value is NoTransport;                                           *)
(*  - ids are integers, compared like the bytes of a NodeId;               *)
(*  - the expiry time of a peer is one bit, set when its TTL has passed.   *)
(***************************************************************************)
EXTENDS Integers, FiniteSets

CONSTANTS
  Ids,            \* node ids, which are also session ids
  Tempos,         \* tempi a timeline may carry, clamped or not
  MinTempo, MaxTempo,
  Anchors,        \* ghost times a beat 0 may have
  Unmeasurable,   \* ids of the peers that advertise no measurement endpoint
  Epsilon,        \* sessionEpsilon
  NoPeer, NoSession, NoMessage

ASSUME IdsAssumption == Ids \subseteq Nat /\ IsFiniteSet(Ids)
ASSUME TempoAssumption ==
  /\ Tempos \subseteq Int
  /\ MinTempo \in Tempos /\ MaxTempo \in Tempos /\ MinTempo <= MaxTempo
ASSUME EpsilonAssumption == Epsilon \in Int

Timelines  == [tempo : Tempos, origin : Int, anchor : Anchors]
Transports == [playing : BOOLEAN, at : Int]
PeerStates == [session : Ids, tl : Timelines, ss : Transports, expired : BOOLEAN]
Messages   == [node : Ids, session : Ids, tl : Timelines, ss : Transports]
Snapshots  == [enabled : BOOLEAN, numPeers : Nat, tempo : Tempos, playing : BOOLEAN,
               nodeId : Ids, sessionId : Ids, peers : [Ids -> Ids \cup {NoSession}]]

ASSUME NoneAssumption ==
  /\ NoPeer \notin PeerStates /\ NoPeer \notin Ids
  /\ NoSession \notin Timelines /\ NoSession \notin Ids
  /\ NoMessage \notin Messages

NoTransport == [playing |-> FALSE, at |-> 0]

Engines == [
  nodeId     : Ids,
  sessionId  : Ids,
  tl         : Timelines,      \* sessionTimeline
  xform      : Int,            \* intercept of sessionXForm
  ss         : Transports,     \* sessionStartStop
  css        : Transports,     \* clientStartStop, in host time
  lastCb     : BOOLEAN,        \* lastPlayingCb
  sync       : BOOLEAN,        \* startStopSync
  enabled    : BOOLEAN,        \* enabledFlag
  peers      : [Ids -> PeerStates \cup {NoPeer}],
  others     : [Ids -> Timelines \cup {NoSession}],    \* otherSessions
  measuring  : [Ids -> Ids \cup {NoPeer}],  \* measurements: the peer each session is measured against
  nbr        : Nat,            \* sessionPeerNbr
  remeasure  : BOOLEAN,        \* remeasureID # 0
  recent     : BOOLEAN,        \* less than minBroadcastGap since lastBroadcast
  pending    : BOOLEAN,        \* broadcastPending
  sent       : Messages \cup {NoMessage},   \* the last multicast announcement
  echo       : BOOLEAN,        \* ... which has not been looped back yet
  snap       : Snapshots,      \* what the public API reads
  toldTempo  : Tempos,         \* last tempo the application knows from New or a callback
  toldPeers  : Nat,            \* last number given to the peers callback
  forgotten  : SUBSET Ids ]    \* history: sessions dropped since the last reset

-----------------------------------------------------------------------------
(* Views of the state. *)

Known(e)         == {p \in Ids : e.peers[p] # NoPeer}
InSession(e, s)  == {p \in Known(e) : e.peers[p].session = s}
Members(e)       == InSession(e, e.sessionId)
Tracked(e)       == {s \in Ids : e.others[s] # NoSession}
Measured(e)      == {s \in Ids : e.measuring[s] # NoPeer}

\* The ids something in the engine still refers to; a random id is none of them.
InUse(e) ==
  {e.nodeId, e.sessionId} \cup Known(e) \cup {e.peers[p].session : p \in Known(e)}
    \cup Tracked(e) \cup Measured(e) \cup {e.measuring[s] : s \in Measured(e)}
    \cup (IF e.sent = NoMessage THEN {} ELSE {e.sent.node, e.sent.session})

ClampTempo(tl) ==
  [tl EXCEPT !.tempo = IF @ < MinTempo THEN MinTempo
                       ELSE IF @ > MaxTempo THEN MaxTempo ELSE @]

HostToGhost(xform, host)  == host + xform
GhostToHost(xform, ghost) == ghost - xform

StartStopSessionToClient(ss, xform) ==
  [playing |-> ss.playing, at |-> GhostToHost(xform, ss.at)]

-----------------------------------------------------------------------------
(* Announcements. *)

CurrentPeerState(e) == [node |-> e.nodeId, session |-> e.sessionId, tl |-> e.tl, ss |-> e.ss]

BroadcastNow(e) ==
  IF e.enabled
  THEN [e EXCEPT !.sent = CurrentPeerState(e), !.echo = TRUE, !.recent = TRUE]
  ELSE e

Broadcast(e) ==
  IF e.enabled /\ e.recent THEN [e EXCEPT !.pending = TRUE] ELSE BroadcastNow(e)

-----------------------------------------------------------------------------
(* Snapshot, callbacks, timing. *)

PublishSnapshot(e) ==
  [e EXCEPT !.snap =
     [enabled |-> e.enabled, numPeers |-> e.nbr, tempo |-> e.tl.tempo,
      playing |-> e.css.playing, nodeId |-> e.nodeId, sessionId |-> e.sessionId,
      peers |-> [p \in Ids |-> IF e.peers[p] = NoPeer THEN NoSession
                               ELSE e.peers[p].session]]]

ReportPlayingIfChanged(e) == [e EXCEPT !.lastCb = e.css.playing]

\* What updateSessionTiming and handleStartStopFromSession do to the client's transport.
FollowSessionTransport(e) ==
  IF e.sync /\ e.ss # NoTransport
  THEN ReportPlayingIfChanged([e EXCEPT !.css = StartStopSessionToClient(e.ss, e.xform)])
  ELSE e

FireTempoCallback(e, tempo) == [e EXCEPT !.toldTempo = IF e.tl.tempo # tempo THEN tempo ELSE @]

UpdateSessionTiming(e, tl, xform) ==
  LET new == ClampTempo(tl)
  IN  IF e.tl = new /\ e.xform = xform THEN e
      ELSE PublishSnapshot(FollowSessionTransport(
             [FireTempoCallback(e, new.tempo) EXCEPT !.tl = new, !.xform = xform]))

-----------------------------------------------------------------------------
(* Founding a session and counting the peers of the current one.  A draw   *)
(* is what resetState takes from outside the engine: a random id, the      *)
(* clock, and the beat the old timeline is at.                             *)

\* MUTANT of ResetState: the new session is founded under the old node id.
ResetStateKeepsNodeId(e, draw) ==
  LET own == [e EXCEPT !.sessionId = e.nodeId, !.ss = NoTransport]
      tl  == [tempo |-> e.tl.tempo, origin |-> draw.beat, anchor |-> draw.anchor]
  IN  [Broadcast(UpdateSessionTiming(own, tl, -draw.now))
         EXCEPT !.others = [s \in Ids |-> NoSession],
                !.peers = [p \in Ids |-> NoPeer],
                !.forgotten = {}]

ResetState(e, draw) ==
  LET own == [e EXCEPT !.nodeId = draw.id, !.sessionId = draw.id, !.ss = NoTransport]
      tl  == [tempo |-> e.tl.tempo, origin |-> draw.beat, anchor |-> draw.anchor]
  IN  [Broadcast(UpdateSessionTiming(own, tl, -draw.now))
         EXCEPT !.others = [s \in Ids |-> NoSession],
                !.peers = [p \in Ids |-> NoPeer],
                !.forgotten = {}]

FirePeersCallback(e) == [e EXCEPT !.toldPeers = e.nbr]

\* MUTANT of SessionMembershipChanged: the snapshot is published before the
\* new count is stored.
SessionMembershipChangedLate(e, draw) ==
  LET count   == Cardinality(Members(e))
      counted == [PublishSnapshot(e) EXCEPT !.nbr = count]
  IN  IF count = e.nbr THEN e
      ELSE FirePeersCallback(IF count = 0 THEN ResetState(counted, draw) ELSE counted)

SessionMembershipChanged(e, draw) ==
  LET count   == Cardinality(Members(e))
      counted == [e EXCEPT !.nbr = count]
  IN  IF count = e.nbr THEN e
      ELSE FirePeersCallback(PublishSnapshot(
             IF count = 0 THEN ResetState(counted, draw) ELSE counted))

-----------------------------------------------------------------------------
(* Measuring sessions and joining them. *)

ScheduleRemeasure(e) == [e EXCEPT !.remeasure = TRUE]

Forget(e, sid) ==
  [e EXCEPT !.others[sid] = NoSession,
            !.forgotten = IF e.others[sid] = NoSession THEN @ ELSE @ \cup {sid}]

\* The branch of handleSessionMeasurementResult taken for the zero transform.
SessionMeasurementFailed(e, sid) ==
  IF sid = e.sessionId THEN ScheduleRemeasure(e) ELSE Forget(e, sid)

\* MUTANT of SessionWins: within the epsilon no session wins.
SessionWinsUntied(e, sid, xform) == xform - e.xform > Epsilon

\* Both ghost clocks read the same host clock, so their difference is that of
\* the intercepts.
SessionWins(e, sid, xform) ==
  LET ghostDiff == xform - e.xform
  IN  \/ ghostDiff > Epsilon
      \/ /\ -Epsilon < ghostDiff /\ ghostDiff < Epsilon
         /\ sid < e.sessionId

\* MUTANT of JoinSession: the joined session stays among the other sessions.
JoinSessionKeepsOther(e, sid, xform, draw) ==
  LET joined == [e EXCEPT !.others[e.sessionId] = IF @ = NoSession THEN e.tl ELSE @,
                          !.sessionId = sid,
                          !.ss = NoTransport]
      timed  == Broadcast(UpdateSessionTiming(joined, e.others[sid], xform))
  IN  ScheduleRemeasure(SessionMembershipChanged(timed, draw))

\* MUTANT of JoinSession: the old clock is kept in the joined session.
JoinSessionKeepsClock(e, sid, xform, draw) ==
  LET others == [e.others EXCEPT ![sid] = NoSession,
                                 ![e.sessionId] = IF @ = NoSession THEN e.tl ELSE @]
      joined == [e EXCEPT !.others = others, !.sessionId = sid, !.ss = NoTransport]
      timed  == Broadcast(UpdateSessionTiming(joined, e.others[sid], e.xform))
  IN  ScheduleRemeasure(SessionMembershipChanged(timed, draw))

JoinSession(e, sid, xform, draw) ==
  LET others == [e.others EXCEPT ![sid] = NoSession,
                                 ![e.sessionId] = IF @ = NoSession THEN e.tl ELSE @]
      joined == [e EXCEPT !.others = others, !.sessionId = sid, !.ss = NoTransport]
      timed  == Broadcast(UpdateSessionTiming(joined, e.others[sid], xform))
  IN  ScheduleRemeasure(SessionMembershipChanged(timed, draw))

\* handleSessionMeasurementResult for a measured transform.
SessionMeasured(e, sid, xform, draw) ==
  IF sid = e.sessionId THEN ScheduleRemeasure(Broadcast(UpdateSessionTiming(e, e.tl, xform)))
  ELSE IF e.others[sid] # NoSession /\ SessionWins(e, sid, xform)
  THEN JoinSession(e, sid, xform, draw)
  ELSE e

\* The peer measured for a session: its founder, or the lowest id.
Chosen(e, sid) ==
  IF sid \in InSession(e, sid) THEN sid
  ELSE CHOOSE p \in InSession(e, sid) : \A q \in InSession(e, sid) : p <= q

LaunchSessionMeasurement(e, sid) ==
  IF sid \in Measured(e) THEN e
  ELSE IF InSession(e, sid) = {} THEN Forget(e, sid)
  ELSE IF Chosen(e, sid) \in Unmeasurable THEN SessionMeasurementFailed(e, sid)
  ELSE [e EXCEPT !.measuring[sid] = Chosen(e, sid)]

-----------------------------------------------------------------------------
(* Observations of other peers.  The (session, value) pairs last propagated *)
(* for a peer are those of its stored state, so the tests of sawPeerState   *)
(* compare the new state with the stored one.                               *)

\* MUTANT of SawSessionTimeline: the timeline of a known session is never updated.
SawSessionTimelineOnce(e, sid, tl) ==
  IF sid = e.sessionId
  THEN Broadcast(IF tl.origin > e.tl.origin THEN UpdateSessionTiming(e, tl, e.xform) ELSE e)
  ELSE IF e.others[sid] # NoSession THEN e
  ELSE LaunchSessionMeasurement([e EXCEPT !.others[sid] = tl], sid)

SawSessionTimeline(e, sid, tl) ==
  IF sid = e.sessionId
  THEN Broadcast(IF tl.origin > e.tl.origin THEN UpdateSessionTiming(e, tl, e.xform) ELSE e)
  ELSE IF e.others[sid] # NoSession
  THEN [e EXCEPT !.others[sid] = IF tl.origin > @.origin THEN tl ELSE @]
  ELSE LaunchSessionMeasurement([e EXCEPT !.others[sid] = tl], sid)

\* MUTANT of HandleStartStopFromSession: a state with the same timestamp replaces
\* the current one.
HandleStartStopFromSessionTie(e, sid, ss) ==
  IF sid # e.sessionId \/ ss.at < e.ss.at THEN e
  ELSE LET relayed == Broadcast([e EXCEPT !.ss = ss])
       IN  IF e.sync /\ ss # NoTransport
           THEN PublishSnapshot(FollowSessionTransport(relayed))
           ELSE relayed

\* MUTANT of HandleStartStopFromSession: the snapshot is not published.
HandleStartStopFromSessionSilent(e, sid, ss) ==
  IF sid # e.sessionId \/ ss.at <= e.ss.at THEN e
  ELSE FollowSessionTransport(Broadcast([e EXCEPT !.ss = ss]))

\* MUTANT of HandleStartStopFromSession: the new state is not relayed.
HandleStartStopFromSessionUnrelayed(e, sid, ss) ==
  IF sid # e.sessionId \/ ss.at <= e.ss.at THEN e
  ELSE PublishSnapshot(FollowSessionTransport([e EXCEPT !.ss = ss]))

HandleStartStopFromSession(e, sid, ss) ==
  IF sid # e.sessionId \/ ss.at <= e.ss.at THEN e
  ELSE LET relayed == Broadcast([e EXCEPT !.ss = ss])
       IN  IF e.sync /\ ss # NoTransport
           THEN PublishSnapshot(FollowSessionTransport(relayed))
           ELSE relayed

PropagateTimeline(e, old, p) ==
  LET state == e.peers[p]
  IN  IF old = NoPeer \/ old.session # state.session \/ old.tl # state.tl
      THEN SawSessionTimeline(e, state.session, state.tl) ELSE e

PropagateStartStop(e, old, p) ==
  LET state == e.peers[p]
  IN  IF old = NoPeer \/ old.session # state.session \/ old.ss # state.ss
      THEN HandleStartStopFromSession(e, state.session, state.ss) ELSE e

SawPeerState(e, p, state, draw) ==
  LET old  == e.peers[p]
      seen == PropagateStartStop(
                PropagateTimeline([e EXCEPT !.peers[p] = state], old, p), old, p)
  IN  IF \/ old = NoPeer
         \/ old.session # state.session
         \/ (old.session = e.sessionId) # (state.session = seen.sessionId)
      THEN SessionMembershipChanged(seen, draw)
      ELSE seen

\* MUTANT of RemovePeer: the count is decremented instead of recomputed.
RemovePeerDecrements(e, p, draw) ==
  IF e.peers[p] = NoPeer THEN e
  ELSE [e EXCEPT !.peers[p] = NoPeer, !.nbr = @ - 1]

RemovePeer(e, p, draw) ==
  IF e.peers[p] = NoPeer THEN e
  ELSE SessionMembershipChanged([e EXCEPT !.peers[p] = NoPeer], draw)

\* MUTANT of Expired: the comparison with the expiry time is the wrong way round.
ExpiredEarly(e) == {p \in Known(e) : ~e.peers[p].expired}

Expired(e) == {p \in Known(e) : e.peers[p].expired}

\* MUTANT of PrunePeers: the membership is not recomputed.
PrunePeersUncounted(e, draw) ==
  [e EXCEPT !.peers = [p \in Ids |-> IF p \in Expired(e) THEN NoPeer ELSE @[p]]]

PrunePeers(e, draw) ==
  IF Expired(e) = {} THEN e
  ELSE SessionMembershipChanged(
         [e EXCEPT !.peers = [p \in Ids |-> IF p \in Expired(e) THEN NoPeer ELSE @[p]]], draw)

-----------------------------------------------------------------------------
(* Commands of the application. *)

\* MUTANT of UpdateSessionTimelineFromClient: the origin is not forced to grow.
UpdateSessionTimelineFromClientUnforced(tl, tempo, anchor, beat) ==
  IF tempo = tl.tempo /\ anchor = tl.anchor THEN tl
  ELSE [tempo |-> tempo, anchor |-> anchor, origin |-> beat]

\* updateSessionTimelineFromClient: beat is where the session timeline is at
\* the time of the change, so the origin grows strictly when anything changes.
UpdateSessionTimelineFromClient(tl, tempo, anchor, beat) ==
  IF tempo = tl.tempo /\ anchor = tl.anchor THEN tl
  ELSE [tempo |-> tempo, anchor |-> anchor,
        origin |-> IF beat < tl.origin + 1 THEN tl.origin + 1 ELSE beat]

\* MUTANT of CommitClientTimeline: the change is not broadcast.
CommitClientTimelineUnannounced(e, tempo, anchor, beat) ==
  LET stl  == UpdateSessionTimelineFromClient(e.tl, tempo, anchor, beat)
      done == UpdateSessionTiming(e, stl, e.xform)
  IN  [done EXCEPT !.peers =
        [p \in Ids |-> IF p \in Members(done) THEN [@[p] EXCEPT !.tl = done.tl] ELSE @[p]]]

CommitClientTimeline(e, tempo, anchor, beat) ==
  LET stl  == UpdateSessionTimelineFromClient(e.tl, tempo, anchor, beat)
      done == UpdateSessionTiming(e, stl, e.xform)
  IN  Broadcast([done EXCEPT !.peers =
        [p \in Ids |-> IF p \in Members(done) THEN [@[p] EXCEPT !.tl = done.tl] ELSE @[p]]])

ApplyPlayingChange(e, playing, at) ==
  LET ghost == HostToGhost(e.xform, at)
      local == IF at >= e.css.at
               THEN [e EXCEPT !.css = [playing |-> playing, at |-> at]] ELSE e
      told  == IF local.sync /\ ghost > local.ss.at
               THEN Broadcast([local EXCEPT !.ss = [playing |-> playing, at |-> ghost]])
               ELSE local
  IN  PublishSnapshot(ReportPlayingIfChanged(told))

Enable(e, draw) == Broadcast(ResetState([e EXCEPT !.enabled = TRUE], draw))

\* MUTANT of Disable: the other sessions are kept.
DisableKeepsSessions(e) ==
  PublishSnapshot([e EXCEPT !.enabled = FALSE, !.peers = [p \in Ids |-> NoPeer], !.nbr = 0])

\* The bye-bye it sends changes no state.
Disable(e) ==
  PublishSnapshot([e EXCEPT !.enabled = FALSE,
                            !.peers = [p \in Ids |-> NoPeer],
                            !.others = [s \in Ids |-> NoSession],
                            !.nbr = 0,
                            !.forgotten = {}])

=============================================================================
