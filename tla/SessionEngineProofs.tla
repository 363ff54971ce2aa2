-------------------------- MODULE SessionEngineProofs --------------------------
(* Lemmas about the methods of the engine, for every value of the constants. *)
EXTENDS SessionEngine, FiniteSetTheorems, WellFoundedInduction, TLAPS

DrawSet == [id : Ids, beat : Int, anchor : Anchors, now : Int]

\* The zero transport state is a transport state.
LEMMA NoTransportType == NoTransport \in Transports
BY DEF NoTransport, Transports

\* A clamped timeline is a timeline.
LEMMA ClampType == ASSUME NEW tl \in Timelines PROVE ClampTempo(tl) \in Timelines
BY TempoAssumption DEF ClampTempo, Timelines

\* Types: broadcast and broadcastNow.
LEMMA BroadcastType ==
  ASSUME NEW x \in Engines
  PROVE  Broadcast(x) \in Engines /\ BroadcastNow(x) \in Engines
<1>1. CurrentPeerState(x) \in Messages
  BY DEF CurrentPeerState, Messages, Engines
<1>2. BroadcastNow(x) \in Engines
  BY <1>1 DEF BroadcastNow, Engines
<1>3. [x EXCEPT !.pending = TRUE] \in Engines
  BY DEF Engines
<1> QED BY <1>2, <1>3 DEF Broadcast

\* Types: publishSnapshot.
LEMMA PublishType ==
  ASSUME NEW x \in Engines
  PROVE  PublishSnapshot(x) \in Engines
<1> DEFINE peers == [p \in Ids |-> IF x.peers[p] = NoPeer THEN NoSession ELSE x.peers[p].session]
<1>1. peers \in [Ids -> Ids \cup {NoSession}]
  BY DEF Engines, PeerStates
<1>2. [enabled |-> x.enabled, numPeers |-> x.nbr, tempo |-> x.tl.tempo,
      playing |-> x.css.playing, nodeId |-> x.nodeId, sessionId |-> x.sessionId,
      peers |-> peers] \in Snapshots
  BY <1>1 DEF Engines, Snapshots, Timelines, Transports
<1> QED BY <1>2 DEF PublishSnapshot, Engines

\* Types: the transport following the session.
LEMMA FollowType ==
  ASSUME NEW x \in Engines
  PROVE  FollowSessionTransport(x) \in Engines
<1>1. StartStopSessionToClient(x.ss, x.xform) \in Transports
  BY DEF Engines, Transports, StartStopSessionToClient, GhostToHost
<1>2. [x EXCEPT !.css = StartStopSessionToClient(x.ss, x.xform)] \in Engines
  BY <1>1 DEF Engines
<1> DEFINE y == [x EXCEPT !.css = StartStopSessionToClient(x.ss, x.xform)]
<1>3. y.css.playing \in BOOLEAN
  BY <1>2 DEF Engines, Transports
<1>4. [y EXCEPT !.lastCb = y.css.playing] \in Engines
  BY <1>2, <1>3 DEF Engines
<1> QED BY <1>4 DEF FollowSessionTransport, ReportPlayingIfChanged

\* Types: updateSessionTiming.
LEMMA TimingType ==
  ASSUME NEW x \in Engines, NEW tl \in Timelines, NEW xform \in Int
  PROVE  UpdateSessionTiming(x, tl, xform) \in Engines
<1> DEFINE new == ClampTempo(tl)
           moved == [FireTempoCallback(x, new.tempo) EXCEPT !.tl = new, !.xform = xform]
<1>1. new \in Timelines
  BY ClampType
<1>2. moved \in Engines
  <2>1. FireTempoCallback(x, new.tempo) \in Engines
    BY <1>1 DEF FireTempoCallback, Engines, Timelines
  <2> QED BY <1>1, <2>1 DEF Engines
<1>3. PublishSnapshot(FollowSessionTransport(moved)) \in Engines
  BY <1>2, FollowType, PublishType
<1> QED BY <1>3 DEF UpdateSessionTiming

\* Types: resetState.
LEMMA ResetType ==
  ASSUME NEW x \in Engines, NEW d \in DrawSet
  PROVE  ResetState(x, d) \in Engines
<1> DEFINE own == [x EXCEPT !.nodeId = d.id, !.sessionId = d.id, !.ss = NoTransport]
           tl  == [tempo |-> x.tl.tempo, origin |-> d.beat, anchor |-> d.anchor]
           y   == Broadcast(UpdateSessionTiming(own, tl, -d.now))
<1>1. own \in Engines
  <2>1. d.id \in Ids
    BY DEF DrawSet
  <2> QED BY <2>1, NoTransportType DEF Engines
<1>2. tl \in Timelines /\ -d.now \in Int
  BY DEF Engines, Timelines, DrawSet
<1>3. y \in Engines
  BY <1>1, <1>2, TimingType, BroadcastType
<1>4. [y EXCEPT !.others = [s \in Ids |-> NoSession], !.peers = [p \in Ids |-> NoPeer],
                !.forgotten = {}] \in Engines
  BY <1>3 DEF Engines
<1> QED BY <1>4 DEF ResetState

\* There are finitely many members to count.
LEMMA MembersFinite ==
  ASSUME NEW x
  PROVE  Cardinality(Members(x)) \in Nat
<1>1. IsFiniteSet(Members(x))
  BY IdsAssumption, FS_Subset DEF Members, InSession, Known
<1> QED BY <1>1, FS_CardinalityType

\* Types: sessionMembershipChanged.
LEMMA MembershipType ==
  ASSUME NEW x \in Engines, NEW d \in DrawSet
  PROVE  SessionMembershipChanged(x, d) \in Engines
<1> DEFINE count   == Cardinality(Members(x))
           counted == [x EXCEPT !.nbr = count]
           z       == PublishSnapshot(IF count = 0 THEN ResetState(counted, d) ELSE counted)
<1>1. counted \in Engines
  BY MembersFinite DEF Engines
<1>2. z \in Engines
  BY <1>1, ResetType, PublishType
<1>3. FirePeersCallback(z) \in Engines
  BY <1>2 DEF FirePeersCallback, Engines
<1> QED BY <1>3 DEF SessionMembershipChanged

\* Types: forgetting a session and a failed measurement.
LEMMA ForgetType ==
  ASSUME NEW x \in Engines, NEW sid \in Ids
  PROVE  /\ Forget(x, sid) \in Engines
         /\ ScheduleRemeasure(x) \in Engines
         /\ SessionMeasurementFailed(x, sid) \in Engines
<1>1. Forget(x, sid) \in Engines
  <2>1. [x.others EXCEPT ![sid] = NoSession] \in [Ids -> Timelines \cup {NoSession}]
    BY DEF Engines
  <2> QED BY <2>1 DEF Forget, Engines
<1>2. ScheduleRemeasure(x) \in Engines
  BY DEF ScheduleRemeasure, Engines
<1> QED BY <1>1, <1>2 DEF SessionMeasurementFailed

\* Types: joining a tracked session.
LEMMA JoinType ==
  ASSUME NEW x \in Engines, NEW sid \in Ids, x.others[sid] # NoSession,
         NEW xform \in Int, NEW d \in DrawSet
  PROVE  JoinSession(x, sid, xform, d) \in Engines
<1> DEFINE others == [x.others EXCEPT ![sid] = NoSession,
                                      ![x.sessionId] = IF @ = NoSession THEN x.tl ELSE @]
           joined == [x EXCEPT !.others = others, !.sessionId = sid, !.ss = NoTransport]
           timed  == Broadcast(UpdateSessionTiming(joined, x.others[sid], xform))
<1>1. joined \in Engines
  <2>1. others \in [Ids -> Timelines \cup {NoSession}]
    BY DEF Engines
  <2> QED BY <2>1, NoTransportType DEF Engines
<1>2. x.others[sid] \in Timelines
  BY DEF Engines
<1>3. timed \in Engines
  BY <1>1, <1>2, TimingType, BroadcastType
<1>4. ScheduleRemeasure(SessionMembershipChanged(timed, d)) \in Engines
  BY <1>3, MembershipType, ForgetType
<1> QED BY <1>4 DEF JoinSession

\* Types: the result of a measurement.
LEMMA MeasuredType ==
  ASSUME NEW x \in Engines, NEW sid \in Ids, NEW xform \in Int, NEW d \in DrawSet
  PROVE  SessionMeasured(x, sid, xform, d) \in Engines
<1>1. x.tl \in Timelines
  BY DEF Engines
<1>2. ScheduleRemeasure(Broadcast(UpdateSessionTiming(x, x.tl, xform))) \in Engines
  BY <1>1, TimingType, BroadcastType, ForgetType
<1> QED BY <1>2, JoinType DEF SessionMeasured

\* Any nonempty set of ids has a lowest one (sort.Slice in launchSessionMeasurement).
LEMMA IdsHaveLeast ==
  ASSUME NEW S \in SUBSET Ids, S # {}
  PROVE  \E p \in S : \A q \in S : p <= q
<1>1. S \subseteq Nat
  BY IdsAssumption
<1>2. PICK p \in S : \A q \in S : ~(<<q, p>> \in OpToRel(<, Nat))
  BY <1>1, NatLessThanWellFounded, WFMin
<1>3. ASSUME NEW q \in S PROVE p <= q
  <2>1. p \in Nat /\ q \in Nat
    BY <1>1
  <2>2. ~(q < p)
    BY <1>2, <2>1 DEF OpToRel
  <2> QED BY <2>1, <2>2
<1> QED BY <1>3

\* Types: launchSessionMeasurement.
LEMMA LaunchType ==
  ASSUME NEW x \in Engines, NEW sid \in Ids
  PROVE  LaunchSessionMeasurement(x, sid) \in Engines
<1>1. CASE InSession(x, sid) # {}
  <2>1. Chosen(x, sid) \in InSession(x, sid)
    <3>1. PICK p \in InSession(x, sid) : \A q \in InSession(x, sid) : p <= q
      <4>1. InSession(x, sid) \subseteq Ids
        BY DEF InSession, Known
      <4> QED BY <1>1, <4>1, IdsHaveLeast
    <3> QED BY <3>1 DEF Chosen
  <2>2. Chosen(x, sid) \in Ids
    BY <2>1 DEF InSession, Known
  <2>3. [x EXCEPT !.measuring[sid] = Chosen(x, sid)] \in Engines
    BY <2>2 DEF Engines
  <2> QED BY <1>1, <2>3, ForgetType DEF LaunchSessionMeasurement
<1>2. CASE InSession(x, sid) = {}
  BY <1>2, ForgetType DEF LaunchSessionMeasurement
<1> QED BY <1>1, <1>2

\* Types: sawSessionTimeline.
LEMMA SawTimelineType ==
  ASSUME NEW x \in Engines, NEW sid \in Ids, NEW tl \in Timelines
  PROVE  SawSessionTimeline(x, sid, tl) \in Engines
<1>1. CASE sid = x.sessionId
  <2>1. UpdateSessionTiming(x, tl, x.xform) \in Engines
    BY TimingType DEF Engines
  <2> QED BY <1>1, <2>1, BroadcastType DEF SawSessionTimeline
<1>2. CASE sid # x.sessionId /\ x.others[sid] # NoSession
  BY <1>2 DEF SawSessionTimeline, Engines
<1>3. CASE sid # x.sessionId /\ x.others[sid] = NoSession
  <2>1. [x EXCEPT !.others[sid] = tl] \in Engines
    BY DEF Engines
  <2> QED BY <1>3, <2>1, LaunchType DEF SawSessionTimeline
<1> QED BY <1>1, <1>2, <1>3

\* Types: handleStartStopFromSession.
LEMMA HandleStartStopType ==
  ASSUME NEW x \in Engines, NEW sid \in Ids, NEW ss \in Transports
  PROVE  HandleStartStopFromSession(x, sid, ss) \in Engines
<1>1. [x EXCEPT !.ss = ss] \in Engines
  BY DEF Engines
<1>2. Broadcast([x EXCEPT !.ss = ss]) \in Engines
  BY <1>1, BroadcastType
<1>3. PublishSnapshot(FollowSessionTransport(Broadcast([x EXCEPT !.ss = ss]))) \in Engines
  BY <1>2, FollowType, PublishType
<1> QED BY <1>2, <1>3 DEF HandleStartStopFromSession

\* Types: the two propagations of sawPeerState.
LEMMA PropagateType ==
  ASSUME NEW x \in Engines, NEW p \in Ids, x.peers[p] \in PeerStates, NEW old
  PROVE  /\ PropagateTimeline(x, old, p) \in Engines
         /\ PropagateStartStop(x, old, p) \in Engines
<1>1. x.peers[p].session \in Ids /\ x.peers[p].tl \in Timelines /\ x.peers[p].ss \in Transports
  BY DEF PeerStates
<1>2. SawSessionTimeline(x, x.peers[p].session, x.peers[p].tl) \in Engines
  BY <1>1, SawTimelineType
<1>3. HandleStartStopFromSession(x, x.peers[p].session, x.peers[p].ss) \in Engines
  BY <1>1, HandleStartStopType
<1> QED BY <1>2, <1>3 DEF PropagateTimeline, PropagateStartStop

-----------------------------------------------------------------------------
(* What each operator leaves alone.                                        *)

\* The identity, the peers, the other sessions and the count are the same.
Keeps(x, y) ==
  /\ y.nodeId = x.nodeId /\ y.sessionId = x.sessionId
  /\ y.enabled = x.enabled /\ y.nbr = x.nbr
  /\ y.peers = x.peers /\ y.others = x.others
  /\ y.measuring = x.measuring /\ y.remeasure = x.remeasure

\* Steps that keep the session state compose.
LEMMA KeepsTransitive ==
  ASSUME NEW x, NEW y, NEW z, Keeps(x, y), Keeps(y, z)
  PROVE  Keeps(x, z)
BY DEF Keeps

\* What they keep determines the members.
LEMMA KeepsMembers ==
  ASSUME NEW x, NEW y, Keeps(x, y)
  PROVE  Members(y) = Members(x) /\ Known(y) = Known(x) /\ Tracked(y) = Tracked(x)
BY DEF Keeps, Members, InSession, Known, Tracked

\* Broadcasting keeps it.
LEMMA BroadcastKeeps ==
  ASSUME NEW x \in Engines
  PROVE  Keeps(x, Broadcast(x)) /\ Keeps(x, BroadcastNow(x))
BY DEF Keeps, Broadcast, BroadcastNow, Engines

\* Publishing a snapshot keeps it.
LEMMA PublishKeeps ==
  ASSUME NEW x \in Engines
  PROVE  Keeps(x, PublishSnapshot(x))
BY DEF Keeps, PublishSnapshot, Engines

\* Following the transport keeps it.
LEMMA FollowKeeps ==
  ASSUME NEW x \in Engines
  PROVE  Keeps(x, FollowSessionTransport(x))
BY DEF Keeps, FollowSessionTransport, ReportPlayingIfChanged, Engines

\* updateSessionTiming keeps it.
LEMMA TimingKeeps ==
  ASSUME NEW x \in Engines, NEW tl \in Timelines, NEW xform \in Int
  PROVE  Keeps(x, UpdateSessionTiming(x, tl, xform))
<1> DEFINE new == ClampTempo(tl)
           moved == [FireTempoCallback(x, new.tempo) EXCEPT !.tl = new, !.xform = xform]
<1>1. new \in Timelines
  BY ClampType
<1>2. moved \in Engines /\ Keeps(x, moved)
  <2>1. FireTempoCallback(x, new.tempo) \in Engines
    BY <1>1 DEF FireTempoCallback, Engines, Timelines
  <2>2. Keeps(x, FireTempoCallback(x, new.tempo))
    BY DEF FireTempoCallback, Engines, Keeps
  <2> QED BY <1>1, <2>1, <2>2 DEF Engines, Keeps
<1>3. Keeps(x, PublishSnapshot(FollowSessionTransport(moved)))
  <2>1. FollowSessionTransport(moved) \in Engines /\ Keeps(moved, FollowSessionTransport(moved))
    BY <1>2, FollowType, FollowKeeps
  <2> HIDE DEF moved
  <2> QED BY <1>2, <2>1, PublishKeeps, KeepsTransitive
<1>4. Keeps(x, x)
  BY DEF Keeps
<1> QED BY <1>3, <1>4 DEF UpdateSessionTiming

\* As Keeps, but other sessions may have been added, dropped or measured.
KeepsPeers(x, y) ==
  /\ y.nodeId = x.nodeId /\ y.sessionId = x.sessionId
  /\ y.enabled = x.enabled /\ y.nbr = x.nbr /\ y.peers = x.peers

\* Steps that keep the peers and the session keep the members.
LEMMA KeepsPeersMembers ==
  ASSUME NEW x, NEW y, KeepsPeers(x, y)
  PROVE  Members(y) = Members(x) /\ Known(y) = Known(x)
BY DEF KeepsPeers, Members, InSession, Known

\* Launching or failing a measurement keeps the peers.
LEMMA LaunchKeepsPeers ==
  ASSUME NEW x \in Engines, NEW sid \in Ids
  PROVE  /\ KeepsPeers(x, SessionMeasurementFailed(x, sid))
         /\ KeepsPeers(x, LaunchSessionMeasurement(x, sid))
<1>1. KeepsPeers(x, Forget(x, sid)) /\ KeepsPeers(x, ScheduleRemeasure(x))
  BY DEF KeepsPeers, Forget, ScheduleRemeasure, Engines
<1>2. KeepsPeers(x, SessionMeasurementFailed(x, sid))
  BY <1>1 DEF SessionMeasurementFailed
<1>3. KeepsPeers(x, [x EXCEPT !.measuring[sid] = Chosen(x, sid)]) /\ KeepsPeers(x, x)
  BY DEF KeepsPeers, Engines
<1> QED BY <1>1, <1>2, <1>3 DEF LaunchSessionMeasurement

\* A timeline from a peer keeps the peers.
LEMMA SawTimelineKeepsPeers ==
  ASSUME NEW x \in Engines, NEW sid \in Ids, NEW tl \in Timelines
  PROVE  KeepsPeers(x, SawSessionTimeline(x, sid, tl))
<1>1. CASE sid = x.sessionId
  <2> DEFINE y == IF tl.origin > x.tl.origin THEN UpdateSessionTiming(x, tl, x.xform) ELSE x
  <2>1. y \in Engines /\ Keeps(x, y)
    <3>1. x.xform \in Int
      BY DEF Engines
    <3>2. UpdateSessionTiming(x, tl, x.xform) \in Engines
      BY <3>1, TimingType
    <3>3. Keeps(x, UpdateSessionTiming(x, tl, x.xform)) /\ Keeps(x, x)
      BY <3>1, TimingKeeps DEF Keeps
    <3> QED BY <3>2, <3>3
  <2>2. Keeps(x, Broadcast(y))
    <3> HIDE DEF y
    <3> QED BY <2>1, BroadcastKeeps, KeepsTransitive
  <2> QED BY <1>1, <2>2 DEF SawSessionTimeline, Keeps, KeepsPeers
<1>2. CASE sid # x.sessionId /\ x.others[sid] # NoSession
  BY <1>2 DEF SawSessionTimeline, Engines, KeepsPeers
<1>3. CASE sid # x.sessionId /\ x.others[sid] = NoSession
  <2> DEFINE y == [x EXCEPT !.others[sid] = tl]
  <2>1. y \in Engines /\ KeepsPeers(x, y)
    BY DEF Engines, KeepsPeers
  <2>2. KeepsPeers(x, LaunchSessionMeasurement(y, sid))
    <3> HIDE DEF y
    <3> QED BY <2>1, LaunchKeepsPeers DEF KeepsPeers
  <2> QED BY <1>3, <2>2 DEF SawSessionTimeline
<1> QED BY <1>1, <1>2, <1>3

\* A transport state from a peer keeps the peers.
LEMMA HandleStartStopKeeps ==
  ASSUME NEW x \in Engines, NEW sid \in Ids, NEW ss \in Transports
  PROVE  KeepsPeers(x, HandleStartStopFromSession(x, sid, ss))
<1> DEFINE y == [x EXCEPT !.ss = ss]
           r == Broadcast(y)
           f == FollowSessionTransport(r)
<1>1. y \in Engines /\ Keeps(x, y)
  BY DEF Engines, Keeps
<1>2. r \in Engines /\ Keeps(x, r)
  <2> HIDE DEF y
  <2> QED BY <1>1, BroadcastType, BroadcastKeeps, KeepsTransitive
<1>3. Keeps(x, PublishSnapshot(f))
  <2>1. f \in Engines /\ Keeps(r, f)
    <3> HIDE DEF r
    <3> QED BY <1>2, FollowType, FollowKeeps
  <2>2. Keeps(f, PublishSnapshot(f))
    BY <2>1, PublishKeeps
  <2> HIDE DEF r, f
  <2> QED BY <1>2, <2>1, <2>2, KeepsTransitive
<1> QED BY <1>2, <1>3 DEF HandleStartStopFromSession, Keeps, KeepsPeers

\* Both propagations of sawPeerState keep the peers.
LEMMA PropagateKeeps ==
  ASSUME NEW x \in Engines, NEW p \in Ids, x.peers[p] \in PeerStates, NEW old
  PROVE  /\ KeepsPeers(x, PropagateTimeline(x, old, p))
         /\ KeepsPeers(x, PropagateStartStop(x, old, p))
<1>1. x.peers[p].session \in Ids /\ x.peers[p].tl \in Timelines /\ x.peers[p].ss \in Transports
  BY DEF PeerStates
<1>2. KeepsPeers(x, SawSessionTimeline(x, x.peers[p].session, x.peers[p].tl))
  BY <1>1, SawTimelineKeepsPeers
<1>3. KeepsPeers(x, HandleStartStopFromSession(x, x.peers[p].session, x.peers[p].ss))
  BY <1>1, HandleStartStopKeeps
<1>4. KeepsPeers(x, x)
  BY DEF KeepsPeers
<1> QED BY <1>2, <1>3, <1>4 DEF PropagateTimeline, PropagateStartStop

-----------------------------------------------------------------------------
(* The peers of the session are counted exactly.                           *)

Counted(x) == x.nbr = Cardinality(Members(x))

\* A reset leaves a node that knows nobody; it touches neither the count nor
\* whether the node is enabled.
LEMMA ResetKnowsNobody ==
  ASSUME NEW x \in Engines, NEW d \in DrawSet
  PROVE  /\ Known(ResetState(x, d)) = {}
         /\ Members(ResetState(x, d)) = {}
         /\ ResetState(x, d).nbr = x.nbr
         /\ ResetState(x, d).enabled = x.enabled
<1> DEFINE own == [x EXCEPT !.nodeId = d.id, !.sessionId = d.id, !.ss = NoTransport]
           tl  == [tempo |-> x.tl.tempo, origin |-> d.beat, anchor |-> d.anchor]
           u   == UpdateSessionTiming(own, tl, -d.now)
           y   == Broadcast(u)
           z   == [y EXCEPT !.others = [s \in Ids |-> NoSession],
                            !.peers = [p \in Ids |-> NoPeer], !.forgotten = {}]
<1>1. own \in Engines /\ own.nbr = x.nbr /\ own.enabled = x.enabled
  <2>1. d.id \in Ids
    BY DEF DrawSet
  <2> QED BY <2>1, NoTransportType DEF Engines
<1>2. tl \in Timelines /\ -d.now \in Int
  BY DEF Engines, Timelines, DrawSet
<1>3. u \in Engines /\ Keeps(own, u)
  BY <1>1, <1>2, TimingType, TimingKeeps
<1>4. y \in Engines /\ Keeps(u, y)
  <2> HIDE DEF u
  <2> QED BY <1>3, BroadcastType, BroadcastKeeps
<1>5. z.nbr = x.nbr /\ z.enabled = x.enabled /\ z.peers = [p \in Ids |-> NoPeer]
  <2> HIDE DEF u, y, own
  <2>1. y.nbr = x.nbr /\ y.enabled = x.enabled
    BY <1>1, <1>3, <1>4 DEF Keeps
  <2> QED BY <1>4, <2>1 DEF Engines
<1>6. ResetState(x, d) = z
  BY DEF ResetState
<1> HIDE DEF z
<1> QED BY <1>5, <1>6 DEF Members, InSession, Known

\* sessionMembershipChanged leaves the count exact, whatever it was before.
LEMMA MembershipCounts ==
  ASSUME NEW x \in Engines, NEW d \in DrawSet
  PROVE  /\ Counted(SessionMembershipChanged(x, d))
         /\ SessionMembershipChanged(x, d).enabled = x.enabled
         /\ ~x.enabled /\ Known(x) = {} => Known(SessionMembershipChanged(x, d)) = {}
<1> DEFINE count   == Cardinality(Members(x))
           counted == [x EXCEPT !.nbr = count]
           w       == IF count = 0 THEN ResetState(counted, d) ELSE counted
           z       == PublishSnapshot(w)
<1>1. CASE count = x.nbr
  BY <1>1 DEF SessionMembershipChanged, Counted
<1>2. CASE count # x.nbr
  <2>1. counted \in Engines /\ counted.nbr = count /\ counted.enabled = x.enabled
        /\ Members(counted) = Members(x) /\ Known(counted) = Known(x)
    BY MembersFinite DEF Engines, Members, InSession, Known
  <2>2. w \in Engines /\ Counted(w) /\ w.enabled = x.enabled
        /\ (Known(x) = {} => Known(w) = {})
    <3>1. CASE count = 0
      BY <2>1, <3>1, ResetType, ResetKnowsNobody, FS_EmptySet DEF Counted
    <3>2. CASE count # 0
      BY <2>1, <3>2 DEF Counted
    <3> QED BY <3>1, <3>2
  <2>3. z \in Engines /\ Keeps(w, z)
    BY <2>2, PublishType, PublishKeeps
  <2>4. Keeps(z, FirePeersCallback(z))
    BY <2>3 DEF FirePeersCallback, Engines, Keeps
  <2>5. Keeps(w, FirePeersCallback(z))
    <3> HIDE DEF w, z
    <3> QED BY <2>3, <2>4, KeepsTransitive
  <2>6. SessionMembershipChanged(x, d) = FirePeersCallback(z)
    BY <1>2 DEF SessionMembershipChanged
  <2> HIDE DEF w, z
  <2> QED BY <2>2, <2>5, <2>6, KeepsMembers DEF Counted, Keeps
<1> QED BY <1>1, <1>2

\* The handler of a packet that describes a peer.  When it does not recount,
\* the peer was known already and has not changed session.
LEMMA SawPeerCounts ==
  ASSUME NEW x \in Engines, NEW p \in Ids, NEW state \in PeerStates, NEW d \in DrawSet,
         Counted(x)
  PROVE  /\ SawPeerState(x, p, state, d) \in Engines
         /\ Counted(SawPeerState(x, p, state, d))
         /\ SawPeerState(x, p, state, d).enabled = x.enabled
<1> DEFINE y    == [x EXCEPT !.peers[p] = state]
           old  == x.peers[p]
           t    == PropagateTimeline(y, old, p)
           seen == PropagateStartStop(t, old, p)
<1>1. y \in Engines /\ y.peers[p] = state /\ y.enabled = x.enabled
  BY DEF Engines
<1>2. t \in Engines /\ KeepsPeers(y, t)
  <2> HIDE DEF y, old
  <2> QED BY <1>1, PropagateType, PropagateKeeps
<1>3. seen \in Engines /\ KeepsPeers(t, seen)
  <2>1. t.peers[p] \in PeerStates
    BY <1>1, <1>2 DEF KeepsPeers
  <2> HIDE DEF t, old
  <2> QED BY <1>2, <2>1, PropagateType, PropagateKeeps
<1>4. KeepsPeers(y, seen)
  <2> HIDE DEF y, t, seen
  <2> QED BY <1>2, <1>3 DEF KeepsPeers
<1> DEFINE changed == \/ old = NoPeer
                      \/ old.session # state.session
                      \/ (old.session = x.sessionId) # (state.session = seen.sessionId)
<1>5. SawPeerState(x, p, state, d)
        = IF changed THEN SessionMembershipChanged(seen, d) ELSE seen
  BY DEF SawPeerState
<1>6. CASE changed
  <2> HIDE DEF changed, seen, y
  <2> QED BY <1>1, <1>3, <1>4, <1>5, <1>6, MembershipType, MembershipCounts DEF KeepsPeers
<1>7. CASE ~changed
  <2>1. old # NoPeer /\ old.session = state.session
    BY <1>7
  <2>2. state # NoPeer
    BY NoneAssumption
  <2>3. Known(y) = Known(x)
    BY <2>1, <2>2 DEF Known, Engines
  <2>4. Members(y) = Members(x) /\ y.nbr = x.nbr
    BY <2>1, <2>3 DEF Members, InSession, Engines
  <2>5. Members(seen) = Members(x) /\ seen.nbr = x.nbr /\ seen.enabled = x.enabled
    <3> HIDE DEF y, seen
    <3> QED BY <1>1, <1>4, <2>4, KeepsPeersMembers DEF KeepsPeers
  <2> HIDE DEF changed, seen
  <2> QED BY <1>3, <1>5, <1>7, <2>5 DEF Counted
<1> QED BY <1>6, <1>7

\* A bye-bye leaves the count exact.
LEMMA RemoveCounts ==
  ASSUME NEW x \in Engines, NEW p \in Ids, NEW d \in DrawSet, Counted(x),
         ~x.enabled => Known(x) = {}
  PROVE  LET y == RemovePeer(x, p, d)
         IN  /\ y \in Engines /\ Counted(y) /\ y.enabled = x.enabled
             /\ ~y.enabled => y = x
<1> DEFINE y == [x EXCEPT !.peers[p] = NoPeer]
<1>1. y \in Engines /\ y.enabled = x.enabled
  BY DEF Engines
<1>2. ~x.enabled => x.peers[p] = NoPeer
  BY DEF Known
<1> HIDE DEF y
<1>3. RemovePeer(x, p, d) = IF x.peers[p] = NoPeer THEN x ELSE SessionMembershipChanged(y, d)
  BY DEF RemovePeer, y
<1> QED BY <1>1, <1>2, <1>3, MembershipType, MembershipCounts

\* Pruning leaves the count exact.
LEMMA PruneCounts ==
  ASSUME NEW x \in Engines, NEW d \in DrawSet, Counted(x),
         ~x.enabled => Known(x) = {}
  PROVE  LET y == PrunePeers(x, d)
         IN  /\ y \in Engines /\ Counted(y) /\ y.enabled = x.enabled
             /\ ~y.enabled => y = x
<1> DEFINE left == [p \in Ids |-> IF p \in Expired(x) THEN NoPeer ELSE x.peers[p]]
           y    == [x EXCEPT !.peers = left]
<1>1. left \in [Ids -> PeerStates \cup {NoPeer}]
  BY DEF Engines
<1>2. y \in Engines /\ y.enabled = x.enabled
  BY <1>1 DEF Engines
<1>3. ~x.enabled => Expired(x) = {}
  BY DEF Expired
<1>4. PrunePeers(x, d) = IF Expired(x) = {} THEN x ELSE SessionMembershipChanged(y, d)
  BY DEF PrunePeers
<1> HIDE DEF y
<1> QED BY <1>2, <1>3, <1>4, MembershipType, MembershipCounts

\* Joining a session leaves the count exact.
LEMMA JoinCounts ==
  ASSUME NEW x \in Engines, NEW sid \in Ids, x.others[sid] # NoSession,
         NEW xform \in Int, NEW d \in DrawSet
  PROVE  LET y == JoinSession(x, sid, xform, d)
         IN  Counted(y) /\ y.enabled = x.enabled
<1> DEFINE others == [x.others EXCEPT ![sid] = NoSession,
                                      ![x.sessionId] = IF @ = NoSession THEN x.tl ELSE @]
           joined == [x EXCEPT !.others = others, !.sessionId = sid, !.ss = NoTransport]
           u      == UpdateSessionTiming(joined, x.others[sid], xform)
           timed  == Broadcast(u)
           m      == SessionMembershipChanged(timed, d)
<1>1. joined \in Engines /\ joined.enabled = x.enabled
  <2>1. others \in [Ids -> Timelines \cup {NoSession}]
    BY DEF Engines
  <2> QED BY <2>1, NoTransportType DEF Engines
<1>2. x.others[sid] \in Timelines
  BY DEF Engines
<1>3. timed \in Engines /\ Keeps(joined, timed)
  <2>1. u \in Engines /\ Keeps(joined, u)
    <3> HIDE DEF joined
    <3> QED BY <1>1, <1>2, TimingType, TimingKeeps
  <2> HIDE DEF joined, u
  <2> QED BY <2>1, BroadcastType, BroadcastKeeps, KeepsTransitive
<1>4. m \in Engines /\ Counted(m) /\ m.enabled = x.enabled
  <2> HIDE DEF timed, joined
  <2> QED BY <1>1, <1>3, MembershipType, MembershipCounts DEF Keeps
<1>5. JoinSession(x, sid, xform, d) = ScheduleRemeasure(m)
  BY DEF JoinSession
<1> HIDE DEF m
<1>6. Members(ScheduleRemeasure(m)) = Members(m) /\ ScheduleRemeasure(m).nbr = m.nbr
      /\ ScheduleRemeasure(m).enabled = m.enabled
  BY <1>4 DEF ScheduleRemeasure, Members, InSession, Known, Engines
<1> QED BY <1>4, <1>5, <1>6 DEF Counted

\* What an operator that recounts nobody must preserve: the members and the count,
\* and, of a disabled node, that it knows nobody.
Undisturbed(x, y) ==
  /\ Members(y) = Members(x) /\ y.nbr = x.nbr /\ y.enabled = x.enabled
  /\ Known(y) \subseteq Known(x)
  /\ ~x.enabled /\ Known(x) = {} => Tracked(y) \subseteq Tracked(x)

\* Keeping the session state is being quiet.
LEMMA KeepsQuiet ==
  ASSUME NEW x, NEW y, Keeps(x, y)
  PROVE  Undisturbed(x, y)
BY KeepsMembers DEF Undisturbed, Keeps

\* A measurement that succeeds leaves the count exact.
LEMMA MeasuredCounts ==
  ASSUME NEW x \in Engines, NEW sid \in Ids, NEW xform \in Int, NEW d \in DrawSet, Counted(x)
  PROVE  LET y == SessionMeasured(x, sid, xform, d)
         IN  Counted(y) /\ y.enabled = x.enabled
<1> DEFINE u == UpdateSessionTiming(x, x.tl, xform)
           b == Broadcast(u)
<1>1. x.tl \in Timelines
  BY DEF Engines
<1>2. b \in Engines /\ Keeps(x, b)
  <2>1. u \in Engines /\ Keeps(x, u)
    BY <1>1, TimingType, TimingKeeps
  <2> HIDE DEF u
  <2> QED BY <2>1, BroadcastType, BroadcastKeeps, KeepsTransitive
<1> HIDE DEF u, b
<1>3. Counted(ScheduleRemeasure(b)) /\ ScheduleRemeasure(b).enabled = x.enabled
  <2>1. Members(ScheduleRemeasure(b)) = Members(b) /\ ScheduleRemeasure(b).nbr = b.nbr
        /\ ScheduleRemeasure(b).enabled = b.enabled
    BY <1>2 DEF ScheduleRemeasure, Members, InSession, Known, Engines
  <2> QED BY <1>2, <2>1, KeepsMembers DEF Counted, Keeps
<1> QED BY <1>3, JoinCounts DEF SessionMeasured, u, b

\* One that fails is quiet.
LEMMA FailedQuiet ==
  ASSUME NEW x \in Engines, NEW sid \in Ids
  PROVE  Undisturbed(x, SessionMeasurementFailed(x, sid))
<1>1. KeepsPeers(x, SessionMeasurementFailed(x, sid))
  BY LaunchKeepsPeers
<1>2. Tracked(Forget(x, sid)) \subseteq Tracked(x) /\ Tracked(ScheduleRemeasure(x)) = Tracked(x)
  BY DEF Tracked, Forget, ScheduleRemeasure, Engines
<1> QED BY <1>1, <1>2, KeepsPeersMembers DEF Undisturbed, KeepsPeers, SessionMeasurementFailed

\* So is launching one.
LEMMA LaunchQuiet ==
  ASSUME NEW x \in Engines, NEW sid \in Ids
  PROVE  Undisturbed(x, LaunchSessionMeasurement(x, sid))
<1>1. KeepsPeers(x, LaunchSessionMeasurement(x, sid))
  BY LaunchKeepsPeers
<1>2. Tracked(Forget(x, sid)) \subseteq Tracked(x)
  BY DEF Tracked, Forget, Engines
<1>3. ~x.enabled /\ Known(x) = {} => Tracked(LaunchSessionMeasurement(x, sid)) \subseteq Tracked(x)
  BY <1>2 DEF LaunchSessionMeasurement, InSession
<1> QED BY <1>1, <1>3, KeepsPeersMembers DEF Undisturbed, KeepsPeers

\* A commit rewrites the timelines of the members, not who they are.
LEMMA CommitQuiet ==
  ASSUME NEW x \in Engines, NEW tempo \in Tempos, NEW anchor \in Anchors, NEW beat \in Int
  PROVE  /\ CommitClientTimeline(x, tempo, anchor, beat) \in Engines
         /\ Undisturbed(x, CommitClientTimeline(x, tempo, anchor, beat))
<1> DEFINE stl  == UpdateSessionTimelineFromClient(x.tl, tempo, anchor, beat)
           done == UpdateSessionTiming(x, stl, x.xform)
           told == [p \in Ids |-> IF p \in Members(done)
                                  THEN [done.peers[p] EXCEPT !.tl = done.tl]
                                  ELSE done.peers[p]]
           z    == [done EXCEPT !.peers = told]
<1>1. stl \in Timelines /\ x.xform \in Int
  BY DEF Engines, Timelines, UpdateSessionTimelineFromClient
<1>2. done \in Engines /\ Keeps(x, done)
  <2> HIDE DEF stl
  <2> QED BY <1>1, TimingType, TimingKeeps
<1> HIDE DEF done
<1>3. told \in [Ids -> PeerStates \cup {NoPeer}]
  BY <1>2 DEF Members, InSession, Known, Engines, PeerStates
<1>4. \A p \in Ids : /\ told[p] = NoPeer <=> done.peers[p] = NoPeer
                     /\ told[p] # NoPeer => told[p].session = done.peers[p].session
  <2> SUFFICES ASSUME NEW p \in Ids
               PROVE  /\ told[p] = NoPeer <=> done.peers[p] = NoPeer
                      /\ told[p] # NoPeer => told[p].session = done.peers[p].session
    OBVIOUS
  <2>1. CASE p \in Members(done)
    <3>1. done.peers[p] \in PeerStates
      BY <1>2, <2>1 DEF Members, InSession, Known, Engines
    <3>2. [done.peers[p] EXCEPT !.tl = done.tl] \in PeerStates
          /\ [done.peers[p] EXCEPT !.tl = done.tl].session = done.peers[p].session
      BY <1>2, <3>1 DEF Engines, PeerStates
    <3> QED BY <2>1, <3>1, <3>2, NoneAssumption
  <2>2. CASE p \notin Members(done)
    BY <2>2
  <2> QED BY <2>1, <2>2
<1>5. z \in Engines /\ Members(z) = Members(done) /\ Known(z) = Known(done)
      /\ Tracked(z) = Tracked(done) /\ z.nbr = done.nbr /\ z.enabled = done.enabled
  <2>1. z \in Engines /\ z.peers = told /\ z.sessionId = done.sessionId
        /\ Tracked(z) = Tracked(done) /\ z.nbr = done.nbr /\ z.enabled = done.enabled
    BY <1>2, <1>3 DEF Engines, Tracked
  <2> HIDE DEF told, z
  <2> QED BY <1>4, <2>1 DEF Members, InSession, Known
<1>6. Broadcast(z) \in Engines /\ Keeps(z, Broadcast(z))
  <2> HIDE DEF z
  <2> QED BY <1>5, BroadcastType, BroadcastKeeps
<1>7. CommitClientTimeline(x, tempo, anchor, beat) = Broadcast(z)
  BY DEF CommitClientTimeline, done
<1> HIDE DEF z
<1> QED BY <1>2, <1>5, <1>6, <1>7, KeepsMembers DEF Undisturbed, Keeps

\* A start or stop is quiet.
LEMMA PlayingQuiet ==
  ASSUME NEW x \in Engines, NEW playing \in BOOLEAN, NEW at \in Int
  PROVE  /\ ApplyPlayingChange(x, playing, at) \in Engines
         /\ Keeps(x, ApplyPlayingChange(x, playing, at))
<1> DEFINE ghost == HostToGhost(x.xform, at)
           local == IF at >= x.css.at
                    THEN [x EXCEPT !.css = [playing |-> playing, at |-> at]] ELSE x
           said  == [local EXCEPT !.ss = [playing |-> playing, at |-> ghost]]
           told  == IF local.sync /\ ghost > local.ss.at THEN Broadcast(said) ELSE local
           heard == ReportPlayingIfChanged(told)
<1>1. local \in Engines /\ Keeps(x, local)
  BY DEF Engines, Transports, Keeps
<1>2. said \in Engines /\ Keeps(x, said)
  <2>1. [playing |-> playing, at |-> ghost] \in Transports
    BY DEF Engines, Transports, HostToGhost
  <2> HIDE DEF local
  <2> QED BY <1>1, <2>1 DEF Engines, Keeps
<1>3. told \in Engines /\ Keeps(x, told)
  <2>1. Broadcast(said) \in Engines /\ Keeps(x, Broadcast(said))
    <3> HIDE DEF said
    <3> QED BY <1>2, BroadcastType, BroadcastKeeps, KeepsTransitive
  <2> HIDE DEF local, said
  <2> QED BY <1>1, <2>1
<1>4. heard \in Engines /\ Keeps(x, heard)
  <2> HIDE DEF told
  <2>1. told.css.playing \in BOOLEAN
    BY <1>3 DEF Engines, Transports
  <2> QED BY <1>3, <2>1 DEF ReportPlayingIfChanged, Engines, Keeps
<1>5. PublishSnapshot(heard) \in Engines /\ Keeps(x, PublishSnapshot(heard))
  <2> HIDE DEF heard
  <2> QED BY <1>4, PublishType, PublishKeeps, KeepsTransitive
<1> QED BY <1>5 DEF ApplyPlayingChange

\* An enabled node has counted its peers: none.
LEMMA EnableCounts ==
  ASSUME NEW x \in Engines, NEW d \in DrawSet, x.nbr = 0
  PROVE  Enable(x, d) \in Engines /\ Counted(Enable(x, d)) /\ Enable(x, d).enabled
<1> DEFINE on == [x EXCEPT !.enabled = TRUE]
           y  == ResetState(on, d)
<1>1. on \in Engines /\ on.enabled /\ on.nbr = 0
  BY DEF Engines
<1>2. y \in Engines /\ y.enabled /\ y.nbr = 0 /\ Members(y) = {}
  <2> HIDE DEF on
  <2> QED BY <1>1, ResetType, ResetKnowsNobody
<1>3. Broadcast(y) \in Engines /\ Keeps(y, Broadcast(y))
  <2> HIDE DEF y
  <2> QED BY <1>2, BroadcastType, BroadcastKeeps
<1> HIDE DEF y
<1> QED BY <1>2, <1>3, KeepsMembers, FS_EmptySet DEF Enable, on, y, Counted, Keeps

\* So has a disabled one.
LEMMA DisableCounts ==
  ASSUME NEW x \in Engines
  PROVE  LET y == Disable(x)
         IN  y \in Engines /\ Counted(y) /\ Known(y) = {} /\ Tracked(y) = {} /\ y.nbr = 0
<1> DEFINE off == [x EXCEPT !.enabled = FALSE,
                            !.peers = [p \in Ids |-> NoPeer],
                            !.others = [s \in Ids |-> NoSession],
                            !.nbr = 0,
                            !.forgotten = {}]
<1>1. off \in Engines /\ Known(off) = {} /\ Tracked(off) = {} /\ off.nbr = 0
  BY DEF Engines, Known, Tracked
<1>2. Members(off) = {}
  BY <1>1 DEF Members, InSession
<1>3. Disable(x) = PublishSnapshot(off)
  BY DEF Disable
<1>4. PublishSnapshot(off) \in Engines /\ Keeps(off, PublishSnapshot(off))
  <2> HIDE DEF off
  <2> QED BY <1>1, PublishType, PublishKeeps
<1> DEFINE y == PublishSnapshot(off)
<1>5. Members(y) = {} /\ Known(y) = {} /\ Tracked(y) = {} /\ y.nbr = 0
  <2> HIDE DEF off
  <2> QED BY <1>1, <1>2, <1>4, KeepsMembers DEF Keeps
<1> HIDE DEF off
<1> QED BY <1>3, <1>4, <1>5, FS_EmptySet DEF Counted

-----------------------------------------------------------------------------
(* What the small methods change, field by field.                          *)

\* The last announcement is the current state, or one is pending.
Announces(x) == x.enabled => x.pending \/ x.sent = CurrentPeerState(x)

\* A clamped tempo stays what it is when the timeline is set again.
Clamped(x) == ClampTempo(x.tl) = x.tl

\* What readers and callbacks know of the tempo and of the transport.
Told(x) ==
  /\ x.snap.tempo = x.tl.tempo /\ x.toldTempo = x.tl.tempo
  /\ x.snap.playing = x.css.playing /\ x.lastCb = x.css.playing

\* Whom a snapshot of the engine lists, and in which session.
Lists(x) == [p \in Ids |-> IF x.peers[p] = NoPeer THEN NoSession ELSE x.peers[p].session]

\* The count, the session and the peer list of the snapshot are those of the engine.
Viewed(x) ==
  x.snap.numPeers = x.nbr /\ x.snap.sessionId = x.sessionId /\ x.snap.peers = Lists(x)

\* Announcing changes nothing else.
OnlyAnnounces(x, y) ==
  /\ Keeps(x, y)
  /\ y.tl = x.tl /\ y.xform = x.xform /\ y.ss = x.ss /\ y.css = x.css /\ y.lastCb = x.lastCb
  /\ y.sync = x.sync /\ y.snap = x.snap /\ y.toldTempo = x.toldTempo
  /\ y.toldPeers = x.toldPeers /\ y.forgotten = x.forgotten

\* broadcast: the state is announced, or will be.
LEMMA BroadcastAnnounces ==
  ASSUME NEW x \in Engines
  PROVE  /\ OnlyAnnounces(x, Broadcast(x)) /\ Announces(Broadcast(x))
         /\ OnlyAnnounces(x, BroadcastNow(x)) /\ Announces(BroadcastNow(x))
<1>1. Keeps(x, Broadcast(x)) /\ Keeps(x, BroadcastNow(x))
  BY BroadcastKeeps
<1>2. OnlyAnnounces(x, BroadcastNow(x)) /\ Announces(BroadcastNow(x))
  BY <1>1 DEF OnlyAnnounces, Announces, BroadcastNow, CurrentPeerState, Engines
<1>3. CASE x.enabled /\ x.recent
  BY <1>1, <1>2, <1>3 DEF OnlyAnnounces, Announces, Broadcast, Engines
<1> QED BY <1>2, <1>3 DEF Broadcast

\* Publishing, and following the transport, change what is announced in nothing.
OnlyReports(x, y) ==
  /\ Keeps(x, y)
  /\ y.tl = x.tl /\ y.xform = x.xform /\ y.ss = x.ss /\ y.sync = x.sync
  /\ y.sent = x.sent /\ y.pending = x.pending
  /\ y.toldTempo = x.toldTempo /\ y.toldPeers = x.toldPeers /\ y.forgotten = x.forgotten

\* publishSnapshot: readers see the engine.
LEMMA PublishReports ==
  ASSUME NEW x \in Engines
  PROVE  LET y == PublishSnapshot(x)
         IN  /\ OnlyReports(x, y) /\ Viewed(y)
             /\ y.snap.tempo = y.tl.tempo /\ y.snap.playing = y.css.playing
             /\ y.css = x.css /\ y.lastCb = x.lastCb
<1>1. Keeps(x, PublishSnapshot(x))
  BY PublishKeeps
<1> QED BY <1>1 DEF OnlyReports, Viewed, Lists, PublishSnapshot, Engines

\* The transport is followed, and the callback told, or nothing happens.
LEMMA FollowReports ==
  ASSUME NEW x \in Engines
  PROVE  LET y == FollowSessionTransport(x)
         IN  /\ OnlyReports(x, y) /\ y.snap = x.snap
             /\ \/ y.css = x.css /\ y.lastCb = x.lastCb
                \/ y.lastCb = y.css.playing
<1>1. Keeps(x, FollowSessionTransport(x))
  BY FollowKeeps
<1>2. StartStopSessionToClient(x.ss, x.xform) \in Transports
  BY DEF Engines, Transports, StartStopSessionToClient, GhostToHost
<1> QED BY <1>1, <1>2
        DEF OnlyReports, FollowSessionTransport, ReportPlayingIfChanged, Engines

\* Setting timeline and transform changes neither session nor announcements.
OnlyTimes(x, y) ==
  /\ Keeps(x, y)
  /\ y.ss = x.ss /\ y.sync = x.sync /\ y.sent = x.sent /\ y.pending = x.pending
  /\ y.toldPeers = x.toldPeers /\ y.forgotten = x.forgotten

\* A clamped timeline is clamped.
LEMMA ClampTwice == ASSUME NEW tl \in Timelines PROVE ClampTempo(ClampTempo(tl)) = ClampTempo(tl)
<1>1. tl.tempo \in Int /\ MinTempo \in Int /\ MaxTempo \in Int
  BY TempoAssumption DEF Timelines
<1> DEFINE c == ClampTempo(tl)
<1>2. c \in Timelines
  BY ClampType
<1>3. MinTempo <= c.tempo /\ c.tempo <= MaxTempo
  BY <1>1, TempoAssumption DEF ClampTempo, Timelines
<1>4. ClampTempo(c) = [c EXCEPT !.tempo = c.tempo]
  <2>1. c.tempo \in Int
    BY <1>2, TempoAssumption DEF Timelines
  <2> HIDE DEF c
  <2> QED BY <1>1, <1>3, <2>1 DEF ClampTempo
<1>5. [c EXCEPT !.tempo = c.tempo] = c
  <2> HIDE DEF c
  <2> QED BY <1>2 DEF Timelines
<1> QED BY <1>4, <1>5

\* updateSessionTiming: timeline and transform are the new ones, readers and callbacks
\* know whenever they did, and what is published is the engine as it is.
LEMMA TimingSets ==
  ASSUME NEW x \in Engines, NEW tl \in Timelines, NEW xform \in Int
  PROVE  LET y == UpdateSessionTiming(x, tl, xform)
         IN  /\ OnlyTimes(x, y) /\ y.tl = ClampTempo(tl) /\ y.xform = xform /\ Clamped(y)
             /\ Told(x) => Told(y)
             /\ y.snap = x.snap \/ Viewed(y)
<1> DEFINE new   == ClampTempo(tl)
           told  == FireTempoCallback(x, new.tempo)
           moved == [told EXCEPT !.tl = new, !.xform = xform]
           f     == FollowSessionTransport(moved)
           y     == PublishSnapshot(f)
<1>1. new \in Timelines /\ ClampTempo(new) = new
  BY ClampType, ClampTwice
<1>2. CASE x.tl = new /\ x.xform = xform
  BY <1>1, <1>2 DEF UpdateSessionTiming, OnlyTimes, Keeps, Clamped
<1>3. CASE ~(x.tl = new /\ x.xform = xform)
  <2>1. /\ moved \in Engines /\ OnlyTimes(x, moved) /\ moved.tl = new /\ moved.xform = xform
        /\ moved.snap = x.snap /\ moved.css = x.css /\ moved.lastCb = x.lastCb
        /\ moved.toldTempo = IF x.tl.tempo # new.tempo THEN new.tempo ELSE x.toldTempo
    <3>1. new.tempo \in Tempos
      BY <1>1 DEF Timelines
    <3>2. /\ told \in Engines /\ OnlyTimes(x, told) /\ told.tl = x.tl
          /\ told.snap = x.snap /\ told.css = x.css /\ told.lastCb = x.lastCb
          /\ told.toldTempo = IF x.tl.tempo # new.tempo THEN new.tempo ELSE x.toldTempo
      <4> HIDE DEF new
      <4> QED BY <3>1 DEF FireTempoCallback, OnlyTimes, Keeps, Engines
    <3> HIDE DEF new, told
    <3> QED BY <1>1, <3>2 DEF OnlyTimes, Keeps, Engines
  <2>2. /\ f \in Engines /\ OnlyReports(moved, f) /\ f.snap = moved.snap
        /\ \/ f.css = moved.css /\ f.lastCb = moved.lastCb
           \/ f.lastCb = f.css.playing
    <3> HIDE DEF moved
    <3> QED BY <2>1, FollowType, FollowReports
  <2>3. /\ OnlyReports(f, y) /\ Viewed(y)
        /\ y.snap.tempo = y.tl.tempo /\ y.snap.playing = y.css.playing
        /\ y.css = f.css /\ y.lastCb = f.lastCb
    <3> HIDE DEF f
    <3> QED BY <2>2, PublishReports
  <2>4. UpdateSessionTiming(x, tl, xform) = y
    BY <1>3 DEF UpdateSessionTiming
  <2>5. y.tl = new /\ y.xform = xform /\ OnlyTimes(x, y) /\ y.toldTempo = moved.toldTempo
    <3> HIDE DEF moved, f, y, new
    <3> QED BY <2>1, <2>2, <2>3 DEF OnlyTimes, OnlyReports, Keeps
  <2>6. Told(x) => Told(y)
    <3> HIDE DEF moved, f, y, new
    <3> QED BY <2>1, <2>2, <2>3, <2>5 DEF Told
  <2> HIDE DEF moved, f, y, new
  <2> QED BY <1>1, <2>3, <2>4, <2>5, <2>6 DEF Clamped, new
<1> QED BY <1>2, <1>3

\* A founded session: the node has the id it drew, and knows nobody.
Founds(y, d) ==
  /\ y.nodeId = d.id /\ y.sessionId = d.id
  /\ Known(y) = {} /\ Tracked(y) = {} /\ Clamped(y) /\ Announces(y)

\* resetState: the snapshot it may publish still lists the peers it then drops.
LEMMA ResetFounds ==
  ASSUME NEW x \in Engines, NEW d \in DrawSet
  PROVE  LET y == ResetState(x, d)
         IN  /\ Founds(y, d)
             /\ y.enabled = x.enabled /\ y.nbr = x.nbr /\ y.toldPeers = x.toldPeers
             /\ Told(x) => Told(y)
             /\ \/ y.snap = x.snap
                \/ /\ y.snap.numPeers = x.nbr /\ y.snap.sessionId = d.id
                   /\ Known(x) = {} => Viewed(y)
<1> DEFINE own == [x EXCEPT !.nodeId = d.id, !.sessionId = d.id, !.ss = NoTransport]
           tl  == [tempo |-> x.tl.tempo, origin |-> d.beat, anchor |-> d.anchor]
           u   == UpdateSessionTiming(own, tl, -d.now)
           b   == Broadcast(u)
           y   == [b EXCEPT !.others = [s \in Ids |-> NoSession],
                            !.peers = [p \in Ids |-> NoPeer], !.forgotten = {}]
<1>1. /\ own \in Engines /\ own.nodeId = d.id /\ own.sessionId = d.id /\ own.nbr = x.nbr
      /\ own.enabled = x.enabled /\ own.toldPeers = x.toldPeers /\ own.peers = x.peers
      /\ own.snap = x.snap /\ (Told(x) => Told(own))
  <2>1. d.id \in Ids
    BY DEF DrawSet
  <2> QED BY <2>1, NoTransportType DEF Engines, Told
<1>2. tl \in Timelines /\ -d.now \in Int
  BY DEF Engines, Timelines, DrawSet
<1>3. /\ u \in Engines /\ OnlyTimes(own, u) /\ Clamped(u) /\ (Told(own) => Told(u))
      /\ u.snap = own.snap \/ Viewed(u)
  <2> HIDE DEF own, tl
  <2> QED BY <1>1, <1>2, TimingType, TimingSets
<1>4. b \in Engines /\ OnlyAnnounces(u, b) /\ Announces(b)
  <2> HIDE DEF u
  <2> QED BY <1>3, BroadcastType, BroadcastAnnounces
<1> HIDE DEF own, tl, u, b
<1>5. /\ y.nodeId = b.nodeId /\ y.sessionId = b.sessionId /\ y.enabled = b.enabled /\ y.nbr = b.nbr
      /\ y.toldPeers = b.toldPeers /\ y.snap = b.snap /\ y.tl = b.tl /\ y.ss = b.ss /\ y.css = b.css
      /\ y.lastCb = b.lastCb /\ y.toldTempo = b.toldTempo
      /\ y.pending = b.pending /\ y.sent = b.sent
      /\ y.peers = [p \in Ids |-> NoPeer] /\ y.others = [s \in Ids |-> NoSession]
  BY <1>4 DEF Engines
<1>6. ResetState(x, d) = y
  BY DEF ResetState, own, tl, u, b
<1> HIDE DEF y
<1>7. Founds(y, d)
  BY <1>1, <1>3, <1>4, <1>5
     DEF Founds, Known, Tracked, Clamped, Announces, CurrentPeerState, OnlyTimes, OnlyAnnounces, Keeps
<1>8. y.enabled = x.enabled /\ y.nbr = x.nbr /\ y.toldPeers = x.toldPeers
  BY <1>1, <1>3, <1>4, <1>5 DEF OnlyTimes, OnlyAnnounces, Keeps
<1>9. Told(x) => Told(y)
  BY <1>1, <1>3, <1>4, <1>5 DEF Told, OnlyAnnounces
<1>10. CASE u.snap = own.snap
  BY <1>1, <1>4, <1>5, <1>6, <1>7, <1>8, <1>9, <1>10 DEF OnlyAnnounces
<1>11. CASE Viewed(u)
  <2>1. y.snap = u.snap /\ u.peers = x.peers /\ u.nbr = x.nbr /\ u.sessionId = d.id
    BY <1>1, <1>3, <1>4, <1>5 DEF OnlyTimes, OnlyAnnounces, Keeps
  <2>2. Known(x) = {} => Viewed(y)
    BY <1>5, <1>7, <1>8, <1>11, <2>1 DEF Viewed, Lists, Known, Founds
  <2> QED BY <1>6, <1>7, <1>8, <1>9, <1>11, <2>1, <2>2 DEF Viewed, Lists
<1> QED BY <1>3, <1>10, <1>11

\* A recount stores the number, publishes it and tells it.
Recounts(x, y) ==
  /\ y.nodeId = x.nodeId /\ y.sessionId = x.sessionId /\ y.enabled = x.enabled
  /\ y.peers = x.peers /\ y.others = x.others /\ y.measuring = x.measuring
  /\ y.remeasure = x.remeasure
  /\ y.tl = x.tl /\ y.xform = x.xform /\ y.ss = x.ss /\ y.css = x.css /\ y.lastCb = x.lastCb
  /\ y.sent = x.sent /\ y.pending = x.pending /\ y.toldTempo = x.toldTempo
  /\ y.forgotten = x.forgotten

\* sessionMembershipChanged: nothing to do, a new number of peers, or none left.
LEMMA MembershipCases ==
  ASSUME NEW x \in Engines, NEW d \in DrawSet
  PROVE  LET y == SessionMembershipChanged(x, d)
         IN  \/ y = x /\ Counted(x)
             \/ /\ Recounts(x, y) \/ (Founds(y, d) /\ x.nbr # 0)
                /\ Viewed(y) /\ y.toldPeers = y.nbr
                /\ Told(x) => Told(y)
<1> DEFINE count   == Cardinality(Members(x))
           counted == [x EXCEPT !.nbr = count]
           w       == IF count = 0 THEN ResetState(counted, d) ELSE counted
           z       == PublishSnapshot(w)
           y       == [z EXCEPT !.toldPeers = z.nbr]
<1>1. CASE count = x.nbr
  BY <1>1 DEF SessionMembershipChanged, Counted
<1>2. CASE count # x.nbr
  <2>1. counted \in Engines /\ Recounts(x, counted) /\ (Told(x) => Told(counted))
    BY MembersFinite DEF Engines, Recounts, Told
  <2>2. /\ w \in Engines /\ (Told(counted) => Told(w))
        /\ Recounts(x, w) \/ (Founds(w, d) /\ x.nbr # 0)
    <3>1. CASE count = 0
      <4> HIDE DEF counted
      <4> QED BY <1>2, <2>1, <3>1, ResetType, ResetFounds
    <3>2. CASE count # 0
      BY <2>1, <3>2
    <3> QED BY <3>1, <3>2
  <2>3. /\ z \in Engines /\ OnlyReports(w, z) /\ Viewed(z)
        /\ z.snap.tempo = z.tl.tempo /\ z.snap.playing = z.css.playing
        /\ z.css = w.css /\ z.lastCb = w.lastCb
    <3> HIDE DEF w
    <3> QED BY <2>2, PublishType, PublishReports
  <2> HIDE DEF w, z
  <2>4. OnlyReports(w, z) /\ y.toldPeers = z.nbr /\ y.nbr = z.nbr
        /\ y.nodeId = z.nodeId /\ y.sessionId = z.sessionId /\ y.enabled = z.enabled
        /\ y.peers = z.peers /\ y.others = z.others /\ y.measuring = z.measuring
        /\ y.remeasure = z.remeasure /\ y.tl = z.tl /\ y.xform = z.xform /\ y.ss = z.ss
        /\ y.css = z.css /\ y.lastCb = z.lastCb /\ y.sent = z.sent /\ y.pending = z.pending
        /\ y.toldTempo = z.toldTempo /\ y.forgotten = z.forgotten /\ y.snap = z.snap
    BY <2>3 DEF Engines
  <2>5. SessionMembershipChanged(x, d) = y
    BY <1>2 DEF SessionMembershipChanged, FirePeersCallback, w, z
  <2> HIDE DEF y
  <2>6. Viewed(y) /\ y.toldPeers = y.nbr
    BY <2>3, <2>4 DEF Viewed, Lists
  <2>7. Told(w) => Told(y)
    BY <2>3, <2>4 DEF Told, OnlyReports
  <2>8. Recounts(x, w) => Recounts(x, y)
    BY <2>3, <2>4 DEF Recounts, OnlyReports, Keeps
  <2>9. Founds(w, d) => Founds(y, d)
    BY <2>3, <2>4
       DEF Founds, Known, Tracked, Clamped, Announces, CurrentPeerState, OnlyReports, Keeps
  <2> QED BY <2>1, <2>2, <2>5, <2>6, <2>7, <2>8, <2>9
<1> QED BY <1>1, <1>2

-----------------------------------------------------------------------------
(* Staying in the session, founding one, or joining one: what a handler     *)
(* does to the session, whatever else it does.                              *)

\* The session and its clock are the same; its timeline and its transport are,
\* or have advanced; and what the session logic relies on is kept.
Stays(x, y) ==
  /\ y.nodeId = x.nodeId /\ y.sessionId = x.sessionId /\ y.xform = x.xform
  /\ y.tl = x.tl \/ y.tl.origin > x.tl.origin
  /\ y.ss = x.ss \/ y.ss.at > x.ss.at
  /\ x.remeasure => y.remeasure
  /\ x.sessionId \notin Tracked(x) => y.sessionId \notin Tracked(y)
  /\ Clamped(x) => Clamped(y)

\* Steps within a session compose.
LEMMA StaysTransitive ==
  ASSUME NEW x \in Engines, NEW y \in Engines, NEW z \in Engines, Stays(x, y), Stays(y, z)
  PROVE  Stays(x, z)
<1>1. /\ x.tl.origin \in Int /\ y.tl.origin \in Int /\ z.tl.origin \in Int
      /\ x.ss.at \in Int /\ y.ss.at \in Int /\ z.ss.at \in Int
  BY DEF Engines, Timelines, Transports
<1> QED BY <1>1 DEF Stays

\* Doing nothing, announcing and publishing stay in the session.
LEMMA QuietlyStays ==
  ASSUME NEW x, NEW y, OnlyAnnounces(x, y) \/ OnlyReports(x, y) \/ y = x
  PROVE  Stays(x, y)
BY DEF Stays, OnlyAnnounces, OnlyReports, Keeps, Tracked, Clamped

\* So does setting the timeline again, or one with a greater origin.
LEMMA TimingStays ==
  ASSUME NEW x \in Engines, NEW tl \in Timelines,
         ClampTempo(tl) = x.tl \/ tl.origin > x.tl.origin
  PROVE  LET y == UpdateSessionTiming(x, tl, x.xform) IN y \in Engines /\ Stays(x, y)
<1>1. x.xform \in Int
  BY DEF Engines
<1>2. ClampTempo(tl).origin = tl.origin
  BY DEF ClampTempo, Timelines
<1> DEFINE y == UpdateSessionTiming(x, tl, x.xform)
<1>3. y \in Engines /\ OnlyTimes(x, y) /\ y.tl = ClampTempo(tl) /\ y.xform = x.xform /\ Clamped(y)
  BY <1>1, TimingType, TimingSets
<1> HIDE DEF y
<1>4. Stays(x, y)
  BY <1>2, <1>3 DEF Stays, OnlyTimes, Keeps, Tracked
<1> QED BY <1>3, <1>4 DEF y

\* A step, and then a broadcast, of a node that stays.
LEMMA ThenBroadcastStays ==
  ASSUME NEW x \in Engines, NEW y \in Engines, Stays(x, y)
  PROVE  Broadcast(y) \in Engines /\ Stays(x, Broadcast(y))
BY BroadcastType, BroadcastAnnounces, QuietlyStays, StaysTransitive

\* Launching a measurement, and its failure.
LEMMA LaunchStays ==
  ASSUME NEW x \in Engines, NEW sid \in Ids
  PROVE  /\ Stays(x, SessionMeasurementFailed(x, sid))
         /\ Stays(x, LaunchSessionMeasurement(x, sid))
         /\ Stays(x, ScheduleRemeasure(x))
<1>1. Stays(x, x)
  BY QuietlyStays
<1>2. Stays(x, Forget(x, sid)) /\ Stays(x, ScheduleRemeasure(x))
  BY DEF Stays, Forget, ScheduleRemeasure, Clamped, Tracked, Engines
<1>3. Stays(x, SessionMeasurementFailed(x, sid))
  BY <1>2 DEF SessionMeasurementFailed
<1>4. Stays(x, [x EXCEPT !.measuring[sid] = Chosen(x, sid)])
  BY DEF Stays, Clamped, Tracked, Engines
<1> QED BY <1>1, <1>2, <1>3, <1>4 DEF LaunchSessionMeasurement

\* A timeline from a peer.
LEMMA SawTimelineStays ==
  ASSUME NEW x \in Engines, NEW sid \in Ids, NEW tl \in Timelines
  PROVE  Stays(x, SawSessionTimeline(x, sid, tl))
<1>1. CASE sid = x.sessionId
  <2> DEFINE y == IF tl.origin > x.tl.origin THEN UpdateSessionTiming(x, tl, x.xform) ELSE x
  <2>1. y \in Engines /\ Stays(x, y)
    BY TimingStays, QuietlyStays
  <2> HIDE DEF y
  <2>2. Stays(x, Broadcast(y))
    BY <2>1, ThenBroadcastStays
  <2> QED BY <1>1, <2>2 DEF SawSessionTimeline, y
<1>2. CASE sid # x.sessionId /\ x.others[sid] # NoSession
  <2> DEFINE y == [x EXCEPT !.others[sid] = IF tl.origin > @.origin THEN tl ELSE @]
  <2>1. Stays(x, y)
    BY <1>2 DEF Stays, Clamped, Tracked, Engines
  <2> QED BY <1>2, <2>1 DEF SawSessionTimeline
<1>3. CASE sid # x.sessionId /\ x.others[sid] = NoSession
  <2> DEFINE y == [x EXCEPT !.others[sid] = tl]
  <2>1. y \in Engines /\ Stays(x, y)
    BY <1>3 DEF Stays, Clamped, Tracked, Engines
  <2> HIDE DEF y
  <2>2. Stays(x, LaunchSessionMeasurement(y, sid))
    BY <2>1, LaunchType, LaunchStays, StaysTransitive
  <2> QED BY <1>3, <2>2 DEF SawSessionTimeline, y
<1> QED BY <1>1, <1>2, <1>3

\* A transport state from a peer: only a later one replaces the one there is.
LEMMA HandleStartStopStays ==
  ASSUME NEW x \in Engines, NEW sid \in Ids, NEW ss \in Transports
  PROVE  Stays(x, HandleStartStopFromSession(x, sid, ss))
<1>1. CASE sid # x.sessionId \/ ss.at <= x.ss.at
  BY <1>1, QuietlyStays DEF HandleStartStopFromSession
<1>2. CASE ~(sid # x.sessionId \/ ss.at <= x.ss.at)
  <2> DEFINE y == [x EXCEPT !.ss = ss]
             r == Broadcast(y)
             f == FollowSessionTransport(r)
  <2>1. ss.at \in Int /\ x.ss.at \in Int
    BY DEF Engines, Transports
  <2>2. y \in Engines /\ Stays(x, y)
    BY <1>2, <2>1 DEF Engines, Stays, Clamped, Tracked
  <2> HIDE DEF y
  <2>3. r \in Engines /\ Stays(x, r)
    BY <2>2, ThenBroadcastStays
  <2> HIDE DEF r
  <2>4. f \in Engines /\ Stays(x, f)
    BY <2>3, FollowType, FollowReports, QuietlyStays, StaysTransitive
  <2> HIDE DEF f
  <2>5. Stays(x, PublishSnapshot(f))
    BY <2>4, PublishType, PublishReports, QuietlyStays, StaysTransitive
  <2> QED BY <1>2, <2>3, <2>5 DEF HandleStartStopFromSession, y, r, f
<1> QED BY <1>1, <1>2

\* Both propagations of sawPeerState.
LEMMA PropagateStays ==
  ASSUME NEW x \in Engines, NEW p \in Ids, x.peers[p] \in PeerStates, NEW old
  PROVE  /\ Stays(x, PropagateTimeline(x, old, p))
         /\ Stays(x, PropagateStartStop(x, old, p))
<1>1. x.peers[p].session \in Ids /\ x.peers[p].tl \in Timelines /\ x.peers[p].ss \in Transports
  BY DEF PeerStates
<1>2. Stays(x, SawSessionTimeline(x, x.peers[p].session, x.peers[p].tl))
  BY <1>1, SawTimelineStays
<1>3. Stays(x, HandleStartStopFromSession(x, x.peers[p].session, x.peers[p].ss))
  BY <1>1, HandleStartStopStays
<1>4. Stays(x, x)
  BY QuietlyStays
<1> QED BY <1>2, <1>3, <1>4 DEF PropagateTimeline, PropagateStartStop

\* A node founds a session when it had peers in its session and none is left.
StaysOrFounds(x, y, d) == Stays(x, y) \/ (Founds(y, d) /\ x.nbr # 0)

\* A recount.
LEMMA MembershipStays ==
  ASSUME NEW x \in Engines, NEW d \in DrawSet
  PROVE  StaysOrFounds(x, SessionMembershipChanged(x, d), d)
<1> DEFINE y == SessionMembershipChanged(x, d)
<1>1. y = x \/ Recounts(x, y) \/ (Founds(y, d) /\ x.nbr # 0)
  BY MembershipCases
<1>2. Recounts(x, y) => Stays(x, y)
  BY DEF Recounts, Stays, Clamped, Tracked
<1> QED BY <1>1, <1>2, QuietlyStays DEF StaysOrFounds

\* A step within the session that keeps the count, and then a recount.
LEMMA ThenRecountStays ==
  ASSUME NEW x \in Engines, NEW y \in Engines, NEW d \in DrawSet, Stays(x, y), y.nbr = x.nbr
  PROVE  StaysOrFounds(x, SessionMembershipChanged(y, d), d)
BY MembershipType, MembershipStays, StaysTransitive DEF StaysOrFounds

\* The handler of a packet that describes a peer.
LEMMA SawPeerStays ==
  ASSUME NEW x \in Engines, NEW p \in Ids, NEW state \in PeerStates, NEW d \in DrawSet
  PROVE  StaysOrFounds(x, SawPeerState(x, p, state, d), d)
<1> DEFINE y    == [x EXCEPT !.peers[p] = state]
           old  == x.peers[p]
           t    == PropagateTimeline(y, old, p)
           seen == PropagateStartStop(t, old, p)
<1>1. y \in Engines /\ y.peers[p] = state /\ y.nbr = x.nbr /\ Stays(x, y)
  BY DEF Engines, Stays, Clamped, Tracked
<1> HIDE DEF y, old
<1>2. t \in Engines /\ KeepsPeers(y, t) /\ Stays(x, t)
  BY <1>1, PropagateType, PropagateKeeps, PropagateStays, StaysTransitive
<1>3. t.peers[p] \in PeerStates /\ t.nbr = x.nbr
  BY <1>1, <1>2 DEF KeepsPeers
<1> HIDE DEF t
<1>4. seen \in Engines /\ seen.nbr = x.nbr /\ Stays(x, seen)
  BY <1>2, <1>3, PropagateType, PropagateKeeps, PropagateStays, StaysTransitive DEF KeepsPeers
<1>5. SawPeerState(x, p, state, d) \in {seen, SessionMembershipChanged(seen, d)}
  BY DEF SawPeerState, y, old, t
<1> HIDE DEF seen
<1> QED BY <1>4, <1>5, ThenRecountStays DEF StaysOrFounds

\* A bye-bye, and the pruning of silent peers.
LEMMA RemoveStays ==
  ASSUME NEW x \in Engines, NEW p \in Ids, NEW d \in DrawSet
  PROVE  /\ StaysOrFounds(x, RemovePeer(x, p, d), d)
         /\ StaysOrFounds(x, PrunePeers(x, d), d)
<1>1. StaysOrFounds(x, x, d)
  BY QuietlyStays DEF StaysOrFounds
<1>2. StaysOrFounds(x, RemovePeer(x, p, d), d)
  <2> DEFINE y == [x EXCEPT !.peers[p] = NoPeer]
  <2>1. y \in Engines /\ y.nbr = x.nbr /\ Stays(x, y)
    BY DEF Engines, Stays, Clamped, Tracked
  <2> HIDE DEF y
  <2> QED BY <1>1, <2>1, ThenRecountStays DEF RemovePeer, y
<1>3. StaysOrFounds(x, PrunePeers(x, d), d)
  <2> DEFINE left == [q \in Ids |-> IF q \in Expired(x) THEN NoPeer ELSE x.peers[q]]
             y    == [x EXCEPT !.peers = left]
  <2>1. left \in [Ids -> PeerStates \cup {NoPeer}]
    BY DEF Engines
  <2>2. y \in Engines /\ y.nbr = x.nbr /\ Stays(x, y)
    <3> HIDE DEF left
    <3> QED BY <2>1 DEF Engines, Stays, Clamped, Tracked
  <2>3. PrunePeers(x, d) = IF Expired(x) = {} THEN x ELSE SessionMembershipChanged(y, d)
    BY DEF PrunePeers
  <2> HIDE DEF y
  <2> QED BY <1>1, <2>2, <2>3, ThenRecountStays
<1> QED BY <1>2, <1>3

\* Joining a session: under the old id, with the clock that was measured, which is
\* to be measured again.
Joins(x, y, sid, xform) ==
  /\ y.nodeId = x.nodeId /\ y.sessionId = sid /\ y.xform = xform /\ y.remeasure
  /\ sid \notin Tracked(y) /\ Clamped(y)

\* A new clock in the same session.
Remeasures(x, y, xform) ==
  /\ y.nodeId = x.nodeId /\ y.sessionId = x.sessionId /\ y.xform = xform /\ y.remeasure
  /\ y.tl = ClampTempo(x.tl) /\ y.ss = x.ss /\ Tracked(y) = Tracked(x) /\ Clamped(y)

\* joinSession, with the peers of the session that was joined; if there are none the
\* node founds another one in the same handler.
LEMMA JoinJoins ==
  ASSUME NEW x \in Engines, NEW sid \in Ids, sid # x.sessionId, x.others[sid] # NoSession,
         NEW xform \in Int, NEW d \in DrawSet
  PROVE  LET y == JoinSession(x, sid, xform, d)
         IN  Joins(x, y, sid, xform) \/ (Founds(y, d) /\ x.nbr # 0)
<1> DEFINE others == [x.others EXCEPT ![sid] = NoSession,
                                      ![x.sessionId] = IF @ = NoSession THEN x.tl ELSE @]
           joined == [x EXCEPT !.others = others, !.sessionId = sid, !.ss = NoTransport]
           u      == UpdateSessionTiming(joined, x.others[sid], xform)
           timed  == Broadcast(u)
           m      == SessionMembershipChanged(timed, d)
           y      == [m EXCEPT !.remeasure = TRUE]
<1>1. /\ joined \in Engines /\ joined.nodeId = x.nodeId /\ joined.sessionId = sid
      /\ joined.nbr = x.nbr /\ sid \notin Tracked(joined)
  <2>1. others \in [Ids -> Timelines \cup {NoSession}] /\ others[sid] = NoSession
    BY DEF Engines
  <2> HIDE DEF others
  <2> QED BY <2>1, NoTransportType DEF Engines, Tracked
<1>2. x.others[sid] \in Timelines
  BY DEF Engines
<1> HIDE DEF joined
<1>3. u \in Engines /\ OnlyTimes(joined, u) /\ u.xform = xform /\ Clamped(u)
  BY <1>1, <1>2, TimingType, TimingSets
<1> HIDE DEF u
<1>4. timed \in Engines /\ OnlyAnnounces(u, timed)
  BY <1>3, BroadcastType, BroadcastAnnounces
<1> HIDE DEF timed
<1>5. /\ timed.nodeId = x.nodeId /\ timed.sessionId = sid /\ timed.xform = xform
      /\ timed.nbr = x.nbr /\ sid \notin Tracked(timed) /\ Clamped(timed)
  BY <1>1, <1>3, <1>4 DEF OnlyTimes, OnlyAnnounces, Keeps, Tracked, Clamped
<1>6. m \in Engines /\ (m = timed \/ Recounts(timed, m) \/ (Founds(m, d) /\ timed.nbr # 0))
  BY <1>4, MembershipType, MembershipCases
<1> HIDE DEF m
<1>7. /\ y.nodeId = m.nodeId /\ y.sessionId = m.sessionId /\ y.xform = m.xform /\ y.remeasure
      /\ y.others = m.others /\ y.peers = m.peers /\ y.tl = m.tl /\ y.ss = m.ss
      /\ y.enabled = m.enabled /\ y.pending = m.pending /\ y.sent = m.sent
  BY <1>6 DEF Engines
<1>8. JoinSession(x, sid, xform, d) = y
  BY DEF JoinSession, ScheduleRemeasure, m, timed, u, joined
<1> HIDE DEF y
<1>9. CASE m = timed \/ Recounts(timed, m)
  BY <1>5, <1>7, <1>8, <1>9 DEF Joins, Recounts, Tracked, Clamped
<1>10. CASE Founds(m, d) /\ timed.nbr # 0
  BY <1>5, <1>7, <1>8, <1>10
     DEF Founds, Known, Tracked, Clamped, Announces, CurrentPeerState
<1> QED BY <1>6, <1>9, <1>10

\* The result of a measurement: a new clock, another session, or nothing.
LEMMA MeasuredOutcome ==
  ASSUME NEW x \in Engines, NEW sid \in Ids, NEW xform \in Int, NEW d \in DrawSet
  PROVE  LET y == SessionMeasured(x, sid, xform, d)
         IN  \/ sid = x.sessionId /\ Remeasures(x, y, xform)
             \/ /\ sid # x.sessionId /\ sid \in Tracked(x) /\ SessionWins(x, sid, xform)
                /\ Joins(x, y, sid, xform) \/ (Founds(y, d) /\ x.nbr # 0)
             \/ sid # x.sessionId /\ y = x
<1>1. CASE sid = x.sessionId
  <2> DEFINE u == UpdateSessionTiming(x, x.tl, xform)
             b == Broadcast(u)
             y == [b EXCEPT !.remeasure = TRUE]
  <2>1. x.tl \in Timelines
    BY DEF Engines
  <2>2. u \in Engines /\ OnlyTimes(x, u) /\ u.tl = ClampTempo(x.tl) /\ u.xform = xform /\ Clamped(u)
    BY <2>1, TimingType, TimingSets
  <2> HIDE DEF u
  <2>3. b \in Engines /\ OnlyAnnounces(u, b)
    BY <2>2, BroadcastType, BroadcastAnnounces
  <2> HIDE DEF b
  <2>4. /\ y.nodeId = b.nodeId /\ y.sessionId = b.sessionId /\ y.xform = b.xform /\ y.remeasure
        /\ y.others = b.others /\ y.tl = b.tl /\ y.ss = b.ss
    BY <2>3 DEF Engines
  <2>5. SessionMeasured(x, sid, xform, d) = y
    BY <1>1 DEF SessionMeasured, ScheduleRemeasure, b, u
  <2> HIDE DEF y
  <2>6. Remeasures(x, y, xform)
    BY <2>2, <2>3, <2>4 DEF Remeasures, OnlyTimes, OnlyAnnounces, Keeps, Tracked, Clamped
  <2> QED BY <1>1, <2>5, <2>6
<1>2. CASE sid # x.sessionId /\ x.others[sid] # NoSession /\ SessionWins(x, sid, xform)
  <2>1. SessionMeasured(x, sid, xform, d) = JoinSession(x, sid, xform, d)
    BY <1>2 DEF SessionMeasured
  <2>2. sid \in Tracked(x)
    BY <1>2 DEF Tracked
  <2> QED BY <1>2, <2>1, <2>2, JoinJoins
<1>3. CASE sid # x.sessionId /\ ~(x.others[sid] # NoSession /\ SessionWins(x, sid, xform))
  BY <1>3 DEF SessionMeasured
<1> QED BY <1>1, <1>2, <1>3

\* A commit gives the session timeline a greater origin or leaves it alone.
LEMMA CommitStays ==
  ASSUME NEW x \in Engines, Clamped(x),
         NEW tempo \in Tempos, NEW anchor \in Anchors, NEW beat \in Int
  PROVE  Stays(x, CommitClientTimeline(x, tempo, anchor, beat))
<1> DEFINE stl  == UpdateSessionTimelineFromClient(x.tl, tempo, anchor, beat)
           done == UpdateSessionTiming(x, stl, x.xform)
           told == [p \in Ids |-> IF p \in Members(done)
                                  THEN [done.peers[p] EXCEPT !.tl = done.tl]
                                  ELSE done.peers[p]]
           z    == [done EXCEPT !.peers = told]
<1>1. stl \in Timelines /\ (ClampTempo(stl) = x.tl \/ stl.origin > x.tl.origin)
  BY DEF Engines, Timelines, UpdateSessionTimelineFromClient, Clamped
<1> HIDE DEF stl
<1>2. done \in Engines /\ Stays(x, done)
  BY <1>1, TimingStays
<1> HIDE DEF done
<1>3. told \in [Ids -> PeerStates \cup {NoPeer}]
  BY <1>2 DEF Members, InSession, Known, Engines, PeerStates
<1> HIDE DEF told
<1>4. z \in Engines /\ Stays(done, z)
  BY <1>2, <1>3 DEF Engines, Stays, Clamped, Tracked
<1>5. CommitClientTimeline(x, tempo, anchor, beat) = Broadcast(z)
  BY DEF CommitClientTimeline, told, done, stl
<1> HIDE DEF z
<1>6. Stays(x, z)
  BY <1>2, <1>4, StaysTransitive
<1> QED BY <1>4, <1>5, <1>6, ThenBroadcastStays

\* A start or stop of the application replaces the session's transport by a later one.
LEMMA PlayingStays ==
  ASSUME NEW x \in Engines, NEW playing \in BOOLEAN, NEW at \in Int
  PROVE  Stays(x, ApplyPlayingChange(x, playing, at))
<1> DEFINE ghost == HostToGhost(x.xform, at)
           local == IF at >= x.css.at
                    THEN [x EXCEPT !.css = [playing |-> playing, at |-> at]] ELSE x
           said  == [local EXCEPT !.ss = [playing |-> playing, at |-> ghost]]
           told  == IF local.sync /\ ghost > local.ss.at THEN Broadcast(said) ELSE local
           heard == ReportPlayingIfChanged(told)
<1>1. local \in Engines /\ Stays(x, local)
  BY DEF Engines, Transports, Stays, Clamped, Tracked
<1>2. [playing |-> playing, at |-> ghost] \in Transports
  BY DEF Engines, Transports, HostToGhost
<1> HIDE DEF local, ghost
<1>3. said \in Engines /\ (ghost > local.ss.at => Stays(local, said))
  BY <1>1, <1>2 DEF Engines, Stays, Clamped, Tracked
<1>4. told \in Engines /\ Stays(x, told)
  <2> HIDE DEF said
  <2>1. CASE local.sync /\ ghost > local.ss.at
    BY <1>1, <1>3, <2>1, StaysTransitive, ThenBroadcastStays
  <2>2. CASE ~(local.sync /\ ghost > local.ss.at)
    BY <1>1, <2>2
  <2> QED BY <2>1, <2>2
<1>5. ApplyPlayingChange(x, playing, at) = PublishSnapshot(heard)
  BY DEF ApplyPlayingChange, local, ghost
<1> HIDE DEF told
<1>6. heard \in Engines /\ Stays(told, heard)
  <2>1. told.css.playing \in BOOLEAN
    BY <1>4 DEF Engines, Transports
  <2> QED BY <1>4, <2>1 DEF ReportPlayingIfChanged, Engines, Stays, Clamped, Tracked
<1> HIDE DEF heard
<1> QED BY <1>4, <1>5, <1>6, PublishType, PublishReports, QuietlyStays, StaysTransitive

\* Enabling founds a session; disabling stays in the one there is.
LEMMA EnableFounds ==
  ASSUME NEW x \in Engines, NEW d \in DrawSet
  PROVE  Founds(Enable(x, d), d)
<1> DEFINE on == [x EXCEPT !.enabled = TRUE]
           y  == ResetState(on, d)
<1>1. on \in Engines
  BY DEF Engines
<1> HIDE DEF on
<1>2. y \in Engines /\ Founds(y, d)
  BY <1>1, ResetType, ResetFounds
<1> HIDE DEF y
<1>3. OnlyAnnounces(y, Broadcast(y)) /\ Announces(Broadcast(y)) /\ Enable(x, d) = Broadcast(y)
  BY <1>2, BroadcastAnnounces DEF Enable, y, on
<1> QED BY <1>2, <1>3 DEF Founds, OnlyAnnounces, Keeps, Known, Tracked, Clamped

\* setEnabled(false).
LEMMA DisableStays ==
  ASSUME NEW x \in Engines
  PROVE  Stays(x, Disable(x))
<1> DEFINE off == [x EXCEPT !.enabled = FALSE,
                            !.peers = [p \in Ids |-> NoPeer],
                            !.others = [s \in Ids |-> NoSession],
                            !.nbr = 0,
                            !.forgotten = {}]
<1>1. off \in Engines /\ Stays(x, off)
  BY DEF Engines, Stays, Clamped, Tracked
<1>2. Disable(x) = PublishSnapshot(off)
  BY DEF Disable
<1> HIDE DEF off
<1> QED BY <1>1, <1>2, PublishType, PublishReports, QuietlyStays, StaysTransitive


-----------------------------------------------------------------------------
(* What readers and callbacks are shown.                                    *)

\* The snapshot counts the members of its own session in its own list.
Coherent(x) ==
  x.snap.numPeers = Cardinality({p \in Ids : x.snap.peers[p] = x.snap.sessionId})

\* The application knows the number of peers, but for the last one lost by disabling.
ToldCount(x) == x.snap.numPeers = x.nbr /\ (x.nbr > 0 => x.toldPeers = x.nbr)

\* What every handler has to leave behind when it returns.
Public(x) == Told(x) /\ ToldCount(x) /\ Coherent(x) /\ Announces(x)

\* The snapshot lists the same peers in the same session.
SameView(x, y) ==
  /\ y.snap.numPeers = x.snap.numPeers /\ y.snap.sessionId = x.snap.sessionId
  /\ y.snap.peers = x.snap.peers

\* The number of peers is as it was, and any snapshot published since lists the
\* peers there are.
Presents(x, y) ==
  /\ y.nbr = x.nbr /\ y.toldPeers = x.toldPeers
  /\ Told(x) => Told(y)
  /\ SameView(x, y) \/ Viewed(y)

\* As Presents, of a step that leaves every peer in its session.
Shows(x, y) == Presents(x, y) /\ y.sessionId = x.sessionId /\ Lists(y) = Lists(x)

\* Such steps follow any other.
LEMMA ThenShows ==
  ASSUME NEW x, NEW y, NEW z, Presents(x, y), Shows(y, z)
  PROVE  Presents(x, z)
BY DEF Presents, Shows, SameView, Viewed

\* ... and each other.
LEMMA ShowsTransitive ==
  ASSUME NEW x, NEW y, NEW z, Shows(x, y), Shows(y, z)
  PROVE  Shows(x, z)
BY ThenShows DEF Shows

\* A snapshot of exactly counted peers counts its own members.
LEMMA ViewedCoherent ==
  ASSUME NEW x \in Engines, Viewed(x), Counted(x)
  PROVE  Coherent(x)
<1>1. x.sessionId \in Ids /\ x.sessionId # NoSession
  BY NoneAssumption DEF Engines
<1>2. {p \in Ids : Lists(x)[p] = x.sessionId} = Members(x)
  BY <1>1 DEF Lists, Members, InSession, Known
<1> QED BY <1>2 DEF Viewed, Counted, Coherent

\* So a step that presents what is counted keeps readers and callbacks current.
LEMMA PresentsPublic ==
  ASSUME NEW x, NEW y \in Engines, Public(x), Presents(x, y), Announces(y), Counted(y)
  PROVE  Public(y)
<1>1. Told(y) /\ ToldCount(y)
  BY DEF Public, Presents, ToldCount, SameView, Viewed
<1>2. Coherent(y)
  <2>1. CASE SameView(x, y)
    BY <2>1 DEF Public, Coherent, SameView
  <2>2. CASE Viewed(y)
    BY <2>2, ViewedCoherent
  <2> QED BY <2>1, <2>2 DEF Presents
<1> QED BY <1>1, <1>2 DEF Public

\* So does a step followed by a recount, which may found a session.
LEMMA RecountPublic ==
  ASSUME NEW x, NEW y \in Engines, NEW d \in DrawSet, Public(x), Presents(x, y), Announces(y)
  PROVE  Public(SessionMembershipChanged(y, d))
<1> DEFINE z == SessionMembershipChanged(y, d)
<1>1. z \in Engines /\ Counted(z)
  BY MembershipType, MembershipCounts
<1>2. \/ z = y /\ Counted(y)
      \/ /\ Recounts(y, z) \/ Founds(z, d)
         /\ Viewed(z) /\ z.toldPeers = z.nbr
         /\ Told(y) => Told(z)
  BY MembershipCases
<1> HIDE DEF z
<1>3. CASE z = y /\ Counted(y)
  BY <1>3, PresentsPublic DEF z
<1>4. CASE /\ Recounts(y, z) \/ Founds(z, d)
           /\ Viewed(z) /\ z.toldPeers = z.nbr
           /\ Told(y) => Told(z)
  <2>1. Coherent(z) /\ ToldCount(z)
    BY <1>1, <1>4, ViewedCoherent DEF ToldCount, Viewed
  <2>2. Told(z)
    BY <1>4 DEF Public, Presents
  <2>3. Announces(z)
    BY <1>4 DEF Recounts, Founds, Announces, CurrentPeerState
  <2> QED BY <2>1, <2>2, <2>3 DEF Public, z
<1> QED BY <1>2, <1>3, <1>4

\* A step that changes nothing a reader, a callback or a peer is shown.
Aside(x, y) ==
  /\ y.nodeId = x.nodeId /\ y.sessionId = x.sessionId /\ y.enabled = x.enabled
  /\ y.nbr = x.nbr /\ Lists(y) = Lists(x)
  /\ y.tl = x.tl /\ y.ss = x.ss /\ y.css = x.css /\ y.lastCb = x.lastCb
  /\ y.pending = x.pending /\ y.sent = x.sent
  /\ y.snap = x.snap /\ y.toldTempo = x.toldTempo /\ y.toldPeers = x.toldPeers

\* Such a step shows what was shown.
LEMMA AsideShows ==
  ASSUME NEW x, NEW y, Aside(x, y)
  PROVE  Shows(x, y) /\ (Announces(x) => Announces(y))
BY DEF Aside, Shows, Presents, SameView, Told, Announces, CurrentPeerState

\* A broadcast shows what was shown, and announces it.
LEMMA BroadcastShows ==
  ASSUME NEW x \in Engines
  PROVE  /\ Broadcast(x) \in Engines /\ Shows(x, Broadcast(x)) /\ Announces(Broadcast(x))
         /\ Shows(x, BroadcastNow(x)) /\ Announces(BroadcastNow(x))
BY BroadcastType, BroadcastAnnounces
   DEF Shows, Presents, SameView, Told, OnlyAnnounces, Keeps, Lists

\* Setting the timeline shows the peers there are.
LEMMA TimingShows ==
  ASSUME NEW x \in Engines, NEW tl \in Timelines, NEW xform \in Int
  PROVE  Shows(x, UpdateSessionTiming(x, tl, xform))
<1> DEFINE y == UpdateSessionTiming(x, tl, xform)
<1>1. OnlyTimes(x, y) /\ (Told(x) => Told(y)) /\ (y.snap = x.snap \/ Viewed(y))
  BY TimingSets
<1> HIDE DEF y
<1> QED BY <1>1 DEF Shows, Presents, SameView, OnlyTimes, Keeps, Lists, y

\* Launching a measurement, failing it and arming the timer are shown to nobody.
LEMMA LaunchAside ==
  ASSUME NEW x \in Engines, NEW sid \in Ids
  PROVE  /\ Aside(x, SessionMeasurementFailed(x, sid))
         /\ Aside(x, LaunchSessionMeasurement(x, sid))
         /\ Aside(x, ScheduleRemeasure(x))
<1>1. Aside(x, Forget(x, sid)) /\ Aside(x, ScheduleRemeasure(x)) /\ Aside(x, x)
  BY DEF Aside, Lists, Forget, ScheduleRemeasure, Engines
<1>2. Aside(x, SessionMeasurementFailed(x, sid))
  BY <1>1 DEF SessionMeasurementFailed
<1>3. Aside(x, [x EXCEPT !.measuring[sid] = Chosen(x, sid)])
  BY DEF Aside, Lists, Engines
<1> QED BY <1>1, <1>2, <1>3 DEF LaunchSessionMeasurement

\* A timeline from a peer is announced on.
LEMMA SawTimelineShows ==
  ASSUME NEW x \in Engines, NEW sid \in Ids, NEW tl \in Timelines
  PROVE  LET y == SawSessionTimeline(x, sid, tl)
         IN  Shows(x, y) /\ (Announces(x) => Announces(y))
<1>i. Aside(x, x)
  BY DEF Aside
<1>1. CASE sid = x.sessionId
  <2> DEFINE y == IF tl.origin > x.tl.origin THEN UpdateSessionTiming(x, tl, x.xform) ELSE x
  <2>1. y \in Engines /\ Shows(x, y)
    <3>1. x.xform \in Int
      BY DEF Engines
    <3> QED BY <1>i, <3>1, TimingType, TimingShows, AsideShows
  <2> HIDE DEF y
  <2>2. Shows(x, Broadcast(y)) /\ Announces(Broadcast(y))
    BY <2>1, BroadcastShows, ShowsTransitive
  <2> QED BY <1>1, <2>2 DEF SawSessionTimeline, y
<1>2. CASE sid # x.sessionId /\ x.others[sid] # NoSession
  <2>1. Aside(x, SawSessionTimeline(x, sid, tl))
    BY <1>2 DEF SawSessionTimeline, Aside, Lists, Engines
  <2> QED BY <2>1, AsideShows
<1>3. CASE sid # x.sessionId /\ x.others[sid] = NoSession
  <2> DEFINE y == [x EXCEPT !.others[sid] = tl]
  <2>1. y \in Engines /\ Aside(x, y)
    BY DEF Aside, Lists, Engines
  <2> HIDE DEF y
  <2>2. Aside(x, LaunchSessionMeasurement(y, sid))
    BY <2>1, LaunchAside DEF Aside
  <2> QED BY <1>3, <2>2, AsideShows DEF SawSessionTimeline, y
<1> QED BY <1>1, <1>2, <1>3

\* A transport state from a peer is announced on, and the snapshot and the callback
\* follow it together.
LEMMA HandleStartStopShows ==
  ASSUME NEW x \in Engines, NEW sid \in Ids, NEW ss \in Transports
  PROVE  LET y == HandleStartStopFromSession(x, sid, ss)
         IN  Shows(x, y) /\ (Announces(x) => Announces(y))
<1>i. Shows(x, x)
  BY AsideShows DEF Aside
<1> DEFINE y == [x EXCEPT !.ss = ss]
           r == Broadcast(y)
           f == FollowSessionTransport(r)
           z == PublishSnapshot(f)
<1>1. y \in Engines /\ Shows(x, y)
  BY DEF Engines, Shows, Presents, SameView, Told, Lists
<1> HIDE DEF y
<1>2. r \in Engines /\ Shows(x, r) /\ Announces(r)
  BY <1>1, BroadcastShows, ShowsTransitive
<1> HIDE DEF r
<1>3. /\ f \in Engines /\ OnlyReports(r, f) /\ f.snap = r.snap
      /\ \/ f.css = r.css /\ f.lastCb = r.lastCb
         \/ f.lastCb = f.css.playing
  BY <1>2, FollowType, FollowReports
<1> HIDE DEF f
<1>4. /\ OnlyReports(f, z) /\ Viewed(z)
      /\ z.snap.tempo = z.tl.tempo /\ z.snap.playing = z.css.playing
      /\ z.css = f.css /\ z.lastCb = f.lastCb
  BY <1>3, PublishReports
<1> HIDE DEF z
<1>5. Shows(r, z) /\ Announces(z)
  BY <1>2, <1>3, <1>4
     DEF Shows, Presents, Told, OnlyReports, Keeps, Lists, Announces, CurrentPeerState
<1>6. Shows(x, z)
  BY <1>2, <1>5, ShowsTransitive
<1> QED BY <1>i, <1>2, <1>5, <1>6 DEF HandleStartStopFromSession, y, r, f, z

\* Both propagations of sawPeerState.
LEMMA PropagateShows ==
  ASSUME NEW x \in Engines, NEW p \in Ids, x.peers[p] \in PeerStates, NEW old
  PROVE  /\ LET y == PropagateTimeline(x, old, p)
            IN  Shows(x, y) /\ (Announces(x) => Announces(y))
         /\ LET y == PropagateStartStop(x, old, p)
            IN  Shows(x, y) /\ (Announces(x) => Announces(y))
<1>1. x.peers[p].session \in Ids /\ x.peers[p].tl \in Timelines /\ x.peers[p].ss \in Transports
  BY DEF PeerStates
<1>2. Shows(x, x)
  BY AsideShows DEF Aside
<1> QED BY <1>1, <1>2, SawTimelineShows, HandleStartStopShows
        DEF PropagateTimeline, PropagateStartStop

\* The handler of a packet that describes a peer: the snapshot it may publish while the
\* new peer is not counted yet is replaced when the count changes.
LEMMA SawPeerPublic ==
  ASSUME NEW x \in Engines, NEW p \in Ids, NEW state \in PeerStates, NEW d \in DrawSet,
         Counted(x), Public(x)
  PROVE  Public(SawPeerState(x, p, state, d))
<1> DEFINE y    == [x EXCEPT !.peers[p] = state]
           old  == x.peers[p]
           t    == PropagateTimeline(y, old, p)
           seen == PropagateStartStop(t, old, p)
<1>1. y \in Engines /\ y.peers[p] = state /\ Presents(x, y) /\ Announces(y)
  BY DEF Engines, Presents, SameView, Public, Told, Announces, CurrentPeerState
<1> HIDE DEF y, old
<1>2. t \in Engines /\ KeepsPeers(y, t) /\ Presents(x, t) /\ Announces(t)
  BY <1>1, PropagateType, PropagateKeeps, PropagateShows, ThenShows
<1>3. t.peers[p] \in PeerStates
  BY <1>1, <1>2 DEF KeepsPeers
<1> HIDE DEF t
<1>4. seen \in Engines /\ Presents(x, seen) /\ Announces(seen)
  BY <1>2, <1>3, PropagateType, PropagateShows, ThenShows
<1>5. SawPeerState(x, p, state, d) \in {seen, SessionMembershipChanged(seen, d)}
  BY DEF SawPeerState, y, old, t
<1>6. Counted(SawPeerState(x, p, state, d))
  BY SawPeerCounts
<1> HIDE DEF seen
<1> QED BY <1>4, <1>5, <1>6, RecountPublic, PresentsPublic

\* A bye-bye, and the pruning of silent peers.
LEMMA RemovePublic ==
  ASSUME NEW x \in Engines, NEW p \in Ids, NEW d \in DrawSet, Public(x)
  PROVE  Public(RemovePeer(x, p, d)) /\ Public(PrunePeers(x, d))
<1>1. ASSUME NEW left \in [Ids -> PeerStates \cup {NoPeer}]
      PROVE  LET y == [x EXCEPT !.peers = left] IN Public(SessionMembershipChanged(y, d))
  <2> DEFINE y == [x EXCEPT !.peers = left]
  <2>1. y \in Engines /\ Presents(x, y) /\ Announces(y)
    BY DEF Engines, Presents, SameView, Public, Told, Announces, CurrentPeerState
  <2> HIDE DEF y
  <2> QED BY <2>1, RecountPublic DEF y
<1>2. Public(RemovePeer(x, p, d))
  <2>1. [x.peers EXCEPT ![p] = NoPeer] \in [Ids -> PeerStates \cup {NoPeer}]
    BY DEF Engines
  <2>2. [x EXCEPT !.peers[p] = NoPeer] = [x EXCEPT !.peers = [x.peers EXCEPT ![p] = NoPeer]]
    BY DEF Engines
  <2> QED BY <1>1, <2>1, <2>2 DEF RemovePeer
<1>3. Public(PrunePeers(x, d))
  <2> DEFINE left == [q \in Ids |-> IF q \in Expired(x) THEN NoPeer ELSE x.peers[q]]
  <2>1. left \in [Ids -> PeerStates \cup {NoPeer}]
    BY DEF Engines
  <2>2. PrunePeers(x, d) = IF Expired(x) = {} THEN x
                           ELSE SessionMembershipChanged([x EXCEPT !.peers = left], d)
    BY DEF PrunePeers
  <2> HIDE DEF left
  <2> QED BY <1>1, <2>1, <2>2
<1> QED BY <1>2, <1>3

\* Joining a session: what is shown before the recount is the session joined with the
\* old number, and the recount replaces it unless that number is right.
LEMMA JoinPublic ==
  ASSUME NEW x \in Engines, NEW sid \in Ids, x.others[sid] # NoSession,
         NEW xform \in Int, NEW d \in DrawSet, Public(x)
  PROVE  Public(JoinSession(x, sid, xform, d))
<1> DEFINE others == [x.others EXCEPT ![sid] = NoSession,
                                      ![x.sessionId] = IF @ = NoSession THEN x.tl ELSE @]
           joined == [x EXCEPT !.others = others, !.sessionId = sid, !.ss = NoTransport]
           u      == UpdateSessionTiming(joined, x.others[sid], xform)
           timed  == Broadcast(u)
           m      == SessionMembershipChanged(timed, d)
<1>1. joined \in Engines /\ Presents(x, joined)
  <2>1. others \in [Ids -> Timelines \cup {NoSession}]
    BY DEF Engines
  <2> HIDE DEF others
  <2> QED BY <2>1, NoTransportType DEF Engines, Presents, SameView, Told
<1>2. x.others[sid] \in Timelines
  BY DEF Engines
<1> HIDE DEF joined
<1>3. u \in Engines /\ Presents(x, u)
  BY <1>1, <1>2, TimingType, TimingShows, ThenShows
<1> HIDE DEF u
<1>4. timed \in Engines /\ Presents(x, timed) /\ Announces(timed)
  BY <1>3, BroadcastShows, ThenShows
<1> HIDE DEF timed
<1>5. m \in Engines /\ Public(m)
  BY <1>4, MembershipType, RecountPublic
<1> HIDE DEF m
<1>6. Public(ScheduleRemeasure(m))
  BY <1>5 DEF ScheduleRemeasure, Engines, Public, Told, ToldCount, Coherent, Announces,
     CurrentPeerState
<1> QED BY <1>6 DEF JoinSession, m, timed, u, joined

\* The result of a measurement.
LEMMA MeasuredPublic ==
  ASSUME NEW x \in Engines, NEW sid \in Ids, NEW xform \in Int, NEW d \in DrawSet,
         Counted(x), Public(x)
  PROVE  Public(SessionMeasured(x, sid, xform, d))
<1>1. CASE sid = x.sessionId
  <2> DEFINE u == UpdateSessionTiming(x, x.tl, xform)
             b == Broadcast(u)
             y == ScheduleRemeasure(b)
  <2>1. x.tl \in Timelines
    BY DEF Engines
  <2>2. u \in Engines /\ Shows(x, u)
    BY <2>1, TimingType, TimingShows
  <2> HIDE DEF u
  <2>3. b \in Engines /\ Shows(x, b) /\ Announces(b)
    BY <2>2, BroadcastShows, ShowsTransitive
  <2> HIDE DEF b
  <2>4. y \in Engines /\ Shows(x, y) /\ Announces(y)
    BY <2>3, ForgetType, LaunchAside, AsideShows, ShowsTransitive
  <2>5. SessionMeasured(x, sid, xform, d) = y
    BY <1>1 DEF SessionMeasured, b, u
  <2> HIDE DEF y
  <2> QED BY <2>4, <2>5, MeasuredCounts, PresentsPublic DEF Shows
<1>2. CASE sid # x.sessionId
  BY <1>2, JoinPublic DEF SessionMeasured
<1> QED BY <1>1, <1>2

\* A commit.
LEMMA CommitShows ==
  ASSUME NEW x \in Engines, NEW tempo \in Tempos, NEW anchor \in Anchors, NEW beat \in Int
  PROVE  LET y == CommitClientTimeline(x, tempo, anchor, beat)
         IN  Shows(x, y) /\ Announces(y)
<1> DEFINE stl  == UpdateSessionTimelineFromClient(x.tl, tempo, anchor, beat)
           done == UpdateSessionTiming(x, stl, x.xform)
           told == [p \in Ids |-> IF p \in Members(done)
                                  THEN [done.peers[p] EXCEPT !.tl = done.tl]
                                  ELSE done.peers[p]]
           z    == [done EXCEPT !.peers = told]
<1>1. stl \in Timelines /\ x.xform \in Int
  BY DEF Engines, Timelines, UpdateSessionTimelineFromClient
<1> HIDE DEF stl
<1>2. done \in Engines /\ Shows(x, done)
  BY <1>1, TimingType, TimingShows
<1> HIDE DEF done
<1>3. told \in [Ids -> PeerStates \cup {NoPeer}]
  BY <1>2 DEF Members, InSession, Known, Engines, PeerStates
<1>4. \A p \in Ids : (IF told[p] = NoPeer THEN NoSession ELSE told[p].session)
                       = IF done.peers[p] = NoPeer THEN NoSession ELSE done.peers[p].session
  <2> SUFFICES ASSUME NEW p \in Ids
               PROVE  (IF told[p] = NoPeer THEN NoSession ELSE told[p].session)
                        = IF done.peers[p] = NoPeer THEN NoSession ELSE done.peers[p].session
    OBVIOUS
  <2>1. CASE p \in Members(done)
    <3>1. done.peers[p] \in PeerStates
      BY <1>2, <2>1 DEF Members, InSession, Known, Engines
    <3>2. [done.peers[p] EXCEPT !.tl = done.tl] \in PeerStates
          /\ [done.peers[p] EXCEPT !.tl = done.tl].session = done.peers[p].session
      BY <1>2, <3>1 DEF Engines, PeerStates
    <3> QED BY <2>1, <3>1, <3>2, NoneAssumption
  <2>2. CASE p \notin Members(done)
    BY <2>2
  <2> QED BY <2>1, <2>2
<1> HIDE DEF told
<1>5. z \in Engines /\ z.peers = told /\ Aside([done EXCEPT !.peers = told], z)
  BY <1>2, <1>3 DEF Engines, Aside
<1>6. Lists(z) = Lists(done)
  BY <1>4, <1>5 DEF Lists
<1>7. Shows(done, z)
  BY <1>2, <1>3, <1>6 DEF Engines, Shows, Presents, SameView, Told
<1>8. CommitClientTimeline(x, tempo, anchor, beat) = Broadcast(z)
  BY DEF CommitClientTimeline, told, done, stl
<1> HIDE DEF z
<1> QED BY <1>2, <1>5, <1>7, <1>8, BroadcastShows, ShowsTransitive

\* A start or stop of the application.
LEMMA PlayingShows ==
  ASSUME NEW x \in Engines, NEW playing \in BOOLEAN, NEW at \in Int
  PROVE  LET y == ApplyPlayingChange(x, playing, at)
         IN  Shows(x, y) /\ (Announces(x) => Announces(y))
<1> DEFINE ghost == HostToGhost(x.xform, at)
           local == IF at >= x.css.at
                    THEN [x EXCEPT !.css = [playing |-> playing, at |-> at]] ELSE x
           said  == [local EXCEPT !.ss = [playing |-> playing, at |-> ghost]]
           told  == IF local.sync /\ ghost > local.ss.at THEN Broadcast(said) ELSE local
           heard == ReportPlayingIfChanged(told)
           z     == PublishSnapshot(heard)
           Same(y) == /\ y.sessionId = x.sessionId /\ y.nbr = x.nbr /\ y.toldPeers = x.toldPeers
                      /\ y.peers = x.peers /\ y.tl = x.tl /\ y.toldTempo = x.toldTempo
<1>1. local \in Engines /\ Same(local) /\ (Announces(x) => Announces(local))
  BY DEF Engines, Transports, Announces, CurrentPeerState
<1>2. [playing |-> playing, at |-> ghost] \in Transports
  BY DEF Engines, Transports, HostToGhost
<1> HIDE DEF local, ghost
<1>3. said \in Engines /\ Same(said)
  BY <1>1, <1>2 DEF Engines
<1> HIDE DEF said
<1>4. told \in Engines /\ Same(told) /\ (Announces(x) => Announces(told))
  BY <1>1, <1>3, BroadcastType, BroadcastAnnounces DEF OnlyAnnounces, Keeps
<1> HIDE DEF told
<1>5. heard \in Engines /\ Same(heard) /\ (Announces(x) => Announces(heard))
      /\ heard.lastCb = heard.css.playing
  <2>1. told.css.playing \in BOOLEAN
    BY <1>4 DEF Engines, Transports
  <2> QED BY <1>4, <2>1 DEF ReportPlayingIfChanged, Engines, Announces, CurrentPeerState
<1> HIDE DEF heard
<1>6. /\ OnlyReports(heard, z) /\ Viewed(z)
      /\ z.snap.tempo = z.tl.tempo /\ z.snap.playing = z.css.playing
      /\ z.css = heard.css /\ z.lastCb = heard.lastCb
  BY <1>5, PublishReports
<1>7. ApplyPlayingChange(x, playing, at) = z
  BY DEF ApplyPlayingChange, local, ghost, said, told, heard
<1> HIDE DEF z
<1> QED BY <1>5, <1>6, <1>7
        DEF Shows, Presents, Told, OnlyReports, Keeps, Lists, Announces, CurrentPeerState

\* Enabling a node that knows nobody, and disabling one.
LEMMA EnablePublic ==
  ASSUME NEW x \in Engines, NEW d \in DrawSet, Public(x), x.nbr = 0, Known(x) = {}
  PROVE  Public(Enable(x, d))
<1> DEFINE on == [x EXCEPT !.enabled = TRUE]
           y  == ResetState(on, d)
<1>1. on \in Engines /\ on.nbr = 0 /\ Known(on) = {} /\ (Told(x) => Told(on)) /\ on.snap = x.snap
      /\ on.toldPeers = x.toldPeers
  BY DEF Engines, Known, Told
<1> HIDE DEF on
<1>2. /\ y \in Engines /\ y.nbr = 0 /\ y.toldPeers = x.toldPeers /\ (Told(on) => Told(y))
      /\ y.snap = on.snap \/ Viewed(y)
  BY <1>1, ResetType, ResetFounds
<1>3. Presents(x, y)
  BY <1>1, <1>2 DEF Presents, SameView
<1> HIDE DEF y
<1>4. Enable(x, d) = Broadcast(y)
  BY DEF Enable, y, on
<1>5. Broadcast(y) \in Engines /\ Presents(x, Broadcast(y)) /\ Announces(Broadcast(y))
  BY <1>2, <1>3, BroadcastShows, ThenShows
<1> QED BY <1>4, <1>5, EnableCounts, PresentsPublic

\* The number told last may stay above zero then.
LEMMA DisablePublic ==
  ASSUME NEW x \in Engines, Public(x)
  PROVE  Public(Disable(x))
<1> DEFINE off == [x EXCEPT !.enabled = FALSE,
                            !.peers = [p \in Ids |-> NoPeer],
                            !.others = [s \in Ids |-> NoSession],
                            !.nbr = 0,
                            !.forgotten = {}]
           y   == PublishSnapshot(off)
<1>1. off \in Engines /\ ~off.enabled /\ (Told(x) => Told(off)) /\ off.nbr = 0
  BY DEF Engines, Told
<1>2. Disable(x) = y
  BY DEF Disable
<1> HIDE DEF off
<1>3. /\ OnlyReports(off, y) /\ Viewed(y)
      /\ y.snap.tempo = y.tl.tempo /\ y.snap.playing = y.css.playing
      /\ y.css = off.css /\ y.lastCb = off.lastCb
  BY <1>1, PublishReports
<1> HIDE DEF y
<1>4. y \in Engines /\ Coherent(y)
  BY <1>2, <1>3, DisableCounts, ViewedCoherent
<1> QED BY <1>1, <1>2, <1>3, <1>4
        DEF Public, Told, ToldCount, Announces, OnlyReports, Keeps, Viewed

-----------------------------------------------------------------------------
(* What the node knows of a session is never behind what it knows of the    *)
(* peers in it.                                                             *)

\* The timeline kept for session s wins over tl or is as good, unless s was forgotten.
Covers(x, s, tl) ==
  s \notin x.forgotten =>
    IF s = x.sessionId THEN tl.origin <= x.tl.origin
    ELSE s \in Tracked(x) /\ tl.origin <= x.others[s].origin

CoversPeer(x, p) == Covers(x, x.peers[p].session, x.peers[p].tl)

NeverAhead(x) == \A p \in Known(x) : CoversPeer(x, p)

\* The timelines kept only advance, and a session that is dropped is noted.
Advances(x, y) ==
  /\ y.sessionId = x.sessionId /\ y.peers = x.peers /\ x.forgotten \subseteq y.forgotten
  /\ y.tl.origin >= x.tl.origin
  /\ \A s \in Tracked(x) :
       s \in y.forgotten \/ (s \in Tracked(y) /\ y.others[s].origin >= x.others[s].origin)

\* The origins compared are integers.
LEMMA OriginsType ==
  ASSUME NEW x \in Engines
  PROVE  /\ x.tl.origin \in Int
         /\ \A s \in Tracked(x) : x.others[s].origin \in Int
         /\ \A p \in Known(x) : x.peers[p] \in PeerStates /\ x.peers[p].session \in Ids
                                /\ x.peers[p].tl.origin \in Int
BY DEF Engines, Timelines, Tracked, Known, PeerStates

\* Such steps compose.
LEMMA AdvancesTransitive ==
  ASSUME NEW x \in Engines, NEW y \in Engines, NEW z \in Engines, Advances(x, y), Advances(y, z)
  PROVE  Advances(x, z)
<1>1. ASSUME NEW s \in Tracked(x), s \notin z.forgotten
      PROVE  s \in Tracked(z) /\ z.others[s].origin >= x.others[s].origin
  <2>1. s \in Tracked(y) /\ y.others[s].origin >= x.others[s].origin
    BY <1>1 DEF Advances
  <2>2. s \in Tracked(z) /\ z.others[s].origin >= y.others[s].origin
    BY <1>1, <2>1 DEF Advances
  <2> QED BY <2>1, <2>2, OriginsType
<1>2. z.tl.origin >= x.tl.origin
  BY OriginsType DEF Advances
<1> QED BY <1>1, <1>2 DEF Advances

\* They keep covering whatever timeline was covered.
LEMMA AdvancesCovers ==
  ASSUME NEW x \in Engines, NEW y \in Engines, Advances(x, y), NEW s, NEW tl, tl.origin \in Int,
         Covers(x, s, tl)
  PROVE  Covers(y, s, tl)
<1>1. CASE s = x.sessionId
  BY <1>1, OriginsType DEF Covers, Advances
<1>2. CASE s # x.sessionId /\ s \notin y.forgotten
  BY <1>2, OriginsType DEF Covers, Advances
<1>3. CASE s \in y.forgotten
  BY <1>3 DEF Covers
<1> QED BY <1>1, <1>2, <1>3

\* So they keep every peer covered that was.
LEMMA AdvancesPeers ==
  ASSUME NEW x \in Engines, NEW y \in Engines, Advances(x, y)
  PROVE  /\ Known(y) = Known(x)
         /\ \A p \in Known(x) : CoversPeer(x, p) => CoversPeer(y, p)
BY AdvancesCovers, OriginsType DEF Advances, Known, CoversPeer

\* Announcing, publishing, recounting and doing nothing advance.
LEMMA QuietlyAdvances ==
  ASSUME NEW x \in Engines, NEW y,
         OnlyAnnounces(x, y) \/ OnlyReports(x, y) \/ Recounts(x, y) \/ y = x
  PROVE  Advances(x, y)
BY OriginsType DEF Advances, OnlyAnnounces, OnlyReports, Recounts, Keeps, Tracked

\* So does any step that changes neither peers nor timelines.
LEMMA SameAdvances ==
  ASSUME NEW x \in Engines, NEW y, y.sessionId = x.sessionId, y.peers = x.peers, y.tl = x.tl,
         y.others = x.others, y.forgotten = x.forgotten
  PROVE  Advances(x, y)
BY OriginsType DEF Advances, Tracked

\* So does setting a timeline whose origin is not smaller.
LEMMA TimingAdvances ==
  ASSUME NEW x \in Engines, NEW tl \in Timelines, NEW xform \in Int, tl.origin >= x.tl.origin
  PROVE  LET y == UpdateSessionTiming(x, tl, xform)
         IN  y \in Engines /\ Advances(x, y) /\ y.tl.origin = tl.origin
<1> DEFINE y == UpdateSessionTiming(x, tl, xform)
<1>1. ClampTempo(tl).origin = tl.origin
  BY DEF ClampTempo, Timelines
<1>2. y \in Engines /\ OnlyTimes(x, y) /\ y.tl = ClampTempo(tl)
  BY TimingType, TimingSets
<1> HIDE DEF y
<1>3. Advances(x, y)
  BY <1>1, <1>2, OriginsType DEF Advances, OnlyTimes, Keeps, Tracked
<1> QED BY <1>1, <1>2, <1>3 DEF y

\* Launching a measurement, or its failure: a dropped session is noted.
LEMMA LaunchAdvances ==
  ASSUME NEW x \in Engines, NEW sid \in Ids
  PROVE  /\ Advances(x, SessionMeasurementFailed(x, sid))
         /\ Advances(x, LaunchSessionMeasurement(x, sid))
         /\ Advances(x, ScheduleRemeasure(x))
<1>1. Advances(x, x)
  BY QuietlyAdvances
<1>2. Advances(x, Forget(x, sid)) /\ Advances(x, ScheduleRemeasure(x))
  BY OriginsType DEF Advances, Forget, ScheduleRemeasure, Tracked, Engines
<1>3. Advances(x, SessionMeasurementFailed(x, sid))
  BY <1>2 DEF SessionMeasurementFailed
<1>4. Advances(x, [x EXCEPT !.measuring[sid] = Chosen(x, sid)])
  BY OriginsType DEF Advances, Tracked, Engines
<1> QED BY <1>1, <1>2, <1>3, <1>4 DEF LaunchSessionMeasurement

\* sawSessionTimeline: the timeline that was seen is covered.
LEMMA SawTimelineAdvances ==
  ASSUME NEW x \in Engines, NEW sid \in Ids, NEW tl \in Timelines
  PROVE  LET y == SawSessionTimeline(x, sid, tl)
         IN  Advances(x, y) /\ Covers(y, sid, tl)
<1>o. tl.origin \in Int
  BY DEF Timelines
<1>1. CASE sid = x.sessionId
  <2> DEFINE y == IF tl.origin > x.tl.origin THEN UpdateSessionTiming(x, tl, x.xform) ELSE x
  <2>1. y \in Engines /\ Advances(x, y) /\ tl.origin <= y.tl.origin
    <3>1. x.xform \in Int
      BY DEF Engines
    <3>2. CASE tl.origin > x.tl.origin
      BY <1>o, <3>1, <3>2, TimingAdvances, OriginsType
    <3>3. CASE ~(tl.origin > x.tl.origin)
      BY <1>o, <3>3, QuietlyAdvances, OriginsType
    <3> QED BY <3>2, <3>3
  <2> HIDE DEF y
  <2>2. Covers(y, sid, tl)
    BY <1>1, <2>1 DEF Covers, Advances
  <2>3. Broadcast(y) \in Engines /\ Advances(y, Broadcast(y))
    BY <2>1, BroadcastType, BroadcastAnnounces, QuietlyAdvances
  <2>4. Advances(x, Broadcast(y)) /\ Covers(Broadcast(y), sid, tl)
    BY <1>o, <2>1, <2>2, <2>3, AdvancesTransitive, AdvancesCovers
  <2> QED BY <1>1, <2>4 DEF SawSessionTimeline, y
<1>2. CASE sid # x.sessionId /\ x.others[sid] # NoSession
  <2> DEFINE best == IF tl.origin > x.others[sid].origin THEN tl ELSE x.others[sid]
             y    == [x EXCEPT !.others[sid] = best]
  <2>1. x.others[sid].origin \in Int /\ best \in Timelines /\ best # NoSession
        /\ best.origin >= tl.origin /\ best.origin >= x.others[sid].origin
    BY <1>o, <1>2, NoneAssumption DEF Engines, Timelines
  <2>2. SawSessionTimeline(x, sid, tl) = y
    BY <1>2 DEF SawSessionTimeline, Engines
  <2> HIDE DEF best
  <2>3. Advances(x, y)
    BY <2>1, OriginsType DEF Advances, Tracked, Engines
  <2>4. Covers(y, sid, tl)
    BY <1>o, <1>2, <2>1 DEF Covers, Tracked, Engines, Timelines
  <2> QED BY <2>2, <2>3, <2>4
<1>3. CASE sid # x.sessionId /\ x.others[sid] = NoSession
  <2> DEFINE y == [x EXCEPT !.others[sid] = tl]
  <2>1. y \in Engines /\ Advances(x, y)
    BY <1>3, OriginsType DEF Advances, Tracked, Engines
  <2>2. Covers(y, sid, tl)
    BY <1>o, <1>3, NoneAssumption DEF Covers, Tracked, Engines
  <2> HIDE DEF y
  <2>3. LaunchSessionMeasurement(y, sid) \in Engines /\ Advances(y, LaunchSessionMeasurement(y, sid))
    BY <2>1, LaunchType, LaunchAdvances
  <2>4. Advances(x, LaunchSessionMeasurement(y, sid))
        /\ Covers(LaunchSessionMeasurement(y, sid), sid, tl)
    BY <1>o, <2>1, <2>2, <2>3, AdvancesTransitive, AdvancesCovers
  <2> QED BY <1>3, <2>4 DEF SawSessionTimeline, y
<1> QED BY <1>1, <1>2, <1>3

\* A transport state touches no timeline.
LEMMA HandleStartStopAdvances ==
  ASSUME NEW x \in Engines, NEW sid \in Ids, NEW ss \in Transports
  PROVE  Advances(x, HandleStartStopFromSession(x, sid, ss))
<1>i. Advances(x, x)
  BY QuietlyAdvances
<1> DEFINE y == [x EXCEPT !.ss = ss]
           r == Broadcast(y)
           f == FollowSessionTransport(r)
<1>1. y \in Engines /\ Advances(x, y)
  BY OriginsType DEF Engines, Advances, Tracked
<1> HIDE DEF y
<1>2. r \in Engines /\ Advances(x, r)
  BY <1>1, BroadcastType, BroadcastAnnounces, QuietlyAdvances, AdvancesTransitive
<1> HIDE DEF r
<1>3. f \in Engines /\ Advances(x, f)
  BY <1>2, FollowType, FollowReports, QuietlyAdvances, AdvancesTransitive
<1> HIDE DEF f
<1>4. Advances(x, PublishSnapshot(f))
  BY <1>3, PublishType, PublishReports, QuietlyAdvances, AdvancesTransitive
<1> QED BY <1>i, <1>2, <1>4 DEF HandleStartStopFromSession, y, r, f

\* A recount covers the peers that were covered, or leaves none.
LEMMA MembershipNeverAhead ==
  ASSUME NEW x \in Engines, NEW d \in DrawSet, NeverAhead(x)
  PROVE  NeverAhead(SessionMembershipChanged(x, d))
<1> DEFINE y == SessionMembershipChanged(x, d)
<1>1. y \in Engines /\ (y = x \/ Recounts(x, y) \/ Founds(y, d))
  BY MembershipType, MembershipCases
<1> HIDE DEF y
<1>2. CASE y = x \/ Recounts(x, y)
  BY <1>1, <1>2, QuietlyAdvances, AdvancesPeers DEF NeverAhead, y
<1>3. CASE Founds(y, d)
  BY <1>3 DEF Founds, NeverAhead, y
<1> QED BY <1>1, <1>2, <1>3

\* The handler of a packet that describes a peer: its timeline is propagated before
\* anything else is done with it, unless it is the one propagated last time.
LEMMA SawPeerNeverAhead ==
  ASSUME NEW x \in Engines, NEW p \in Ids, NEW state \in PeerStates, NEW d \in DrawSet,
         NeverAhead(x)
  PROVE  NeverAhead(SawPeerState(x, p, state, d))
<1> DEFINE y    == [x EXCEPT !.peers[p] = state]
           old  == x.peers[p]
           t    == PropagateTimeline(y, old, p)
           seen == PropagateStartStop(t, old, p)
<1>1. /\ y \in Engines /\ y.peers[p] = state /\ Known(y) = Known(x) \cup {p}
      /\ \A q \in Known(x) \ {p} : CoversPeer(y, q)
  <2>1. /\ y \in Engines /\ y.peers = [x.peers EXCEPT ![p] = state]
        /\ y.sessionId = x.sessionId /\ y.tl = x.tl /\ y.others = x.others
        /\ y.forgotten = x.forgotten /\ x.peers \in [Ids -> PeerStates \cup {NoPeer}]
    BY DEF Engines
  <2> HIDE DEF y
  <2>2. Known(y) = Known(x) \cup {p} /\ y.peers[p] = state
    BY <2>1, NoneAssumption DEF Known
  <2>3. ASSUME NEW q \in Known(x) \ {p} PROVE CoversPeer(y, q)
    <3>1. CoversPeer(x, q) /\ y.peers[q] = x.peers[q]
      BY <2>1, <2>3 DEF NeverAhead, Known
    <3> QED BY <2>1, <3>1 DEF CoversPeer, Covers, Tracked
  <2> QED BY <2>1, <2>2, <2>3
<1>s. state.session \in Ids /\ state.tl \in Timelines /\ state.ss \in Transports
      /\ state.tl.origin \in Int /\ state # NoPeer
  BY NoneAssumption DEF PeerStates, Timelines
<1>2. t \in Engines /\ Advances(y, t) /\ Covers(t, state.session, state.tl)
  <2>1. CASE old = NoPeer \/ old.session # state.session \/ old.tl # state.tl
    <3>1. t = SawSessionTimeline(y, state.session, state.tl)
      BY <1>1, <2>1 DEF PropagateTimeline
    <3> HIDE DEF y, t
    <3> QED BY <1>1, <1>s, <3>1, SawTimelineType, SawTimelineAdvances
  <2>2. CASE ~(old = NoPeer \/ old.session # state.session \/ old.tl # state.tl)
    <3>1. t = y
      BY <1>1, <2>2 DEF PropagateTimeline
    <3>2. CoversPeer(x, p)
      BY <2>2 DEF NeverAhead, Known
    <3>3. Covers(y, state.session, state.tl)
      BY <2>2, <3>2 DEF CoversPeer, Covers, Tracked, Engines
    <3> HIDE DEF y, t
    <3> QED BY <1>1, <3>1, <3>3, QuietlyAdvances
  <2> QED BY <2>1, <2>2
<1> HIDE DEF y, t
<1>3. seen \in Engines /\ Advances(y, seen) /\ Covers(seen, state.session, state.tl)
  <2>1. t.peers[p] = state
    BY <1>1, <1>2 DEF Advances
  <2>2. HandleStartStopFromSession(t, state.session, state.ss) \in Engines
        /\ Advances(t, HandleStartStopFromSession(t, state.session, state.ss))
    BY <1>s, <1>2, HandleStartStopType, HandleStartStopAdvances
  <2>3. seen \in Engines /\ Advances(t, seen)
    BY <1>2, <2>1, <2>2, QuietlyAdvances DEF PropagateStartStop
  <2> HIDE DEF seen
  <2> QED BY <1>s, <1>1, <1>2, <2>3, AdvancesTransitive, AdvancesCovers
<1>4. SawPeerState(x, p, state, d) \in {seen, SessionMembershipChanged(seen, d)}
  BY DEF SawPeerState, y, old, t
<1> HIDE DEF seen
<1>5. NeverAhead(seen)
  <2>1. Known(seen) = Known(x) \cup {p} /\ seen.peers[p] = state
        /\ \A q \in Known(x) \ {p} : CoversPeer(seen, q)
    BY <1>1, <1>3, AdvancesPeers DEF Advances
  <2> QED BY <1>3, <2>1 DEF NeverAhead, CoversPeer
<1> QED BY <1>3, <1>4, <1>5, MembershipNeverAhead

\* Dropping peers ahead of a recount.
LEMMA RemoveNeverAhead ==
  ASSUME NEW x \in Engines, NEW p \in Ids, NEW d \in DrawSet, NeverAhead(x)
  PROVE  NeverAhead(RemovePeer(x, p, d)) /\ NeverAhead(PrunePeers(x, d))
<1>1. ASSUME NEW left \in [Ids -> PeerStates \cup {NoPeer}],
             \A q \in Ids : left[q] \in {x.peers[q], NoPeer}
      PROVE  LET y == [x EXCEPT !.peers = left] IN NeverAhead(SessionMembershipChanged(y, d))
  <2> DEFINE y == [x EXCEPT !.peers = left]
  <2>1. /\ y \in Engines /\ y.peers = left /\ y.sessionId = x.sessionId /\ y.tl = x.tl
        /\ y.others = x.others /\ y.forgotten = x.forgotten
    BY DEF Engines
  <2> HIDE DEF y
  <2>2. NeverAhead(y)
    <3> SUFFICES ASSUME NEW q \in Known(y) PROVE CoversPeer(y, q)
      BY DEF NeverAhead
    <3>1. q \in Known(x) /\ y.peers[q] = x.peers[q]
      BY <1>1, <2>1 DEF Known
    <3>2. CoversPeer(x, q)
      BY <3>1 DEF NeverAhead
    <3> QED BY <2>1, <3>1, <3>2 DEF CoversPeer, Covers, Tracked
  <2> QED BY <2>1, <2>2, MembershipNeverAhead DEF y
<1>2. NeverAhead(RemovePeer(x, p, d))
  <2> DEFINE left == [x.peers EXCEPT ![p] = NoPeer]
  <2>1. left \in [Ids -> PeerStates \cup {NoPeer}]
        /\ \A q \in Ids : left[q] \in {x.peers[q], NoPeer}
    BY DEF Engines
  <2>2. RemovePeer(x, p, d) = IF x.peers[p] = NoPeer THEN x
                              ELSE SessionMembershipChanged([x EXCEPT !.peers = left], d)
    BY DEF RemovePeer, Engines
  <2> HIDE DEF left
  <2> QED BY <1>1, <2>1, <2>2
<1>3. NeverAhead(PrunePeers(x, d))
  <2> DEFINE left == [q \in Ids |-> IF q \in Expired(x) THEN NoPeer ELSE x.peers[q]]
  <2>1. left \in [Ids -> PeerStates \cup {NoPeer}]
        /\ \A q \in Ids : left[q] \in {x.peers[q], NoPeer}
    BY DEF Engines
  <2>2. PrunePeers(x, d) = IF Expired(x) = {} THEN x
                           ELSE SessionMembershipChanged([x EXCEPT !.peers = left], d)
    BY DEF PrunePeers
  <2> HIDE DEF left
  <2> QED BY <1>1, <2>1, <2>2
<1> QED BY <1>2, <1>3

\* joinSession: the two sessions change places, each with its timeline.
LEMMA JoinNeverAhead ==
  ASSUME NEW x \in Engines, NEW sid \in Ids, sid # x.sessionId, x.others[sid] # NoSession,
         x.sessionId \notin Tracked(x), NEW xform \in Int, NEW d \in DrawSet, NeverAhead(x)
  PROVE  NeverAhead(JoinSession(x, sid, xform, d))
<1> DEFINE others == [x.others EXCEPT ![sid] = NoSession,
                                      ![x.sessionId] = IF @ = NoSession THEN x.tl ELSE @]
           joined == [x EXCEPT !.others = others, !.sessionId = sid, !.ss = NoTransport]
           u      == UpdateSessionTiming(joined, x.others[sid], xform)
           timed  == Broadcast(u)
           m      == SessionMembershipChanged(timed, d)
           y      == ScheduleRemeasure(m)
<1>1. /\ x.sessionId \in Ids /\ x.tl \in Timelines /\ x.tl # NoSession
      /\ x.others \in [Ids -> Timelines \cup {NoSession}] /\ x.others[sid] \in Timelines
      /\ x.others[x.sessionId] = NoSession
  BY NoneAssumption DEF Engines, Tracked
<1>2. /\ others \in [Ids -> Timelines \cup {NoSession}] /\ others[sid] = NoSession
      /\ others[x.sessionId] = x.tl
      /\ \A s \in Ids \ {sid, x.sessionId} : others[s] = x.others[s]
  BY <1>1
<1> HIDE DEF others
<1>3. /\ joined \in Engines /\ joined.sessionId = sid /\ joined.others = others
      /\ joined.peers = x.peers /\ joined.forgotten = x.forgotten
  BY <1>2, NoTransportType DEF Engines
<1> HIDE DEF joined
<1>4. /\ u \in Engines /\ OnlyTimes(joined, u) /\ u.tl = ClampTempo(x.others[sid])
  BY <1>1, <1>3, TimingType, TimingSets
<1>5. u.tl.origin = x.others[sid].origin
  BY <1>1, <1>4 DEF ClampTempo, Timelines
<1>6. /\ u.sessionId = sid /\ u.others = others /\ u.peers = x.peers /\ u.forgotten = x.forgotten
  BY <1>3, <1>4 DEF OnlyTimes, Keeps
<1> HIDE DEF u
<1>7. NeverAhead(u)
  <2> SUFFICES ASSUME NEW p \in Known(u), u.peers[p].session \notin u.forgotten
               PROVE  CoversPeer(u, p)
    BY DEF NeverAhead, CoversPeer, Covers
  <2> DEFINE s == x.peers[p].session
  <2>1. p \in Known(x) /\ CoversPeer(x, p) /\ s \in Ids /\ u.peers[p] = x.peers[p]
        /\ s \notin x.forgotten
    BY <1>6, OriginsType DEF Known, NeverAhead
  <2>2. CASE s = sid
    BY <1>5, <1>6, <2>1, <2>2 DEF CoversPeer, Covers
  <2>3. CASE s = x.sessionId
    BY <1>1, <1>2, <1>6, <2>1, <2>3 DEF CoversPeer, Covers, Tracked
  <2>4. CASE s # sid /\ s # x.sessionId
    BY <1>2, <1>6, <2>1, <2>4 DEF CoversPeer, Covers, Tracked
  <2> QED BY <2>2, <2>3, <2>4
<1>8. timed \in Engines /\ NeverAhead(timed)
  BY <1>4, <1>7, BroadcastType, BroadcastAnnounces, QuietlyAdvances, AdvancesPeers DEF NeverAhead
<1> HIDE DEF timed
<1>9. m \in Engines /\ NeverAhead(m)
  BY <1>8, MembershipType, MembershipNeverAhead
<1> HIDE DEF m
<1>10. NeverAhead(y)
  BY <1>1, <1>9, ForgetType, LaunchAdvances, AdvancesPeers DEF NeverAhead
<1> QED BY <1>10 DEF JoinSession, m, timed, u, joined, others

\* The result of a measurement.
LEMMA MeasuredNeverAhead ==
  ASSUME NEW x \in Engines, NEW sid \in Ids, NEW xform \in Int, NEW d \in DrawSet,
         x.sessionId \notin Tracked(x), NeverAhead(x)
  PROVE  NeverAhead(SessionMeasured(x, sid, xform, d))
<1>1. CASE sid = x.sessionId
  <2> DEFINE u == UpdateSessionTiming(x, x.tl, xform)
             b == Broadcast(u)
             y == ScheduleRemeasure(b)
  <2>1. x.tl \in Timelines
    BY DEF Engines
  <2>2. u \in Engines /\ Advances(x, u)
    BY <2>1, OriginsType, TimingAdvances
  <2> HIDE DEF u
  <2>3. b \in Engines /\ Advances(x, b)
    BY <2>2, BroadcastType, BroadcastAnnounces, QuietlyAdvances, AdvancesTransitive
  <2> HIDE DEF b
  <2>4. y \in Engines /\ Advances(x, y)
    BY <2>3, ForgetType, LaunchAdvances, AdvancesTransitive
  <2> HIDE DEF y
  <2>5. NeverAhead(y)
    BY <2>4, AdvancesPeers DEF NeverAhead
  <2> QED BY <1>1, <2>5 DEF SessionMeasured, y, b, u
<1>2. CASE sid # x.sessionId
  BY <1>2, JoinNeverAhead DEF SessionMeasured
<1> QED BY <1>1, <1>2

\* A commit gives every member the timeline committed.
LEMMA CommitNeverAhead ==
  ASSUME NEW x \in Engines, NEW tempo \in Tempos, NEW anchor \in Anchors, NEW beat \in Int,
         NeverAhead(x)
  PROVE  NeverAhead(CommitClientTimeline(x, tempo, anchor, beat))
<1> DEFINE stl  == UpdateSessionTimelineFromClient(x.tl, tempo, anchor, beat)
           done == UpdateSessionTiming(x, stl, x.xform)
           told == [p \in Ids |-> IF p \in Members(done)
                                  THEN [done.peers[p] EXCEPT !.tl = done.tl]
                                  ELSE done.peers[p]]
           z    == [done EXCEPT !.peers = told]
<1>1. stl \in Timelines /\ stl.origin >= x.tl.origin /\ x.xform \in Int
  BY DEF Engines, Timelines, UpdateSessionTimelineFromClient
<1> HIDE DEF stl
<1>2. done \in Engines /\ Advances(x, done)
  BY <1>1, TimingAdvances
<1> HIDE DEF done
<1>3. NeverAhead(done)
  BY <1>2, AdvancesPeers DEF NeverAhead
<1>4. told \in [Ids -> PeerStates \cup {NoPeer}]
  BY <1>2 DEF Members, InSession, Known, Engines, PeerStates
<1>5. ASSUME NEW p \in Ids, told[p] # NoPeer
      PROVE  /\ p \in Known(done) /\ told[p].session = done.peers[p].session
             /\ IF p \in Members(done) THEN told[p].tl = done.tl ELSE told[p] = done.peers[p]
  <2>1. CASE p \in Members(done)
    BY <1>2, <2>1, OriginsType DEF Members, InSession, PeerStates
  <2>2. CASE p \notin Members(done)
    BY <1>5, <2>2 DEF Known
  <2> QED BY <2>1, <2>2
<1> HIDE DEF told
<1>6. /\ z \in Engines /\ z.peers = told /\ z.sessionId = done.sessionId /\ z.tl = done.tl
      /\ z.others = done.others /\ z.forgotten = done.forgotten
  BY <1>2, <1>4 DEF Engines
<1>7. CommitClientTimeline(x, tempo, anchor, beat) = Broadcast(z)
  BY DEF CommitClientTimeline, told, done, stl
<1> HIDE DEF z
<1>8. NeverAhead(z)
  <2> SUFFICES ASSUME NEW p \in Known(z) PROVE CoversPeer(z, p)
    BY DEF NeverAhead
  <2>1. /\ p \in Known(done) /\ z.peers[p].session = done.peers[p].session
        /\ IF p \in Members(done) THEN z.peers[p].tl = done.tl ELSE z.peers[p] = done.peers[p]
    BY <1>5, <1>6 DEF Known
  <2>2. CoversPeer(done, p)
    BY <1>3, <2>1 DEF NeverAhead
  <2>3. CASE p \in Members(done)
    BY <1>2, <1>6, <2>1, <2>3, OriginsType DEF CoversPeer, Covers, Members, InSession
  <2>4. CASE p \notin Members(done)
    BY <1>6, <2>1, <2>2, <2>4 DEF CoversPeer, Covers, Tracked
  <2> QED BY <2>3, <2>4
<1>9. Broadcast(z) \in Engines /\ Advances(z, Broadcast(z))
  BY <1>6, BroadcastType, BroadcastAnnounces, QuietlyAdvances
<1> QED BY <1>6, <1>7, <1>8, <1>9, AdvancesPeers DEF NeverAhead

\* A start or stop of the application touches no timeline.
LEMMA PlayingAdvances ==
  ASSUME NEW x \in Engines, NEW playing \in BOOLEAN, NEW at \in Int
  PROVE  Advances(x, ApplyPlayingChange(x, playing, at))
<1> DEFINE ghost == HostToGhost(x.xform, at)
           local == IF at >= x.css.at
                    THEN [x EXCEPT !.css = [playing |-> playing, at |-> at]] ELSE x
           said  == [local EXCEPT !.ss = [playing |-> playing, at |-> ghost]]
           told  == IF local.sync /\ ghost > local.ss.at THEN Broadcast(said) ELSE local
           heard == ReportPlayingIfChanged(told)
           Same(y) == /\ y.sessionId = x.sessionId /\ y.peers = x.peers /\ y.tl = x.tl
                      /\ y.others = x.others /\ y.forgotten = x.forgotten
<1>1. local \in Engines /\ Same(local)
  BY DEF Engines, Transports
<1>2. [playing |-> playing, at |-> ghost] \in Transports
  BY DEF Engines, Transports, HostToGhost
<1> HIDE DEF local, ghost
<1>3. said \in Engines /\ Same(said)
  BY <1>1, <1>2 DEF Engines
<1> HIDE DEF said
<1>4. told \in Engines /\ Same(told)
  BY <1>1, <1>3, BroadcastType, BroadcastAnnounces DEF OnlyAnnounces, Keeps
<1> HIDE DEF told
<1>5. heard \in Engines /\ Same(heard)
  <2>1. told.css.playing \in BOOLEAN
    BY <1>4 DEF Engines, Transports
  <2> QED BY <1>4, <2>1 DEF ReportPlayingIfChanged, Engines
<1> HIDE DEF heard
<1>6. OnlyReports(heard, PublishSnapshot(heard))
  BY <1>5, PublishReports
<1>7. ApplyPlayingChange(x, playing, at) = PublishSnapshot(heard)
  BY DEF ApplyPlayingChange, local, ghost, said, told, heard
<1> QED BY <1>5, <1>6, <1>7, OriginsType DEF Advances, OnlyReports, Keeps, Tracked

-----------------------------------------------------------------------------
(* Which timelines an engine knows, and of which sessions.  C is any set of *)
(* pairs of a session and a timeline.                                       *)

\* The pairs an engine has heard of or announces are among C ...
Brings(x, C) ==
  /\ \A p \in Known(x) : <<x.peers[p].session, x.peers[p].tl>> \in C
  /\ \A s \in Tracked(x) : <<s, x.others[s]>> \in C
  /\ x.sent # NoMessage => <<x.sent.session, x.sent.tl>> \in C

\* ... and so is the session it is in.
Carries(x, C) == Brings(x, C) /\ <<x.sessionId, x.tl>> \in C

\* The tempi of the timelines are in range.
InRange(C) == \A c \in C : ClampTempo(c[2]) = c[2]

\* A larger set does as well.
LEMMA CarriesMore ==
  ASSUME NEW x, NEW C, NEW D, C \subseteq D, Carries(x, C)
  PROVE  Carries(x, D)
BY DEF Carries, Brings

\* Announcing the state announces a pair the engine carries.
LEMMA BroadcastCarries ==
  ASSUME NEW x \in Engines, NEW C, Carries(x, C)
  PROVE  Carries(Broadcast(x), C) /\ Carries(BroadcastNow(x), C)
<1>1. ASSUME NEW y, OnlyAnnounces(x, y), y.sent = x.sent \/ y.sent = CurrentPeerState(x)
      PROVE  Carries(y, C)
  <2>1. y.peers = x.peers /\ y.others = x.others /\ y.sessionId = x.sessionId /\ y.tl = x.tl
    BY <1>1 DEF OnlyAnnounces, Keeps
  <2>2. CurrentPeerState(x).session = x.sessionId /\ CurrentPeerState(x).tl = x.tl
    BY DEF CurrentPeerState
  <2>3. y.sent # NoMessage => <<y.sent.session, y.sent.tl>> \in C
    BY <1>1, <2>2 DEF Carries, Brings
  <2> QED BY <2>1, <2>3 DEF Carries, Brings, Known, Tracked
<1>2. /\ BroadcastNow(x).sent = x.sent \/ BroadcastNow(x).sent = CurrentPeerState(x)
      /\ Broadcast(x).sent = x.sent \/ Broadcast(x).sent = CurrentPeerState(x)
  BY DEF Broadcast, BroadcastNow, Engines
<1> QED BY <1>1, <1>2, BroadcastAnnounces

\* What readers and callbacks are told changes no timeline.
LEMMA ReportsCarries ==
  ASSUME NEW x, NEW y, OnlyReports(x, y), NEW C, Carries(x, C)
  PROVE  Carries(y, C)
BY DEF OnlyReports, Keeps, Carries, Brings, Known, Tracked

\* Setting a timeline whose tempo is in range sets that timeline.
LEMMA TimingCarries ==
  ASSUME NEW x \in Engines, NEW C, InRange(C), NEW tl \in Timelines, NEW xform \in Int,
         Brings(x, C), <<x.sessionId, tl>> \in C
  PROVE  Carries(UpdateSessionTiming(x, tl, xform), C)
<1>1. ClampTempo(tl) = tl
  BY DEF InRange
<1> DEFINE y == UpdateSessionTiming(x, tl, xform)
<1>2. OnlyTimes(x, y) /\ y.tl = tl
  BY <1>1, TimingSets
<1> HIDE DEF y
<1>3. Carries(y, C)
  BY <1>2 DEF OnlyTimes, Keeps, Carries, Brings, Known, Tracked
<1> QED BY <1>3 DEF y

\* A launched or failed measurement may forget a session, and changes no other.
LEMMA LaunchCarries ==
  ASSUME NEW x \in Engines, NEW sid \in Ids, NEW C, Carries(x, C)
  PROVE  /\ Carries(SessionMeasurementFailed(x, sid), C)
         /\ Carries(LaunchSessionMeasurement(x, sid), C)
         /\ Carries(ScheduleRemeasure(x), C)
<1>1. Carries(Forget(x, sid), C) /\ Carries(ScheduleRemeasure(x), C)
  BY DEF Carries, Brings, Forget, ScheduleRemeasure, Known, Tracked, Engines
<1>2. Carries(SessionMeasurementFailed(x, sid), C)
  BY <1>1 DEF SessionMeasurementFailed
<1>3. Carries([x EXCEPT !.measuring[sid] = Chosen(x, sid)], C)
  BY DEF Carries, Brings, Known, Tracked, Engines
<1> QED BY <1>1, <1>2, <1>3 DEF LaunchSessionMeasurement

\* The timeline of a session becomes the one that was seen, or stays.
LEMMA SawTimelineCarries ==
  ASSUME NEW x \in Engines, NEW sid \in Ids, NEW tl \in Timelines, NEW C, InRange(C),
         Carries(x, C), <<sid, tl>> \in C
  PROVE  Carries(SawSessionTimeline(x, sid, tl), C)
<1>1. CASE sid = x.sessionId
  <2> DEFINE y == IF tl.origin > x.tl.origin THEN UpdateSessionTiming(x, tl, x.xform) ELSE x
  <2>1. x.xform \in Int
    BY DEF Engines
  <2>2. y \in Engines /\ Carries(y, C)
    BY <1>1, <2>1, TimingType, TimingCarries DEF Carries
  <2> HIDE DEF y
  <2>3. Carries(Broadcast(y), C)
    BY <2>2, BroadcastCarries
  <2> QED BY <1>1, <2>3 DEF SawSessionTimeline, y
<1>2. CASE sid # x.sessionId /\ x.others[sid] # NoSession
  <2> DEFINE best == IF tl.origin > x.others[sid].origin THEN tl ELSE x.others[sid]
             y    == [x EXCEPT !.others[sid] = best]
  <2>1. <<sid, best>> \in C
    BY <1>2 DEF Carries, Brings, Tracked
  <2>2. SawSessionTimeline(x, sid, tl) = y
    BY <1>2 DEF SawSessionTimeline, Engines
  <2> HIDE DEF best
  <2>3. Carries(y, C)
    BY <2>1 DEF Carries, Brings, Known, Tracked, Engines
  <2> QED BY <2>2, <2>3
<1>3. CASE sid # x.sessionId /\ x.others[sid] = NoSession
  <2> DEFINE y == [x EXCEPT !.others[sid] = tl]
  <2>1. y \in Engines /\ Carries(y, C)
    BY DEF Carries, Brings, Known, Tracked, Engines
  <2> HIDE DEF y
  <2>2. Carries(LaunchSessionMeasurement(y, sid), C)
    BY <2>1, LaunchCarries
  <2> QED BY <1>3, <2>2 DEF SawSessionTimeline, y
<1> QED BY <1>1, <1>2, <1>3

\* A transport state changes no timeline.
LEMMA HandleStartStopCarries ==
  ASSUME NEW x \in Engines, NEW sid \in Ids, NEW ss \in Transports, NEW C, Carries(x, C)
  PROVE  Carries(HandleStartStopFromSession(x, sid, ss), C)
<1> DEFINE y == [x EXCEPT !.ss = ss]
           r == Broadcast(y)
           f == FollowSessionTransport(r)
<1>1. y \in Engines /\ Carries(y, C)
  BY DEF Engines, Carries, Brings, Known, Tracked
<1> HIDE DEF y
<1>2. r \in Engines /\ Carries(r, C)
  BY <1>1, BroadcastType, BroadcastCarries
<1> HIDE DEF r
<1>3. f \in Engines /\ Carries(f, C)
  BY <1>2, FollowType, FollowReports, ReportsCarries
<1> HIDE DEF f
<1>4. Carries(PublishSnapshot(f), C)
  BY <1>3, PublishReports, ReportsCarries
<1> QED BY <1>2, <1>4 DEF HandleStartStopFromSession, y, r, f

\* A founded session has one timeline, and nothing else but what was announced
\* before it.
LEMMA ResetCarries ==
  ASSUME NEW x \in Engines, NEW d \in DrawSet, NEW C, Brings(x, C)
  PROVE  LET y == ResetState(x, d)
         IN  Carries(y, C \cup {<<d.id, y.tl>>}) /\ y.sessionId = d.id
<1> DEFINE own == [x EXCEPT !.nodeId = d.id, !.sessionId = d.id, !.ss = NoTransport]
           tl  == [tempo |-> x.tl.tempo, origin |-> d.beat, anchor |-> d.anchor]
           u   == UpdateSessionTiming(own, tl, -d.now)
           b   == Broadcast(u)
           y   == [b EXCEPT !.others = [s \in Ids |-> NoSession],
                            !.peers = [p \in Ids |-> NoPeer], !.forgotten = {}]
           D   == C \cup {<<d.id, y.tl>>}
<1>1. own \in Engines /\ own.sessionId = d.id /\ own.sent = x.sent
  <2>1. d.id \in Ids
    BY DEF DrawSet
  <2> QED BY <2>1, NoTransportType DEF Engines
<1>2. tl \in Timelines /\ -d.now \in Int
  BY DEF Engines, Timelines, DrawSet
<1>3. u \in Engines /\ u.sessionId = d.id /\ u.sent = x.sent
  <2> HIDE DEF own, tl
  <2> QED BY <1>1, <1>2, TimingType, TimingSets DEF OnlyTimes, Keeps
<1>4. /\ b \in Engines /\ b.sessionId = d.id /\ b.tl = u.tl
      /\ b.sent = x.sent \/ (b.sent.session = d.id /\ b.sent.tl = u.tl)
  <2> HIDE DEF u
  <2>1. b \in Engines /\ OnlyAnnounces(u, b)
    BY <1>3, BroadcastType, BroadcastAnnounces
  <2>2. b.sent = u.sent \/ b.sent = CurrentPeerState(u)
    BY <1>3 DEF Broadcast, BroadcastNow, Engines
  <2> QED BY <1>3, <2>1, <2>2 DEF OnlyAnnounces, Keeps, CurrentPeerState
<1> HIDE DEF own, tl, u, b
<1>5. /\ y.sessionId = d.id /\ y.tl = b.tl /\ y.sent = b.sent
      /\ y.peers = [p \in Ids |-> NoPeer] /\ y.others = [s \in Ids |-> NoSession]
  BY <1>4 DEF Engines
<1>6. ResetState(x, d) = y
  BY DEF ResetState, own, tl, u, b
<1> HIDE DEF y
<1>7. y.sent # NoMessage => <<y.sent.session, y.sent.tl>> \in D
  BY <1>4, <1>5 DEF Brings
<1>8. Known(y) = {} /\ Tracked(y) = {}
  BY <1>5 DEF Known, Tracked
<1>9. Carries(y, D)
  BY <1>5, <1>7, <1>8 DEF Carries, Brings
<1> QED BY <1>5, <1>6, <1>9

\* Recounting changes no timeline, or founds a session.
LEMMA MembershipCarries ==
  ASSUME NEW x \in Engines, NEW d \in DrawSet, NEW C, Carries(x, C)
  PROVE  LET y == SessionMembershipChanged(x, d) IN Carries(y, C \cup {<<d.id, y.tl>>})
<1> DEFINE count   == Cardinality(Members(x))
           counted == [x EXCEPT !.nbr = count]
           z       == IF count = 0 THEN ResetState(counted, d) ELSE counted
           p       == PublishSnapshot(z)
           y       == FirePeersCallback(p)
<1>1. counted \in Engines /\ Carries(counted, C)
  BY MembersFinite DEF Engines, Carries, Brings, Known, Tracked
<1> HIDE DEF counted
<1>2. z \in Engines /\ Carries(z, C \cup {<<d.id, z.tl>>})
  <2>1. CASE count = 0
    BY <1>1, <2>1, ResetType, ResetCarries DEF Carries
  <2>2. CASE count # 0
    BY <1>1, <2>2, CarriesMore
  <2> QED BY <2>1, <2>2
<1> HIDE DEF z
<1>3. p \in Engines /\ p.tl = z.tl /\ Carries(p, C \cup {<<d.id, z.tl>>})
  BY <1>2, PublishType, PublishReports, ReportsCarries DEF OnlyReports
<1> HIDE DEF p
<1>4. y.tl = p.tl /\ Carries(y, C \cup {<<d.id, z.tl>>})
  BY <1>3 DEF FirePeersCallback, Engines, Carries, Brings, Known, Tracked
<1> HIDE DEF y
<1>5. SessionMembershipChanged(x, d) = IF count = x.nbr THEN x ELSE y
  BY DEF SessionMembershipChanged, y, p, z, counted
<1>6. Carries(x, C \cup {<<d.id, x.tl>>})
  BY CarriesMore
<1> QED BY <1>3, <1>4, <1>5, <1>6

\* Joining a session takes its timeline over, and keeps the old one among the
\* others.
LEMMA JoinCarries ==
  ASSUME NEW x \in Engines, NEW sid \in Ids, x.others[sid] # NoSession,
         NEW xform \in Int, NEW d \in DrawSet, NEW C, InRange(C), Carries(x, C)
  PROVE  LET y == JoinSession(x, sid, xform, d) IN Carries(y, C \cup {<<d.id, y.tl>>})
<1> DEFINE others == [x.others EXCEPT ![sid] = NoSession,
                                      ![x.sessionId] = IF @ = NoSession THEN x.tl ELSE @]
           joined == [x EXCEPT !.others = others, !.sessionId = sid, !.ss = NoTransport]
           u      == UpdateSessionTiming(joined, x.others[sid], xform)
           timed  == Broadcast(u)
           m      == SessionMembershipChanged(timed, d)
           y      == ScheduleRemeasure(m)
<1>1. /\ x.sessionId \in Ids /\ x.tl \in Timelines
      /\ x.others \in [Ids -> Timelines \cup {NoSession}] /\ x.others[sid] \in Timelines
  BY DEF Engines
<1>2. /\ others \in [Ids -> Timelines \cup {NoSession}]
      /\ \A s \in Ids : \/ others[s] = NoSession
                        \/ others[s] = x.others[s]
                        \/ s = x.sessionId /\ others[s] = x.tl
  BY <1>1
<1>3. \A s \in Ids : others[s] # NoSession => <<s, others[s]>> \in C
  <2> HIDE DEF others
  <2> QED BY <1>2 DEF Carries, Brings, Tracked
<1> HIDE DEF others
<1>4. /\ joined \in Engines /\ joined.sessionId = sid /\ joined.others = others
      /\ joined.peers = x.peers /\ joined.sent = x.sent
  BY <1>2, NoTransportType DEF Engines
<1> HIDE DEF joined
<1>5. Brings(joined, C)
  BY <1>3, <1>4 DEF Carries, Brings, Known, Tracked
<1>6. <<joined.sessionId, x.others[sid]>> \in C
  BY <1>4 DEF Carries, Brings, Tracked
<1>7. u \in Engines /\ Carries(u, C)
  BY <1>1, <1>4, <1>5, <1>6, TimingType, TimingCarries
<1> HIDE DEF u
<1>8. timed \in Engines /\ Carries(timed, C)
  BY <1>7, BroadcastType, BroadcastCarries
<1> HIDE DEF timed
<1>9. m \in Engines /\ Carries(m, C \cup {<<d.id, m.tl>>})
  BY <1>8, MembershipType, MembershipCarries
<1> HIDE DEF m
<1>10. y.tl = m.tl /\ Carries(y, C \cup {<<d.id, m.tl>>})
  BY <1>9, <1>1, LaunchCarries DEF ScheduleRemeasure, Engines
<1> HIDE DEF y
<1>11. JoinSession(x, sid, xform, d) = y
  BY DEF JoinSession, y, m, timed, u, joined, others
<1> QED BY <1>10, <1>11

\* The result of a measurement.
LEMMA MeasuredCarries ==
  ASSUME NEW x \in Engines, NEW sid \in Ids, NEW xform \in Int, NEW d \in DrawSet,
         NEW C, InRange(C), Carries(x, C)
  PROVE  LET y == SessionMeasured(x, sid, xform, d) IN Carries(y, C \cup {<<d.id, y.tl>>})
<1> DEFINE u == UpdateSessionTiming(x, x.tl, xform)
           b == Broadcast(u)
           y == SessionMeasured(x, sid, xform, d)
<1>1. x.tl \in Timelines
  BY DEF Engines
<1>2. u \in Engines /\ Carries(u, C)
  BY <1>1, TimingType, TimingCarries DEF Carries
<1> HIDE DEF u
<1>3. b \in Engines /\ Carries(b, C)
  BY <1>2, BroadcastType, BroadcastCarries
<1> HIDE DEF b
<1>4. Carries(ScheduleRemeasure(b), C)
  BY <1>3, LaunchCarries
<1>5. CASE sid = x.sessionId
  BY <1>4, <1>5, CarriesMore DEF SessionMeasured, b, u
<1>6. CASE sid # x.sessionId /\ x.others[sid] # NoSession /\ SessionWins(x, sid, xform)
  BY <1>6, JoinCarries DEF SessionMeasured
<1>7. CASE sid # x.sessionId /\ ~(x.others[sid] # NoSession /\ SessionWins(x, sid, xform))
  BY <1>7, CarriesMore DEF SessionMeasured
<1> QED BY <1>5, <1>6, <1>7

\* sawPeerState of a peer that is in C.
LEMMA SawPeerCarries ==
  ASSUME NEW x \in Engines, NEW p \in Ids, NEW state \in PeerStates, NEW d \in DrawSet,
         NEW C, InRange(C), Carries(x, C), <<state.session, state.tl>> \in C
  PROVE  LET y == SawPeerState(x, p, state, d) IN Carries(y, C \cup {<<d.id, y.tl>>})
<1> DEFINE y    == [x EXCEPT !.peers[p] = state]
           old  == x.peers[p]
           t    == PropagateTimeline(y, old, p)
           seen == PropagateStartStop(t, old, p)
<1>1. y \in Engines /\ y.peers[p] = state /\ Carries(y, C)
  <2>1. /\ y \in Engines /\ y.peers = [x.peers EXCEPT ![p] = state]
        /\ y.sessionId = x.sessionId /\ y.tl = x.tl /\ y.others = x.others
        /\ y.sent = x.sent /\ x.peers \in [Ids -> PeerStates \cup {NoPeer}]
    BY DEF Engines
  <2> HIDE DEF y
  <2>2. Known(y) \subseteq Known(x) \cup {p} /\ y.peers[p] = state
        /\ \A q \in Ids \ {p} : y.peers[q] = x.peers[q]
    BY <2>1 DEF Known
  <2> QED BY <2>1, <2>2 DEF Carries, Brings, Tracked
<1>s. state.session \in Ids /\ state.tl \in Timelines /\ state.ss \in Transports
  BY DEF PeerStates
<1> HIDE DEF y, old
<1>2. t \in Engines /\ Carries(t, C) /\ t.peers = y.peers
  <2>1. t \in {y, SawSessionTimeline(y, state.session, state.tl)}
    BY <1>1 DEF PropagateTimeline
  <2> HIDE DEF t
  <2> QED BY <1>1, <1>s, <2>1, SawTimelineType, SawTimelineCarries, SawTimelineKeepsPeers
          DEF KeepsPeers
<1> HIDE DEF t
<1>3. seen \in Engines /\ Carries(seen, C)
  <2>1. seen \in {t, HandleStartStopFromSession(t, state.session, state.ss)}
    BY <1>1, <1>2 DEF PropagateStartStop
  <2> HIDE DEF seen
  <2> QED BY <1>2, <1>s, <2>1, HandleStartStopType, HandleStartStopCarries
<1>4. SawPeerState(x, p, state, d) \in {seen, SessionMembershipChanged(seen, d)}
  BY DEF SawPeerState, y, old, t, seen
<1> HIDE DEF seen
<1> QED BY <1>3, <1>4, MembershipCarries, CarriesMore

\* Removing and pruning peers.
LEMMA RemoveCarries ==
  ASSUME NEW x \in Engines, NEW p \in Ids, NEW d \in DrawSet, NEW C, Carries(x, C)
  PROVE  /\ LET y == RemovePeer(x, p, d) IN Carries(y, C \cup {<<d.id, y.tl>>})
         /\ LET y == PrunePeers(x, d) IN Carries(y, C \cup {<<d.id, y.tl>>})
<1> DEFINE gone == [x EXCEPT !.peers[p] = NoPeer]
           peers == [q \in Ids |-> IF q \in Expired(x) THEN NoPeer ELSE x.peers[q]]
           left == [x EXCEPT !.peers = peers]
<1>1. gone \in Engines /\ Carries(gone, C)
  BY DEF Engines, Carries, Brings, Known, Tracked
<1>2. left \in Engines /\ Carries(left, C)
  <2>1. /\ peers \in [Ids -> PeerStates \cup {NoPeer}]
        /\ \A q \in Ids : peers[q] = NoPeer \/ peers[q] = x.peers[q]
    BY DEF Engines
  <2> HIDE DEF peers
  <2> QED BY <2>1 DEF Engines, Carries, Brings, Known, Tracked
<1>3. RemovePeer(x, p, d) = IF x.peers[p] = NoPeer THEN x ELSE SessionMembershipChanged(gone, d)
  BY DEF RemovePeer
<1>4. PrunePeers(x, d) = IF Expired(x) = {} THEN x ELSE SessionMembershipChanged(left, d)
  BY DEF PrunePeers
<1> HIDE DEF gone, left
<1>5. Carries(x, C \cup {<<d.id, x.tl>>})
  BY CarriesMore
<1> QED BY <1>1, <1>2, <1>3, <1>4, <1>5, MembershipCarries

\* A commit changes the timeline of the session, and of the peers that are in it.
LEMMA CommitCarries ==
  ASSUME NEW x \in Engines, NEW tempo \in Tempos, NEW anchor \in Anchors, NEW beat \in Int,
         NEW C, Carries(x, C)
  PROVE  LET y == CommitClientTimeline(x, tempo, anchor, beat)
         IN  Carries(y, C \cup {<<x.sessionId, y.tl>>})
<1> DEFINE stl  == UpdateSessionTimelineFromClient(x.tl, tempo, anchor, beat)
           done == UpdateSessionTiming(x, stl, x.xform)
           told == [p \in Ids |-> IF p \in Members(done)
                                  THEN [done.peers[p] EXCEPT !.tl = done.tl]
                                  ELSE done.peers[p]]
           z    == [done EXCEPT !.peers = told]
           D    == C \cup {<<x.sessionId, done.tl>>}
<1>1. stl \in Timelines /\ x.xform \in Int
  BY DEF Engines, Timelines, UpdateSessionTimelineFromClient
<1> HIDE DEF stl
<1>2. done \in Engines /\ OnlyTimes(x, done)
  BY <1>1, TimingType, TimingSets
<1> HIDE DEF done
<1>3. Brings(done, D) /\ done.sessionId = x.sessionId
  BY <1>2 DEF OnlyTimes, Keeps, Carries, Brings, Known, Tracked
<1>4. told \in [Ids -> PeerStates \cup {NoPeer}]
  BY <1>2 DEF Members, InSession, Known, Engines, PeerStates
<1>5. ASSUME NEW p \in Ids, told[p] # NoPeer
      PROVE  <<told[p].session, told[p].tl>> \in D
  <2>1. CASE p \in Members(done)
    <3>1. done.peers[p] \in PeerStates /\ done.peers[p].session = x.sessionId
      BY <1>2, <1>3, <2>1 DEF Members, InSession, Known, Engines
    <3>2. told[p].session = x.sessionId /\ told[p].tl = done.tl
      BY <2>1, <3>1 DEF PeerStates
    <3> QED BY <3>2
  <2>2. CASE p \notin Members(done)
    BY <1>3, <1>5, <2>2 DEF Brings, Known
  <2> QED BY <2>1, <2>2
<1> HIDE DEF told
<1>6. /\ z \in Engines /\ z.peers = told /\ z.sessionId = x.sessionId /\ z.tl = done.tl
      /\ z.others = done.others /\ z.sent = done.sent
  BY <1>2, <1>3, <1>4 DEF Engines
<1>7. CommitClientTimeline(x, tempo, anchor, beat) = Broadcast(z)
  BY DEF CommitClientTimeline, told, done, stl
<1> HIDE DEF z
<1>8. Carries(z, D)
  BY <1>3, <1>5, <1>6 DEF Carries, Brings, Known, Tracked
<1>9. Carries(Broadcast(z), D) /\ Broadcast(z).tl = done.tl
  BY <1>6, <1>8, BroadcastCarries, BroadcastAnnounces DEF OnlyAnnounces
<1> QED BY <1>7, <1>9

\* Enabling founds a session.
LEMMA EnableCarries ==
  ASSUME NEW x \in Engines, NEW d \in DrawSet, NEW C, Brings(x, C)
  PROVE  LET y == Enable(x, d) IN Carries(y, C \cup {<<d.id, y.tl>>})
<1> DEFINE on == [x EXCEPT !.enabled = TRUE]
           r  == ResetState(on, d)
<1>1. on \in Engines /\ Brings(on, C)
  BY DEF Engines, Brings, Known, Tracked
<1> HIDE DEF on
<1>2. r \in Engines /\ Carries(r, C \cup {<<d.id, r.tl>>})
  BY <1>1, ResetType, ResetCarries
<1> HIDE DEF r
<1>3. Carries(Broadcast(r), C \cup {<<d.id, r.tl>>}) /\ Broadcast(r).tl = r.tl
  BY <1>2, BroadcastCarries, BroadcastAnnounces DEF OnlyAnnounces
<1> QED BY <1>3 DEF Enable, r, on

\* Disabling forgets the peers and the other sessions.
LEMMA DisableCarries ==
  ASSUME NEW x \in Engines, NEW C, Carries(x, C)
  PROVE  Carries(Disable(x), C)
<1> DEFINE off == [x EXCEPT !.enabled = FALSE, !.peers = [p \in Ids |-> NoPeer],
                            !.others = [s \in Ids |-> NoSession], !.nbr = 0, !.forgotten = {}]
<1>1. off \in Engines /\ Carries(off, C)
  BY DEF Engines, Carries, Brings, Known, Tracked
<1> HIDE DEF off
<1>2. Carries(PublishSnapshot(off), C)
  BY <1>1, PublishReports, ReportsCarries
<1> QED BY <1>2 DEF Disable, off

-----------------------------------------------------------------------------
(* What the other nodes were told of an engine, where no transport state is *)
(* about.  A is any set of ids the engine may draw from; told is the state  *)
(* the others have read of it or will read, if there is such a state.       *)

\* The engine has no transport state, and announces none.
Mute(x) ==
  x.ss = NoTransport /\ (x.sent # NoMessage => x.enabled /\ x.sent.ss = NoTransport)

\* ... and if it is on it announces its state, or that is what the others were told.
Speaks(x, A, told) ==
  /\ x.nodeId \in A /\ Mute(x)
  /\ x.enabled => Announces(x) \/ (x.sent = NoMessage /\ CurrentPeerState(x) = told)

\* What the others are told is as it was.
SameVoice(x, y) ==
  /\ y.nodeId = x.nodeId /\ y.sessionId = x.sessionId /\ y.tl = x.tl /\ y.ss = x.ss
  /\ y.enabled = x.enabled /\ y.pending = x.pending /\ y.sent = x.sent

\* Such a step changes nothing that is said.
LEMMA SameSpeaks ==
  ASSUME NEW x, NEW y, SameVoice(x, y), NEW A, NEW told, Speaks(x, A, told)
  PROVE  Speaks(y, A, told)
BY DEF SameVoice, Speaks, Mute, Announces, CurrentPeerState

\* A broadcast announces the state, or will.
LEMMA BroadcastSpeaks ==
  ASSUME NEW x \in Engines, NEW A, NEW told, x.nodeId \in A, Mute(x)
  PROVE  Speaks(Broadcast(x), A, told) /\ Speaks(BroadcastNow(x), A, told)
<1>1. ASSUME NEW y, OnlyAnnounces(x, y), Announces(y),
             y.sent = x.sent \/ (x.enabled /\ y.sent = CurrentPeerState(x))
      PROVE  Speaks(y, A, told)
  <2>1. y.nodeId = x.nodeId /\ y.ss = NoTransport /\ y.enabled = x.enabled
    BY <1>1 DEF OnlyAnnounces, Keeps, Mute
  <2>2. CurrentPeerState(x).ss = NoTransport
    BY DEF CurrentPeerState, Mute
  <2>3. Mute(y)
    BY <1>1, <2>1, <2>2 DEF Mute
  <2> QED BY <1>1, <2>1, <2>3 DEF Speaks
<1>2. /\ BroadcastNow(x).sent = x.sent \/ (x.enabled /\ BroadcastNow(x).sent = CurrentPeerState(x))
      /\ Broadcast(x).sent = x.sent \/ (x.enabled /\ Broadcast(x).sent = CurrentPeerState(x))
  BY DEF Broadcast, BroadcastNow, Engines
<1> QED BY <1>1, <1>2, BroadcastAnnounces

\* A timeline that is set is said when it is broadcast, as every method does that
\* sets one.
LEMMA TimingSpeaks ==
  ASSUME NEW x \in Engines, NEW tl \in Timelines, NEW xform \in Int,
         NEW A, NEW told, x.nodeId \in A, Mute(x)
  PROVE  Speaks(Broadcast(UpdateSessionTiming(x, tl, xform)), A, told)
<1> DEFINE u == UpdateSessionTiming(x, tl, xform)
<1>1. u \in Engines /\ OnlyTimes(x, u)
  BY TimingType, TimingSets
<1> HIDE DEF u
<1>2. u.nodeId \in A /\ Mute(u)
  BY <1>1 DEF OnlyTimes, Keeps, Mute
<1>3. Speaks(Broadcast(u), A, told)
  BY <1>1, <1>2, BroadcastSpeaks
<1> QED BY <1>3 DEF u

\* A founded session is announced under the id that was drawn.
LEMMA ResetSpeaks ==
  ASSUME NEW x \in Engines, NEW d \in DrawSet, NEW A, NEW told, d.id \in A,
         x.sent # NoMessage => x.enabled /\ x.sent.ss = NoTransport
  PROVE  Speaks(ResetState(x, d), A, told)
<1> DEFINE own == [x EXCEPT !.nodeId = d.id, !.sessionId = d.id, !.ss = NoTransport]
           tl  == [tempo |-> x.tl.tempo, origin |-> d.beat, anchor |-> d.anchor]
           b   == Broadcast(UpdateSessionTiming(own, tl, -d.now))
           y   == [b EXCEPT !.others = [s \in Ids |-> NoSession],
                            !.peers = [p \in Ids |-> NoPeer], !.forgotten = {}]
<1>1. own \in Engines /\ own.nodeId \in A /\ Mute(own)
  <2>1. d.id \in Ids
    BY DEF DrawSet
  <2> QED BY <2>1, NoTransportType DEF Engines, Mute
<1>2. tl \in Timelines /\ -d.now \in Int
  BY DEF Engines, Timelines, DrawSet
<1> HIDE DEF own, tl
<1>3. b \in Engines /\ Speaks(b, A, told)
  BY <1>1, <1>2, TimingType, BroadcastType, TimingSpeaks
<1>4. ResetState(x, d) = y
  BY DEF ResetState, own, tl
<1> HIDE DEF b
<1>5. SameVoice(b, y)
  BY <1>3 DEF SameVoice, Engines
<1> HIDE DEF y
<1> QED BY <1>3, <1>4, <1>5, SameSpeaks

\* A recount says nothing, or founds a session.
LEMMA MembershipSpeaks ==
  ASSUME NEW x \in Engines, NEW d \in DrawSet, NEW A, NEW told, d.id \in A, Speaks(x, A, told)
  PROVE  Speaks(SessionMembershipChanged(x, d), A, told)
<1> DEFINE count   == Cardinality(Members(x))
           counted == [x EXCEPT !.nbr = count]
           w       == IF count = 0 THEN ResetState(counted, d) ELSE counted
           z       == PublishSnapshot(w)
           y       == FirePeersCallback(z)
<1>1. counted \in Engines /\ SameVoice(x, counted)
  BY MembersFinite DEF Engines, SameVoice
<1> HIDE DEF counted
<1>2. Speaks(counted, A, told)
  BY <1>1, SameSpeaks
<1>3. w \in Engines /\ Speaks(w, A, told)
  BY <1>1, <1>2, ResetType, ResetSpeaks DEF Speaks, Mute
<1> HIDE DEF w
<1>4. z \in Engines /\ SameVoice(w, z)
  BY <1>3, PublishType, PublishReports DEF OnlyReports, Keeps, SameVoice
<1> HIDE DEF z
<1>5. SameVoice(z, y)
  BY <1>4 DEF FirePeersCallback, Engines, SameVoice
<1> HIDE DEF y
<1>6. Speaks(y, A, told)
  BY <1>3, <1>4, <1>5, SameSpeaks
<1>7. SessionMembershipChanged(x, d) = IF count = x.nbr THEN x ELSE y
  BY DEF SessionMembershipChanged, y, z, w, counted
<1> QED BY <1>6, <1>7

\* Joining a session is announced.
LEMMA JoinSpeaks ==
  ASSUME NEW x \in Engines, NEW sid \in Ids, x.others[sid] # NoSession, NEW xform \in Int,
         NEW d \in DrawSet, NEW A, NEW told, d.id \in A, x.nodeId \in A, Mute(x)
  PROVE  Speaks(JoinSession(x, sid, xform, d), A, told)
<1> DEFINE others == [x.others EXCEPT ![sid] = NoSession,
                                      ![x.sessionId] = IF @ = NoSession THEN x.tl ELSE @]
           joined == [x EXCEPT !.others = others, !.sessionId = sid, !.ss = NoTransport]
           timed  == Broadcast(UpdateSessionTiming(joined, x.others[sid], xform))
           m      == SessionMembershipChanged(timed, d)
           y      == ScheduleRemeasure(m)
<1>1. joined \in Engines /\ joined.nodeId \in A /\ Mute(joined)
  <2>1. others \in [Ids -> Timelines \cup {NoSession}]
    BY DEF Engines
  <2> HIDE DEF others
  <2> QED BY <2>1, NoTransportType DEF Engines, Mute
<1>2. x.others[sid] \in Timelines
  BY DEF Engines
<1> HIDE DEF joined
<1>3. timed \in Engines /\ Speaks(timed, A, told)
  BY <1>1, <1>2, TimingType, BroadcastType, TimingSpeaks
<1> HIDE DEF timed
<1>4. m \in Engines /\ Speaks(m, A, told)
  BY <1>3, MembershipType, MembershipSpeaks
<1> HIDE DEF m
<1>5. SameVoice(m, y)
  BY <1>4 DEF ScheduleRemeasure, Engines, SameVoice
<1>6. JoinSession(x, sid, xform, d) = y
  BY DEF JoinSession, m, timed, joined
<1> HIDE DEF y
<1> QED BY <1>4, <1>5, <1>6, SameSpeaks

\* What is told apart by no peer is as if nothing had happened.
LEMMA AsideSpeaks ==
  ASSUME NEW x, NEW y, Aside(x, y), NEW A, NEW told, Speaks(x, A, told)
  PROVE  Speaks(y, A, told)
BY SameSpeaks DEF Aside, SameVoice

\* The result of a measurement is announced when it changes anything.
LEMMA MeasuredSpeaks ==
  ASSUME NEW x \in Engines, NEW sid \in Ids, NEW xform \in Int,
         NEW d \in DrawSet, NEW A, NEW told, d.id \in A, Speaks(x, A, told)
  PROVE  Speaks(SessionMeasured(x, sid, xform, d), A, told)
<1> DEFINE b == Broadcast(UpdateSessionTiming(x, x.tl, xform))
<1>1. x.tl \in Timelines /\ x.nodeId \in A /\ Mute(x)
  BY DEF Engines, Speaks
<1>2. b \in Engines /\ Speaks(b, A, told)
  BY <1>1, TimingType, BroadcastType, TimingSpeaks
<1> HIDE DEF b
<1>3. SameVoice(b, ScheduleRemeasure(b))
  BY <1>2 DEF ScheduleRemeasure, Engines, SameVoice
<1>4. CASE sid = x.sessionId
  BY <1>2, <1>3, <1>4, SameSpeaks DEF SessionMeasured, b
<1>5. CASE sid # x.sessionId
  BY <1>1, <1>5, JoinSpeaks DEF SessionMeasured
<1> QED BY <1>4, <1>5

\* A timeline of the session is announced on; one of another session is kept.
LEMMA SawTimelineSpeaks ==
  ASSUME NEW x \in Engines, NEW sid \in Ids, NEW tl \in Timelines,
         NEW A, NEW told, Speaks(x, A, told)
  PROVE  Speaks(SawSessionTimeline(x, sid, tl), A, told)
<1>1. x.nodeId \in A /\ Mute(x) /\ x.xform \in Int
  BY DEF Speaks, Engines
<1>2. CASE sid = x.sessionId
  <2>1. Speaks(Broadcast(UpdateSessionTiming(x, tl, x.xform)), A, told)
    BY <1>1, TimingSpeaks
  <2>2. Speaks(Broadcast(x), A, told)
    BY <1>1, BroadcastSpeaks
  <2> QED BY <1>2, <2>1, <2>2 DEF SawSessionTimeline
<1>3. CASE sid # x.sessionId /\ x.others[sid] # NoSession
  <2>1. SameVoice(x, SawSessionTimeline(x, sid, tl))
    BY <1>3 DEF SawSessionTimeline, SameVoice, Engines
  <2> QED BY <2>1, SameSpeaks
<1>4. CASE sid # x.sessionId /\ x.others[sid] = NoSession
  <2> DEFINE y == [x EXCEPT !.others[sid] = tl]
  <2>1. y \in Engines /\ SameVoice(x, y)
    BY DEF SameVoice, Engines
  <2> HIDE DEF y
  <2>2. Speaks(LaunchSessionMeasurement(y, sid), A, told)
    BY <2>1, SameSpeaks, LaunchAside, AsideSpeaks
  <2> QED BY <1>4, <2>2 DEF SawSessionTimeline, y
<1> QED BY <1>2, <1>3, <1>4

\* sawPeerState of a peer without a transport state.
LEMMA SawPeerSpeaks ==
  ASSUME NEW x \in Engines, NEW p \in Ids, NEW state \in PeerStates, state.ss = NoTransport,
         NEW d \in DrawSet, NEW A, NEW told, d.id \in A, Speaks(x, A, told)
  PROVE  Speaks(SawPeerState(x, p, state, d), A, told)
<1> DEFINE y    == [x EXCEPT !.peers[p] = state]
           old  == x.peers[p]
           t    == PropagateTimeline(y, old, p)
           seen == PropagateStartStop(t, old, p)
<1>1. y \in Engines /\ y.peers[p] = state /\ SameVoice(x, y)
  BY DEF Engines, SameVoice
<1>s. state.session \in Ids /\ state.tl \in Timelines
  BY DEF PeerStates
<1> HIDE DEF y, old
<1>2. t \in Engines /\ Speaks(t, A, told) /\ t.peers = y.peers
  <2>1. t \in {y, SawSessionTimeline(y, state.session, state.tl)}
    BY <1>1 DEF PropagateTimeline
  <2>2. Speaks(y, A, told)
    BY <1>1, SameSpeaks
  <2> HIDE DEF t
  <2> QED BY <1>1, <1>s, <2>1, <2>2, SawTimelineType, SawTimelineSpeaks, SawTimelineKeepsPeers
          DEF KeepsPeers
<1> HIDE DEF t
<1>3. seen = t
  <2>1. t.peers[p] = state
    BY <1>1, <1>2
  <2>2. t.ss = NoTransport
    BY <1>2 DEF Speaks, Mute
  <2>3. HandleStartStopFromSession(t, state.session, state.ss) = t
    BY <2>2 DEF HandleStartStopFromSession, NoTransport
  <2> QED BY <2>1, <2>3 DEF PropagateStartStop
<1>4. SawPeerState(x, p, state, d) \in {seen, SessionMembershipChanged(seen, d)}
  BY DEF SawPeerState, y, old, t
<1> HIDE DEF seen
<1> QED BY <1>2, <1>3, <1>4, MembershipSpeaks

\* Removing and pruning peers says nothing, or founds a session.
LEMMA RemoveSpeaks ==
  ASSUME NEW x \in Engines, NEW p \in Ids, NEW d \in DrawSet,
         NEW A, NEW told, d.id \in A, Speaks(x, A, told)
  PROVE  Speaks(RemovePeer(x, p, d), A, told) /\ Speaks(PrunePeers(x, d), A, told)
<1> DEFINE gone == [x EXCEPT !.peers[p] = NoPeer]
           peers == [q \in Ids |-> IF q \in Expired(x) THEN NoPeer ELSE x.peers[q]]
           left == [x EXCEPT !.peers = peers]
<1>1. gone \in Engines /\ SameVoice(x, gone)
  BY DEF Engines, SameVoice
<1>2. left \in Engines /\ SameVoice(x, left)
  <2>1. peers \in [Ids -> PeerStates \cup {NoPeer}]
    BY DEF Engines
  <2> HIDE DEF peers
  <2> QED BY <2>1 DEF Engines, SameVoice
<1>3. RemovePeer(x, p, d) \in {x, SessionMembershipChanged(gone, d)}
  BY DEF RemovePeer
<1>4. PrunePeers(x, d) \in {x, SessionMembershipChanged(left, d)}
  BY DEF PrunePeers
<1> HIDE DEF gone, left
<1> QED BY <1>1, <1>2, <1>3, <1>4, SameSpeaks, MembershipSpeaks

\* A commit is announced.
LEMMA CommitSpeaks ==
  ASSUME NEW x \in Engines, NEW tempo \in Tempos, NEW anchor \in Anchors, NEW beat \in Int,
         NEW A, NEW told, x.nodeId \in A, Mute(x)
  PROVE  Speaks(CommitClientTimeline(x, tempo, anchor, beat), A, told)
<1> DEFINE stl  == UpdateSessionTimelineFromClient(x.tl, tempo, anchor, beat)
           done == UpdateSessionTiming(x, stl, x.xform)
           new  == [p \in Ids |-> IF p \in Members(done)
                                  THEN [done.peers[p] EXCEPT !.tl = done.tl]
                                  ELSE done.peers[p]]
           z    == [done EXCEPT !.peers = new]
<1>1. stl \in Timelines /\ x.xform \in Int
  BY DEF Engines, Timelines, UpdateSessionTimelineFromClient
<1> HIDE DEF stl
<1>2. done \in Engines /\ OnlyTimes(x, done)
  BY <1>1, TimingType, TimingSets
<1> HIDE DEF done
<1>3. new \in [Ids -> PeerStates \cup {NoPeer}]
  BY <1>2 DEF Members, InSession, Known, Engines, PeerStates
<1> HIDE DEF new
<1>4. /\ z \in Engines /\ z.nodeId = done.nodeId /\ z.ss = done.ss /\ z.sent = done.sent
      /\ z.enabled = done.enabled
  BY <1>2, <1>3 DEF Engines
<1>5. CommitClientTimeline(x, tempo, anchor, beat) = Broadcast(z)
  BY DEF CommitClientTimeline, new, done, stl
<1> HIDE DEF z
<1>6. z.nodeId \in A /\ Mute(z)
  BY <1>2, <1>4 DEF OnlyTimes, Keeps, Mute
<1> QED BY <1>4, <1>5, <1>6, BroadcastSpeaks

\* Enabling founds a session and announces it.
LEMMA EnableSpeaks ==
  ASSUME NEW x \in Engines, NEW d \in DrawSet, NEW A, NEW told, d.id \in A, x.sent = NoMessage
  PROVE  Speaks(Enable(x, d), A, told)
<1> DEFINE on == [x EXCEPT !.enabled = TRUE]
           y  == ResetState(on, d)
<1>1. on \in Engines /\ on.sent = NoMessage
  BY DEF Engines
<1> HIDE DEF on
<1>2. y \in Engines /\ Speaks(y, A, told)
  BY <1>1, ResetType, ResetSpeaks
<1> HIDE DEF y
<1>3. Speaks(Broadcast(y), A, told)
  BY <1>2, BroadcastSpeaks DEF Speaks
<1> QED BY <1>3 DEF Enable, y, on

\* A node that disables keeps its id and is off.
LEMMA DisableLeaves ==
  ASSUME NEW x \in Engines
  PROVE  Disable(x).nodeId = x.nodeId /\ ~Disable(x).enabled
<1> DEFINE off == [x EXCEPT !.enabled = FALSE, !.peers = [p \in Ids |-> NoPeer],
                            !.others = [s \in Ids |-> NoSession], !.nbr = 0, !.forgotten = {}]
<1>1. off \in Engines /\ off.nodeId = x.nodeId /\ ~off.enabled
  BY DEF Engines
<1> HIDE DEF off
<1>2. Keeps(off, PublishSnapshot(off))
  BY <1>1, PublishKeeps
<1> QED BY <1>1, <1>2 DEF Disable, off, Keeps

=============================================================================
