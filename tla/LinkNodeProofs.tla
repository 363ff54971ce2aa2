--------------------------- MODULE LinkNodeProofs ---------------------------
(* Theorems about LinkNode, for every value of its constants. *)
EXTENDS LinkNode, SessionEngineProofs

-----------------------------------------------------------------------------
(* The inductive invariant: the count can only be kept exact together with  *)
(* the fact that a disabled node knows nobody, since enabling resets the    *)
(* peers but not the count.                                                 *)

Inv == TypeOK /\ PeerCountExact /\ DisabledKnowsNobody

\* What founding a session takes from outside has its type.
LEMMA DrawsType ==
  ASSUME TypeOK
  PROVE  \A d \in Draws(e) : d \in DrawSet
<1>1. OwnIds \subseteq Ids /\ Beats \subseteq Int /\ now \in Int
  BY LinkNodeAssumption DEF TypeOK
<1>2. {now} \subseteq Int
  BY <1>1
<1> QED BY <1>1, <1>2 DEF Draws, DrawSet

\* The invariant holds when New returns.
LEMMA InitInv == Init => Inv
<1> SUFFICES ASSUME now = 0, NEW id \in OwnIds, NEW tempo \in NodeTempos,
                    NEW anchor \in Anchors, NEW sync \in SyncModes,
                    e = InitialEngine(id, [tempo |-> tempo, origin |-> 0, anchor |-> anchor], sync)
             PROVE  Inv
  BY DEF Init
<1> DEFINE tl == [tempo |-> tempo, origin |-> 0, anchor |-> anchor]
           snap == [enabled |-> FALSE, numPeers |-> 0, tempo |-> tl.tempo, playing |-> FALSE,
                    nodeId |-> id, sessionId |-> id, peers |-> [p \in Ids |-> NoSession]]
           css == [playing |-> FALSE, at |-> GhostToHost(-now, 0)]
           x == [nodeId |-> id, sessionId |-> id, tl |-> tl, xform |-> -now,
                 ss |-> NoTransport, css |-> css,
                 lastCb |-> FALSE, sync |-> sync, enabled |-> FALSE,
                 peers |-> [p \in Ids |-> NoPeer], others |-> [s \in Ids |-> NoSession],
                 measuring |-> [s \in Ids |-> NoPeer], nbr |-> 0, remeasure |-> FALSE,
                 recent |-> FALSE, pending |-> FALSE, sent |-> NoMessage, echo |-> FALSE,
                 snap |-> snap, toldTempo |-> tl.tempo, toldPeers |-> 0, forgotten |-> {}]
<1>1. id \in Ids /\ tempo \in Tempos /\ sync \in BOOLEAN
  BY LinkNodeAssumption
<1>2. tl \in Timelines /\ snap \in Snapshots /\ css \in Transports /\ -now \in Int
  BY <1>1 DEF Timelines, Snapshots, Transports, GhostToHost
<1>3. x \in Engines
  <2>1. tl.tempo \in Tempos
    BY <1>1
  <2> HIDE DEF tl, snap, css
  <2> QED BY <1>1, <1>2, <2>1, NoTransportType DEF Engines
<1>4. Known(x) = {} /\ Tracked(x) = {} /\ x.nbr = 0
  BY DEF Known, Tracked
<1>5. e = PublishSnapshot(x)
  BY DEF InitialEngine
<1> HIDE DEF x
<1>6. e \in Engines /\ Keeps(x, e)
  BY <1>3, <1>5, PublishType, PublishKeeps
<1>7. Known(e) = {} /\ Tracked(e) = {} /\ e.nbr = 0
  BY <1>4, <1>6, KeepsMembers DEF Keeps
<1>8. Members(e) = {}
  BY <1>7 DEF Members, InSession
<1> QED BY <1>6, <1>7, <1>8, FS_EmptySet DEF Inv, TypeOK, PeerCountExact, DisabledKnowsNobody

\* A step that leaves the engine Undisturbed preserves the invariant.
LEMMA QuietInv ==
  ASSUME Inv, e' \in Engines, now' \in Nat, Undisturbed(e, e')
  PROVE  Inv'
BY DEF Inv, TypeOK, PeerCountExact, DisabledKnowsNobody, Undisturbed

\* ... and so does one that leaves the node enabled and recounts.
LEMMA CountedInv ==
  ASSUME e' \in Engines, now' \in Nat, e'.enabled, Counted(e')
  PROVE  Inv'
BY DEF Inv, TypeOK, PeerCountExact, DisabledKnowsNobody, Counted

\* A peer state, of a peer or looped back, keeps the invariant.
LEMMA PeerSeenInv ==
  ASSUME Inv, NEW x \in Engines, Keeps(e, x), e.enabled,
         NEW p \in Ids, NEW state \in PeerStates, NEW d \in Draws(e),
         e' = SawPeerState(x, p, state, d), UNCHANGED now
  PROVE  Inv'
<1>1. d \in DrawSet /\ now' \in Nat
  BY DrawsType DEF Inv, TypeOK
<1>2. Counted(x) /\ x.enabled
  BY KeepsMembers DEF Inv, PeerCountExact, Counted, Keeps
<1> QED BY <1>1, <1>2, SawPeerCounts, CountedInv

\* Every pass of the select loop keeps the invariant.
LEMMA NextInv == Inv /\ [Next]_vars => Inv'
<1> SUFFICES ASSUME Inv, [Next]_vars PROVE Inv'
  OBVIOUS
<1> USE DEF Inv
<1>t. e \in Engines /\ now \in Nat /\ Counted(e)
  BY DEF TypeOK, PeerCountExact, Counted
<1>k. Keeps(e, e)
  BY DEF Keeps
<1>d. ASSUME NEW d \in Draws(e) PROVE d \in DrawSet
  BY DrawsType
<1>n. ~e.enabled => Known(e) = {}
  BY DEF DisabledKnowsNobody
<1>1. CASE PeerSpeaks
  <2>1. PICK p \in PeerIds, s \in PeerSessions, tl \in PeerTimelines, ss \in PeerTransports :
          PeerSeen(p, s, tl, ss)
    BY <1>1 DEF PeerSpeaks
  <2> DEFINE state == [session |-> s, tl |-> tl, ss |-> ss, expired |-> FALSE]
  <2>2. p \in Ids /\ state \in PeerStates
    BY LinkNodeAssumption DEF PeerStates
  <2>3. PICK d \in Draws(e) : e' = SawPeerState(e, p, state, d)
    BY <2>1 DEF PeerSeen
  <2>4. e.enabled /\ UNCHANGED now
    BY <2>1 DEF PeerSeen
  <2> HIDE DEF state
  <2> QED BY <1>t, <1>k, <2>2, <2>3, <2>4, PeerSeenInv
<1>2. CASE OwnMulticastHeard
  <2> DEFINE heard == [e EXCEPT !.echo = FALSE]
             state == [session |-> e.sent.session, tl |-> e.sent.tl, ss |-> e.sent.ss,
                       expired |-> FALSE]
  <2>1. heard \in Engines /\ Keeps(e, heard)
    BY <1>t DEF Engines, Keeps
  <2>2. state \in PeerStates /\ e.sent.node \in Ids
    <3>1. e.sent \in Messages
      BY <1>t, <1>2 DEF Engines, OwnMulticastHeard
    <3> QED BY <3>1 DEF Messages, PeerStates
  <2>3. UNCHANGED now
    BY <1>2 DEF OwnMulticastHeard
  <2>4. CASE e.enabled /\ e.sent.node # e.nodeId
    <3>1. PICK d \in Draws(e) : e' = SawPeerState(heard, e.sent.node, state, d)
      BY <1>2, <2>4 DEF OwnMulticastHeard
    <3> HIDE DEF heard, state
    <3> QED BY <2>1, <2>2, <2>3, <2>4, <3>1, PeerSeenInv
  <2>5. CASE ~(e.enabled /\ e.sent.node # e.nodeId)
    <3>1. e' = heard
      BY <1>2, <2>5 DEF OwnMulticastHeard
    <3> HIDE DEF heard
    <3> QED BY <1>t, <2>1, <2>3, <3>1, KeepsQuiet, QuietInv
  <2> QED BY <2>4, <2>5
<1>3. CASE \E p \in PeerIds : ByeBye(p)
  <2>1. PICK p \in PeerIds, d \in Draws(e) : e' = RemovePeer(e, p, d) /\ UNCHANGED now
    BY <1>3 DEF ByeBye
  <2>2. p \in Ids
    BY LinkNodeAssumption
  <2>3. /\ e' \in Engines /\ Counted(e') /\ e'.enabled = e.enabled
        /\ ~e'.enabled => e' = e
    BY <1>t, <1>d, <1>n, <2>1, <2>2, RemoveCounts
  <2> QED BY <1>t, <1>k, <2>1, <2>3, CountedInv, KeepsQuiet, QuietInv
<1>4. CASE \E s \in Ids : MeasurementFails(s)
  <2>1. PICK s \in Ids : MeasurementFails(s)
    BY <1>4
  <2> DEFINE x == [e EXCEPT !.measuring[s] = NoPeer]
  <2>2. x \in Engines /\ x.peers = e.peers /\ x.sessionId = e.sessionId /\ x.nbr = e.nbr
        /\ x.enabled = e.enabled /\ x.others = e.others
    BY <1>t DEF Engines
  <2>3. Undisturbed(e, x)
    <3> HIDE DEF x
    <3> QED BY <2>2 DEF Undisturbed, Members, InSession, Known, Tracked
  <2>4. e' = SessionMeasurementFailed(x, s) /\ UNCHANGED now
    BY <2>1 DEF MeasurementFails
  <2>5. e' \in Engines /\ Undisturbed(x, e')
    <3> HIDE DEF x
    <3> QED BY <2>2, <2>4, ForgetType, FailedQuiet
  <2>6. Undisturbed(e, e')
    <3> HIDE DEF x
    <3> QED BY <2>2, <2>3, <2>5 DEF Undisturbed
  <2> QED BY <1>t, <2>4, <2>5, <2>6, QuietInv
<1>5. CASE \E s \in Ids, offset \in Offsets : MeasurementSucceeds(s, offset)
  <2>1. PICK s \in Ids, offset \in Offsets : MeasurementSucceeds(s, offset)
    BY <1>5
  <2> DEFINE x == [e EXCEPT !.measuring[s] = NoPeer]
  <2>2. x \in Engines /\ x.peers = e.peers /\ x.sessionId = e.sessionId /\ x.nbr = e.nbr
        /\ x.enabled = e.enabled
    BY <1>t DEF Engines
  <2>3. Counted(x)
    <3> HIDE DEF x
    <3> QED BY <1>t, <2>2 DEF Counted, Members, InSession, Known
  <2>4. PICK d \in Draws(e) : e' = SessionMeasured(x, s, offset, d)
    BY <2>1 DEF MeasurementSucceeds
  <2>5. UNCHANGED now /\ e.enabled /\ offset \in Int
    BY <2>1, LinkNodeAssumption DEF MeasurementSucceeds
  <2>6. e' \in Engines /\ Counted(e') /\ e'.enabled
    <3> HIDE DEF x
    <3> QED BY <1>d, <2>2, <2>3, <2>4, <2>5, MeasuredType, MeasuredCounts
  <2> QED BY <1>t, <2>5, <2>6, CountedInv
<1>6. CASE BroadcastTicker
  BY <1>t, <1>6, BroadcastType, BroadcastKeeps, KeepsQuiet, QuietInv DEF BroadcastTicker
<1>7. CASE BroadcastTimerFires
  <2> DEFINE x == [e EXCEPT !.pending = FALSE]
  <2>1. x \in Engines /\ Keeps(e, x)
    BY <1>t DEF Engines, Keeps
  <2>2. e' = BroadcastNow(x) /\ UNCHANGED now
    BY <1>7 DEF BroadcastTimerFires
  <2>3. e' \in Engines /\ Keeps(e, e')
    <3> HIDE DEF x
    <3> QED BY <2>1, <2>2, BroadcastType, BroadcastKeeps, KeepsTransitive
  <2> QED BY <1>t, <2>2, <2>3, KeepsQuiet, QuietInv
<1>8. CASE BroadcastGapPasses
  <2>1. e' \in Engines /\ Keeps(e, e') /\ UNCHANGED now
    BY <1>t, <1>8 DEF BroadcastGapPasses, Engines, Keeps
  <2> QED BY <1>t, <2>1, KeepsQuiet, QuietInv
<1>9. CASE PruneTicker
  <2>1. PICK d \in Draws(e) : e' = PrunePeers(e, d) /\ UNCHANGED now
    BY <1>9 DEF PruneTicker
  <2>2. /\ e' \in Engines /\ Counted(e') /\ e'.enabled = e.enabled
        /\ ~e'.enabled => e' = e
    BY <1>t, <1>d, <1>n, <2>1, PruneCounts
  <2> QED BY <1>t, <1>k, <2>1, <2>2, CountedInv, KeepsQuiet, QuietInv
<1>10. CASE \E p \in Silent : TtlPasses(p)
  <2>1. PICK p \in Silent : TtlPasses(p)
    BY <1>10
  <2>2. p \in Ids /\ e.peers[p] \in PeerStates
    BY <1>t, <2>1, LinkNodeAssumption DEF TtlPasses, Known, Engines
  <2> DEFINE aged == [e.peers[p] EXCEPT !.expired = TRUE]
  <2>3. aged \in PeerStates /\ aged.session = e.peers[p].session
    BY <2>2 DEF PeerStates
  <2>4. e' = [e EXCEPT !.peers[p] = aged] /\ UNCHANGED now
    BY <1>t, <2>1 DEF TtlPasses, Engines
  <2>5. e' \in Engines /\ e'.nbr = e.nbr /\ e'.enabled = e.enabled /\ e'.others = e.others
        /\ e'.sessionId = e.sessionId /\ e'.peers = [e.peers EXCEPT ![p] = aged]
    <3> HIDE DEF aged
    <3> QED BY <1>t, <2>2, <2>3, <2>4 DEF Engines
  <2>6. \A q \in Ids : /\ e'.peers[q] = NoPeer <=> e.peers[q] = NoPeer
                       /\ e'.peers[q] # NoPeer => e'.peers[q].session = e.peers[q].session
    <3> HIDE DEF aged
    <3> QED BY <1>t, <2>2, <2>3, <2>5, NoneAssumption DEF Engines
  <2>7. Undisturbed(e, e')
    BY <2>5, <2>6 DEF Undisturbed, Members, InSession, Known, Tracked
  <2> QED BY <1>t, <2>4, <2>5, <2>7, QuietInv
<1>11. CASE RemeasureTimerFires
  <2> DEFINE x == [e EXCEPT !.remeasure = FALSE]
             l == LaunchSessionMeasurement(x, e.sessionId)
  <2>1. x \in Engines /\ x.peers = e.peers /\ x.sessionId = e.sessionId /\ x.nbr = e.nbr
        /\ x.enabled = e.enabled /\ x.others = e.others
    BY <1>t DEF Engines
  <2>2. Undisturbed(e, x)
    <3> HIDE DEF x
    <3> QED BY <2>1 DEF Undisturbed, Members, InSession, Known, Tracked
  <2>3. e' = ScheduleRemeasure(l) /\ UNCHANGED now
    BY <1>11 DEF RemeasureTimerFires
  <2>4. l \in Engines /\ Undisturbed(x, l)
    <3>1. e.sessionId \in Ids
      BY <1>t DEF Engines
    <3> HIDE DEF x
    <3> QED BY <2>1, <3>1, LaunchType, LaunchQuiet
  <2> HIDE DEF x, l
  <2>5. e' \in Engines /\ Undisturbed(l, e')
    BY <2>3, <2>4 DEF ScheduleRemeasure, Engines, Undisturbed, Members, InSession, Known, Tracked
  <2>6. Undisturbed(e, e')
    BY <2>1, <2>2, <2>4, <2>5 DEF Undisturbed
  <2> QED BY <1>t, <2>3, <2>5, <2>6, QuietInv
<1>12. CASE Tick
  BY <1>t, <1>k, <1>12, KeepsQuiet, QuietInv DEF Tick
<1>13. CASE \E tempo \in NodeTempos, beat \in Beats, anchor \in Anchors :
              SetTempo(tempo, beat, anchor)
  <2>1. PICK tempo \in NodeTempos, beat \in Beats, anchor \in Anchors :
               SetTempo(tempo, beat, anchor)
    BY <1>13
  <2>2. tempo \in Tempos /\ beat \in Int
    BY LinkNodeAssumption
  <2>3. e' = CommitClientTimeline(e, tempo, anchor, beat) /\ UNCHANGED now
    BY <2>1 DEF SetTempo
  <2> QED BY <1>t, <2>2, <2>3, CommitQuiet, QuietInv
<1>14. CASE \E beat \in Beats, anchor \in Anchors : MoveBeat(beat, anchor)
  <2>1. PICK beat \in Beats, anchor \in Anchors : MoveBeat(beat, anchor)
    BY <1>14
  <2>2. e.tl.tempo \in Tempos /\ beat \in Int
    BY <1>t, LinkNodeAssumption DEF Engines, Timelines
  <2>3. e' = CommitClientTimeline(e, e.tl.tempo, anchor, beat) /\ UNCHANGED now
    BY <2>1 DEF MoveBeat
  <2> QED BY <1>t, <2>2, <2>3, CommitQuiet, QuietInv
<1>15. CASE \E playing \in BOOLEAN, at \in Times : SetIsPlaying(playing, at)
  <2>1. PICK playing \in BOOLEAN, at \in Times : SetIsPlaying(playing, at)
    BY <1>15
  <2>2. at \in Int
    BY LinkNodeAssumption
  <2>3. e' = ApplyPlayingChange(e, playing, at) /\ UNCHANGED now
    BY <2>1 DEF SetIsPlaying
  <2> QED BY <1>t, <2>2, <2>3, PlayingQuiet, KeepsQuiet, QuietInv
<1>16. CASE \E on \in SyncModes : EnableStartStopSync(on)
  <2>1. PICK on \in SyncModes : EnableStartStopSync(on)
    BY <1>16
  <2>2. on \in BOOLEAN
    BY LinkNodeAssumption
  <2>3. e' \in Engines /\ Keeps(e, e') /\ UNCHANGED now
    BY <1>t, <2>1, <2>2 DEF EnableStartStopSync, Engines, Keeps
  <2> QED BY <1>t, <2>3, KeepsQuiet, QuietInv
<1>17. CASE EnableLink
  <2>1. PICK d \in Draws(e) : e' = Enable(e, d)
    BY <1>17 DEF EnableLink
  <2>2. e.nbr = 0 /\ UNCHANGED now
    BY <1>17 DEF EnableLink, DisabledKnowsNobody
  <2> QED BY <1>t, <1>d, <2>1, <2>2, EnableCounts, CountedInv
<1>18. CASE DisableLink
  <2>1. e' = Disable(e) /\ UNCHANGED now
    BY <1>18 DEF DisableLink
  <2>2. e' \in Engines /\ Counted(e') /\ Known(e') = {} /\ Tracked(e') = {} /\ e'.nbr = 0
    BY <1>t, <2>1, DisableCounts
  <2> QED BY <1>t, <2>1, <2>2 DEF TypeOK, PeerCountExact, DisabledKnowsNobody, Counted
<1>19. CASE UNCHANGED vars
  BY <1>19 DEF vars, TypeOK, PeerCountExact, DisabledKnowsNobody, Members, InSession, Known,
     Tracked
<1> QED
  BY <1>1, <1>2, <1>3, <1>4, <1>5, <1>6, <1>7, <1>8, <1>9, <1>10, <1>11, <1>12, <1>13,
     <1>14, <1>15, <1>16, <1>17, <1>18, <1>19 DEF Next

\* The fields of the engine keep their types (engine.go:110).
THEOREM TypeCorrect == Spec => []TypeOK
<1>1. Spec => []Inv
  BY InitInv, NextInv, PTL DEF Spec
<1> QED BY <1>1, PTL DEF Inv

\* The number of peers the node reports is the number of peers it knows in its
\* session, whatever packets arrive, whatever is lost and whatever the
\* application does (engine.go:434).
THEOREM PeerCountIsExact == Spec => []PeerCountExact
<1>1. Spec => []Inv
  BY InitInv, NextInv, PTL DEF Spec
<1> QED BY <1>1, PTL DEF Inv

\* A disabled node knows no peer and no other session (engine.go:744).
THEOREM DisabledNodeKnowsNobody == Spec => []DisabledKnowsNobody
<1>1. Spec => []Inv
  BY InitInv, NextInv, PTL DEF Spec
<1> QED BY <1>1, PTL DEF Inv

-----------------------------------------------------------------------------
(* The session.  What a pass of the select loop does to it is one of four   *)
(* things; which of them it is justifies every change of session.           *)

SessionInv == Inv /\ Clamped(e) /\ CurrentIsNotOther /\ ForeignSessionRemeasured

\* The node stays in its session.
StaysHere == Stays(e, e')

\* It founds a session: because it was enabled, or its last peer is gone.
FoundsAnother == \E d \in Draws(e) : Founds(e', d) /\ (e.enabled => e.nbr # 0)

\* Its clock was measured against its own session.
ClockRemeasured ==
  \E offset \in Offsets : Remeasures(e, e', offset)

\* It joins a session it measured, knew, and that won.
JoinsAnother ==
  \E sid \in Tracked(e) \cap Measured(e), offset \in Offsets :
    sid # e.sessionId /\ SessionWins(e, sid, offset) /\ Joins(e, e', sid, offset)

SessionOutcome == StaysHere \/ FoundsAnother \/ ClockRemeasured \/ JoinsAnother

\* What a handler that only recounts does is one of the four.
LEMMA StaysOrFoundsOutcome ==
  ASSUME NEW d \in Draws(e), StaysOrFounds(e, e', d)
  PROVE  SessionOutcome
BY DEF StaysOrFounds, SessionOutcome, StaysHere, FoundsAnother

\* So is what the handler of a packet does.
LEMMA PeerSeenOutcome ==
  ASSUME TypeOK, NEW x \in Engines, Stays(e, x), x.nbr = e.nbr,
         NEW p \in Ids, NEW state \in PeerStates, NEW d \in Draws(e),
         e' = SawPeerState(x, p, state, d), e' \in Engines
  PROVE  SessionOutcome
<1>1. e \in Engines /\ d \in DrawSet
  BY DrawsType DEF TypeOK
<1>2. StaysOrFounds(x, e', d)
  BY <1>1, SawPeerStays
<1>3. StaysOrFounds(e, e', d)
  BY <1>1, <1>2, StaysTransitive DEF StaysOrFounds
<1> QED BY <1>3, StaysOrFoundsOutcome

\* So is what the result of a measurement does.
LEMMA MeasurementOutcome ==
  ASSUME TypeOK, NEW s \in Ids, NEW offset \in Offsets, MeasurementSucceeds(s, offset)
  PROVE  SessionOutcome
<1> DEFINE x == [e EXCEPT !.measuring[s] = NoPeer]
<1>1. e \in Engines
  BY DEF TypeOK
<1>2. /\ x \in Engines /\ x.nodeId = e.nodeId /\ x.sessionId = e.sessionId /\ x.xform = e.xform
      /\ x.tl = e.tl /\ x.ss = e.ss /\ x.others = e.others /\ x.nbr = e.nbr
      /\ x.remeasure = e.remeasure
  BY <1>1 DEF Engines
<1>3. PICK d \in Draws(e) : e' = SessionMeasured(x, s, offset, d)
  BY DEF MeasurementSucceeds
<1>4. s \in Measured(e) /\ e.enabled /\ offset \in Int /\ d \in DrawSet
  BY DrawsType, LinkNodeAssumption DEF MeasurementSucceeds
<1> HIDE DEF x
<1>5. \/ s = x.sessionId /\ Remeasures(x, e', offset)
      \/ /\ s # x.sessionId /\ s \in Tracked(x) /\ SessionWins(x, s, offset)
         /\ Joins(x, e', s, offset) \/ (Founds(e', d) /\ x.nbr # 0)
      \/ s # x.sessionId /\ e' = x
  BY <1>2, <1>3, <1>4, MeasuredOutcome
<1>6. CASE s = x.sessionId /\ Remeasures(x, e', offset)
  <2>1. Remeasures(e, e', offset)
    BY <1>2, <1>6 DEF Remeasures, Tracked
  <2> QED BY <2>1 DEF SessionOutcome, ClockRemeasured
<1>7. CASE /\ s # x.sessionId /\ s \in Tracked(x) /\ SessionWins(x, s, offset)
           /\ Joins(x, e', s, offset)
  <2>1. s # e.sessionId /\ s \in Tracked(e) /\ SessionWins(e, s, offset) /\ Joins(e, e', s, offset)
    BY <1>2, <1>7 DEF Joins, Tracked, SessionWins
  <2> QED BY <1>4, <2>1 DEF SessionOutcome, JoinsAnother
<1>8. CASE Founds(e', d) /\ x.nbr # 0
  BY <1>2, <1>8 DEF SessionOutcome, FoundsAnother
<1>9. CASE e' = x
  BY <1>2, <1>9 DEF SessionOutcome, StaysHere, Stays, Tracked, Clamped
<1> QED BY <1>5, <1>6, <1>7, <1>8, <1>9

\* Every pass of the select loop does one of the four.
LEMMA NextOutcome == Inv /\ Clamped(e) /\ [Next]_vars => SessionOutcome
<1> SUFFICES ASSUME Inv, Clamped(e), [Next]_vars PROVE SessionOutcome
  OBVIOUS
<1>t. TypeOK /\ e \in Engines /\ e' \in Engines
  BY NextInv DEF Inv, TypeOK
<1>s. SUFFICES ASSUME ~SessionOutcome PROVE FALSE
  OBVIOUS
<1>h. ~Stays(e, e')
  BY <1>s DEF SessionOutcome, StaysHere
<1>d. \A d \in Draws(e) : d \in DrawSet /\ ~StaysOrFounds(e, e', d)
  BY <1>t, <1>s, DrawsType, StaysOrFoundsOutcome
<1>i. Stays(e, e)
  BY QuietlyStays
<1>1. CASE PeerSpeaks
  <2>1. PICK p \in PeerIds, s \in PeerSessions, tl \in PeerTimelines, ss \in PeerTransports :
          PeerSeen(p, s, tl, ss)
    BY <1>1 DEF PeerSpeaks
  <2> DEFINE state == [session |-> s, tl |-> tl, ss |-> ss, expired |-> FALSE]
  <2>2. p \in Ids /\ state \in PeerStates
    BY LinkNodeAssumption DEF PeerStates
  <2>3. PICK d \in Draws(e) : e' = SawPeerState(e, p, state, d)
    BY <2>1 DEF PeerSeen
  <2> HIDE DEF state
  <2> QED BY <1>t, <1>s, <1>i, <2>2, <2>3, PeerSeenOutcome
<1>2. CASE OwnMulticastHeard
  <2> DEFINE heard == [e EXCEPT !.echo = FALSE]
             state == [session |-> e.sent.session, tl |-> e.sent.tl, ss |-> e.sent.ss,
                       expired |-> FALSE]
  <2>1. heard \in Engines /\ heard.nbr = e.nbr /\ Stays(e, heard)
    BY <1>t DEF Engines, Stays, Tracked, Clamped
  <2>2. state \in PeerStates /\ e.sent.node \in Ids
    <3>1. e.sent \in Messages
      BY <1>t, <1>2 DEF Engines, OwnMulticastHeard
    <3> QED BY <3>1 DEF Messages, PeerStates
  <2>3. e' = heard \/ \E d \in Draws(e) : e' = SawPeerState(heard, e.sent.node, state, d)
    BY <1>2 DEF OwnMulticastHeard
  <2> HIDE DEF heard, state
  <2> QED BY <1>t, <1>s, <1>h, <2>1, <2>2, <2>3, PeerSeenOutcome
<1>3. CASE \E p \in PeerIds : ByeBye(p)
  <2>1. PICK p \in PeerIds, d \in Draws(e) : e' = RemovePeer(e, p, d)
    BY <1>3 DEF ByeBye
  <2>2. p \in Ids
    BY LinkNodeAssumption
  <2> QED BY <1>t, <1>d, <2>1, <2>2, RemoveStays
<1>4. CASE \E s \in Ids : MeasurementFails(s)
  <2>1. PICK s \in Ids : MeasurementFails(s)
    BY <1>4
  <2> DEFINE x == [e EXCEPT !.measuring[s] = NoPeer]
  <2>2. x \in Engines /\ Stays(e, x)
    BY <1>t DEF Engines, Stays, Tracked, Clamped
  <2>3. e' = SessionMeasurementFailed(x, s)
    BY <2>1 DEF MeasurementFails
  <2> HIDE DEF x
  <2> QED BY <1>t, <1>h, <2>2, <2>3, LaunchStays, StaysTransitive
<1>5. CASE \E s \in Ids, offset \in Offsets : MeasurementSucceeds(s, offset)
  BY <1>t, <1>s, <1>5, MeasurementOutcome
<1>6. CASE BroadcastTicker
  BY <1>t, <1>h, <1>6, BroadcastAnnounces, QuietlyStays DEF BroadcastTicker
<1>7. CASE BroadcastTimerFires
  <2> DEFINE x == [e EXCEPT !.pending = FALSE]
  <2>1. x \in Engines /\ Stays(e, x)
    BY <1>t DEF Engines, Stays, Tracked, Clamped
  <2>2. e' = BroadcastNow(x)
    BY <1>7 DEF BroadcastTimerFires
  <2> HIDE DEF x
  <2> QED BY <1>t, <1>h, <2>1, <2>2, BroadcastAnnounces, QuietlyStays, StaysTransitive
<1>8. CASE BroadcastGapPasses
  BY <1>t, <1>h, <1>8 DEF BroadcastGapPasses, Engines, Stays, Tracked, Clamped
<1>9. CASE PruneTicker
  <2>1. PICK d \in Draws(e) : e' = PrunePeers(e, d)
    BY <1>9 DEF PruneTicker
  <2>2. e.nodeId \in Ids
    BY <1>t DEF Engines
  <2> QED BY <1>t, <1>d, <2>1, <2>2, RemoveStays
<1>10. CASE \E p \in Silent : TtlPasses(p)
  BY <1>t, <1>h, <1>10 DEF TtlPasses, Engines, Stays, Tracked, Clamped
<1>11. CASE RemeasureTimerFires
  <2> DEFINE x == [e EXCEPT !.remeasure = FALSE]
             l == LaunchSessionMeasurement(x, e.sessionId)
  <2>1. /\ x \in Engines /\ x.nodeId = e.nodeId /\ x.sessionId = e.sessionId
        /\ x.xform = e.xform /\ x.tl = e.tl /\ x.ss = e.ss /\ x.others = e.others
    BY <1>t DEF Engines
  <2>2. e' = ScheduleRemeasure(l)
    BY <1>11 DEF RemeasureTimerFires
  <2>3. e.sessionId \in Ids
    BY <1>t DEF Engines
  <2> HIDE DEF x
  <2>4. l \in Engines /\ Stays(x, l)
    BY <2>1, <2>3, LaunchType, LaunchStays
  <2> HIDE DEF l
  <2>5. Stays(x, e') /\ e'.remeasure
    BY <1>t, <2>1, <2>2, <2>4, <2>3, LaunchStays, StaysTransitive DEF ScheduleRemeasure, Engines
  <2> QED BY <1>h, <2>1, <2>5 DEF Stays, Tracked, Clamped
<1>12. CASE Tick
  BY <1>h, <1>i, <1>12 DEF Tick
<1>13. CASE \E tempo \in NodeTempos, beat \in Beats, anchor \in Anchors :
              SetTempo(tempo, beat, anchor)
  <2>1. PICK tempo \in NodeTempos, beat \in Beats, anchor \in Anchors :
               e' = CommitClientTimeline(e, tempo, anchor, beat)
    BY <1>13 DEF SetTempo
  <2>2. tempo \in Tempos /\ beat \in Int
    BY LinkNodeAssumption
  <2> QED BY <1>t, <1>h, <2>1, <2>2, CommitStays
<1>14. CASE \E beat \in Beats, anchor \in Anchors : MoveBeat(beat, anchor)
  <2>1. PICK beat \in Beats, anchor \in Anchors :
               e' = CommitClientTimeline(e, e.tl.tempo, anchor, beat)
    BY <1>14 DEF MoveBeat
  <2>2. e.tl.tempo \in Tempos /\ beat \in Int
    BY <1>t, LinkNodeAssumption DEF Engines, Timelines
  <2> QED BY <1>t, <1>h, <2>1, <2>2, CommitStays
<1>15. CASE \E playing \in BOOLEAN, at \in Times : SetIsPlaying(playing, at)
  <2>1. PICK playing \in BOOLEAN, at \in Times : e' = ApplyPlayingChange(e, playing, at)
    BY <1>15 DEF SetIsPlaying
  <2>2. at \in Int
    BY LinkNodeAssumption
  <2> QED BY <1>t, <1>h, <2>1, <2>2, PlayingStays
<1>16. CASE \E on \in SyncModes : EnableStartStopSync(on)
  BY <1>t, <1>h, <1>16 DEF EnableStartStopSync, Engines, Stays, Tracked, Clamped
<1>17. CASE EnableLink
  <2>1. PICK d \in Draws(e) : e' = Enable(e, d)
    BY <1>17 DEF EnableLink
  <2>2. Founds(e', d) /\ ~e.enabled
    BY <1>t, <1>d, <1>17, <2>1, EnableFounds DEF EnableLink
  <2> QED BY <1>s, <2>2 DEF SessionOutcome, FoundsAnother
<1>18. CASE DisableLink
  BY <1>t, <1>h, <1>18, DisableStays DEF DisableLink
<1>19. CASE UNCHANGED vars
  BY <1>h, <1>i, <1>19 DEF vars
<1> QED
  BY <1>1, <1>2, <1>3, <1>4, <1>5, <1>6, <1>7, <1>8, <1>9, <1>10, <1>11, <1>12, <1>13,
     <1>14, <1>15, <1>16, <1>17, <1>18, <1>19 DEF Next

\* A drawn id is new: it is neither the node's nor its session's.
LEMMA DrawnIdIsNew ==
  ASSUME NEW d \in Draws(e)
  PROVE  d.id # e.nodeId /\ d.id # e.sessionId
BY DEF Draws, InUse

\* The session part of the invariant holds when New returns.
LEMMA InitSession == Init => SessionInv
<1> SUFFICES ASSUME Init PROVE SessionInv
  OBVIOUS
<1>1. Inv /\ e \in Engines
  BY InitInv DEF Inv, TypeOK
<1>2. Tracked(e) = {} /\ e.nodeId = e.sessionId /\ e.tl.tempo \in NodeTempos
  <2>1. PICK id \in OwnIds, tempo \in NodeTempos, anchor \in Anchors, sync \in SyncModes :
          e = InitialEngine(id, [tempo |-> tempo, origin |-> 0, anchor |-> anchor], sync)
    BY DEF Init
  <2> QED BY <2>1 DEF InitialEngine, PublishSnapshot, Tracked
<1>3. Clamped(e)
  <2>1. /\ e.tl \in Timelines /\ e.tl.tempo \in Int /\ MinTempo \in Int /\ MaxTempo \in Int
        /\ MinTempo <= e.tl.tempo /\ e.tl.tempo <= MaxTempo
    BY <1>1, <1>2, LinkNodeAssumption, TempoAssumption DEF Engines
  <2>2. ClampTempo(e.tl) = [e.tl EXCEPT !.tempo = e.tl.tempo]
    BY <2>1 DEF ClampTempo
  <2> QED BY <2>1, <2>2 DEF Clamped, Timelines
<1> QED BY <1>1, <1>2, <1>3 DEF SessionInv, CurrentIsNotOther, ForeignSessionRemeasured

\* ... and whatever happens to the session keeps it.
LEMMA NextSession == SessionInv /\ [Next]_vars => SessionInv' /\ SessionOutcome
<1> SUFFICES ASSUME SessionInv, [Next]_vars PROVE SessionInv' /\ SessionOutcome
  OBVIOUS
<1>1. Inv' /\ SessionOutcome
  BY NextInv, NextOutcome DEF SessionInv
<1>2. CASE StaysHere
  BY <1>1, <1>2
     DEF StaysHere, Stays, SessionInv, CurrentIsNotOther, ForeignSessionRemeasured, Clamped, Tracked
<1>3. CASE FoundsAnother
  BY <1>1, <1>3
     DEF FoundsAnother, Founds, SessionInv, CurrentIsNotOther, ForeignSessionRemeasured, Clamped, Tracked
<1>4. CASE ClockRemeasured
  BY <1>1, <1>4
     DEF ClockRemeasured, Remeasures, SessionInv, CurrentIsNotOther, ForeignSessionRemeasured, Clamped, Tracked
<1>5. CASE JoinsAnother
  BY <1>1, <1>5
     DEF JoinsAnother, Joins, SessionInv, CurrentIsNotOther, ForeignSessionRemeasured, Clamped, Tracked
<1> QED BY <1>1, <1>2, <1>3, <1>4, <1>5 DEF SessionOutcome

\* The session invariant, of every reachable state.
LEMMA SessionInvHolds == Spec => []SessionInv
BY InitSession, NextSession, PTL DEF Spec

\* The session the node is in is never kept among the other sessions, whichever
\* handler joined, founded or forgot one (engine.go:555).
THEOREM SessionIsNotAnother == Spec => []CurrentIsNotOther
BY SessionInvHolds, PTL DEF SessionInv

\* A node in a session it did not found has the remeasurement timer armed, also
\* right after the timer fired (engine.go:512).
THEOREM ForeignSessionKeepsRemeasuring == Spec => []ForeignSessionRemeasured
BY SessionInvHolds, PTL DEF SessionInv

\* Within a session only a timeline with a greater beat origin replaces the one
\* there is, whoever made it (timeline.go:83, engine.go:461).
THEOREM TimelineAdvances == Spec => TimelineOnlyAdvances
<1>1. SessionInv /\ [Next]_vars =>
        [e'.sessionId = e.sessionId => e'.tl = e.tl \/ e'.tl.origin > e.tl.origin]_vars
  <2> SUFFICES ASSUME SessionInv, [Next]_vars, e'.sessionId = e.sessionId
               PROVE  e'.tl = e.tl \/ e'.tl.origin > e.tl.origin
    OBVIOUS
  <2>1. SessionOutcome /\ Clamped(e)
    BY NextSession DEF SessionInv
  <2> QED BY <2>1, DrawnIdIsNew
          DEF SessionOutcome, StaysHere, FoundsAnother, ClockRemeasured, JoinsAnother,
              Stays, Founds, Remeasures, Joins, Clamped
<1> QED BY <1>1, SessionInvHolds, PTL DEF Spec, TimelineOnlyAdvances

\* Within a session only a later start or stop replaces the one there is
\* (engine.go:624, 681).
THEOREM TransportAdvances == Spec => TransportOnlyAdvances
<1>1. SessionInv /\ [Next]_vars =>
        [e'.sessionId = e.sessionId => e'.ss = e.ss \/ e'.ss.at > e.ss.at]_vars
  <2> SUFFICES ASSUME SessionInv, [Next]_vars, e'.sessionId = e.sessionId
               PROVE  e'.ss = e.ss \/ e'.ss.at > e.ss.at
    OBVIOUS
  <2>1. SessionOutcome
    BY NextSession
  <2> QED BY <2>1, DrawnIdIsNew
          DEF SessionOutcome, StaysHere, FoundsAnother, ClockRemeasured, JoinsAnother,
              Stays, Founds, Remeasures, Joins
<1> QED BY <1>1, SessionInvHolds, PTL DEF Spec, TransportOnlyAdvances

\* The node changes session only to found one under a new id, when it was enabled
\* or lost its last peer, or to join one it knew, had measured, and that won
\* (engine.go:551, 571).
THEOREM SessionChangesAreJustified == Spec => SessionChangesJustified
<1> DEFINE Justified ==
      e'.sessionId # e.sessionId =>
       \/ /\ e'.sessionId = e'.nodeId /\ e'.nodeId # e.nodeId
          /\ Known(e') = {} /\ Tracked(e') = {}
          /\ e.enabled => e.nbr > 0
       \/ /\ e'.nodeId = e.nodeId
          /\ e'.sessionId \in Tracked(e) \cap Measured(e)
          /\ SessionWins(e, e'.sessionId, e'.xform)
<1>1. SessionInv /\ [Next]_vars => [Justified]_vars
  <2> SUFFICES ASSUME SessionInv, [Next]_vars, e'.sessionId # e.sessionId
               PROVE  Justified
    OBVIOUS
  <2>1. SessionOutcome /\ e.nbr \in Nat
    BY NextSession DEF SessionInv, Inv, TypeOK, Engines
  <2>2. CASE FoundsAnother
    BY <2>1, <2>2, DrawnIdIsNew DEF FoundsAnother, Founds
  <2>3. CASE JoinsAnother
    BY <2>3 DEF JoinsAnother, Joins
  <2>4. ~StaysHere /\ ~ClockRemeasured
    BY DEF StaysHere, ClockRemeasured, Stays, Remeasures
  <2> QED BY <2>1, <2>2, <2>3, <2>4 DEF SessionOutcome
<1> QED BY <1>1, SessionInvHolds, PTL DEF Spec, SessionChangesJustified

-----------------------------------------------------------------------------
(* Readers and callbacks.                                                   *)

PublicInv == Inv /\ Public(e)

\* What New publishes is the engine it returns.
LEMMA InitPublic == Init => PublicInv
<1> SUFFICES ASSUME Init PROVE PublicInv
  OBVIOUS
<1>1. Inv /\ e \in Engines /\ Counted(e)
  BY InitInv DEF Inv, TypeOK, PeerCountExact, Counted
<1>2. PICK id \in OwnIds, tempo \in NodeTempos, anchor \in Anchors, sync \in SyncModes :
        e = InitialEngine(id, [tempo |-> tempo, origin |-> 0, anchor |-> anchor], sync)
  BY DEF Init
<1>3. Viewed(e) /\ Told(e) /\ e.nbr = 0 /\ ~e.enabled
  BY <1>2, ZenonT(60) DEF InitialEngine, PublishSnapshot, Viewed, Lists, Told
<1> QED BY <1>1, <1>3, ViewedCoherent DEF PublicInv, Public, ToldCount, Viewed, Announces

\* A step that changes nothing shown keeps readers and callbacks current.
LEMMA AsidePublic ==
  ASSUME PublicInv, Inv', Aside(e, e')
  PROVE  Public(e')
BY AsideShows, PresentsPublic DEF PublicInv, Inv, TypeOK, PeerCountExact, Counted, Public, Shows

\* Every pass of the select loop leaves readers and callbacks current.
LEMMA NextPublic == PublicInv /\ [Next]_vars => PublicInv'
<1> SUFFICES ASSUME PublicInv, [Next]_vars PROVE PublicInv'
  OBVIOUS
<1>t. /\ Inv' /\ TypeOK /\ e \in Engines /\ e' \in Engines
      /\ Counted(e) /\ Counted(e') /\ Public(e)
  BY NextInv DEF PublicInv, Inv, TypeOK, PeerCountExact, Counted
<1> SUFFICES Public(e')
  BY <1>t DEF PublicInv
<1>p. Shows(e, e') /\ Announces(e') => Public(e')
  BY <1>t, PresentsPublic DEF Shows
<1>a. Aside(e, e') => Public(e')
  BY <1>t, AsidePublic
<1>e. Announces(e)
  BY <1>t DEF Public
<1>d. \A d \in Draws(e) : d \in DrawSet
  BY <1>t, DrawsType
<1>1. CASE PeerSpeaks
  <2>1. PICK p \in PeerIds, s \in PeerSessions, tl \in PeerTimelines, ss \in PeerTransports :
          PeerSeen(p, s, tl, ss)
    BY <1>1 DEF PeerSpeaks
  <2> DEFINE state == [session |-> s, tl |-> tl, ss |-> ss, expired |-> FALSE]
  <2>2. p \in Ids /\ state \in PeerStates
    BY LinkNodeAssumption DEF PeerStates
  <2>3. PICK d \in Draws(e) : e' = SawPeerState(e, p, state, d)
    BY <2>1 DEF PeerSeen
  <2> HIDE DEF state
  <2> QED BY <1>t, <1>d, <2>2, <2>3, SawPeerPublic
<1>2. CASE OwnMulticastHeard
  <2> DEFINE heard == [e EXCEPT !.echo = FALSE]
             state == [session |-> e.sent.session, tl |-> e.sent.tl, ss |-> e.sent.ss,
                       expired |-> FALSE]
  <2>1. heard \in Engines /\ Aside(e, heard) /\ Keeps(e, heard)
    BY <1>t DEF Engines, Aside, Lists, Keeps
  <2>2. state \in PeerStates /\ e.sent.node \in Ids
    <3>1. e.sent \in Messages
      BY <1>t, <1>2 DEF Engines, OwnMulticastHeard
    <3> QED BY <3>1 DEF Messages, PeerStates
  <2>3. e' = heard \/ \E d \in Draws(e) : e' = SawPeerState(heard, e.sent.node, state, d)
    BY <1>2 DEF OwnMulticastHeard
  <2> HIDE DEF heard, state
  <2>4. Counted(heard) /\ Public(heard)
    <3>1. Counted(heard)
      BY <1>t, <2>1, KeepsMembers DEF Counted, Keeps
    <3> QED BY <1>t, <1>e, <2>1, <3>1, AsideShows, PresentsPublic DEF Shows
  <2> QED BY <1>t, <1>d, <2>1, <2>2, <2>3, <2>4, SawPeerPublic
<1>3. CASE \E p \in PeerIds : ByeBye(p)
  <2>1. PICK p \in PeerIds, d \in Draws(e) : e' = RemovePeer(e, p, d)
    BY <1>3 DEF ByeBye
  <2>2. p \in Ids
    BY LinkNodeAssumption
  <2> QED BY <1>t, <1>d, <2>1, <2>2, RemovePublic
<1>4. CASE \E s \in Ids : MeasurementFails(s)
  <2>1. PICK s \in Ids : MeasurementFails(s)
    BY <1>4
  <2> DEFINE x == [e EXCEPT !.measuring[s] = NoPeer]
  <2>2. x \in Engines /\ Aside(e, x)
    BY <1>t DEF Engines, Aside, Lists
  <2>3. e' = SessionMeasurementFailed(x, s)
    BY <2>1 DEF MeasurementFails
  <2> HIDE DEF x
  <2>4. Aside(e, e')
    BY <2>2, <2>3, LaunchAside DEF Aside
  <2> QED BY <1>a, <2>4
<1>5. CASE \E s \in Ids, offset \in Offsets : MeasurementSucceeds(s, offset)
  <2>1. PICK s \in Ids, offset \in Offsets : MeasurementSucceeds(s, offset)
    BY <1>5
  <2> DEFINE x == [e EXCEPT !.measuring[s] = NoPeer]
  <2>2. /\ x \in Engines /\ Aside(e, x)
        /\ x.peers = e.peers /\ x.sessionId = e.sessionId /\ x.nbr = e.nbr
    BY <1>t DEF Engines, Aside, Lists
  <2>3. PICK d \in Draws(e) : e' = SessionMeasured(x, s, offset, d)
    BY <2>1 DEF MeasurementSucceeds
  <2>4. offset \in Int
    BY LinkNodeAssumption
  <2> HIDE DEF x
  <2>5. Counted(x)
    BY <1>t, <2>2 DEF Counted, Members, InSession, Known
  <2>6. Public(x)
    BY <1>t, <1>e, <2>2, <2>5, AsideShows, PresentsPublic DEF Shows
  <2> QED BY <1>d, <2>2, <2>3, <2>4, <2>5, <2>6, MeasuredPublic
<1>6. CASE BroadcastTicker
  BY <1>t, <1>p, <1>6, BroadcastShows DEF BroadcastTicker
<1>7. CASE BroadcastTimerFires
  <2> DEFINE x == [e EXCEPT !.pending = FALSE]
  <2>1. x \in Engines /\ Shows(e, x)
    BY <1>t DEF Engines, Shows, Presents, SameView, Told, Lists
  <2>2. e' = BroadcastNow(x)
    BY <1>7 DEF BroadcastTimerFires
  <2> HIDE DEF x
  <2> QED BY <1>p, <2>1, <2>2, BroadcastShows, ShowsTransitive
<1>8. CASE BroadcastGapPasses
  BY <1>t, <1>a, <1>8 DEF BroadcastGapPasses, Engines, Aside, Lists
<1>9. CASE PruneTicker
  <2>1. PICK d \in Draws(e) : e' = PrunePeers(e, d)
    BY <1>9 DEF PruneTicker
  <2>2. e.nodeId \in Ids
    BY <1>t DEF Engines
  <2> QED BY <1>t, <1>d, <2>1, <2>2, RemovePublic
<1>10. CASE \E p \in Silent : TtlPasses(p)
  <2>1. PICK p \in Silent : TtlPasses(p)
    BY <1>10
  <2>2. p \in Ids /\ e.peers[p] \in PeerStates
    BY <1>t, <2>1, LinkNodeAssumption DEF TtlPasses, Known, Engines
  <2> DEFINE aged == [e.peers[p] EXCEPT !.expired = TRUE]
  <2>3. aged \in PeerStates /\ aged.session = e.peers[p].session
    BY <2>2 DEF PeerStates
  <2>4. e' = [e EXCEPT !.peers[p] = aged]
    BY <1>t, <2>1 DEF TtlPasses, Engines
  <2> HIDE DEF aged
  <2>5. e'.peers = [e.peers EXCEPT ![p] = aged]
    BY <1>t, <2>4 DEF Engines
  <2>6. Lists(e') = Lists(e)
    BY <1>t, <2>2, <2>3, <2>5, NoneAssumption DEF Lists, Engines
  <2>7. Aside(e, e')
    BY <1>t, <2>4, <2>6 DEF Aside, Engines
  <2> QED BY <1>a, <2>7
<1>11. CASE RemeasureTimerFires
  <2> DEFINE x == [e EXCEPT !.remeasure = FALSE]
             l == LaunchSessionMeasurement(x, e.sessionId)
  <2>1. x \in Engines /\ Aside(e, x)
    BY <1>t DEF Engines, Aside, Lists
  <2>2. e' = ScheduleRemeasure(l)
    BY <1>11 DEF RemeasureTimerFires
  <2>3. e.sessionId \in Ids
    BY <1>t DEF Engines
  <2> HIDE DEF x
  <2>4. l \in Engines /\ Aside(x, l)
    BY <2>1, <2>3, LaunchType, LaunchAside
  <2> HIDE DEF l
  <2>5. Aside(l, e')
    BY <2>2, <2>3, <2>4, LaunchAside
  <2>6. Aside(e, e')
    BY <2>1, <2>4, <2>5 DEF Aside
  <2> QED BY <1>a, <2>6
<1>12. CASE Tick
  BY <1>t, <1>12 DEF Tick
<1>13. CASE \E tempo \in NodeTempos, beat \in Beats, anchor \in Anchors :
              SetTempo(tempo, beat, anchor)
  <2>1. PICK tempo \in NodeTempos, beat \in Beats, anchor \in Anchors :
               e' = CommitClientTimeline(e, tempo, anchor, beat)
    BY <1>13 DEF SetTempo
  <2>2. tempo \in Tempos /\ beat \in Int
    BY LinkNodeAssumption
  <2> QED BY <1>t, <1>p, <2>1, <2>2, CommitShows
<1>14. CASE \E beat \in Beats, anchor \in Anchors : MoveBeat(beat, anchor)
  <2>1. PICK beat \in Beats, anchor \in Anchors :
               e' = CommitClientTimeline(e, e.tl.tempo, anchor, beat)
    BY <1>14 DEF MoveBeat
  <2>2. e.tl.tempo \in Tempos /\ beat \in Int
    BY <1>t, LinkNodeAssumption DEF Engines, Timelines
  <2> QED BY <1>t, <1>p, <2>1, <2>2, CommitShows
<1>15. CASE \E playing \in BOOLEAN, at \in Times : SetIsPlaying(playing, at)
  <2>1. PICK playing \in BOOLEAN, at \in Times : e' = ApplyPlayingChange(e, playing, at)
    BY <1>15 DEF SetIsPlaying
  <2>2. at \in Int
    BY LinkNodeAssumption
  <2> QED BY <1>t, <1>p, <1>e, <2>1, <2>2, PlayingShows
<1>16. CASE \E on \in SyncModes : EnableStartStopSync(on)
  BY <1>t, <1>a, <1>16 DEF EnableStartStopSync, Engines, Aside, Lists
<1>17. CASE EnableLink
  <2>1. PICK d \in Draws(e) : e' = Enable(e, d)
    BY <1>17 DEF EnableLink
  <2>2. e.nbr = 0 /\ Known(e) = {}
    BY <1>17 DEF EnableLink, PublicInv, Inv, DisabledKnowsNobody
  <2> QED BY <1>t, <1>d, <2>1, <2>2, EnablePublic
<1>18. CASE DisableLink
  BY <1>t, <1>18, DisablePublic DEF DisableLink
<1>19. CASE UNCHANGED vars
  BY <1>t, <1>19 DEF vars
<1> QED
  BY <1>1, <1>2, <1>3, <1>4, <1>5, <1>6, <1>7, <1>8, <1>9, <1>10, <1>11, <1>12, <1>13,
     <1>14, <1>15, <1>16, <1>17, <1>18, <1>19 DEF Next

\* Readers and callbacks are current in every reachable state.
LEMMA PublicInvHolds == Spec => []PublicInv
BY InitPublic, NextPublic, PTL DEF Spec

\* Readers get the values of the engine and the callbacks have reported them, although
\* a handler returns before publishing when it thinks nothing changed (engine.go:602).
THEOREM ReadersAreCurrent == Spec => []ReadersAndCallbacksCurrent
<1>1. PublicInv => ReadersAndCallbacksCurrent
  BY DEF PublicInv, Public, Told, ToldCount, ReadersAndCallbacksCurrent
<1> QED BY <1>1, PublicInvHolds, PTL

\* The snapshot is one state of the session: the number of peers it gives is that of
\* its own session in its own list (engine.go:755).
THEOREM SnapshotIsCoherent == Spec => []SnapshotCoherent
<1>1. PublicInv => SnapshotCoherent
  BY DEF PublicInv, Public, Coherent, SnapshotCoherent
<1> QED BY <1>1, PublicInvHolds, PTL

\* What an enabled node last announced is its state, or a broadcast is pending
\* (engine.go:304).
THEOREM EveryChangeIsAnnounced == Spec => []ChangesAreAnnounced
<1>1. PublicInv => ChangesAreAnnounced
  BY DEF PublicInv, Public, Announces, ChangesAreAnnounced
<1> QED BY <1>1, PublicInvHolds, PTL

-----------------------------------------------------------------------------
(* The timelines the node keeps and those of its peers.                     *)

AheadInv == SessionInv /\ NeverAhead(e)

\* A step that only advances keeps the peers covered.
LEMMA AdvancesNeverAhead ==
  ASSUME e \in Engines, e' \in Engines, Advances(e, e'), NeverAhead(e)
  PROVE  NeverAhead(e')
BY AdvancesPeers DEF NeverAhead

\* Every pass of the select loop keeps them covered.
LEMMA NextNeverAhead == AheadInv /\ [Next]_vars => AheadInv'
<1> SUFFICES ASSUME AheadInv, [Next]_vars PROVE NeverAhead(e')
  BY NextSession DEF AheadInv
<1>t. /\ TypeOK /\ e \in Engines /\ e' \in Engines /\ NeverAhead(e)
      /\ e.sessionId \notin Tracked(e)
  BY NextInv DEF AheadInv, SessionInv, Inv, TypeOK, CurrentIsNotOther
<1>a. Advances(e, e') => NeverAhead(e')
  BY <1>t, AdvancesNeverAhead
<1>d. \A d \in Draws(e) : d \in DrawSet
  BY <1>t, DrawsType
<1>i. Advances(e, e)
  BY <1>t, QuietlyAdvances
<1>1. CASE PeerSpeaks
  <2>1. PICK p \in PeerIds, s \in PeerSessions, tl \in PeerTimelines, ss \in PeerTransports :
          PeerSeen(p, s, tl, ss)
    BY <1>1 DEF PeerSpeaks
  <2> DEFINE state == [session |-> s, tl |-> tl, ss |-> ss, expired |-> FALSE]
  <2>2. p \in Ids /\ state \in PeerStates
    BY LinkNodeAssumption DEF PeerStates
  <2>3. PICK d \in Draws(e) : e' = SawPeerState(e, p, state, d)
    BY <2>1 DEF PeerSeen
  <2> HIDE DEF state
  <2> QED BY <1>t, <1>d, <2>2, <2>3, SawPeerNeverAhead
<1>2. CASE OwnMulticastHeard
  <2> DEFINE heard == [e EXCEPT !.echo = FALSE]
             state == [session |-> e.sent.session, tl |-> e.sent.tl, ss |-> e.sent.ss,
                       expired |-> FALSE]
  <2>1. heard \in Engines /\ Advances(e, heard)
    <3>1. /\ heard \in Engines /\ heard.sessionId = e.sessionId /\ heard.peers = e.peers
          /\ heard.tl = e.tl /\ heard.others = e.others /\ heard.forgotten = e.forgotten
      BY <1>t DEF Engines
    <3> HIDE DEF heard
    <3> QED BY <1>t, <3>1, SameAdvances
  <2>2. state \in PeerStates /\ e.sent.node \in Ids
    <3>1. e.sent \in Messages
      BY <1>t, <1>2 DEF Engines, OwnMulticastHeard
    <3> QED BY <3>1 DEF Messages, PeerStates
  <2>3. e' = heard \/ \E d \in Draws(e) : e' = SawPeerState(heard, e.sent.node, state, d)
    BY <1>2 DEF OwnMulticastHeard
  <2> HIDE DEF heard, state
  <2>4. NeverAhead(heard)
    BY <1>t, <2>1, AdvancesPeers DEF NeverAhead
  <2> QED BY <1>t, <1>d, <2>1, <2>2, <2>3, <2>4, SawPeerNeverAhead
<1>3. CASE \E p \in PeerIds : ByeBye(p)
  <2>1. PICK p \in PeerIds, d \in Draws(e) : e' = RemovePeer(e, p, d)
    BY <1>3 DEF ByeBye
  <2>2. p \in Ids
    BY LinkNodeAssumption
  <2> QED BY <1>t, <1>d, <2>1, <2>2, RemoveNeverAhead
<1>4. CASE \E s \in Ids : MeasurementFails(s)
  <2>1. PICK s \in Ids : MeasurementFails(s)
    BY <1>4
  <2> DEFINE x == [e EXCEPT !.measuring[s] = NoPeer]
  <2>2. x \in Engines /\ Advances(e, x)
    <3>1. /\ x \in Engines /\ x.sessionId = e.sessionId /\ x.peers = e.peers
          /\ x.tl = e.tl /\ x.others = e.others /\ x.forgotten = e.forgotten
      BY <1>t DEF Engines
    <3> HIDE DEF x
    <3> QED BY <1>t, <3>1, SameAdvances
  <2>3. e' = SessionMeasurementFailed(x, s)
    BY <2>1 DEF MeasurementFails
  <2> HIDE DEF x
  <2> QED BY <1>t, <1>a, <2>2, <2>3, LaunchAdvances, AdvancesTransitive
<1>5. CASE \E s \in Ids, offset \in Offsets : MeasurementSucceeds(s, offset)
  <2>1. PICK s \in Ids, offset \in Offsets : MeasurementSucceeds(s, offset)
    BY <1>5
  <2> DEFINE x == [e EXCEPT !.measuring[s] = NoPeer]
  <2>2. x \in Engines /\ Advances(e, x) /\ x.sessionId = e.sessionId /\ x.others = e.others
    <3>1. /\ x \in Engines /\ x.sessionId = e.sessionId /\ x.peers = e.peers
          /\ x.tl = e.tl /\ x.others = e.others /\ x.forgotten = e.forgotten
      BY <1>t DEF Engines
    <3> HIDE DEF x
    <3> QED BY <1>t, <3>1, SameAdvances
  <2>3. PICK d \in Draws(e) : e' = SessionMeasured(x, s, offset, d)
    BY <2>1 DEF MeasurementSucceeds
  <2>4. offset \in Int
    BY LinkNodeAssumption
  <2> HIDE DEF x
  <2>5. NeverAhead(x) /\ x.sessionId \notin Tracked(x)
    BY <1>t, <2>2, AdvancesPeers DEF NeverAhead, Tracked
  <2> QED BY <1>d, <2>2, <2>3, <2>4, <2>5, MeasuredNeverAhead
<1>6. CASE BroadcastTicker
  BY <1>t, <1>a, <1>6, BroadcastAnnounces, QuietlyAdvances DEF BroadcastTicker
<1>7. CASE BroadcastTimerFires
  <2> DEFINE x == [e EXCEPT !.pending = FALSE]
  <2>1. x \in Engines /\ Advances(e, x)
    <3>1. /\ x \in Engines /\ x.sessionId = e.sessionId /\ x.peers = e.peers
          /\ x.tl = e.tl /\ x.others = e.others /\ x.forgotten = e.forgotten
      BY <1>t DEF Engines
    <3> HIDE DEF x
    <3> QED BY <1>t, <3>1, SameAdvances
  <2>2. e' = BroadcastNow(x)
    BY <1>7 DEF BroadcastTimerFires
  <2> HIDE DEF x
  <2> QED BY <1>t, <1>a, <2>1, <2>2, BroadcastAnnounces, QuietlyAdvances, AdvancesTransitive
<1>8. CASE BroadcastGapPasses
  BY <1>t, <1>a, <1>8, SameAdvances DEF BroadcastGapPasses, Engines
<1>9. CASE PruneTicker
  <2>1. PICK d \in Draws(e) : e' = PrunePeers(e, d)
    BY <1>9 DEF PruneTicker
  <2>2. e.nodeId \in Ids
    BY <1>t DEF Engines
  <2> QED BY <1>t, <1>d, <2>1, <2>2, RemoveNeverAhead
<1>10. CASE \E p \in Silent : TtlPasses(p)
  <2>1. PICK p \in Silent : TtlPasses(p)
    BY <1>10
  <2>2. p \in Ids /\ p \in Known(e) /\ e.peers[p] \in PeerStates
    BY <1>t, <2>1, LinkNodeAssumption DEF TtlPasses, Known, Engines
  <2> DEFINE aged == [e.peers[p] EXCEPT !.expired = TRUE]
  <2>3. aged.session = e.peers[p].session /\ aged.tl = e.peers[p].tl
    BY <2>2 DEF PeerStates
  <2>4. e' = [e EXCEPT !.peers[p] = aged]
    BY <1>t, <2>1 DEF TtlPasses, Engines
  <2> HIDE DEF aged
  <2>5. /\ e'.peers = [e.peers EXCEPT ![p] = aged] /\ e'.sessionId = e.sessionId /\ e'.tl = e.tl
        /\ e'.others = e.others /\ e'.forgotten = e.forgotten
    BY <1>t, <2>4 DEF Engines
  <2>6. ASSUME NEW q \in Known(e') PROVE CoversPeer(e', q)
    <3>1. /\ q \in Known(e) /\ e'.peers[q].session = e.peers[q].session
          /\ e'.peers[q].tl = e.peers[q].tl
      BY <1>t, <2>2, <2>3, <2>5 DEF Known, Engines
    <3>2. CoversPeer(e, q)
      BY <1>t, <3>1 DEF NeverAhead
    <3> QED BY <2>5, <3>1, <3>2 DEF CoversPeer, Covers, Tracked
  <2> QED BY <2>6 DEF NeverAhead
<1>11. CASE RemeasureTimerFires
  <2> DEFINE x == [e EXCEPT !.remeasure = FALSE]
             l == LaunchSessionMeasurement(x, e.sessionId)
  <2>1. x \in Engines /\ Advances(e, x)
    <3>1. /\ x \in Engines /\ x.sessionId = e.sessionId /\ x.peers = e.peers
          /\ x.tl = e.tl /\ x.others = e.others /\ x.forgotten = e.forgotten
      BY <1>t DEF Engines
    <3> HIDE DEF x
    <3> QED BY <1>t, <3>1, SameAdvances
  <2>2. e' = ScheduleRemeasure(l)
    BY <1>11 DEF RemeasureTimerFires
  <2>3. e.sessionId \in Ids
    BY <1>t DEF Engines
  <2> HIDE DEF x
  <2>4. l \in Engines /\ Advances(e, l)
    BY <1>t, <2>1, <2>3, LaunchType, LaunchAdvances, AdvancesTransitive
  <2> HIDE DEF l
  <2> QED BY <1>t, <1>a, <2>2, <2>3, <2>4, LaunchAdvances, AdvancesTransitive
<1>12. CASE Tick
  BY <1>t, <1>12 DEF Tick
<1>13. CASE \E tempo \in NodeTempos, beat \in Beats, anchor \in Anchors :
              SetTempo(tempo, beat, anchor)
  <2>1. PICK tempo \in NodeTempos, beat \in Beats, anchor \in Anchors :
               e' = CommitClientTimeline(e, tempo, anchor, beat)
    BY <1>13 DEF SetTempo
  <2>2. tempo \in Tempos /\ beat \in Int
    BY LinkNodeAssumption
  <2> QED BY <1>t, <2>1, <2>2, CommitNeverAhead
<1>14. CASE \E beat \in Beats, anchor \in Anchors : MoveBeat(beat, anchor)
  <2>1. PICK beat \in Beats, anchor \in Anchors :
               e' = CommitClientTimeline(e, e.tl.tempo, anchor, beat)
    BY <1>14 DEF MoveBeat
  <2>2. e.tl.tempo \in Tempos /\ beat \in Int
    BY <1>t, LinkNodeAssumption DEF Engines, Timelines
  <2> QED BY <1>t, <2>1, <2>2, CommitNeverAhead
<1>15. CASE \E playing \in BOOLEAN, at \in Times : SetIsPlaying(playing, at)
  <2>1. PICK playing \in BOOLEAN, at \in Times : e' = ApplyPlayingChange(e, playing, at)
    BY <1>15 DEF SetIsPlaying
  <2>2. at \in Int
    BY LinkNodeAssumption
  <2> QED BY <1>t, <1>a, <2>1, <2>2, PlayingAdvances
<1>16. CASE \E on \in SyncModes : EnableStartStopSync(on)
  BY <1>t, <1>a, <1>16, SameAdvances DEF EnableStartStopSync, Engines
<1>17. CASE EnableLink
  <2>1. PICK d \in Draws(e) : e' = Enable(e, d)
    BY <1>17 DEF EnableLink
  <2> QED BY <1>t, <1>d, <2>1, EnableFounds DEF Founds, NeverAhead
<1>18. CASE DisableLink
  BY <1>t, <1>18, DisableCounts DEF DisableLink, NeverAhead
<1>19. CASE UNCHANGED vars
  BY <1>t, <1>19 DEF vars
<1> QED
  BY <1>1, <1>2, <1>3, <1>4, <1>5, <1>6, <1>7, <1>8, <1>9, <1>10, <1>11, <1>12, <1>13,
     <1>14, <1>15, <1>16, <1>17, <1>18, <1>19 DEF Next

\* The peers the node knows never hold a timeline that wins over the one it has for
\* their session, unless it was made to forget that session: a stale entry would never
\* be corrected, as only changes are propagated (engine.go:459).
THEOREM PeersAreNeverAhead == Spec => []PeersNeverAhead
<1>1. Init => AheadInv
  <2> SUFFICES ASSUME Init PROVE AheadInv
    OBVIOUS
  <2>1. SessionInv
    BY InitSession
  <2>2. Known(e) = {}
    BY DEF Init, InitialEngine, PublishSnapshot, Known
  <2> QED BY <2>1, <2>2 DEF AheadInv, NeverAhead
<1>2. AheadInv => PeersNeverAhead
  BY DEF AheadInv, NeverAhead, CoversPeer, Covers, PeersNeverAhead
<1> QED BY <1>1, <1>2, NextNeverAhead, PTL DEF Spec

=============================================================================
