-------------------------- MODULE LinkNetworkProofs --------------------------
(* Theorems about LinkNetwork, for every number of nodes and every value of *)
(* its constants.                                                           *)
EXTENDS LinkNetwork, SessionEngineProofs

-----------------------------------------------------------------------------
(* What the handlers of a node leave it with.                               *)

\* Between two handlers a node counts its peers, its tempo is in range, and, if it
\* is disabled, it knows nobody.
Sound(x) == Counted(x) /\ Clamped(x) /\ (~x.enabled => Known(x) = {} /\ x.nbr = 0)

\* How the session and the clock of n come about: n stays as it was, it is alone
\* in a new session, or it has the session and the clock of a node that is on.
SharesClock(n, x) ==
  \/ /\ x.enabled => e[n].enabled
     /\ x.sessionId = e[n].sessionId /\ x.xform = e[n].xform
  \/ \A k \in Nodes : e[k].sessionId # x.sessionId
  \/ \E m \in On : x.sessionId = e[m].sessionId
                   /\ HostToGhost(x.xform, Skew[n]) = GhostClock(m)

\* n has ended a handler as x, which may have multicast something.
Handled(n, x) ==
  \E packet \in Packets \cup {NoMessage}, read \in [Nodes -> Packets \cup {NoMessage}] :
    Multicast(n, x, packet, read)

HandlerEnds ==
  \E n \in Nodes, x \in Engines : Handled(n, x) /\ Sound(x) /\ SharesClock(n, x)

NetInv == NetworkTypes /\ (\A n \in Nodes : Sound(e[n])) /\ SameSessionSameClock

\* The engine of a node that was just created has its type.
LEMMA NewEngineType ==
  ASSUME NEW n \in Nodes, NEW tempo \in Tempos
  PROVE  /\ NewEngine(n, tempo) \in Engines
         /\ NewEngine(n, tempo).nbr = 0
         /\ Known(NewEngine(n, tempo)) = {} /\ Tracked(NewEngine(n, tempo)) = {}
         /\ NewEngine(n, tempo).sent = NoMessage
<1> DEFINE id == CHOOSE x \in OwnIds[n] : TRUE
           tl == [tempo |-> tempo, origin |-> 0, anchor |-> 0]
           snap == [enabled |-> FALSE, numPeers |-> 0, tempo |-> MinTempo, playing |-> FALSE,
                    nodeId |-> id, sessionId |-> id, peers |-> [p \in Ids |-> NoSession]]
           nobody == [p \in Ids |-> NoPeer]
           x == NewEngine(n, tempo)
<1>1. id \in Ids
  <2>1. OwnIds[n] # {} /\ OwnIds[n] \subseteq Ids
    BY LinkNetworkAssumption
  <2> QED BY <2>1
<1>2. tl \in Timelines
  BY LinkNetworkAssumption DEF Timelines
<1>3. snap \in Snapshots
  BY <1>1, TempoAssumption DEF Snapshots
<1>4. -Skew[n] \in Int
  BY LinkNetworkAssumption
<1>5. nobody \in [Ids -> PeerStates \cup {NoPeer}] /\ nobody \in [Ids -> Ids \cup {NoPeer}]
      /\ [s \in Ids |-> NoSession] \in [Ids -> Timelines \cup {NoSession}]
  OBVIOUS
<1>6. x = [nodeId |-> id, sessionId |-> id, tl |-> tl, xform |-> -Skew[n],
       ss |-> NoTransport, css |-> NoTransport, lastCb |-> FALSE, sync |-> FALSE,
       enabled |-> FALSE, peers |-> nobody, others |-> [s \in Ids |-> NoSession],
       measuring |-> nobody, nbr |-> 0, remeasure |-> FALSE,
       recent |-> FALSE, pending |-> FALSE, sent |-> NoMessage, echo |-> FALSE,
       snap |-> snap, toldTempo |-> MinTempo, toldPeers |-> 0, forgotten |-> {}]
  BY DEF NewEngine
<1>7. /\ x.nbr = 0 /\ x.peers = nobody /\ x.sent = NoMessage
      /\ x.others = [s \in Ids |-> NoSession]
  <2> HIDE DEF id, tl, snap, nobody
  <2> QED BY <1>6
<1>8. Known(x) = {} /\ Tracked(x) = {}
  <2> HIDE DEF x
  <2> QED BY <1>7 DEF Known, Tracked
<1>9. x \in Engines
  <2> HIDE DEF id, tl, snap, nobody, x
  <2> QED BY <1>1, <1>2, <1>3, <1>4, <1>5, <1>6, NoTransportType, TempoAssumption DEF Engines
<1> QED BY <1>7, <1>8, <1>9

\* Between two handlers an engine has kept what the others depend on.
LEMMA RestedKeeps ==
  ASSUME NEW n \in Nodes, NEW x \in Engines
  PROVE  LET y == Rested(n, x)
         IN  /\ y \in Engines /\ y.sent = NoMessage
             /\ y.nodeId = x.nodeId /\ y.sessionId = x.sessionId /\ y.tl = x.tl
             /\ y.xform = x.xform /\ y.enabled = x.enabled /\ y.peers = x.peers
             /\ y.others = x.others /\ y.measuring = x.measuring /\ y.nbr = x.nbr
             /\ y.pending = x.pending
             /\ Sound(x) => Sound(y)
<1> DEFINE y == Rested(n, x)
<1>1. MinTempo \in Tempos
  BY TempoAssumption
<1>2. NewEngine(n, MinTempo) \in Engines /\ NewEngine(n, MinTempo).sent = NoMessage
  BY <1>1, NewEngineType
<1>3. /\ y \in Engines /\ y.sent = NoMessage
      /\ y.nodeId = x.nodeId /\ y.sessionId = x.sessionId /\ y.tl = x.tl
      /\ y.xform = x.xform /\ y.enabled = x.enabled /\ y.peers = x.peers
      /\ y.others = x.others /\ y.measuring = x.measuring /\ y.nbr = x.nbr
      /\ y.pending = x.pending
  <2> HIDE DEF y
  <2> QED BY <1>2, ZenonT(60) DEF Rested, Engines, y
<1>4. Sound(x) => Sound(y)
  <2> HIDE DEF y
  <2> QED BY <1>3 DEF Sound, Counted, Clamped, Members, InSession, Known
<1> QED BY <1>3, <1>4

\* What an engine announces is a packet.
LEMMA AnnouncedType ==
  ASSUME NEW x \in Engines
  PROVE  Announced(x) \in Packets \cup {NoMessage}
<1>1. x.sent \in Messages \cup {NoMessage}
  BY DEF Engines
<1>2. CASE x.sent = NoMessage
  BY <1>2 DEF Announced
<1>3. CASE x.sent \in Messages /\ x.sent # NoMessage
  BY <1>3 DEF Announced, Packets
<1> QED BY <1>1, <1>2, <1>3

\* The two ways a handler ends.
LEMMA StepHandled ==
  ASSUME NetworkTypes, NEW n \in Nodes, NEW x \in Engines,
         Step(n, x) \/ \E m \in Nodes : StepAfter(n, m, x)
  PROVE  Handled(n, x)
<1>1. Announced(x) \in Packets \cup {NoMessage}
  BY AnnouncedType
<1>2. unread[n] \in [Nodes -> Packets \cup {NoMessage}]
  BY DEF NetworkTypes
<1>3. CASE Step(n, x)
  BY <1>1, <1>2, <1>3 DEF Step, Handled
<1>4. CASE \E m \in Nodes : StepAfter(n, m, x)
  <2>1. PICK m \in Nodes : StepAfter(n, m, x)
    BY <1>4
  <2>2. [unread[n] EXCEPT ![m] = NoMessage] \in [Nodes -> Packets \cup {NoMessage}]
    BY <1>2
  <2> QED BY <1>1, <2>1, <2>2 DEF StepAfter, Handled
<1> QED BY <1>3, <1>4

\* The engine of a node after a handler, and those of the others.
LEMMA HandledEngines ==
  ASSUME NetworkTypes, NEW n \in Nodes, NEW x \in Engines, Handled(n, x)
  PROVE  /\ e' \in [Nodes -> Engines]
         /\ unread' \in [Nodes -> [Nodes -> Packets \cup {NoMessage}]]
         /\ e'[n] = Rested(n, x)
         /\ \A k \in Nodes \ {n} : e'[k] = e[k]
<1>1. PICK packet \in Packets \cup {NoMessage}, read \in [Nodes -> Packets \cup {NoMessage}] :
         Multicast(n, x, packet, read)
  BY DEF Handled
<1>2. Rested(n, x) \in Engines
  BY RestedKeeps
<1>3. e' = [e EXCEPT ![n] = Rested(n, x)] /\ e \in [Nodes -> Engines]
  BY <1>1 DEF Multicast, NetworkTypes
<1>4. \A m \in Nodes : [unread[m] EXCEPT ![n] = packet] \in [Nodes -> Packets \cup {NoMessage}]
  BY DEF NetworkTypes
<1>5. unread' \in [Nodes -> [Nodes -> Packets \cup {NoMessage}]]
  BY <1>1, <1>4 DEF Multicast, NetworkTypes
<1> QED BY <1>2, <1>3, <1>5

\* A handler that shares its clock keeps the clocks of every session together.
LEMMA HandlerEndsInv ==
  ASSUME NetInv, HandlerEnds
  PROVE  /\ e' \in [Nodes -> Engines]
         /\ unread' \in [Nodes -> [Nodes -> Packets \cup {NoMessage}]]
         /\ \A n \in Nodes : Sound(e[n])'
         /\ SameSessionSameClock'
<1>1. PICK n \in Nodes, x \in Engines : Handled(n, x) /\ Sound(x) /\ SharesClock(n, x)
  BY DEF HandlerEnds
<1>2. /\ e' \in [Nodes -> Engines]
      /\ unread' \in [Nodes -> [Nodes -> Packets \cup {NoMessage}]]
      /\ e'[n] = Rested(n, x)
      /\ \A k \in Nodes \ {n} : e'[k] = e[k]
  BY <1>1, HandledEngines DEF NetInv
<1>3. /\ e'[n].sessionId = x.sessionId /\ e'[n].xform = x.xform /\ e'[n].enabled = x.enabled
      /\ Sound(e'[n])
  BY <1>1, <1>2, RestedKeeps
<1>4. \A k \in Nodes : Sound(e'[k])
  BY <1>2, <1>3 DEF NetInv
<1>5. ASSUME NEW k \in Nodes \ {n}, e[k].enabled, x.enabled, e[k].sessionId = x.sessionId
      PROVE  HostToGhost(x.xform, Skew[n]) = GhostClock(k)
  <2>1. CASE /\ x.enabled => e[n].enabled
             /\ x.sessionId = e[n].sessionId /\ x.xform = e[n].xform
    BY <1>5, <2>1 DEF NetInv, SameSessionSameClock, On, GhostClock
  <2>2. CASE \E m \in On : x.sessionId = e[m].sessionId
                           /\ HostToGhost(x.xform, Skew[n]) = GhostClock(m)
    BY <1>5, <2>2 DEF NetInv, SameSessionSameClock, On
  <2> QED BY <1>1, <1>5, <2>1, <2>2 DEF SharesClock
<1>6. \A k \in Nodes : HostToGhost(e'[k].xform, Skew[k]) =
        IF k = n THEN HostToGhost(x.xform, Skew[n]) ELSE GhostClock(k)
  BY <1>2, <1>3 DEF GhostClock
<1>7. SameSessionSameClock'
  <2> SUFFICES ASSUME NEW k \in Nodes, NEW l \in Nodes, e'[k].enabled, e'[l].enabled,
                      e'[k].sessionId = e'[l].sessionId
               PROVE  HostToGhost(e'[k].xform, Skew[k]) = HostToGhost(e'[l].xform, Skew[l])
    BY DEF SameSessionSameClock, On, GhostClock
  <2>1. CASE k # n /\ l # n
    BY <1>2, <1>6, <2>1 DEF NetInv, SameSessionSameClock, On
  <2>2. CASE k = n /\ l # n
    BY <1>2, <1>3, <1>5, <1>6, <2>2
  <2>3. CASE k # n /\ l = n
    BY <1>2, <1>3, <1>5, <1>6, <2>3
  <2> QED BY <2>1, <2>2, <2>3
<1> QED BY <1>2, <1>4, <1>7

-----------------------------------------------------------------------------
(* Every handler shares its clock.                                          *)

\* A drawn id is the session of no node.
LEMMA DrawsFresh ==
  ASSUME NetworkTypes, NEW n \in Nodes, NEW d \in Draws(n)
  PROVE  /\ d \in DrawSet /\ d.id \notin Taken
         /\ \A k \in Nodes : e[k].sessionId # d.id
<1>1. d.id \in OwnIds[n] /\ d.id \notin Taken /\ d.beat \in Beats /\ d.anchor = 0
      /\ d.now = now + Skew[n]
  BY DEF Draws
<1>2. d \in DrawSet
  <2>1. OwnIds[n] \subseteq Ids /\ Beats \subseteq Int /\ 0 \in Anchors /\ Skew[n] \in Int
    BY LinkNetworkAssumption
  <2>2. now + Skew[n] \in Int
    BY <2>1 DEF NetworkTypes
  <2> QED BY <2>1, <2>2 DEF Draws, DrawSet
<1>3. \A k \in Nodes : InUse(e[k]) \subseteq Taken
  BY DEF Taken
<1>4. \A k \in Nodes : e[k].sessionId \in InUse(e[k])
  BY DEF InUse
<1> QED BY <1>1, <1>2, <1>3, <1>4

\* A handler after which the node has stayed in its session or founded one.
LEMMA StayingEnds ==
  ASSUME NetInv, NEW n \in Nodes, NEW x \in Engines, Handled(n, x), Counted(x),
         x.enabled => e[n].enabled, ~x.enabled => Known(x) = {} /\ x.nbr = 0,
         Stays(e[n], x) \/ \E d \in Draws(n) : Founds(x, d)
  PROVE  HandlerEnds
<1>1. Clamped(e[n])
  BY DEF NetInv, Sound
<1>2. CASE Stays(e[n], x)
  BY <1>1, <1>2 DEF Stays, Sound, SharesClock, HandlerEnds
<1>3. CASE \E d \in Draws(n) : Founds(x, d)
  <2>1. PICK d \in Draws(n) : Founds(x, d)
    BY <1>3
  <2>2. Clamped(x) /\ x.sessionId = d.id
    BY <2>1 DEF Founds
  <2>3. \A k \in Nodes : e[k].sessionId # x.sessionId
    BY <2>2, DrawsFresh DEF NetInv
  <2> QED BY <2>2, <2>3 DEF Sound, SharesClock, HandlerEnds
<1> QED BY <1>2, <1>3

\* ... when a node that is on handles a packet, or recounts.
LEMMA RecountingEnds ==
  ASSUME NetInv, NEW n \in Nodes, NEW x \in Engines, NEW d \in Draws(n),
         Step(n, x) \/ \E m \in Nodes : StepAfter(n, m, x),
         Counted(x), x.enabled = e[n].enabled, ~x.enabled => x = e[n],
         StaysOrFounds(e[n], x, d)
  PROVE  HandlerEnds
<1>1. Handled(n, x)
  BY StepHandled DEF NetInv
<1>2. ~x.enabled => Known(x) = {} /\ x.nbr = 0
  BY DEF NetInv, Sound
<1> QED BY <1>1, <1>2, StayingEnds DEF StaysOrFounds

\* sawPeerState with a message of another node.
LEMMA SawEnds ==
  ASSUME NetInv, NEW n \in Nodes, NEW msg \in Messages, NEW d \in Draws(n), e[n].enabled,
         Step(n, Saw(n, msg, d)) \/ \E m \in Nodes : StepAfter(n, m, Saw(n, msg, d))
  PROVE  HandlerEnds
<1> DEFINE state == [session |-> msg.session, tl |-> msg.tl, ss |-> msg.ss, expired |-> FALSE]
           x == Saw(n, msg, d)
<1>1. state \in PeerStates /\ msg.node \in Ids
  BY DEF PeerStates, Messages
<1>2. e[n] \in Engines /\ Counted(e[n]) /\ d \in DrawSet
  BY DrawsFresh DEF NetInv, NetworkTypes, Sound
<1>3. x = SawPeerState(e[n], msg.node, state, d)
  BY DEF Saw
<1> HIDE DEF state, x
<1>4. x \in Engines /\ Counted(x) /\ x.enabled = e[n].enabled
  BY <1>1, <1>2, <1>3, SawPeerCounts
<1>5. StaysOrFounds(e[n], x, d)
  BY <1>1, <1>2, <1>3, SawPeerStays
<1> QED BY <1>4, <1>5, RecountingEnds DEF x

\* A step after which the members are as they were and the node as it was.
LEMMA QuietEnds ==
  ASSUME NetInv, NEW n \in Nodes, NEW x \in Engines, Handled(n, x),
         Undisturbed(e[n], x), Stays(e[n], x)
  PROVE  HandlerEnds
<1>1. Counted(e[n]) /\ (~e[n].enabled => Known(e[n]) = {} /\ e[n].nbr = 0)
  BY DEF NetInv, Sound
<1>2. Counted(x) /\ x.enabled = e[n].enabled /\ (~x.enabled => Known(x) = {} /\ x.nbr = 0)
  BY <1>1 DEF Undisturbed, Counted
<1> QED BY <1>2, StayingEnds

\* handleSessionMeasurementResult, for either result.
LEMMA MeasurementEndsEnds ==
  ASSUME NetInv, NEW n \in Nodes, NEW s \in Ids, MeasurementEnds(n, s)
  PROVE  HandlerEnds
<1> DEFINE m == Owner(e[n].measuring[s])
           x == [e[n] EXCEPT !.measuring[s] = NoPeer]
           xform == GhostClock(m) - Skew[n]
<1>1. e[n] \in Engines /\ Sound(e[n])
  BY DEF NetInv, NetworkTypes
<1>2. /\ x \in Engines /\ x.nodeId = e[n].nodeId /\ x.sessionId = e[n].sessionId
      /\ x.xform = e[n].xform /\ x.tl = e[n].tl /\ x.ss = e[n].ss /\ x.others = e[n].others
      /\ x.nbr = e[n].nbr /\ x.peers = e[n].peers /\ x.enabled = e[n].enabled
      /\ x.remeasure = e[n].remeasure
  BY <1>1 DEF Engines
<1>3. m \in Nodes
  <2>1. e[n].measuring[s] \in Ids
    BY <1>1 DEF MeasurementEnds, Measured, Engines
  <2>2. \E k \in Nodes : e[n].measuring[s] \in OwnIds[k]
    BY <2>1, LinkNetworkAssumption
  <2> QED BY <2>2 DEF Owner
<1>4. \/ /\ Answers(n, s, m)
         /\ \E d \in Draws(n) : Step(n, SessionMeasured(x, s, xform, d))
      \/ Step(n, SessionMeasurementFailed(x, s))
  BY DEF MeasurementEnds
<1> HIDE DEF x
<1>5. Stays(e[n], x) /\ Undisturbed(e[n], x) /\ Counted(x) /\ Clamped(x)
  BY <1>1, <1>2 DEF Stays, Undisturbed, Sound, Counted, Clamped, Members, InSession, Known, Tracked
<1>6. CASE Step(n, SessionMeasurementFailed(x, s))
  <2> DEFINE y == SessionMeasurementFailed(x, s)
  <2>1. y \in Engines /\ Stays(x, y) /\ Undisturbed(x, y)
    BY <1>2, ForgetType, LaunchStays, FailedQuiet
  <2> HIDE DEF y
  <2>2. Stays(e[n], y)
    BY <1>1, <1>2, <1>5, <2>1, StaysTransitive
  <2>3. Undisturbed(e[n], y)
    BY <1>2, <1>5, <2>1 DEF Undisturbed
  <2>4. Handled(n, y)
    BY <1>6, <2>1, StepHandled DEF NetInv, y
  <2> QED BY <2>1, <2>2, <2>3, <2>4, QuietEnds
<1>7. CASE /\ Answers(n, s, m)
           /\ \E d \in Draws(n) : Step(n, SessionMeasured(x, s, xform, d))
  <2>1. PICK d \in Draws(n) : Step(n, SessionMeasured(x, s, xform, d))
    BY <1>7
  <2>2. e[n].enabled /\ e[m].enabled /\ e[m].sessionId = s
    BY <1>7 DEF Answers
  <2>3. GhostClock(m) \in Int /\ xform \in Int /\ Skew[n] \in Int
    <3>1. e[m] \in Engines
      BY <1>3 DEF NetInv, NetworkTypes
    <3>2. e[m].xform \in Int /\ Skew[n] \in Int /\ Skew[m] \in Int
      BY <1>3, <3>1, LinkNetworkAssumption DEF Engines
    <3> QED BY <3>2 DEF GhostClock, HostToGhost
  <2>4. HostToGhost(xform, Skew[n]) = GhostClock(m)
    BY <2>3 DEF HostToGhost
  <2>5. d \in DrawSet
    BY DrawsFresh DEF NetInv
  <2> DEFINE y == SessionMeasured(x, s, xform, d)
  <2> HIDE DEF m, xform
  <2>6. y \in Engines /\ Counted(y) /\ y.enabled
    BY <1>2, <1>5, <2>2, <2>3, <2>5, MeasuredType, MeasuredCounts
  <2>7. \/ s = x.sessionId /\ Remeasures(x, y, xform)
        \/ /\ s # x.sessionId /\ s \in Tracked(x) /\ SessionWins(x, s, xform)
           /\ Joins(x, y, s, xform) \/ (Founds(y, d) /\ x.nbr # 0)
        \/ s # x.sessionId /\ y = x
    BY <1>2, <2>3, <2>5, MeasuredOutcome
  <2>8. Handled(n, y)
    BY <2>1, <2>6, StepHandled DEF NetInv, y
  <2> HIDE DEF y
  <2>9. CASE Founds(y, d) \/ y = x
    BY <1>5, <2>2, <2>6, <2>8, <2>9, StayingEnds
  <2>10. CASE y.sessionId = s /\ y.xform = xform /\ Clamped(y)
    <3>1. m \in On /\ y.sessionId = e[m].sessionId
      BY <1>3, <2>2, <2>10 DEF On
    <3> QED BY <2>4, <2>6, <2>8, <2>10, <3>1 DEF Sound, SharesClock, HandlerEnds
  <2>11. Remeasures(x, y, xform) \/ Joins(x, y, s, xform) => y.xform = xform /\ Clamped(y)
    BY DEF Remeasures, Joins
  <2>12. /\ s = x.sessionId /\ Remeasures(x, y, xform) => y.sessionId = s
         /\ Joins(x, y, s, xform) => y.sessionId = s
    BY DEF Remeasures, Joins
  <2> QED BY <2>7, <2>9, <2>10, <2>11, <2>12
<1> QED BY <1>4, <1>6, <1>7

\* Every step that moves an engine is a handler that shares its clock; the others
\* leave the engines and what is unread alone.
LEMMA NextEnds ==
  ASSUME NetInv, Next
  PROVE  HandlerEnds \/ UNCHANGED <<e, unread>>
<1>t. NetworkTypes
  BY DEF NetInv
<1>e. \A n \in Nodes : e[n] \in Engines /\ Sound(e[n])
  BY DEF NetInv, NetworkTypes
<1>1. CASE \E n, m \in Nodes : HearAlive(n, m)
  <2>1. PICK n \in Nodes, m \in Nodes : HearAlive(n, m)
    BY <1>1
  <2>2. CASE e[n].enabled
    <3>1. unread[n][m].body \in Messages
      BY <1>t, <2>1 DEF HearAlive, NetworkTypes, Packets
    <3>2. PICK d \in Draws(n) : StepAfter(n, m, Saw(n, unread[n][m].body, d))
      BY <2>1, <2>2 DEF HearAlive
    <3> QED BY <2>2, <3>1, <3>2, SawEnds
  <2>3. CASE ~e[n].enabled
    <3>1. StepAfter(n, m, e[n])
      BY <2>1, <2>3 DEF HearAlive
    <3>2. Handled(n, e[n])
      BY <1>t, <1>e, <3>1, StepHandled
    <3>3. Undisturbed(e[n], e[n]) /\ Stays(e[n], e[n])
      BY QuietlyStays DEF Undisturbed
    <3> QED BY <1>e, <3>2, <3>3, QuietEnds
  <2> QED BY <2>2, <2>3
<1>2. CASE \E n \in Nodes : HearLateResponse(n)
  <2>1. PICK n \in Nodes : HearLateResponse(n)
    BY <1>2
  <2>2. CASE e[n].enabled
    <3>1. late[n] \in Messages
      BY <1>t, <2>1 DEF HearLateResponse, NetworkTypes
    <3>2. PICK d \in Draws(n) : Step(n, Saw(n, late[n], d))
      BY <2>1, <2>2 DEF HearLateResponse
    <3> QED BY <2>2, <3>1, <3>2, SawEnds
  <2>3. CASE ~e[n].enabled
    BY <2>1, <2>3 DEF HearLateResponse
  <2> QED BY <2>2, <2>3
<1>3. CASE \E n, m \in Nodes : HearByeBye(n, m)
  <2>1. PICK n \in Nodes, m \in Nodes : HearByeBye(n, m)
    BY <1>3
  <2>2. unread[n][m].body.node \in Ids
    BY <1>t, <2>1 DEF HearByeBye, NetworkTypes, Packets, Messages
  <2> DEFINE p == unread[n][m].body.node
  <2>3. PICK d \in Draws(n) : StepAfter(n, m, RemovePeer(e[n], p, d))
    BY <2>1 DEF HearByeBye
  <2> HIDE DEF p
  <2> DEFINE x == RemovePeer(e[n], p, d)
  <2>4. p \in Ids /\ d \in DrawSet /\ Counted(e[n]) /\ (~e[n].enabled => Known(e[n]) = {})
    BY <1>t, <1>e, <2>2, DrawsFresh DEF Sound, p
  <2>5. /\ x \in Engines /\ Counted(x) /\ x.enabled = e[n].enabled
        /\ ~x.enabled => x = e[n]
    BY <1>e, <2>4, RemoveCounts
  <2>6. StaysOrFounds(e[n], x, d)
    BY <1>e, <2>4, RemoveStays
  <2> HIDE DEF x
  <2> QED BY <2>3, <2>5, <2>6, RecountingEnds DEF x
<1>4. CASE \E n \in Nodes, id \in Ids : TtlPasses(n, id)
  <2>1. PICK n \in Nodes, id \in Ids : TtlPasses(n, id)
    BY <1>4
  <2>2. e[n].peers[id] \in PeerStates
    BY <1>e, <2>1 DEF TtlPasses, Known, Engines
  <2> DEFINE aged == [e[n].peers[id] EXCEPT !.expired = TRUE]
             x == [e[n] EXCEPT !.peers[id].expired = TRUE]
  <2>3. aged \in PeerStates /\ aged.session = e[n].peers[id].session
    BY <2>2 DEF PeerStates
  <2>4. x = [e[n] EXCEPT !.peers[id] = aged]
    BY <1>e DEF Engines
  <2> HIDE DEF aged, x
  <2>5. /\ x \in Engines /\ x.nbr = e[n].nbr /\ x.enabled = e[n].enabled
        /\ x.others = e[n].others /\ x.sessionId = e[n].sessionId
        /\ x.nodeId = e[n].nodeId /\ x.tl = e[n].tl /\ x.xform = e[n].xform /\ x.ss = e[n].ss
        /\ x.remeasure = e[n].remeasure
        /\ x.peers = [e[n].peers EXCEPT ![id] = aged]
    BY <1>e, <2>2, <2>3, <2>4 DEF Engines
  <2>6. e[n].peers \in [Ids -> PeerStates \cup {NoPeer}]
    BY <1>e DEF Engines
  <2>7. \A q \in Ids : /\ x.peers[q] = NoPeer <=> e[n].peers[q] = NoPeer
                       /\ x.peers[q] # NoPeer => x.peers[q].session = e[n].peers[q].session
    BY <2>2, <2>3, <2>5, <2>6, NoneAssumption
  <2>8. Undisturbed(e[n], x) /\ Stays(e[n], x)
    BY <2>5, <2>7 DEF Undisturbed, Stays, Members, InSession, Known, Tracked, Clamped
  <2>9. Handled(n, x)
    BY <1>t, <2>1, <2>5, StepHandled DEF TtlPasses, x
  <2> QED BY <2>5, <2>8, <2>9, QuietEnds
<1>5. CASE \E n \in Nodes : PruneTicker(n)
  <2>p. PICK n \in Nodes : PruneTicker(n)
    BY <1>5
  <2>1. PICK d \in Draws(n) : Step(n, PrunePeers(e[n], d))
    BY <2>p DEF PruneTicker
  <2> DEFINE x == PrunePeers(e[n], d)
  <2>2. d \in DrawSet /\ Counted(e[n]) /\ (~e[n].enabled => Known(e[n]) = {})
        /\ e[n].nodeId \in Ids
    BY <1>t, <1>e, DrawsFresh DEF Sound, Engines
  <2>3. /\ x \in Engines /\ Counted(x) /\ x.enabled = e[n].enabled
        /\ ~x.enabled => x = e[n]
    BY <1>e, <2>2, PruneCounts
  <2>4. StaysOrFounds(e[n], x, d)
    BY <1>e, <2>2, RemoveStays
  <2> HIDE DEF x
  <2> QED BY <2>1, <2>3, <2>4, RecountingEnds DEF x
<1>6. CASE \E n \in Nodes : BroadcastTicker(n)
  <2>1. PICK n \in Nodes : Step(n, Broadcast(e[n]))
    BY <1>6 DEF BroadcastTicker
  <2>2. /\ Broadcast(e[n]) \in Engines /\ Undisturbed(e[n], Broadcast(e[n]))
        /\ Stays(e[n], Broadcast(e[n]))
    BY <1>e, BroadcastType, BroadcastKeeps, KeepsQuiet, BroadcastAnnounces, QuietlyStays
  <2> QED BY <1>t, <2>1, <2>2, StepHandled, QuietEnds
<1>7. CASE \E n \in Nodes : BroadcastTimerFires(n)
  <2>1. PICK n \in Nodes : BroadcastTimerFires(n)
    BY <1>7
  <2> DEFINE x == [e[n] EXCEPT !.pending = FALSE]
             y == BroadcastNow(x)
  <2>a. e[n] \in Engines
    BY <1>e
  <2>2. x \in Engines /\ Keeps(e[n], x)
    BY <2>a DEF Engines, Keeps
  <2>3. Stays(e[n], x)
    BY <2>a DEF Engines, Stays, Tracked, Clamped
  <2> HIDE DEF x
  <2>4. y \in Engines /\ Keeps(x, y) /\ Stays(x, y)
    BY <2>2, BroadcastType, BroadcastKeeps, BroadcastAnnounces, QuietlyStays
  <2>5. Step(n, y)
    BY <2>1 DEF BroadcastTimerFires, x
  <2> HIDE DEF y
  <2>6. Undisturbed(e[n], y)
    BY <2>2, <2>4, KeepsTransitive, KeepsQuiet
  <2>7. Stays(e[n], y)
    BY <1>e, <2>2, <2>3, <2>4, StaysTransitive
  <2> QED BY <1>t, <2>4, <2>5, <2>6, <2>7, StepHandled, QuietEnds
<1>8. CASE \E n \in Nodes, s \in Ids : MeasurementEnds(n, s)
  BY <1>8, MeasurementEndsEnds
<1>9. CASE \E n \in Nodes, tempo \in NodeTempos, beat \in Beats : SetTempo(n, tempo, beat)
  <2>1. PICK n \in Nodes, tempo \in NodeTempos, beat \in Beats : SetTempo(n, tempo, beat)
    BY <1>9
  <2> DEFINE x == CommitClientTimeline(e[n], tempo, e[n].tl.anchor, beat)
  <2>2. tempo \in Tempos /\ e[n].tl.anchor \in Anchors /\ beat \in Int
    BY <1>e, LinkNetworkAssumption DEF Engines, Timelines
  <2>3. x \in Engines /\ Undisturbed(e[n], x) /\ Stays(e[n], x)
    BY <1>e, <2>2, CommitQuiet, CommitStays DEF Sound
  <2>4. Step(n, x)
    BY <2>1 DEF SetTempo
  <2> HIDE DEF x
  <2> QED BY <1>t, <2>3, <2>4, StepHandled, QuietEnds
<1>10. CASE \E n \in Nodes : EnableLink(n)
  <2>1. PICK n \in Nodes : EnableLink(n)
    BY <1>10
  <2>2. PICK d \in Draws(n) : Step(n, Enable(e[n], d))
    BY <2>1 DEF EnableLink
  <2> DEFINE x == Enable(e[n], d)
  <2>3. e[n].nbr = 0 /\ d \in DrawSet
    BY <1>t, <1>e, <2>1, DrawsFresh DEF EnableLink, Sound
  <2>4. x \in Engines /\ Counted(x) /\ x.enabled /\ Founds(x, d)
    BY <1>e, <2>3, EnableCounts, EnableFounds
  <2> HIDE DEF x
  <2>5. Handled(n, x)
    BY <1>t, <2>2, <2>4, StepHandled DEF x
  <2>6. Clamped(x) /\ x.sessionId = d.id
    BY <2>4 DEF Founds
  <2>7. \A k \in Nodes : e[k].sessionId # x.sessionId
    BY <1>t, <2>6, DrawsFresh
  <2> QED BY <2>4, <2>5, <2>6, <2>7 DEF Sound, SharesClock, HandlerEnds
<1>11. CASE \E n \in Nodes : DisableLink(n)
  <2>1. PICK n \in Nodes : DisableLink(n)
    BY <1>11
  <2> DEFINE x == Disable(e[n])
             packet == [type |-> "ByeBye", body |-> CurrentPeerState(e[n])]
  <2>2. x \in Engines /\ Counted(x) /\ Known(x) = {} /\ x.nbr = 0 /\ Stays(e[n], x)
    BY <1>e, DisableCounts, DisableStays
  <2>3. packet \in Packets
    <3>1. CurrentPeerState(e[n]) \in Messages
      BY <1>e DEF CurrentPeerState, Messages, Engines
    <3> QED BY <3>1 DEF Packets
  <2>4. unread[n] \in [Nodes -> Packets \cup {NoMessage}]
    BY <1>t DEF NetworkTypes
  <2>5. Multicast(n, x, packet, unread[n]) /\ e[n].enabled
    BY <2>1 DEF DisableLink
  <2> HIDE DEF x, packet
  <2>6. Handled(n, x)
    BY <2>3, <2>4, <2>5 DEF Handled
  <2> QED BY <2>2, <2>5, <2>6, StayingEnds
<1>12. CASE Tick
  BY <1>12 DEF Tick
<1> QED
  BY <1>1, <1>2, <1>3, <1>4, <1>5, <1>6, <1>7, <1>8, <1>9, <1>10, <1>11, <1>12 DEF Next

-----------------------------------------------------------------------------
(* The invariant.                                                           *)

\* The engine of n when New returns with Enabled set, having drawn that id.
Started(n, id) ==
  Enable(NewEngine(n, StartTempo[n]), [id |-> id, beat |-> 0, anchor |-> 0, now |-> Skew[n]])

\* A node starts in a session of its own.
LEMMA StartedFounds ==
  ASSUME NEW n \in Nodes, NEW id \in StartIds[n]
  PROVE  /\ Started(n, id) \in Engines /\ Sound(Started(n, id))
         /\ Started(n, id).sessionId = id
<1> DEFINE d == [id |-> id, beat |-> 0, anchor |-> 0, now |-> Skew[n]]
           x == NewEngine(n, StartTempo[n])
           y == Enable(x, d)
<1>1. d \in DrawSet
  BY LinkNetworkAssumption DEF DrawSet
<1>2. StartTempo[n] \in Tempos
  BY LinkNetworkAssumption
<1>3. x \in Engines /\ x.nbr = 0
  BY <1>2, NewEngineType
<1>4. d.id = id
  OBVIOUS
<1> HIDE DEF x, d
<1>5. y \in Engines /\ Counted(y) /\ y.enabled /\ Founds(y, d)
  BY <1>1, <1>3, EnableCounts, EnableFounds
<1>6. y = Started(n, id)
  BY DEF Started, x, d
<1> HIDE DEF y
<1> QED BY <1>4, <1>5, <1>6 DEF Founds, Sound

\* The invariant holds when all nodes have started.
LEMMA InitInv == Init => NetInv
<1> SUFFICES ASSUME Init PROVE NetInv
  OBVIOUS
<1>1. PICK id \in [Nodes -> Ids] :
        /\ \A n \in Nodes : id[n] \in StartIds[n]
        /\ e = [n \in Nodes |-> Rested(n, Started(n, id[n]))]
        /\ unread = [n \in Nodes |-> [m \in Nodes |->
                       IF m = n THEN NoMessage ELSE Announced(Started(m, id[m]))]]
  BY DEF Init, Started
<1>2. \A n \in Nodes : /\ Started(n, id[n]) \in Engines /\ Sound(Started(n, id[n]))
                       /\ Started(n, id[n]).sessionId = id[n]
  BY <1>1, StartedFounds
<1>3. \A n \in Nodes : e[n] \in Engines /\ Sound(e[n]) /\ e[n].sessionId = id[n]
  BY <1>1, <1>2, RestedKeeps
<1>4. \A n \in Nodes : Announced(Started(n, id[n])) \in Packets \cup {NoMessage}
  BY <1>2, AnnouncedType
<1>5. NetworkTypes
  <2>1. e \in [Nodes -> Engines]
    BY <1>1, <1>3
  <2>2. unread \in [Nodes -> [Nodes -> Packets \cup {NoMessage}]]
    BY <1>1, <1>4
  <2>3. MaxSpent \in Nat
    BY LinkNetworkAssumption
  <2>4. now = 0 /\ late = [n \in Nodes |-> NoMessage] /\ commands = 0 /\ spent = 0
    BY DEF Init
  <2> QED BY <2>1, <2>2, <2>3, <2>4 DEF NetworkTypes
<1>6. \A m, n \in Nodes : m # n => e[m].sessionId # e[n].sessionId
  <2>1. \A n \in Nodes : id[n] \in OwnIds[n]
    BY <1>1, LinkNetworkAssumption
  <2>2. \A m, n \in Nodes : m # n => OwnIds[m] \cap OwnIds[n] = {}
    BY LinkNetworkAssumption
  <2>3. \A n \in Nodes : e[n].sessionId = id[n]
    BY <1>3
  <2> QED BY <2>1, <2>2, <2>3
<1>7. SameSessionSameClock
  BY <1>6 DEF SameSessionSameClock, On
<1> QED BY <1>3, <1>5, <1>7 DEF NetInv

\* What a step does to the rest of the network has its type.
LEMMA RestTypes ==
  ASSUME NetInv, [Next]_vars
  PROVE  /\ late' \in [Nodes -> Messages \cup {NoMessage}]
         /\ spent' \in 0 .. MaxSpent /\ commands' \in 0 .. spent' /\ now' \in Nat
<1>t. /\ late \in [Nodes -> Messages \cup {NoMessage}] /\ MaxSpent \in Nat /\ MissCost \in Nat
      /\ spent \in 0 .. MaxSpent /\ commands \in 0 .. spent /\ now \in Nat
      /\ Instants \subseteq Nat
  BY LinkNetworkAssumption DEF NetInv, NetworkTypes
<1>p. Missed => spent' \in 0 .. MaxSpent /\ commands \in 0 .. spent'
  BY <1>t DEF Missed, Spend
<1>c. Command => late' = late /\ spent' \in 0 .. MaxSpent /\ commands' \in 0 .. spent' /\ now' = now
  BY <1>t DEF Command, Spend
<1>1. CASE \E n, m \in Nodes : HearAlive(n, m)
  <2>1. PICK n \in Nodes, m \in Nodes : HearAlive(n, m)
    BY <1>1
  <2>2. UNCHANGED commands /\ UNCHANGED now
    BY <2>1 DEF HearAlive
  <2>3. CASE UNCHANGED <<late, spent>>
    BY <1>t, <2>2, <2>3
  <2>4. CASE ~UNCHANGED <<late, spent>>
    <3>1. e[n].enabled
      BY <2>1, <2>4 DEF HearAlive
    <3>2. PICK d \in Draws(n) :
            Missed /\ late' = [late EXCEPT ![m] = CurrentPeerState(Saw(n, unread[n][m].body, d))]
      BY <2>1, <2>4, <3>1 DEF HearAlive
    <3> DEFINE msg == unread[n][m].body
               state == [session |-> msg.session, tl |-> msg.tl, ss |-> msg.ss, expired |-> FALSE]
               x == Saw(n, msg, d)
    <3>3. msg \in Messages
      BY <2>1 DEF HearAlive, NetInv, NetworkTypes, Packets
    <3>4. state \in PeerStates /\ msg.node \in Ids
      BY <3>3 DEF PeerStates, Messages
    <3>5. x = SawPeerState(e[n], msg.node, state, d)
      BY DEF Saw
    <3>6. e[n] \in Engines /\ Counted(e[n]) /\ d \in DrawSet
      BY DrawsFresh DEF NetInv, NetworkTypes, Sound
    <3> HIDE DEF state, msg, x
    <3>7. x \in Engines
      BY <3>4, <3>5, <3>6, SawPeerCounts
    <3>8. CurrentPeerState(x) \in Messages
      BY <3>7 DEF CurrentPeerState, Messages, Engines
    <3>9. late' \in [Nodes -> Messages \cup {NoMessage}]
      BY <1>t, <3>2, <3>8 DEF x, msg
    <3> QED BY <1>t, <1>p, <2>2, <3>2, <3>9
  <2> QED BY <2>3, <2>4
<1>2. CASE \E n \in Nodes : HearLateResponse(n)
  BY <1>t, <1>2 DEF HearLateResponse
<1>3. CASE \E n, m \in Nodes : HearByeBye(n, m)
  BY <1>t, <1>3 DEF HearByeBye
<1>4. CASE \E n \in Nodes, id \in Ids : TtlPasses(n, id)
  <2>1. UNCHANGED spent \/ Missed
    BY <1>4 DEF TtlPasses
  <2> QED BY <1>t, <1>p, <1>4, <2>1 DEF TtlPasses
<1>5. CASE \E n \in Nodes : PruneTicker(n)
  BY <1>t, <1>5 DEF PruneTicker
<1>6. CASE \E n \in Nodes : BroadcastTicker(n)
  BY <1>t, <1>6 DEF BroadcastTicker
<1>7. CASE \E n \in Nodes : BroadcastTimerFires(n)
  BY <1>t, <1>7 DEF BroadcastTimerFires
<1>8. CASE \E n \in Nodes, s \in Ids : MeasurementEnds(n, s)
  BY <1>t, <1>8 DEF MeasurementEnds
<1>9. CASE Command
  BY <1>t, <1>c, <1>9
<1>10. CASE Tick
  BY <1>t, <1>10 DEF Tick
<1>11. CASE UNCHANGED vars
  BY <1>t, <1>11 DEF vars
<1> QED
  BY <1>1, <1>2, <1>3, <1>4, <1>5, <1>6, <1>7, <1>8, <1>9, <1>10, <1>11
     DEF Next, SetTempo, EnableLink, DisableLink

\* Every step keeps the invariant.
LEMMA NextInv == NetInv /\ [Next]_vars => NetInv'
<1> SUFFICES ASSUME NetInv, [Next]_vars PROVE NetInv'
  OBVIOUS
<1>1. HandlerEnds \/ UNCHANGED <<e, unread>>
  BY NextEnds DEF vars
<1>2. /\ e' \in [Nodes -> Engines]
      /\ unread' \in [Nodes -> [Nodes -> Packets \cup {NoMessage}]]
      /\ \A n \in Nodes : Sound(e[n])'
      /\ SameSessionSameClock'
  <2>1. CASE HandlerEnds
    BY <2>1, HandlerEndsInv
  <2>2. CASE UNCHANGED <<e, unread>>
    BY <2>2 DEF NetInv, NetworkTypes, SameSessionSameClock, On, GhostClock
  <2> QED BY <1>1, <2>1, <2>2
<1>3. NetworkTypes'
  BY <1>2, RestTypes DEF NetworkTypes
<1> QED BY <1>2, <1>3 DEF NetInv

\* Every engine, every packet on its way and every counter of the network keeps
\* its type (engine.go:110, payload.go:9).
THEOREM NetworkTypeCorrect == Spec => []NetworkTypes
<1>1. Spec => []NetInv
  BY InitInv, NextInv, PTL DEF Spec
<1> QED BY <1>1, PTL DEF NetInv

\* Enabled nodes that say they are in one session read the same ghost time at the
\* same moment, for every number of nodes, whatever the skew of their clocks and
\* whatever was lost, late or missed (handleSessionMeasurementResult,
\* engine.go:544).
THEOREM SessionsShareTheirClock == Spec => []SameSessionSameClock
<1>1. Spec => []NetInv
  BY InitInv, NextInv, PTL DEF Spec
<1> QED BY <1>1, PTL DEF NetInv

-----------------------------------------------------------------------------
(* The timelines of the sessions.  An origin can identify the timeline of a *)
(* session only among all timelines that still circulate: those a node      *)
(* has, has heard of, or will hear of when it reads a packet.               *)

Circulates(s, tl) ==
  \/ \E n \in Nodes : s = e[n].sessionId /\ tl = e[n].tl
  \/ \E n \in Nodes : \E p \in Known(e[n]) : s = e[n].peers[p].session /\ tl = e[n].peers[p].tl
  \/ \E n \in Nodes : s \in Tracked(e[n]) /\ tl = e[n].others[s]
  \/ \E n \in Nodes : late[n] # NoMessage /\ s = late[n].session /\ tl = late[n].tl
  \/ \E n, m \in Nodes : /\ unread[n][m] # NoMessage
                         /\ s = unread[n][m].body.session /\ tl = unread[n][m].body.tl

Circulating == {c \in Ids \X Timelines : Circulates(c[1], c[2])}

\* Before the first command a session has one timeline; after it, at most one for
\* each origin.
OriginInv ==
  /\ \A n \in Nodes : e[n].sent = NoMessage
  /\ InRange(Circulating)
  /\ commands = 0 => \A c, d \in Circulating : c[1] = d[1] => c[2] = d[2]
  /\ commands <= 1 =>
       \A c, d \in Circulating : c[1] = d[1] /\ c[2].origin = d[2].origin => c[2] = d[2]

\* n ends a handler as x, and only pairs of D are left in it and in what it sent.
Spreads(n, x, D) ==
  /\ \E packet \in Packets \cup {NoMessage}, read \in [Nodes -> Packets \cup {NoMessage}] :
       /\ Multicast(n, x, packet, read)
       /\ packet # NoMessage => <<packet.body.session, packet.body.tl>> \in D
       /\ \A m \in Nodes : read[m] \in {NoMessage, unread[n][m]}
  /\ Carries(x, D)
  /\ \A k \in Nodes : \/ late'[k] \in {NoMessage, late[k]}
                      \/ <<late'[k].session, late'[k].tl>> \in D

\* One timeline may come into the world: the first of a session nobody knows, or,
\* by a command, a later one of the node's session.
NewTimeline(n, s, tl) ==
  /\ ClampTempo(tl) = tl /\ commands' \in Nat /\ commands' >= commands
  /\ \/ \A c \in Circulating : c[1] # s
     \/ /\ s = e[n].sessionId
        /\ \/ tl = e[n].tl
           \/ commands' = commands + 1 /\ tl.origin > e[n].tl.origin

TimelinesSpread ==
  \E n \in Nodes, x \in Engines, s \in Ids, tl \in Timelines :
    Spreads(n, x, Circulating \cup {<<s, tl>>}) /\ NewTimeline(n, s, tl)

\* All that a node or a packet carries circulates, and its session is taken.
LEMMA CirculatingHolds ==
  ASSUME NetworkTypes, \A n \in Nodes : e[n].sent = NoMessage
  PROVE  /\ \A n \in Nodes : Carries(e[n], Circulating)
         /\ \A n \in Nodes : late[n] # NoMessage => <<late[n].session, late[n].tl>> \in Circulating
         /\ \A n, m \in Nodes : unread[n][m] # NoMessage =>
              <<unread[n][m].body.session, unread[n][m].body.tl>> \in Circulating
         /\ \A c \in Circulating : c[1] \in Taken
<1>1. \A s \in Ids, tl \in Timelines : Circulates(s, tl) => <<s, tl>> \in Circulating
  BY DEF Circulating
<1>2. ASSUME NEW n \in Nodes PROVE Carries(e[n], Circulating)
  <2>1. e[n] \in Engines
    BY DEF NetworkTypes
  <2>2. <<e[n].sessionId, e[n].tl>> \in Circulating
    BY <1>1, <2>1 DEF Circulates, Engines
  <2>3. ASSUME NEW p \in Known(e[n])
        PROVE  <<e[n].peers[p].session, e[n].peers[p].tl>> \in Circulating
    <3>1. e[n].peers[p] \in PeerStates
      BY <2>1 DEF Known, Engines
    <3>2. Circulates(e[n].peers[p].session, e[n].peers[p].tl)
      BY DEF Circulates
    <3> QED BY <1>1, <3>1, <3>2 DEF PeerStates
  <2>4. ASSUME NEW s \in Tracked(e[n]) PROVE <<s, e[n].others[s]>> \in Circulating
    <3>1. s \in Ids /\ e[n].others[s] \in Timelines
      BY <2>1 DEF Tracked, Engines
    <3>2. Circulates(s, e[n].others[s])
      BY DEF Circulates
    <3> QED BY <1>1, <3>1, <3>2
  <2> QED BY <2>2, <2>3, <2>4 DEF Carries, Brings
<1>3. ASSUME NEW n \in Nodes, late[n] # NoMessage
      PROVE  <<late[n].session, late[n].tl>> \in Circulating
  <2>1. late[n].session \in Ids /\ late[n].tl \in Timelines
    BY <1>3 DEF NetworkTypes, Messages
  <2>2. Circulates(late[n].session, late[n].tl)
    BY <1>3 DEF Circulates
  <2> QED BY <1>1, <2>1, <2>2
<1>4. ASSUME NEW n \in Nodes, NEW m \in Nodes, unread[n][m] # NoMessage
      PROVE  <<unread[n][m].body.session, unread[n][m].body.tl>> \in Circulating
  <2>1. unread[n][m].body.session \in Ids /\ unread[n][m].body.tl \in Timelines
    BY <1>4 DEF NetworkTypes, Packets, Messages
  <2>2. Circulates(unread[n][m].body.session, unread[n][m].body.tl)
    BY <1>4 DEF Circulates
  <2> QED BY <1>1, <2>1, <2>2
<1>5. ASSUME NEW c \in Circulating PROVE c[1] \in Taken
  <2> DEFINE read == {v \in Nodes \X Nodes : unread[v[1]][v[2]] # NoMessage}
             bodies == {late[n] : n \in {k \in Nodes : late[k] # NoMessage}}
                          \cup {unread[w[1]][w[2]].body : w \in read}
             used   == {InUse(e[n]) : n \in Nodes}
             told   == {{msg.node, msg.session} : msg \in bodies}
  <2>1. Taken = (UNION used) \cup UNION told
    BY DEF Taken
  <2>u. \A n \in Nodes : InUse(e[n]) \in used
    OBVIOUS
  <2>m. \A b \in bodies : {b.node, b.session} \in told
    <3> HIDE DEF bodies
    <3> QED OBVIOUS
  <2> HIDE DEF used, told
  <2>2. \A n \in Nodes : InUse(e[n]) \subseteq Taken
    <3> HIDE DEF bodies
    <3> QED BY <2>1, <2>u
  <2>3. \A b \in bodies : b.session \in Taken
    <3> HIDE DEF bodies
    <3> QED BY <2>1, <2>m
  <2>4. \A n \in Nodes : late[n] # NoMessage => late[n] \in bodies
    OBVIOUS
  <2>5. ASSUME NEW n \in Nodes, NEW m \in Nodes, unread[n][m] # NoMessage
        PROVE  unread[n][m].body \in bodies
    <3>1. <<n, m>> \in read
      BY <2>5
    <3>2. unread[<<n, m>>[1]][<<n, m>>[2]].body \in bodies
      BY <3>1
    <3> QED BY <3>2
  <2> HIDE DEF bodies
  <2>6. Circulates(c[1], c[2])
    BY DEF Circulating
  <2>7. \A n \in Nodes : e[n].sessionId \in Taken /\ (\A s \in Tracked(e[n]) : s \in Taken)
                         /\ (\A p \in Known(e[n]) : e[n].peers[p].session \in Taken)
    BY <2>2 DEF InUse
  <2> QED BY <2>3, <2>4, <2>5, <2>6, <2>7 DEF Circulates
<1> QED BY <1>2, <1>3, <1>4, <1>5

\* What circulates after a handler is what it spread.
LEMMA SpreadCirculates ==
  ASSUME NetworkTypes, \A n \in Nodes : e[n].sent = NoMessage,
         NEW n \in Nodes, NEW x \in Engines, NEW D, Circulating \subseteq D, Spreads(n, x, D)
  PROVE  /\ Circulating' \subseteq D
         /\ \A k \in Nodes : e'[k].sent = NoMessage
<1>1. PICK packet \in Packets \cup {NoMessage}, read \in [Nodes -> Packets \cup {NoMessage}] :
       /\ Multicast(n, x, packet, read)
       /\ packet # NoMessage => <<packet.body.session, packet.body.tl>> \in D
       /\ \A m \in Nodes : read[m] \in {NoMessage, unread[n][m]}
  BY DEF Spreads
<1>2. /\ e'[n] = Rested(n, x)
      /\ \A k \in Nodes \ {n} : e'[k] = e[k]
  BY <1>1, HandledEngines DEF Handled
<1>3. /\ e'[n].sessionId = x.sessionId /\ e'[n].tl = x.tl /\ e'[n].peers = x.peers
      /\ e'[n].others = x.others /\ e'[n].sent = NoMessage
  BY <1>2, RestedKeeps
<1>4. Carries(e'[n], D)
  BY <1>3 DEF Spreads, Carries, Brings, Known, Tracked
<1>5. \A k \in Nodes : Carries(e'[k], D)
  BY <1>2, <1>4, CirculatingHolds, CarriesMore
<1>6. \A k \in Nodes : late'[k] # NoMessage => <<late'[k].session, late'[k].tl>> \in D
  BY CirculatingHolds DEF Spreads
<1>7. ASSUME NEW k \in Nodes, NEW m \in Nodes, unread'[k][m] # NoMessage
      PROVE  <<unread'[k][m].body.session, unread'[k][m].body.tl>> \in D
  <2>1. unread[k] \in [Nodes -> Packets \cup {NoMessage}]
    BY DEF NetworkTypes
  <2>2. \/ unread'[k][m] = unread[k][m]
        \/ unread'[k][m] = packet
        \/ k = n /\ unread'[k][m] = read[m]
    BY <1>1, <2>1 DEF Multicast
  <2>3. k = n => read[m] \in {NoMessage, unread[k][m]}
    BY <1>1
  <2>4. unread[k][m] # NoMessage =>
          <<unread[k][m].body.session, unread[k][m].body.tl>> \in D
    BY CirculatingHolds
  <2> QED BY <1>1, <1>7, <2>2, <2>3, <2>4
<1>8. ASSUME NEW c \in Circulating' PROVE c \in D
  <2>1. c = <<c[1], c[2]>> /\ Circulates(c[1], c[2])'
    BY DEF Circulating
  <2>2. CASE \E k \in Nodes : c[1] = e'[k].sessionId /\ c[2] = e'[k].tl
    BY <1>5, <2>1, <2>2 DEF Carries
  <2>3. CASE \E k \in Nodes : \E p \in Known(e'[k]) :
               c[1] = e'[k].peers[p].session /\ c[2] = e'[k].peers[p].tl
    BY <1>5, <2>1, <2>3 DEF Carries, Brings
  <2>4. CASE \E k \in Nodes : c[1] \in Tracked(e'[k]) /\ c[2] = e'[k].others[c[1]]
    BY <1>5, <2>1, <2>4 DEF Carries, Brings
  <2>5. CASE \E k \in Nodes : late'[k] # NoMessage /\ c[1] = late'[k].session /\ c[2] = late'[k].tl
    BY <1>6, <2>1, <2>5
  <2>6. CASE \E k, m \in Nodes : /\ unread'[k][m] # NoMessage
                                 /\ c[1] = unread'[k][m].body.session
                                 /\ c[2] = unread'[k][m].body.tl
    BY <1>7, <2>1, <2>6
  <2> QED BY <2>1, <2>2, <2>3, <2>4, <2>5, <2>6 DEF Circulates
<1>9. \A k \in Nodes : e'[k].sent = NoMessage
  BY <1>2, <1>3
<1> QED BY <1>8, <1>9

\* A timeline that comes into the world like that keeps the invariant.
LEMMA SpreadKeepsOrigins ==
  ASSUME NetInv, OriginInv, TimelinesSpread
  PROVE  OriginInv'
<1>1. PICK n \in Nodes, x \in Engines, s \in Ids, tl \in Timelines :
         Spreads(n, x, Circulating \cup {<<s, tl>>}) /\ NewTimeline(n, s, tl)
  BY DEF TimelinesSpread
<1> DEFINE new == <<s, tl>>
           D == Circulating \cup {new}
<1>2. Circulating' \subseteq D /\ \A k \in Nodes : e'[k].sent = NoMessage
  BY <1>1, SpreadCirculates DEF NetInv, OriginInv
<1>3. <<e[n].sessionId, e[n].tl>> \in Circulating
  BY CirculatingHolds DEF NetInv, OriginInv, Carries
<1>4. new[1] = s /\ new[2] = tl
  OBVIOUS
<1>5. commands \in Nat /\ commands' \in Nat /\ commands' >= commands /\ ClampTempo(tl) = tl
  BY <1>1 DEF NetInv, NetworkTypes, NewTimeline
<1>6. e[n].tl.origin \in Int /\ tl.origin \in Int
  BY DEF NetInv, NetworkTypes, Engines, Timelines
<1> HIDE DEF new
<1>7. InRange(Circulating')
  BY <1>2, <1>4, <1>5 DEF InRange, OriginInv
<1>8. ASSUME commands' = 0, NEW c \in D, NEW d \in D, c[1] = d[1] PROVE c[2] = d[2]
  <2>1. commands = 0 /\ \A a, b \in Circulating : a[1] = b[1] => a[2] = b[2]
    BY <1>5, <1>8 DEF OriginInv
  <2>2. \A a \in Circulating : a[1] = s => a[2] = tl
    <3>1. (\A a \in Circulating : a[1] # s) \/ (s = e[n].sessionId /\ tl = e[n].tl)
      BY <1>1, <1>8, <2>1 DEF NewTimeline
    <3> QED BY <1>3, <2>1, <3>1
  <2> QED BY <1>4, <1>8, <2>1, <2>2
<1>9. ASSUME commands' <= 1, NEW c \in D, NEW d \in D, c[1] = d[1], c[2].origin = d[2].origin
      PROVE  c[2] = d[2]
  <2>1. /\ commands <= 1
        /\ \A a, b \in Circulating : a[1] = b[1] /\ a[2].origin = b[2].origin => a[2] = b[2]
    BY <1>5, <1>9 DEF OriginInv
  <2>2. \A a \in Circulating : a[1] = s /\ a[2].origin = tl.origin => a[2] = tl
    <3>1. CASE \A a \in Circulating : a[1] # s
      BY <3>1
    <3>2. CASE s = e[n].sessionId /\ tl = e[n].tl
      BY <1>3, <2>1, <3>2
    <3>3. CASE s = e[n].sessionId /\ commands' = commands + 1 /\ tl.origin > e[n].tl.origin
      <4>1. commands = 0 /\ \A a, b \in Circulating : a[1] = b[1] => a[2] = b[2]
        BY <1>5, <1>9, <3>3 DEF OriginInv
      <4>2. \A a \in Circulating : a[1] = s => a[2] = e[n].tl
        BY <1>3, <3>3, <4>1
      <4> QED BY <1>6, <3>3, <4>2
    <3> QED BY <1>1, <3>1, <3>2, <3>3 DEF NewTimeline
  <2> QED BY <1>4, <1>9, <2>1, <2>2
<1>10. Circulating' \subseteq D
  BY <1>2
<1> HIDE DEF D
<1> QED BY <1>2, <1>7, <1>8, <1>9, <1>10 DEF OriginInv

\* The two ways a handler ends, when it answers nobody late.
LEMMA StepSpreads ==
  ASSUME NetworkTypes, NEW n \in Nodes, NEW x \in Engines, NEW D, Carries(x, D),
         Step(n, x) \/ \E m \in Nodes : StepAfter(n, m, x),
         \A k \in Nodes : \/ late'[k] \in {NoMessage, late[k]}
                          \/ <<late'[k].session, late'[k].tl>> \in D
  PROVE  Spreads(n, x, D)
<1> DEFINE packet == Announced(x)
<1>1. packet \in Packets \cup {NoMessage}
  BY AnnouncedType
<1>2. packet # NoMessage => <<packet.body.session, packet.body.tl>> \in D
  BY DEF Announced, Carries, Brings
<1> HIDE DEF packet
<1>3. unread[n] \in [Nodes -> Packets \cup {NoMessage}]
  BY DEF NetworkTypes
<1>4. CASE Step(n, x)
  <2>1. Multicast(n, x, packet, unread[n])
    BY <1>4 DEF Step, packet
  <2> QED BY <1>1, <1>2, <1>3, <2>1 DEF Spreads
<1>5. CASE \E m \in Nodes : StepAfter(n, m, x)
  <2>1. PICK m \in Nodes : StepAfter(n, m, x)
    BY <1>5
  <2> DEFINE read == [unread[n] EXCEPT ![m] = NoMessage]
  <2>2. /\ read \in [Nodes -> Packets \cup {NoMessage}]
        /\ \A k \in Nodes : read[k] \in {NoMessage, unread[n][k]}
    BY <1>3
  <2>3. Multicast(n, x, packet, read)
    BY <2>1 DEF StepAfter, packet
  <2> HIDE DEF read
  <2> QED BY <1>1, <1>2, <2>2, <2>3 DEF Spreads
<1> QED BY <1>4, <1>5

\* A handler that may found a session brings one timeline into the world at most.
LEMMA FoundingSpreads ==
  ASSUME NetInv, OriginInv, NEW n \in Nodes, NEW x \in Engines, NEW d \in Draws(n), Clamped(x),
         Carries(x, Circulating \cup {<<d.id, x.tl>>}),
         Step(n, x) \/ \E m \in Nodes : StepAfter(n, m, x),
         \A k \in Nodes : \/ late'[k] \in {NoMessage, late[k]}
                          \/ late'[k] = CurrentPeerState(x),
         commands' \in Nat, commands' >= commands
  PROVE  TimelinesSpread
<1> DEFINE D == Circulating \cup {<<d.id, x.tl>>}
<1>1. \A k \in Nodes : \/ late'[k] \in {NoMessage, late[k]}
                       \/ <<late'[k].session, late'[k].tl>> \in D
  BY DEF CurrentPeerState, Carries
<1>2. Carries(x, D)
  OBVIOUS
<1> HIDE DEF D
<1>3. Spreads(n, x, D)
  BY <1>1, <1>2, StepSpreads DEF NetInv
<1>4. \A c \in Circulating : c[1] # d.id
  BY DrawsFresh, CirculatingHolds DEF NetInv, OriginInv
<1>5. d.id \in Ids /\ x.tl \in Timelines
  BY DrawsFresh DEF NetInv, DrawSet, Engines
<1>6. NewTimeline(n, d.id, x.tl)
  BY <1>4 DEF NewTimeline, Clamped
<1> QED BY <1>3, <1>5, <1>6 DEF TimelinesSpread, D

\* A handler that founds none brings none into the world.
LEMMA StayingSpreads ==
  ASSUME NetInv, OriginInv, NEW n \in Nodes, NEW x \in Engines, Carries(x, Circulating),
         Step(n, x) \/ \E m \in Nodes : StepAfter(n, m, x),
         \A k \in Nodes : late'[k] \in {NoMessage, late[k]},
         UNCHANGED commands
  PROVE  TimelinesSpread
<1> DEFINE own == <<e[n].sessionId, e[n].tl>>
           D   == Circulating \cup {own}
<1>1. Spreads(n, x, D)
  BY CarriesMore, StepSpreads DEF NetInv
<1>2. e[n].sessionId \in Ids /\ e[n].tl \in Timelines /\ Clamped(e[n]) /\ commands \in Nat
  BY DEF NetInv, NetworkTypes, Sound, Engines
<1>3. NewTimeline(n, e[n].sessionId, e[n].tl)
  BY <1>2 DEF NewTimeline, Clamped
<1> QED BY <1>1, <1>2, <1>3 DEF TimelinesSpread

\* sawPeerState with a message that circulates.
LEMMA SawSpreads ==
  ASSUME NetInv, OriginInv, NEW n \in Nodes, NEW msg \in Messages, NEW d \in Draws(n),
         <<msg.session, msg.tl>> \in Circulating, e[n].enabled,
         Step(n, Saw(n, msg, d)) \/ \E m \in Nodes : StepAfter(n, m, Saw(n, msg, d)),
         \A k \in Nodes : \/ late'[k] \in {NoMessage, late[k]}
                          \/ late'[k] = CurrentPeerState(Saw(n, msg, d)),
         UNCHANGED commands
  PROVE  TimelinesSpread
<1> DEFINE state == [session |-> msg.session, tl |-> msg.tl, ss |-> msg.ss, expired |-> FALSE]
           x == Saw(n, msg, d)
<1>1. state \in PeerStates /\ msg.node \in Ids /\ <<state.session, state.tl>> \in Circulating
  BY DEF PeerStates, Messages
<1>2. e[n] \in Engines /\ Counted(e[n]) /\ Clamped(e[n]) /\ d \in DrawSet /\ commands \in Nat
  BY DrawsFresh DEF NetInv, NetworkTypes, Sound
<1>3. x = SawPeerState(e[n], msg.node, state, d)
  BY DEF Saw
<1>4. Carries(e[n], Circulating) /\ InRange(Circulating)
  BY CirculatingHolds DEF NetInv, OriginInv
<1> HIDE DEF state, x
<1>5. x \in Engines /\ Carries(x, Circulating \cup {<<d.id, x.tl>>})
  BY <1>1, <1>2, <1>3, <1>4, SawPeerCounts, SawPeerCarries
<1>6. Clamped(x)
  <2>1. StaysOrFounds(e[n], x, d)
    BY <1>1, <1>2, <1>3, SawPeerStays
  <2> QED BY <1>2, <2>1 DEF StaysOrFounds, Stays, Founds
<1> QED BY <1>2, <1>5, <1>6, FoundingSpreads DEF x

\* handleSessionMeasurementResult, for either result.
LEMMA MeasurementSpreads ==
  ASSUME NetInv, OriginInv, NEW n \in Nodes, NEW s \in Ids, MeasurementEnds(n, s)
  PROVE  TimelinesSpread
<1> DEFINE m == Owner(e[n].measuring[s])
           x == [e[n] EXCEPT !.measuring[s] = NoPeer]
           xform == GhostClock(m) - Skew[n]
<1>1. e[n] \in Engines /\ Clamped(e[n]) /\ Carries(e[n], Circulating) /\ InRange(Circulating)
      /\ commands \in Nat
  BY CirculatingHolds DEF NetInv, NetworkTypes, OriginInv, Sound
<1>2. /\ x \in Engines /\ x.sessionId = e[n].sessionId /\ x.tl = e[n].tl
      /\ x.others = e[n].others /\ x.peers = e[n].peers /\ x.sent = e[n].sent
  BY <1>1 DEF Engines
<1>3. m \in Nodes
  <2>1. e[n].measuring[s] \in Ids
    BY <1>1 DEF MeasurementEnds, Measured, Engines
  <2>2. \E k \in Nodes : e[n].measuring[s] \in OwnIds[k]
    BY <2>1, LinkNetworkAssumption
  <2> QED BY <2>2 DEF Owner
<1>4. /\ \/ \E d \in Draws(n) : Step(n, SessionMeasured(x, s, xform, d))
         \/ Step(n, SessionMeasurementFailed(x, s))
      /\ UNCHANGED late /\ UNCHANGED commands
  BY DEF MeasurementEnds
<1>5. xform \in Int
  <2>1. e[m] \in Engines
    BY <1>3 DEF NetInv, NetworkTypes
  <2>2. e[m].xform \in Int /\ Skew[n] \in Int /\ Skew[m] \in Int
    BY <1>3, <2>1, LinkNetworkAssumption DEF Engines
  <2> QED BY <2>2 DEF GhostClock, HostToGhost
<1> HIDE DEF x, m, xform
<1>6. Carries(x, Circulating) /\ Clamped(x)
  BY <1>1, <1>2 DEF Carries, Brings, Known, Tracked, Clamped
<1>7. CASE Step(n, SessionMeasurementFailed(x, s))
  <2> DEFINE y == SessionMeasurementFailed(x, s)
  <2>1. y \in Engines /\ Carries(y, Circulating)
    BY <1>2, <1>6, ForgetType, LaunchCarries
  <2>2. Step(n, y)
    BY <1>7
  <2> HIDE DEF y
  <2> QED BY <1>4, <2>1, <2>2, StayingSpreads
<1>8. CASE \E d \in Draws(n) : Step(n, SessionMeasured(x, s, xform, d))
  <2>1. PICK d \in Draws(n) : Step(n, SessionMeasured(x, s, xform, d))
    BY <1>8
  <2>2. d \in DrawSet
    BY DrawsFresh DEF NetInv
  <2> DEFINE y == SessionMeasured(x, s, xform, d)
  <2>3. y \in Engines /\ Carries(y, Circulating \cup {<<d.id, y.tl>>})
    BY <1>1, <1>2, <1>5, <1>6, <2>2, MeasuredType, MeasuredCarries
  <2>4. \/ Remeasures(x, y, xform) \/ Joins(x, y, s, xform)
        \/ Founds(y, d) \/ y = x
    BY <1>2, <1>5, <2>2, MeasuredOutcome
  <2>5. Step(n, y)
    BY <2>1
  <2> HIDE DEF y
  <2>6. Clamped(y)
    BY <1>6, <2>4 DEF Remeasures, Joins, Founds
  <2> QED BY <1>1, <1>4, <2>3, <2>5, <2>6, FoundingSpreads
<1> QED BY <1>4, <1>7, <1>8

\* Every step that moves an engine brings one timeline into the world at most;
\* after the others no more circulates than before.
LEMMA NextSpreads ==
  ASSUME NetInv, OriginInv, Next
  PROVE  \/ TimelinesSpread
         \/ /\ UNCHANGED e /\ UNCHANGED unread /\ UNCHANGED commands
            /\ \A k \in Nodes : late'[k] \in {NoMessage, late[k]}
<1>t. NetworkTypes
  BY DEF NetInv
<1>e. \A n \in Nodes : /\ e[n] \in Engines /\ Sound(e[n]) /\ Clamped(e[n])
                       /\ Carries(e[n], Circulating)
  BY CirculatingHolds DEF NetInv, NetworkTypes, OriginInv, Sound
<1>c. commands \in Nat /\ late \in [Nodes -> Messages \cup {NoMessage}]
  BY DEF NetInv, NetworkTypes
<1>1. CASE \E n, m \in Nodes : HearAlive(n, m)
  <2>1. PICK n \in Nodes, m \in Nodes : HearAlive(n, m)
    BY <1>1
  <2>2. CASE e[n].enabled
    <3>1. /\ unread[n][m].body \in Messages
          /\ <<unread[n][m].body.session, unread[n][m].body.tl>> \in Circulating
      BY <1>t, <2>1, CirculatingHolds DEF HearAlive, NetworkTypes, Packets, OriginInv
    <3>2. PICK d \in Draws(n) :
            /\ StepAfter(n, m, Saw(n, unread[n][m].body, d))
            /\ \/ late' = late
               \/ late' = [late EXCEPT ![m] = CurrentPeerState(Saw(n, unread[n][m].body, d))]
      BY <2>1, <2>2 DEF HearAlive
    <3>3. \A k \in Nodes : \/ late'[k] \in {NoMessage, late[k]}
                           \/ late'[k] = CurrentPeerState(Saw(n, unread[n][m].body, d))
      BY <1>c, <3>2
    <3>4. UNCHANGED commands
      BY <2>1 DEF HearAlive
    <3> QED BY <2>2, <3>1, <3>2, <3>3, <3>4, SawSpreads
  <2>3. CASE ~e[n].enabled
    <3>1. StepAfter(n, m, e[n]) /\ UNCHANGED late /\ UNCHANGED commands
      BY <2>1, <2>3 DEF HearAlive
    <3> QED BY <1>e, <3>1, StayingSpreads
  <2> QED BY <2>2, <2>3
<1>2. CASE \E n \in Nodes : HearLateResponse(n)
  <2>1. PICK n \in Nodes : HearLateResponse(n)
    BY <1>2
  <2>2. (\A k \in Nodes : late'[k] \in {NoMessage, late[k]}) /\ UNCHANGED commands
    BY <1>c, <2>1 DEF HearLateResponse
  <2>3. CASE e[n].enabled
    <3>1. late[n] \in Messages /\ <<late[n].session, late[n].tl>> \in Circulating
      BY <1>t, <2>1, CirculatingHolds DEF HearLateResponse, NetworkTypes, OriginInv
    <3>2. PICK d \in Draws(n) : Step(n, Saw(n, late[n], d))
      BY <2>1, <2>3 DEF HearLateResponse
    <3> QED BY <2>2, <2>3, <3>1, <3>2, SawSpreads
  <2>4. CASE ~e[n].enabled
    BY <2>1, <2>2, <2>4 DEF HearLateResponse
  <2> QED BY <2>3, <2>4
<1>3. CASE \E n, m \in Nodes : HearByeBye(n, m)
  <2>1. PICK n \in Nodes, m \in Nodes : HearByeBye(n, m)
    BY <1>3
  <2> DEFINE p == unread[n][m].body.node
  <2>2. PICK d \in Draws(n) : StepAfter(n, m, RemovePeer(e[n], p, d))
    BY <2>1 DEF HearByeBye
  <2>3. p \in Ids /\ d \in DrawSet /\ UNCHANGED late /\ UNCHANGED commands
    BY <1>t, <2>1, DrawsFresh DEF HearByeBye, NetworkTypes, Packets, Messages
  <2>4. Counted(e[n]) /\ (~e[n].enabled => Known(e[n]) = {})
    BY <1>e DEF Sound
  <2> HIDE DEF p
  <2> DEFINE x == RemovePeer(e[n], p, d)
  <2>5. x \in Engines /\ StaysOrFounds(e[n], x, d)
    BY <1>e, <2>3, <2>4, RemoveCounts, RemoveStays
  <2>6. Carries(x, Circulating \cup {<<d.id, x.tl>>})
    BY <1>e, <2>3, RemoveCarries
  <2>7. StepAfter(n, m, x)
    BY <2>2
  <2> HIDE DEF x
  <2>8. Clamped(x)
    BY <1>e, <2>5 DEF StaysOrFounds, Stays, Founds
  <2> QED BY <1>c, <2>3, <2>5, <2>6, <2>7, <2>8, FoundingSpreads
<1>4. CASE \E n \in Nodes, id \in Ids : TtlPasses(n, id)
  <2>1. PICK n \in Nodes, id \in Ids : TtlPasses(n, id)
    BY <1>4
  <2> DEFINE x == [e[n] EXCEPT !.peers[id].expired = TRUE]
             aged == [e[n].peers[id] EXCEPT !.expired = TRUE]
  <2>2. id \in Known(e[n]) /\ e[n].peers[id] \in PeerStates
    BY <1>e, <2>1 DEF TtlPasses, Known, Engines
  <2>3. /\ aged \in PeerStates /\ aged.session = e[n].peers[id].session
        /\ aged.tl = e[n].peers[id].tl
    BY <2>2 DEF PeerStates
  <2>4. x = [e[n] EXCEPT !.peers[id] = aged]
    BY <1>e DEF Engines
  <2> HIDE DEF aged, x
  <2>5. /\ x \in Engines /\ x.others = e[n].others /\ x.sessionId = e[n].sessionId
        /\ x.tl = e[n].tl /\ x.sent = e[n].sent
        /\ x.peers = [e[n].peers EXCEPT ![id] = aged]
    BY <1>e, <2>2, <2>3, <2>4 DEF Engines
  <2>6. e[n].peers \in [Ids -> PeerStates \cup {NoPeer}]
    BY <1>e DEF Engines
  <2>7. Carries(x, Circulating)
    BY <1>e, <2>2, <2>3, <2>5, <2>6 DEF Carries, Brings, Known, Tracked
  <2>8. Step(n, x) /\ UNCHANGED late /\ UNCHANGED commands
    BY <2>1 DEF TtlPasses, x
  <2> QED BY <2>5, <2>7, <2>8, StayingSpreads
<1>5. CASE \E n \in Nodes : PruneTicker(n)
  <2>1. PICK n \in Nodes : PruneTicker(n)
    BY <1>5
  <2>2. PICK d \in Draws(n) : Step(n, PrunePeers(e[n], d))
    BY <2>1 DEF PruneTicker
  <2>3. d \in DrawSet /\ UNCHANGED late /\ UNCHANGED commands
    BY <1>t, <2>1, DrawsFresh DEF PruneTicker
  <2>4. Counted(e[n]) /\ (~e[n].enabled => Known(e[n]) = {}) /\ e[n].nodeId \in Ids
    BY <1>e DEF Sound, Engines
  <2> DEFINE x == PrunePeers(e[n], d)
  <2>5. x \in Engines /\ StaysOrFounds(e[n], x, d)
    BY <1>e, <2>3, <2>4, PruneCounts, RemoveStays
  <2>6. Carries(x, Circulating \cup {<<d.id, x.tl>>})
    BY <1>e, <2>3, <2>4, RemoveCarries
  <2>7. Step(n, x)
    BY <2>2
  <2> HIDE DEF x
  <2>8. Clamped(x)
    BY <1>e, <2>5 DEF StaysOrFounds, Stays, Founds
  <2> QED BY <1>c, <2>3, <2>5, <2>6, <2>7, <2>8, FoundingSpreads
<1>6. CASE \E n \in Nodes : BroadcastTicker(n)
  <2>1. PICK n \in Nodes : Step(n, Broadcast(e[n])) /\ UNCHANGED late /\ UNCHANGED commands
    BY <1>6 DEF BroadcastTicker
  <2> QED BY <1>e, <2>1, BroadcastType, BroadcastCarries, StayingSpreads
<1>7. CASE \E n \in Nodes : BroadcastTimerFires(n)
  <2>1. PICK n \in Nodes : BroadcastTimerFires(n)
    BY <1>7
  <2> DEFINE x == [e[n] EXCEPT !.pending = FALSE]
  <2>2. x \in Engines /\ Carries(x, Circulating)
    <3>1. e[n] \in Engines
      BY <1>e
    <3> QED BY <1>e, <3>1 DEF Engines, Carries, Brings, Known, Tracked
  <2>3. Step(n, BroadcastNow(x)) /\ UNCHANGED late /\ UNCHANGED commands
    BY <2>1 DEF BroadcastTimerFires
  <2> HIDE DEF x
  <2> QED BY <2>2, <2>3, BroadcastType, BroadcastCarries, StayingSpreads
<1>8. CASE \E n \in Nodes, s \in Ids : MeasurementEnds(n, s)
  BY <1>8, MeasurementSpreads
<1>9. CASE \E n \in Nodes, tempo \in NodeTempos, beat \in Beats : SetTempo(n, tempo, beat)
  <2>1. PICK n \in Nodes, tempo \in NodeTempos, beat \in Beats : SetTempo(n, tempo, beat)
    BY <1>9
  <2> DEFINE x == CommitClientTimeline(e[n], tempo, e[n].tl.anchor, beat)
  <2>2. tempo \in Tempos /\ e[n].tl.anchor \in Anchors /\ beat \in Int
    BY <1>e, LinkNetworkAssumption DEF Engines, Timelines
  <2>3. /\ x \in Engines /\ Stays(e[n], x)
        /\ Carries(x, Circulating \cup {<<e[n].sessionId, x.tl>>})
    BY <1>e, <2>2, CommitQuiet, CommitStays, CommitCarries
  <2>4. Step(n, x) /\ UNCHANGED late /\ commands' = commands + 1
    BY <2>1 DEF SetTempo, Command
  <2> HIDE DEF x
  <2>5. e[n].sessionId \in Ids /\ x.tl \in Timelines
    BY <1>e, <2>3 DEF Engines
  <2>6. NewTimeline(n, e[n].sessionId, x.tl)
    BY <1>c, <1>e, <2>3, <2>4 DEF NewTimeline, Stays, Clamped
  <2>7. Spreads(n, x, Circulating \cup {<<e[n].sessionId, x.tl>>})
    BY <1>t, <2>3, <2>4, StepSpreads
  <2> QED BY <2>3, <2>5, <2>6, <2>7 DEF TimelinesSpread
<1>10. CASE \E n \in Nodes : EnableLink(n)
  <2>1. PICK n \in Nodes : EnableLink(n)
    BY <1>10
  <2>2. PICK d \in Draws(n) : Step(n, Enable(e[n], d))
    BY <2>1 DEF EnableLink
  <2> DEFINE x == Enable(e[n], d)
  <2>3. d \in DrawSet /\ e[n].nbr = 0 /\ Brings(e[n], Circulating)
    BY <1>t, <1>e, <2>1, DrawsFresh DEF EnableLink, Sound, Carries
  <2>4. x \in Engines /\ Founds(x, d) /\ Carries(x, Circulating \cup {<<d.id, x.tl>>})
    BY <1>e, <2>3, EnableCounts, EnableFounds, EnableCarries
  <2>5. Step(n, x) /\ UNCHANGED late /\ commands' = commands + 1
    BY <2>1, <2>2 DEF EnableLink, Command
  <2> HIDE DEF x
  <2>6. Clamped(x) /\ commands' \in Nat /\ commands' >= commands
    BY <1>c, <2>4, <2>5 DEF Founds
  <2> QED BY <2>4, <2>5, <2>6, FoundingSpreads
<1>11. CASE \E n \in Nodes : DisableLink(n)
  <2>1. PICK n \in Nodes : DisableLink(n)
    BY <1>11
  <2> DEFINE x == Disable(e[n])
             packet == [type |-> "ByeBye", body |-> CurrentPeerState(e[n])]
             D == Circulating \cup {<<e[n].sessionId, e[n].tl>>}
  <2>2. x \in Engines /\ Carries(x, Circulating)
    BY <1>e, DisableCounts, DisableCarries
  <2>3. packet \in Packets
    <3>1. CurrentPeerState(e[n]) \in Messages
      BY <1>e DEF CurrentPeerState, Messages, Engines
    <3> QED BY <3>1 DEF Packets
  <2>4. <<packet.body.session, packet.body.tl>> \in D
    BY DEF CurrentPeerState
  <2>5. unread[n] \in [Nodes -> Packets \cup {NoMessage}]
    BY <1>t DEF NetworkTypes
  <2>6. Multicast(n, x, packet, unread[n]) /\ UNCHANGED late /\ commands' = commands + 1
    BY <2>1 DEF DisableLink, Command
  <2> HIDE DEF x, packet
  <2>7. Spreads(n, x, D)
    BY <2>2, <2>3, <2>4, <2>5, <2>6, CarriesMore DEF Spreads
  <2>8. e[n].sessionId \in Ids /\ e[n].tl \in Timelines
    BY <1>e DEF Engines
  <2>9. NewTimeline(n, e[n].sessionId, e[n].tl)
    BY <1>c, <1>e, <2>6 DEF NewTimeline, Clamped
  <2> QED BY <2>2, <2>7, <2>8, <2>9 DEF TimelinesSpread
<1>12. CASE Tick
  BY <1>12 DEF Tick
<1> QED
  BY <1>1, <1>2, <1>3, <1>4, <1>5, <1>6, <1>7, <1>8, <1>9, <1>10, <1>11, <1>12 DEF Next

\* When all nodes have started, each session has one timeline.
LEMMA InitOriginInv == Init => OriginInv
<1> SUFFICES ASSUME Init PROVE OriginInv
  OBVIOUS
<1>1. PICK id \in [Nodes -> Ids] :
        /\ \A n \in Nodes : id[n] \in StartIds[n]
        /\ e = [n \in Nodes |-> Rested(n, Started(n, id[n]))]
        /\ unread = [n \in Nodes |-> [m \in Nodes |->
                       IF m = n THEN NoMessage ELSE Announced(Started(m, id[m]))]]
  BY DEF Init, Started
<1> DEFINE S(n) == Started(n, id[n])
           pair(n) == <<id[n], S(n).tl>>
<1>2. ASSUME NEW n \in Nodes
      PROVE  /\ S(n) \in Engines /\ Clamped(S(n)) /\ Carries(S(n), {pair(n)})
             /\ S(n).tl \in Timelines
  <2> DEFINE d == [id |-> id[n], beat |-> 0, anchor |-> 0, now |-> Skew[n]]
             x == NewEngine(n, StartTempo[n])
  <2>1. d \in DrawSet
    BY <1>1, LinkNetworkAssumption DEF DrawSet
  <2>2. StartTempo[n] \in Tempos
    BY LinkNetworkAssumption
  <2>3. x \in Engines /\ Brings(x, {})
    BY <2>2, NewEngineType DEF Brings
  <2>4. d.id = id[n]
    OBVIOUS
  <2>5. S(n) = Enable(x, d)
    BY DEF Started
  <2>6. S(n) \in Engines /\ Clamped(S(n))
    BY <1>1, StartedFounds DEF Sound
  <2> HIDE DEF x, d, S
  <2>7. Carries(S(n), {} \cup {<<d.id, S(n).tl>>})
    BY <2>1, <2>3, <2>5, EnableCarries
  <2>8. {} \cup {<<d.id, S(n).tl>>} = {pair(n)}
    BY <2>4
  <2>9. Carries(S(n), {pair(n)})
    BY <2>7, <2>8
  <2> QED BY <2>6, <2>9 DEF Engines
<1>3. \A n \in Nodes : /\ e[n].sessionId = S(n).sessionId /\ e[n].tl = S(n).tl
                       /\ e[n].peers = S(n).peers /\ e[n].others = S(n).others
                       /\ e[n].sent = NoMessage
  BY <1>1, <1>2, RestedKeeps
<1>4. commands = 0 /\ \A n \in Nodes : late[n] = NoMessage
  BY DEF Init
<1>5. ASSUME NEW n \in Nodes, NEW m \in Nodes, unread[n][m] # NoMessage
      PROVE  /\ unread[n][m].body = S(m).sent
             /\ S(m).sent # NoMessage
  <2>1. unread[n][m] = Announced(S(m))
    BY <1>1, <1>5
  <2> HIDE DEF S
  <2> QED BY <1>5, <2>1 DEF Announced
<1> HIDE DEF S
<1>6. ASSUME NEW c \in Circulating PROVE \E n \in Nodes : c = pair(n)
  <2>1. c = <<c[1], c[2]>> /\ Circulates(c[1], c[2])
    BY DEF Circulating
  <2>2. CASE \E n \in Nodes : c[1] = e[n].sessionId /\ c[2] = e[n].tl
    <3>1. PICK n \in Nodes : c[1] = e[n].sessionId /\ c[2] = e[n].tl
      BY <2>2
    <3>2. c \in {pair(n)}
      BY <1>2, <1>3, <2>1, <3>1 DEF Carries
    <3> QED BY <3>2
  <2>3. CASE \E n \in Nodes : \E p \in Known(e[n]) :
               c[1] = e[n].peers[p].session /\ c[2] = e[n].peers[p].tl
    <3>1. PICK n \in Nodes : \E p \in Known(e[n]) :
                 c[1] = e[n].peers[p].session /\ c[2] = e[n].peers[p].tl
      BY <2>3
    <3>2. c \in {pair(n)}
      BY <1>2, <1>3, <2>1, <3>1 DEF Carries, Brings, Known
    <3> QED BY <3>2
  <2>4. CASE \E n \in Nodes : c[1] \in Tracked(e[n]) /\ c[2] = e[n].others[c[1]]
    <3>1. PICK n \in Nodes : c[1] \in Tracked(e[n]) /\ c[2] = e[n].others[c[1]]
      BY <2>4
    <3>2. c \in {pair(n)}
      BY <1>2, <1>3, <2>1, <3>1 DEF Carries, Brings, Tracked
    <3> QED BY <3>2
  <2>5. CASE \E n, m \in Nodes : /\ unread[n][m] # NoMessage
                                 /\ c[1] = unread[n][m].body.session
                                 /\ c[2] = unread[n][m].body.tl
    <3>1. PICK n \in Nodes, m \in Nodes : /\ unread[n][m] # NoMessage
                                          /\ c[1] = unread[n][m].body.session
                                          /\ c[2] = unread[n][m].body.tl
      BY <2>5
    <3>2. c \in {pair(m)}
      BY <1>2, <1>5, <2>1, <3>1 DEF Carries, Brings
    <3> QED BY <3>2
  <2> QED BY <1>4, <2>1, <2>2, <2>3, <2>4, <2>5 DEF Circulates
<1>7. \A n \in Nodes : pair(n)[1] = id[n] /\ pair(n)[2] = S(n).tl
  OBVIOUS
<1>8. \A m, n \in Nodes : id[m] = id[n] => m = n
  <2>1. \A n \in Nodes : id[n] \in OwnIds[n]
    BY <1>1, LinkNetworkAssumption
  <2> QED BY <2>1, LinkNetworkAssumption
<1> HIDE DEF pair
<1>9. InRange(Circulating)
  <2>1. \A n \in Nodes : ClampTempo(S(n).tl) = S(n).tl
    BY <1>2 DEF Clamped
  <2> QED BY <1>6, <1>7, <2>1 DEF InRange
<1>10. \A c, d \in Circulating : c[1] = d[1] => c[2] = d[2]
  BY <1>6, <1>7, <1>8
<1> QED BY <1>3, <1>9, <1>10 DEF OriginInv

\* Every step keeps the invariant of the origins.
LEMMA NextOriginInv == NetInv /\ OriginInv /\ [Next]_vars => OriginInv'
<1> SUFFICES ASSUME NetInv, OriginInv, [Next]_vars PROVE OriginInv'
  OBVIOUS
<1>1. \/ TimelinesSpread
      \/ /\ UNCHANGED e /\ UNCHANGED unread /\ UNCHANGED commands
         /\ \A k \in Nodes : late'[k] \in {NoMessage, late[k]}
  <2>1. CASE Next
    BY <2>1, NextSpreads
  <2>2. CASE UNCHANGED vars
    BY <2>2 DEF vars
  <2> QED BY <2>1, <2>2
<1>2. CASE /\ UNCHANGED e /\ UNCHANGED unread /\ UNCHANGED commands
           /\ \A k \in Nodes : late'[k] \in {NoMessage, late[k]}
  <2>1. Circulating' \subseteq Circulating
    BY <1>2 DEF Circulating, Circulates, Known, Tracked
  <2> QED BY <1>2, <2>1 DEF OriginInv, InRange
<1> QED BY <1>1, <1>2, SpreadKeepsOrigins

\* As long as at most one command was given, nodes in one session with the same
\* beat origin have the same timeline, for every number of nodes and whatever was
\* lost, late or missed: comparing origins is enough (sawSessionTimeline,
\* engine.go:461).
THEOREM OriginsIdentifyTimelines == Spec => []OriginIdentifiesTimeline
<1>1. Init => NetInv /\ OriginInv
  BY InitInv, InitOriginInv
<1>2. NetInv /\ OriginInv /\ [Next]_vars => (NetInv /\ OriginInv)'
  BY NextInv, NextOriginInv
<1>3. NetInv /\ OriginInv => OriginIdentifiesTimeline
  <2> SUFFICES ASSUME NetInv, OriginInv, commands <= 1, NEW m \in On, NEW n \in On,
                      e[m].sessionId = e[n].sessionId, e[m].tl.origin = e[n].tl.origin
               PROVE  e[m].tl = e[n].tl
    BY DEF OriginIdentifiesTimeline
  <2> DEFINE a == <<e[m].sessionId, e[m].tl>>
             b == <<e[n].sessionId, e[n].tl>>
  <2>1. a \in Circulating /\ b \in Circulating
    BY CirculatingHolds DEF NetInv, OriginInv, Carries, On
  <2>2. a[1] = b[1] /\ a[2].origin = b[2].origin => a[2] = b[2]
    <3> HIDE DEF a, b
    <3> QED BY <2>1 DEF OriginInv
  <2> QED BY <2>2
<1> QED BY <1>1, <1>2, <1>3, PTL DEF Spec

-----------------------------------------------------------------------------
(* What the nodes have heard of each other.  Between two handlers the last  *)
(* packet of a node that is on, if it has not been read, says the state     *)
(* the node is in, unless a broadcast is pending; the last packet of a node *)
(* that is off is a bye-bye.  So what is still on its way can tell a node   *)
(* nothing that it would not have to hear.                                  *)

AliveNow(m) == [type |-> "Alive", body |-> CurrentPeerState(e[m])]

HearsOf(n, m) ==
  IF e[m].enabled
  THEN e[m].pending \/ unread[n][m] \in {NoMessage, AliveNow(m)}
  ELSE unread[n][m] # NoMessage =>
         unread[n][m].type = "ByeBye" /\ unread[n][m].body.node \in OwnIds[m]

\* The state that all others have read of n or will read, if there is one.
WasTold(n) == IF e[n].enabled /\ ~e[n].pending THEN CurrentPeerState(e[n]) ELSE NoMessage

\* Between two handlers an engine has one of its ids and nothing to send.
AtRest(n) ==
  e[n].nodeId \in OwnIds[n] /\ e[n].ss = NoTransport /\ e[n].sent = NoMessage /\ ~e[n].recent

LateMute == \A n \in Nodes : late[n] # NoMessage => late[n].ss = NoTransport

\* What n has not read: nothing of its own, and nothing about a transport.
Unread(n) ==
  /\ unread[n][n] = NoMessage
  /\ \A m \in Nodes : unread[n][m] # NoMessage => unread[n][m].body.ss = NoTransport
  /\ \A m \in Nodes \ {n} : HearsOf(n, m)

HeardInv == (\A n \in Nodes : AtRest(n) /\ Unread(n)) /\ LateMute

\* n has ended a handler as x, and told the others.
Spoken(n, x) ==
  /\ Step(n, x) \/ \E m \in Nodes : StepAfter(n, m, x)
  /\ Speaks(x, OwnIds[n], WasTold(n))
  /\ e[n].enabled => x.enabled

\* n has left the network as x.
Left(n, x) ==
  /\ Multicast(n, x, [type |-> "ByeBye", body |-> CurrentPeerState(e[n])], unread[n])
  /\ x.nodeId = e[n].nodeId /\ ~x.enabled

\* Between two handlers an engine follows no transport and may broadcast at once.
LEMMA RestedMute ==
  ASSUME NEW n \in Nodes, NEW x
  PROVE  Rested(n, x).ss = NoTransport /\ ~Rested(n, x).recent
<1> DEFINE new == NewEngine(n, MinTempo)
<1>1. new.ss = NoTransport /\ new.recent = FALSE
  BY DEF NewEngine
<1>2. DOMAIN new = {"nodeId", "sessionId", "tl", "xform", "ss", "css", "lastCb", "sync",
         "enabled", "peers", "others", "measuring", "nbr", "remeasure", "recent", "pending",
         "sent", "echo", "snap", "toldTempo", "toldPeers", "forgotten"}
  BY DEF NewEngine
<1> HIDE DEF new
<1> QED BY <1>1, <1>2, Zenon DEF Rested, new

\* Which packets a multicast leaves to be read.
LEMMA MulticastUnread ==
  ASSUME NetworkTypes, NEW n \in Nodes, NEW x \in Engines, NEW packet, NEW read,
         Multicast(n, x, packet, read)
  PROVE  /\ e'[n] = Rested(n, x) /\ \A k \in Nodes \ {n} : e'[k] = e[k]
         /\ unread'[n] = read
         /\ \A k \in Nodes \ {n}, m \in Nodes \ {n} : unread'[k][m] = unread[k][m]
         /\ \A k \in Nodes \ {n} :
              unread'[k][n] = IF packet = NoMessage THEN unread[k][n] ELSE packet
BY DEF Multicast, NetworkTypes

\* Which packets a handler leaves to be read.
LEMMA HandlerUnread ==
  ASSUME NetworkTypes, NEW n \in Nodes, NEW x \in Engines,
         Step(n, x) \/ \E m \in Nodes : StepAfter(n, m, x)
  PROVE  /\ e'[n] = Rested(n, x) /\ \A k \in Nodes \ {n} : e'[k] = e[k]
         /\ \A m \in Nodes : unread'[n][m] \in {NoMessage, unread[n][m]}
         /\ \A k \in Nodes \ {n}, m \in Nodes \ {n} : unread'[k][m] = unread[k][m]
         /\ \A k \in Nodes \ {n} :
              unread'[k][n] = IF Announced(x) = NoMessage THEN unread[k][n] ELSE Announced(x)
<1>1. PICK read : Multicast(n, x, Announced(x), read)
                  /\ \A m \in Nodes : read[m] \in {NoMessage, unread[n][m]}
  <2>1. CASE Step(n, x)
    BY <2>1 DEF Step
  <2>2. CASE \E m \in Nodes : StepAfter(n, m, x)
    <3>1. PICK m \in Nodes : StepAfter(n, m, x)
      BY <2>2
    <3> DEFINE read == [unread[n] EXCEPT ![m] = NoMessage]
    <3>2. \A k \in Nodes : read[k] \in {NoMessage, unread[n][k]}
      BY DEF NetworkTypes
    <3>3. Multicast(n, x, Announced(x), read)
      BY <3>1 DEF StepAfter
    <3> HIDE DEF read
    <3> QED BY <3>2, <3>3
  <2> QED BY <2>1, <2>2
<1> QED BY <1>1, MulticastUnread

\* What is announced says the state it announces.
LEMMA AnnouncedSays ==
  ASSUME NEW x \in Engines
  PROVE  /\ Announced(x) = NoMessage <=> x.sent = NoMessage
         /\ x.sent # NoMessage => Announced(x) = [type |-> "Alive", body |-> x.sent]
<1>1. x.sent # NoMessage => [type |-> "Alive", body |-> x.sent] \in Packets
  BY DEF Engines, Packets
<1> QED BY <1>1, NoPacketAssumption DEF Announced

\* A handler that has told the others keeps what they have heard.
LEMMA SpokenHeard ==
  ASSUME NetInv, HeardInv, NEW n \in Nodes, NEW x \in Engines, Spoken(n, x)
  PROVE  \A k \in Nodes : AtRest(k)' /\ Unread(k)'
<1> DEFINE packet == Announced(x)
<1>1. /\ e'[n] = Rested(n, x) /\ \A k \in Nodes \ {n} : e'[k] = e[k]
      /\ \A m \in Nodes : unread'[n][m] \in {NoMessage, unread[n][m]}
      /\ \A k \in Nodes \ {n}, m \in Nodes \ {n} : unread'[k][m] = unread[k][m]
      /\ \A k \in Nodes \ {n} :
           unread'[k][n] = IF packet = NoMessage THEN unread[k][n] ELSE packet
  BY HandlerUnread DEF Spoken, NetInv
<1>2. /\ e'[n].nodeId = x.nodeId /\ e'[n].sessionId = x.sessionId /\ e'[n].tl = x.tl
      /\ e'[n].enabled = x.enabled /\ e'[n].pending = x.pending /\ e'[n].sent = NoMessage
      /\ e'[n].ss = NoTransport /\ ~e'[n].recent
  BY <1>1, RestedKeeps, RestedMute
<1>3. /\ x.nodeId \in OwnIds[n] /\ x.ss = NoTransport
      /\ x.sent # NoMessage => x.enabled /\ x.sent.ss = NoTransport
      /\ x.enabled => Announces(x) \/ (x.sent = NoMessage /\ CurrentPeerState(x) = WasTold(n))
      /\ e[n].enabled => x.enabled
  BY DEF Spoken, Speaks, Mute
<1>4. CurrentPeerState(x) \in Messages /\ CurrentPeerState(e'[n]) = CurrentPeerState(x)
  BY <1>2, <1>3 DEF CurrentPeerState, Messages, Engines
<1>5. /\ packet = NoMessage <=> x.sent = NoMessage
      /\ x.sent # NoMessage => packet = [type |-> "Alive", body |-> x.sent]
  BY AnnouncedSays
<1> HIDE DEF packet
<1>6. \A k \in Nodes : AtRest(k)'
  BY <1>1, <1>2, <1>3 DEF AtRest, HeardInv
<1>7. ASSUME NEW k \in Nodes \ {n} PROVE HearsOf(k, n)'
  <2>1. CASE x.enabled /\ x.pending
    BY <1>2, <2>1 DEF HearsOf
  <2>2. CASE x.enabled /\ x.sent = CurrentPeerState(x)
    <3>1. x.sent # NoMessage
      BY <1>4, <2>2, NoneAssumption
    <3>2. unread'[k][n] = AliveNow(n)'
      BY <1>1, <1>4, <1>5, <2>2, <3>1 DEF AliveNow
    <3> QED BY <1>2, <2>2, <3>2 DEF HearsOf
  <2>3. CASE x.enabled /\ x.sent = NoMessage /\ CurrentPeerState(x) = WasTold(n)
    <3>1. WasTold(n) # NoMessage
      BY <1>4, <2>3, NoneAssumption
    <3>2. e[n].enabled /\ ~e[n].pending /\ CurrentPeerState(x) = CurrentPeerState(e[n])
      BY <2>3, <3>1 DEF WasTold
    <3>3. unread'[k][n] = unread[k][n] /\ AliveNow(n)' = AliveNow(n)
      BY <1>1, <1>4, <1>5, <2>3, <3>2 DEF AliveNow
    <3>4. HearsOf(k, n)
      BY DEF HeardInv, Unread
    <3> QED BY <1>2, <2>3, <3>2, <3>3, <3>4 DEF HearsOf
  <2>4. CASE ~x.enabled
    <3>1. ~e[n].enabled /\ x.sent = NoMessage
      BY <1>3, <2>4
    <3>2. unread'[k][n] = unread[k][n]
      BY <1>1, <1>5, <3>1
    <3>3. HearsOf(k, n)
      BY DEF HeardInv, Unread
    <3> QED BY <1>2, <2>4, <3>1, <3>2, <3>3 DEF HearsOf
  <2> QED BY <1>3, <2>1, <2>2, <2>3, <2>4 DEF Announces
<1>8. ASSUME NEW k \in Nodes, NEW m \in Nodes \ {k}, m # n PROVE HearsOf(k, m)'
  <2>1. HearsOf(k, m) /\ e'[m] = e[m] /\ unread'[k][m] \in {NoMessage, unread[k][m]}
    BY <1>1, <1>8 DEF HeardInv, Unread
  <2> QED BY <2>1 DEF HearsOf, AliveNow
<1>9. ASSUME NEW k \in Nodes, NEW m \in Nodes, unread'[k][m] # NoMessage
      PROVE  unread'[k][m].body.ss = NoTransport
  <2>1. CASE unread'[k][m] = unread[k][m]
    BY <1>9, <2>1 DEF HeardInv, Unread
  <2>2. CASE m = n /\ packet # NoMessage /\ unread'[k][m] = packet
    <3>1. packet.body = x.sent /\ x.sent.ss = NoTransport
      BY <1>3, <1>5, <2>2
    <3> QED BY <2>2, <3>1
  <2> QED BY <1>1, <1>9, <2>1, <2>2
<1>10. \A k \in Nodes : unread'[k][k] = NoMessage
  BY <1>1 DEF HeardInv, Unread
<1> QED BY <1>6, <1>7, <1>8, <1>9, <1>10 DEF Unread

\* So does a node that leaves.
LEMMA LeftHeard ==
  ASSUME NetInv, HeardInv, NEW n \in Nodes, NEW x \in Engines, Left(n, x)
  PROVE  \A k \in Nodes : AtRest(k)' /\ Unread(k)'
<1> DEFINE bye == [type |-> "ByeBye", body |-> CurrentPeerState(e[n])]
<1>1. bye # NoMessage
  <2>1. e[n] \in Engines
    BY DEF NetInv, NetworkTypes
  <2>2. CurrentPeerState(e[n]) \in Messages
    BY <2>1 DEF CurrentPeerState, Messages, Engines
  <2>3. bye \in Packets
    BY <2>2 DEF Packets
  <2> QED BY <2>3, NoPacketAssumption
<1>2. /\ bye.type = "ByeBye" /\ bye.body.node = e[n].nodeId /\ bye.body.ss = e[n].ss
  BY DEF CurrentPeerState
<1>3. Multicast(n, x, bye, unread[n])
  BY DEF Left
<1> HIDE DEF bye
<1>4. /\ e'[n] = Rested(n, x) /\ \A k \in Nodes \ {n} : e'[k] = e[k]
      /\ unread'[n] = unread[n]
      /\ \A k \in Nodes \ {n}, m \in Nodes \ {n} : unread'[k][m] = unread[k][m]
      /\ \A k \in Nodes \ {n} : unread'[k][n] = bye
  BY <1>1, <1>3, MulticastUnread DEF NetInv
<1>5. /\ e'[n].nodeId = e[n].nodeId /\ ~e'[n].enabled /\ e'[n].sent = NoMessage
      /\ e'[n].ss = NoTransport /\ ~e'[n].recent
  BY <1>4, RestedKeeps, RestedMute DEF Left
<1>6. e[n].nodeId \in OwnIds[n] /\ e[n].ss = NoTransport
  BY DEF HeardInv, AtRest
<1>7. \A k \in Nodes : AtRest(k)'
  BY <1>4, <1>5 DEF AtRest, HeardInv
<1>8. ASSUME NEW k \in Nodes \ {n} PROVE HearsOf(k, n)'
  BY <1>2, <1>4, <1>5, <1>6 DEF HearsOf
<1>9. ASSUME NEW k \in Nodes, NEW m \in Nodes \ {k}, m # n PROVE HearsOf(k, m)'
  <2>1. HearsOf(k, m) /\ e'[m] = e[m] /\ unread'[k][m] = unread[k][m]
    BY <1>4, <1>9 DEF HeardInv, Unread
  <2> QED BY <2>1 DEF HearsOf, AliveNow
<1>10. ASSUME NEW k \in Nodes, NEW m \in Nodes, unread'[k][m] # NoMessage
       PROVE  unread'[k][m].body.ss = NoTransport
  <2>1. CASE unread'[k][m] = unread[k][m]
    BY <1>10, <2>1 DEF HeardInv, Unread
  <2>2. CASE unread'[k][m] = bye
    BY <1>2, <1>6, <2>2
  <2> QED BY <1>4, <2>1, <2>2
<1>11. \A k \in Nodes : unread'[k][k] = NoMessage
  BY <1>4 DEF HeardInv, Unread
<1> QED BY <1>7, <1>8, <1>9, <1>10, <1>11 DEF Unread

\* An engine at rest has nothing to say that the others were not told.
LEMMA RestSpeaks ==
  ASSUME HeardInv, NEW n \in Nodes
  PROVE  Speaks(e[n], OwnIds[n], WasTold(n))
BY DEF HeardInv, AtRest, Speaks, Mute, Announces, WasTold

\* sawPeerState with a message that has no transport state.
LEMMA SawSpoken ==
  ASSUME NetInv, HeardInv, NEW n \in Nodes, NEW msg \in Messages, msg.ss = NoTransport,
         NEW d \in Draws(n)
  PROVE  /\ Saw(n, msg, d) \in Engines /\ Saw(n, msg, d).enabled = e[n].enabled
         /\ Speaks(Saw(n, msg, d), OwnIds[n], WasTold(n))
<1> DEFINE state == [session |-> msg.session, tl |-> msg.tl, ss |-> msg.ss, expired |-> FALSE]
           x == Saw(n, msg, d)
<1>1. state \in PeerStates /\ msg.node \in Ids /\ state.ss = NoTransport
  BY DEF PeerStates, Messages
<1>2. e[n] \in Engines /\ Counted(e[n]) /\ d \in DrawSet /\ d.id \in OwnIds[n]
  BY DrawsFresh DEF NetInv, NetworkTypes, Sound, Draws
<1>3. x = SawPeerState(e[n], msg.node, state, d)
  BY DEF Saw
<1>4. Speaks(e[n], OwnIds[n], WasTold(n))
  BY RestSpeaks
<1> HIDE DEF state, x
<1>5. x \in Engines /\ x.enabled = e[n].enabled
  BY <1>1, <1>2, <1>3, SawPeerCounts
<1>6. Speaks(x, OwnIds[n], WasTold(n))
  BY <1>1, <1>2, <1>3, <1>4, SawPeerSpeaks
<1> QED BY <1>5, <1>6 DEF x

\* handleSessionMeasurementResult, for either result.
LEMMA MeasurementSpoken ==
  ASSUME NetInv, HeardInv, NEW n \in Nodes, NEW s \in Ids, MeasurementEnds(n, s)
  PROVE  \E x \in Engines : Spoken(n, x)
<1> DEFINE m == Owner(e[n].measuring[s])
           x == [e[n] EXCEPT !.measuring[s] = NoPeer]
           xform == GhostClock(m) - Skew[n]
           A == OwnIds[n]
           told == WasTold(n)
<1>1. e[n] \in Engines /\ Speaks(e[n], A, told) /\ Counted(e[n])
  BY RestSpeaks DEF NetInv, NetworkTypes, Sound
<1>2. x \in Engines /\ SameVoice(e[n], x)
  BY <1>1 DEF Engines, SameVoice
<1>c. Counted(x)
  BY <1>1 DEF Engines, Counted, Members, InSession, Known
<1>3. xform \in Int
  <2>1. e[n].measuring[s] \in Ids
    BY <1>1 DEF MeasurementEnds, Measured, Engines
  <2>2. \E k \in Nodes : e[n].measuring[s] \in OwnIds[k]
    BY <2>1, LinkNetworkAssumption
  <2>3. m \in Nodes
    BY <2>2 DEF Owner
  <2>e. e[m] \in Engines
    BY <2>3 DEF NetInv, NetworkTypes
  <2>4. e[m].xform \in Int /\ Skew[m] \in Int /\ Skew[n] \in Int
    BY <2>3, <2>e, LinkNetworkAssumption DEF Engines
  <2> QED BY <2>4 DEF GhostClock, HostToGhost
<1>4. \/ \E d \in Draws(n) : Step(n, SessionMeasured(x, s, xform, d))
      \/ Step(n, SessionMeasurementFailed(x, s))
  BY DEF MeasurementEnds
<1> HIDE DEF x, m, xform
<1>5. Speaks(x, A, told) /\ x.enabled = e[n].enabled
  BY <1>1, <1>2, SameSpeaks DEF SameVoice
<1>6. CASE Step(n, SessionMeasurementFailed(x, s))
  <2> DEFINE y == SessionMeasurementFailed(x, s)
  <2>1. y \in Engines /\ Aside(x, y)
    BY <1>2, ForgetType, LaunchAside
  <2> HIDE DEF y
  <2>2. Speaks(y, A, told) /\ y.enabled = e[n].enabled
    BY <1>5, <2>1, AsideSpeaks DEF Aside
  <2>3. Step(n, y)
    BY <1>6 DEF y
  <2> QED BY <2>1, <2>2, <2>3 DEF Spoken
<1>7. CASE \E d \in Draws(n) : Step(n, SessionMeasured(x, s, xform, d))
  <2>1. PICK d \in Draws(n) : Step(n, SessionMeasured(x, s, xform, d))
    BY <1>7
  <2> DEFINE y == SessionMeasured(x, s, xform, d)
  <2>2. d \in DrawSet /\ d.id \in A
    BY DrawsFresh DEF NetInv, Draws
  <2> HIDE DEF A, told
  <2>3. y \in Engines /\ y.enabled = x.enabled /\ Speaks(y, A, told)
    BY <1>2, <1>3, <1>c, <1>5, <2>2, MeasuredType, MeasuredCounts, MeasuredSpeaks
  <2>4. Step(n, y)
    BY <2>1
  <2> HIDE DEF y
  <2> QED BY <1>5, <2>3, <2>4 DEF Spoken, A, told
<1> QED BY <1>4, <1>6, <1>7

\* Every step is a handler that tells the others, a node that leaves, or none of
\* an engine.
LEMMA NextSpoken ==
  ASSUME NetInv, HeardInv, Next
  PROVE  \/ \E n \in Nodes, x \in Engines : Spoken(n, x)
         \/ \E n \in Nodes, x \in Engines : Left(n, x)
         \/ UNCHANGED <<e, unread>>
<1>e. \A n \in Nodes : e[n] \in Engines /\ Counted(e[n])
  BY DEF NetInv, NetworkTypes, Sound
<1>r. \A n \in Nodes : Speaks(e[n], OwnIds[n], WasTold(n)) /\ e[n].nodeId \in OwnIds[n]
                       /\ Mute(e[n]) /\ e[n].sent = NoMessage
  BY RestSpeaks DEF Speaks, HeardInv, AtRest
<1>d. \A n \in Nodes : \A d \in Draws(n) : d \in DrawSet /\ d.id \in OwnIds[n]
  BY DrawsFresh DEF NetInv, Draws
<1>1. CASE \E n, m \in Nodes : HearAlive(n, m)
  <2>1. PICK n \in Nodes, m \in Nodes : HearAlive(n, m)
    BY <1>1
  <2>2. CASE e[n].enabled
    <3>1. unread[n][m].body \in Messages /\ unread[n][m].body.ss = NoTransport
      BY <2>1 DEF HearAlive, NetInv, NetworkTypes, Packets, HeardInv, Unread
    <3>2. PICK d \in Draws(n) : StepAfter(n, m, Saw(n, unread[n][m].body, d))
      BY <2>1, <2>2 DEF HearAlive
    <3> DEFINE x == Saw(n, unread[n][m].body, d)
    <3>3. x \in Engines /\ x.enabled /\ Speaks(x, OwnIds[n], WasTold(n))
      BY <2>2, <3>1, SawSpoken
    <3> QED BY <3>2, <3>3 DEF Spoken
  <2>3. CASE ~e[n].enabled
    <3>1. StepAfter(n, m, e[n])
      BY <2>1, <2>3 DEF HearAlive
    <3> QED BY <1>e, <1>r, <3>1 DEF Spoken
  <2> QED BY <2>2, <2>3
<1>2. CASE \E n \in Nodes : HearLateResponse(n)
  <2>1. PICK n \in Nodes : HearLateResponse(n)
    BY <1>2
  <2>2. CASE e[n].enabled
    <3>1. late[n] \in Messages /\ late[n].ss = NoTransport
      BY <2>1 DEF HearLateResponse, NetInv, NetworkTypes, HeardInv, LateMute
    <3>2. PICK d \in Draws(n) : Step(n, Saw(n, late[n], d))
      BY <2>1, <2>2 DEF HearLateResponse
    <3> DEFINE x == Saw(n, late[n], d)
    <3>3. x \in Engines /\ x.enabled /\ Speaks(x, OwnIds[n], WasTold(n))
      BY <2>2, <3>1, SawSpoken
    <3> QED BY <3>2, <3>3 DEF Spoken
  <2>3. CASE ~e[n].enabled
    BY <2>1, <2>3 DEF HearLateResponse
  <2> QED BY <2>2, <2>3
<1>3. CASE \E n, m \in Nodes : HearByeBye(n, m)
  <2>1. PICK n \in Nodes, m \in Nodes : HearByeBye(n, m)
    BY <1>3
  <2> DEFINE p == unread[n][m].body.node
  <2>2. p \in Ids
    BY <2>1 DEF HearByeBye, NetInv, NetworkTypes, Packets, Messages
  <2>3. PICK d \in Draws(n) : StepAfter(n, m, RemovePeer(e[n], p, d))
    BY <2>1 DEF HearByeBye
  <2> HIDE DEF p
  <2> DEFINE x == RemovePeer(e[n], p, d)
  <2>4. x \in Engines /\ x.enabled = e[n].enabled
    <3>1. ~e[n].enabled => Known(e[n]) = {}
      BY DEF NetInv, Sound
    <3> QED BY <1>e, <1>d, <2>2, <3>1, RemoveCounts
  <2>5. Speaks(x, OwnIds[n], WasTold(n))
    BY <1>e, <1>r, <1>d, <2>2, RemoveSpeaks
  <2> HIDE DEF x
  <2> QED BY <2>3, <2>4, <2>5 DEF Spoken, x
<1>4. CASE \E n \in Nodes, id \in Ids : TtlPasses(n, id)
  <2>1. PICK n \in Nodes, id \in Ids : TtlPasses(n, id)
    BY <1>4
  <2>2. e[n].peers[id] \in PeerStates
    BY <1>e, <2>1 DEF TtlPasses, Known, Engines
  <2> DEFINE aged == [e[n].peers[id] EXCEPT !.expired = TRUE]
             x == [e[n] EXCEPT !.peers[id].expired = TRUE]
  <2>3. aged \in PeerStates
    BY <2>2 DEF PeerStates
  <2>4. x = [e[n] EXCEPT !.peers[id] = aged]
    BY <1>e DEF Engines
  <2> HIDE DEF aged, x
  <2>5. x \in Engines /\ SameVoice(e[n], x)
    BY <1>e, <2>3, <2>4 DEF Engines, SameVoice
  <2>6. Speaks(x, OwnIds[n], WasTold(n)) /\ x.enabled = e[n].enabled
    BY <1>r, <2>5, SameSpeaks DEF SameVoice
  <2>7. Step(n, x)
    BY <2>1 DEF TtlPasses, x
  <2> QED BY <2>5, <2>6, <2>7 DEF Spoken
<1>5. CASE \E n \in Nodes : PruneTicker(n)
  <2>p. PICK n \in Nodes : PruneTicker(n)
    BY <1>5
  <2>1. PICK d \in Draws(n) : Step(n, PrunePeers(e[n], d))
    BY <2>p DEF PruneTicker
  <2> DEFINE x == PrunePeers(e[n], d)
  <2>2. x \in Engines /\ x.enabled = e[n].enabled
    <3>1. ~e[n].enabled => Known(e[n]) = {}
      BY DEF NetInv, Sound
    <3> QED BY <1>e, <1>d, <3>1, PruneCounts
  <2>3. Speaks(x, OwnIds[n], WasTold(n))
    <3>1. e[n].nodeId \in Ids
      BY <1>e DEF Engines
    <3> QED BY <1>e, <1>r, <1>d, <3>1, RemoveSpeaks
  <2> HIDE DEF x
  <2> QED BY <2>1, <2>2, <2>3 DEF Spoken, x
<1>6. CASE \E n \in Nodes : BroadcastTicker(n)
  <2>1. PICK n \in Nodes : Step(n, Broadcast(e[n]))
    BY <1>6 DEF BroadcastTicker
  <2>2. /\ Broadcast(e[n]) \in Engines /\ Broadcast(e[n]).enabled = e[n].enabled
        /\ Speaks(Broadcast(e[n]), OwnIds[n], WasTold(n))
    BY <1>e, <1>r, BroadcastType, BroadcastKeeps, BroadcastSpeaks DEF Keeps
  <2> QED BY <2>1, <2>2 DEF Spoken
<1>7. CASE \E n \in Nodes : BroadcastTimerFires(n)
  <2>1. PICK n \in Nodes : BroadcastTimerFires(n)
    BY <1>7
  <2> DEFINE x == [e[n] EXCEPT !.pending = FALSE]
             y == BroadcastNow(x)
  <2>a. e[n] \in Engines
    BY <1>e
  <2>2. x \in Engines /\ x.nodeId = e[n].nodeId /\ Mute(x) /\ x.enabled = e[n].enabled
    BY <2>a, <1>r DEF Engines, Mute
  <2> HIDE DEF x
  <2>3. /\ y \in Engines /\ y.enabled = x.enabled
        /\ Speaks(y, OwnIds[n], WasTold(n))
    BY <1>r, <2>2, BroadcastType, BroadcastKeeps, BroadcastSpeaks DEF Keeps
  <2>4. Step(n, y)
    BY <2>1 DEF BroadcastTimerFires, x
  <2> HIDE DEF y
  <2> QED BY <2>2, <2>3, <2>4 DEF Spoken
<1>8. CASE \E n \in Nodes, s \in Ids : MeasurementEnds(n, s)
  BY <1>8, MeasurementSpoken
<1>9. CASE \E n \in Nodes, tempo \in NodeTempos, beat \in Beats : SetTempo(n, tempo, beat)
  <2>1. PICK n \in Nodes, tempo \in NodeTempos, beat \in Beats : SetTempo(n, tempo, beat)
    BY <1>9
  <2> DEFINE x == CommitClientTimeline(e[n], tempo, e[n].tl.anchor, beat)
  <2>2. tempo \in Tempos /\ e[n].tl.anchor \in Anchors /\ beat \in Int
    BY <1>e, LinkNetworkAssumption DEF Engines, Timelines
  <2>3. x \in Engines /\ x.enabled = e[n].enabled
    BY <1>e, <2>2, CommitQuiet DEF Undisturbed
  <2>4. Speaks(x, OwnIds[n], WasTold(n))
    BY <1>e, <1>r, <2>2, CommitSpeaks
  <2>5. Step(n, x)
    BY <2>1 DEF SetTempo
  <2> HIDE DEF x
  <2> QED BY <2>3, <2>4, <2>5 DEF Spoken
<1>10. CASE \E n \in Nodes : EnableLink(n)
  <2>1. PICK n \in Nodes : EnableLink(n)
    BY <1>10
  <2>2. PICK d \in Draws(n) : Step(n, Enable(e[n], d))
    BY <2>1 DEF EnableLink
  <2> DEFINE x == Enable(e[n], d)
  <2>3. ~e[n].enabled /\ e[n].nbr = 0
    BY <2>1 DEF EnableLink, NetInv, Sound
  <2>4. x \in Engines /\ Speaks(x, OwnIds[n], WasTold(n))
    BY <1>e, <1>r, <1>d, <2>3, EnableCounts, EnableSpeaks
  <2> HIDE DEF x
  <2> QED BY <2>2, <2>3, <2>4 DEF Spoken, x
<1>11. CASE \E n \in Nodes : DisableLink(n)
  <2>1. PICK n \in Nodes : DisableLink(n)
    BY <1>11
  <2> DEFINE x == Disable(e[n])
  <2>2. x \in Engines /\ x.nodeId = e[n].nodeId /\ ~x.enabled
    BY <1>e, DisableCounts, DisableLeaves
  <2>3. Multicast(n, x, [type |-> "ByeBye", body |-> CurrentPeerState(e[n])], unread[n])
    BY <2>1 DEF DisableLink
  <2> HIDE DEF x
  <2> QED BY <2>2, <2>3 DEF Left
<1>12. CASE Tick
  BY <1>12 DEF Tick
<1> QED
  BY <1>1, <1>2, <1>3, <1>4, <1>5, <1>6, <1>7, <1>8, <1>9, <1>10, <1>11, <1>12 DEF Next

\* A response that comes late says nothing about a transport.
LEMMA NextLateMute ==
  ASSUME NetInv, HeardInv, [Next]_vars
  PROVE  LateMute'
<1>1. \/ \A k \in Nodes : late'[k] \in {NoMessage, late[k]}
      \/ \E n, m \in Nodes : HearAlive(n, m) /\ ~UNCHANGED late
  BY DEF Next, vars, Command, HearAlive, HearLateResponse, HearByeBye, TtlPasses, PruneTicker,
         BroadcastTicker, BroadcastTimerFires, MeasurementEnds, SetTempo, EnableLink,
         DisableLink, Tick, NetInv, NetworkTypes
<1>2. CASE \A k \in Nodes : late'[k] \in {NoMessage, late[k]}
  BY <1>2 DEF LateMute, HeardInv
<1>3. CASE \E n, m \in Nodes : HearAlive(n, m) /\ ~UNCHANGED late
  <2>1. PICK n \in Nodes, m \in Nodes : HearAlive(n, m) /\ ~UNCHANGED late
    BY <1>3
  <2>2. PICK d \in Draws(n) :
          late' = [late EXCEPT ![m] = CurrentPeerState(Saw(n, unread[n][m].body, d))]
    BY <2>1 DEF HearAlive
  <2>3. unread[n][m].body \in Messages /\ unread[n][m].body.ss = NoTransport
    BY <2>1 DEF HearAlive, NetInv, NetworkTypes, Packets, HeardInv, Unread
  <2> DEFINE x == Saw(n, unread[n][m].body, d)
  <2>4. x.ss = NoTransport
    BY <2>3, SawSpoken DEF Speaks, Mute
  <2> HIDE DEF x
  <2>5. CurrentPeerState(x).ss = NoTransport
    BY <2>4 DEF CurrentPeerState
  <2>6. \A k \in Nodes : late'[k] \in {CurrentPeerState(x), late[k]}
    BY <2>2 DEF NetInv, NetworkTypes, x
  <2> QED BY <2>5, <2>6 DEF LateMute, HeardInv
<1> QED BY <1>1, <1>2, <1>3

\* Every step keeps what the nodes have heard of each other.
LEMMA NextHeardInv == NetInv /\ HeardInv /\ [Next]_vars => HeardInv'
<1> SUFFICES ASSUME NetInv, HeardInv, [Next]_vars PROVE HeardInv'
  OBVIOUS
<1>1. \/ \E n \in Nodes, x \in Engines : Spoken(n, x)
      \/ \E n \in Nodes, x \in Engines : Left(n, x)
      \/ UNCHANGED <<e, unread>>
  BY NextSpoken DEF vars
<1>2. CASE UNCHANGED <<e, unread>>
  <2>1. \A k \in Nodes : AtRest(k)' /\ Unread(k)'
    BY <1>2 DEF HeardInv, AtRest, Unread, HearsOf, AliveNow
  <2> QED BY <2>1, NextLateMute DEF HeardInv
<1>3. CASE \/ \E n \in Nodes, x \in Engines : Spoken(n, x)
           \/ \E n \in Nodes, x \in Engines : Left(n, x)
  <2>1. \A k \in Nodes : AtRest(k)' /\ Unread(k)'
    BY <1>3, SpokenHeard, LeftHeard
  <2> QED BY <2>1, NextLateMute DEF HeardInv
<1> QED BY <1>1, <1>2, <1>3

\* A node starts on, in a session that it announces.
LEMMA StartedSpeaks ==
  ASSUME NEW n \in Nodes, NEW id \in StartIds[n]
  PROVE  /\ Started(n, id) \in Engines /\ Started(n, id).enabled
         /\ Speaks(Started(n, id), OwnIds[n], NoMessage)
<1> DEFINE d == [id |-> id, beat |-> 0, anchor |-> 0, now |-> Skew[n]]
           x == NewEngine(n, StartTempo[n])
           y == Enable(x, d)
<1>1. d \in DrawSet /\ d.id \in OwnIds[n]
  BY LinkNetworkAssumption DEF DrawSet
<1>2. StartTempo[n] \in Tempos
  BY LinkNetworkAssumption
<1>3. x \in Engines /\ x.sent = NoMessage /\ x.nbr = 0
  BY <1>2, NewEngineType
<1> HIDE DEF x, d
<1>4. y \in Engines /\ y.enabled /\ Speaks(y, OwnIds[n], NoMessage)
  BY <1>1, <1>3, EnableCounts, EnableSpeaks
<1>5. y = Started(n, id)
  BY DEF Started, x, d
<1> HIDE DEF y
<1> QED BY <1>4, <1>5

\* When all nodes have started, each has announced its state to all others or will.
LEMMA InitHeardInv == Init => HeardInv
<1> SUFFICES ASSUME Init PROVE HeardInv
  OBVIOUS
<1>1. PICK id \in [Nodes -> Ids] :
        /\ \A n \in Nodes : id[n] \in StartIds[n]
        /\ e = [n \in Nodes |-> Rested(n, Started(n, id[n]))]
        /\ unread = [n \in Nodes |-> [m \in Nodes |->
                       IF m = n THEN NoMessage ELSE Announced(Started(m, id[m]))]]
  BY DEF Init, Started
<1> DEFINE S(n) == Started(n, id[n])
<1>2. \A n \in Nodes : S(n) \in Engines /\ S(n).enabled /\ Speaks(S(n), OwnIds[n], NoMessage)
  BY <1>1, StartedSpeaks
<1>3. \A n \in Nodes : e[n] = Rested(n, S(n))
  BY <1>1
<1>4. \A n, m \in Nodes : unread[n][m] = IF m = n THEN NoMessage ELSE Announced(S(m))
  BY <1>1
<1> HIDE DEF S
<1>5. ASSUME NEW n \in Nodes
      PROVE  /\ AtRest(n) /\ e[n].enabled /\ e[n].pending = S(n).pending
             /\ CurrentPeerState(e[n]) = CurrentPeerState(S(n))
             /\ CurrentPeerState(S(n)) \in Messages
  <2>1. /\ e[n].nodeId = S(n).nodeId /\ e[n].sessionId = S(n).sessionId /\ e[n].tl = S(n).tl
        /\ e[n].enabled = S(n).enabled /\ e[n].pending = S(n).pending /\ e[n].sent = NoMessage
        /\ e[n].ss = NoTransport /\ ~e[n].recent
    BY <1>2, <1>3, RestedKeeps, RestedMute
  <2>2. S(n).nodeId \in OwnIds[n] /\ S(n).ss = NoTransport
    BY <1>2 DEF Speaks, Mute
  <2>3. CurrentPeerState(S(n)) \in Messages
    BY <1>2 DEF CurrentPeerState, Messages, Engines
  <2> QED BY <1>2, <2>1, <2>2, <2>3 DEF AtRest, CurrentPeerState
<1>6. ASSUME NEW m \in Nodes
      PROVE  /\ Announced(S(m)) # NoMessage => Announced(S(m)).body.ss = NoTransport
             /\ e[m].pending \/ Announced(S(m)) \in {NoMessage, AliveNow(m)}
  <2>1. /\ S(m).sent # NoMessage => S(m).sent.ss = NoTransport
        /\ S(m).pending \/ S(m).sent = CurrentPeerState(S(m))
    BY <1>2, <1>5, NoneAssumption DEF Speaks, Mute, Announces
  <2>2. /\ Announced(S(m)) = NoMessage <=> S(m).sent = NoMessage
        /\ S(m).sent # NoMessage => Announced(S(m)) = [type |-> "Alive", body |-> S(m).sent]
    BY <1>2, AnnouncedSays
  <2> QED BY <1>5, <2>1, <2>2 DEF AliveNow
<1>7. ASSUME NEW n \in Nodes PROVE Unread(n)
  BY <1>4, <1>5, <1>6 DEF Unread, HearsOf
<1>8. LateMute
  BY DEF Init, LateMute
<1> QED BY <1>5, <1>7, <1>8 DEF HeardInv

-----------------------------------------------------------------------------
(* Nodes that agree stay so.  What is on its way says what everyone knows,  *)
(* or is the bye-bye of a node that is off, which is nobody's peer: the     *)
(* peers a node counts in its session are the other nodes that are on, for  *)
(* they are peers it knows, and it counts as many.                          *)

\* Where x is another state of n, what the other nodes of Agreed depend on is as
\* it was.
StaysPut(n, x) ==
  /\ x.enabled = e[n].enabled
  /\ e[n].enabled =>
       /\ x.nodeId = e[n].nodeId /\ x.sessionId = e[n].sessionId
       /\ x.tl = e[n].tl /\ x.xform = e[n].xform /\ x.nbr = e[n].nbr
       /\ x.measuring = e[n].measuring /\ x.pending = e[n].pending
       /\ \A m \in On \ {n} : x.peers[e[m].nodeId] = e[n].peers[e[m].nodeId]

\* A step that moves nobody keeps the agreement.
LEMMA UnmovedAgreed ==
  ASSUME Agreed, HeardInv, HeardInv',
         \A n \in Nodes : StaysPut(n, e'[n]) /\ late'[n] \in {NoMessage, late[n]}
  PROVE  Agreed'
<1>1. On' = On /\ \A n \in On : n \in Nodes /\ e[n].enabled
  BY DEF On, StaysPut
<1>2. ASSUME NEW n \in On
      PROVE  /\ e'[n].nodeId = e[n].nodeId /\ e'[n].sessionId = e[n].sessionId
             /\ e'[n].tl = e[n].tl /\ e'[n].xform = e[n].xform /\ e'[n].nbr = e[n].nbr
             /\ e'[n].measuring = e[n].measuring /\ e'[n].pending = e[n].pending
             /\ e'[n].ss = e[n].ss /\ late'[n] \in {NoMessage, late[n]}
             /\ \A m \in On \ {n} : e'[n].peers[e[m].nodeId] = e[n].peers[e[m].nodeId]
  BY <1>1 DEF StaysPut, HeardInv, AtRest
<1>3. Quiet'
  <2>1. \A n \in On : Measured(e[n])' = {} /\ ~e'[n].pending /\ late'[n] = NoMessage
    BY <1>2 DEF Agreed, Quiet, Measured
  <2>2. ASSUME NEW n \in On, NEW m \in On, n # m PROVE Knows(n, m)'
    <3>1. Knows(n, m)
      BY <2>2 DEF Agreed, Quiet
    <3>2. e'[n].peers[e'[m].nodeId] = e[n].peers[e[m].nodeId]
      BY <1>2, <2>2
    <3>3. e'[m].sessionId = e[m].sessionId /\ e'[m].tl = e[m].tl /\ e'[m].ss = e[m].ss
      BY <1>2
    <3> QED BY <3>1, <3>2, <3>3 DEF Knows
  <2> QED BY <1>1, <2>1, <2>2 DEF Quiet
<1>4. ASSUME NEW n \in On, NEW m \in On PROVE InStep(n, m)'
  <2>1. InStep(n, m)
    BY DEF Agreed
  <2> QED BY <1>1, <1>2, <2>1 DEF InStep, GhostClock
<1> QED BY <1>1, <1>3, <1>4 DEF Agreed

\* Ids of two nodes are never the same.
LEMMA IdsApart ==
  ASSUME HeardInv, NEW n \in Nodes, NEW m \in Nodes, n # m
  PROVE  e[n].nodeId # e[m].nodeId /\ e[m].nodeId \notin OwnIds[n]
BY LinkNetworkAssumption DEF HeardInv, AtRest

\* When the nodes agree, the members of a node's session are the others that are on.
LEMMA AgreedMembers ==
  ASSUME NetInv, HeardInv, Agreed, NEW n \in On
  PROVE  Members(e[n]) = {e[m].nodeId : m \in On \ {n}}
<1> DEFINE others == On \ {n}
           members == Members(e[n])
           f == [m \in others |-> e[m].nodeId]
<1>1. IsFiniteSet(On) /\ IsFiniteSet(others) /\ Cardinality(others) = Cardinality(On) - 1
  <2>1. On \in SUBSET Nodes
    BY DEF On
  <2>2. IsFiniteSet(On)
    BY <2>1, LinkNetworkAssumption, FS_Subset
  <2> QED BY <2>2, FS_RemoveElement
<1>2. IsFiniteSet(members)
  BY IdsAssumption, FS_Subset DEF Members, InSession, Known
<1>3. Cardinality(members) = Cardinality(others)
  <2>1. e[n].nbr = Cardinality(members)
    BY DEF NetInv, Sound, Counted, On
  <2>2. InStep(n, n)
    BY DEF Agreed
  <2> QED BY <1>1, <2>1, <2>2 DEF InStep
<1>4. ASSUME NEW m \in others PROVE e[m].nodeId \in members
  <2>1. e[n].peers[e[m].nodeId] = [session |-> e[m].sessionId, tl |-> e[m].tl, ss |-> e[m].ss,
                                   expired |-> FALSE]
    BY DEF Agreed, Quiet, Knows
  <2>2. e[m] \in Engines
    BY DEF NetInv, NetworkTypes, On
  <2>3. e[n].peers[e[m].nodeId] \in PeerStates /\ e[m].nodeId \in Ids
    BY <2>1, <2>2 DEF PeerStates, Engines
  <2>4. e[m].sessionId = e[n].sessionId
    BY DEF Agreed, InStep
  <2> QED BY <2>1, <2>3, <2>4, NoneAssumption DEF Members, InSession, Known
<1>5. \A m, k \in others : e[m].nodeId = e[k].nodeId => m = k
  BY IdsApart DEF On
<1>6. f \in Injection(others, members)
  <2>1. f \in [others -> members]
    BY <1>4
  <2>2. \A m, k \in others : f[m] = f[k] => m = k
    BY <1>5
  <2> HIDE DEF f, others, members
  <2> QED BY <2>1, <2>2, Zenon DEF Injection, IsInjective
<1>7. f \in Surjection(others, members)
  <2> HIDE DEF f, others, members
  <2> QED BY <1>2, <1>3, <1>6, FS_Injection
<1>8. \A p \in members : \E m \in others : f[m] = p
  <2> HIDE DEF f, others, members
  <2> QED BY <1>7, Zenon DEF Surjection
<1>9. \A p \in members : \E m \in others : e[m].nodeId = p
  BY <1>8
<1> QED BY <1>4, <1>9

\* A node none of whose peers on the network changes has as many members as before.
LEMMA SameMembers ==
  ASSUME NetInv, HeardInv, Agreed, NEW n \in On, NEW x \in Engines,
         x.sessionId = e[n].sessionId, x.nbr = e[n].nbr,
         \A p \in Ids : x.peers[p] \in {e[n].peers[p], NoPeer},
         \A m \in On \ {n} : x.peers[e[m].nodeId] = e[n].peers[e[m].nodeId]
  PROVE  Cardinality(Members(x)) = x.nbr
<1>1. Members(e[n]) = {e[m].nodeId : m \in On \ {n}}
  BY AgreedMembers
<1>2. Members(x) = Members(e[n])
  BY <1>1 DEF Members, InSession, Known
<1>3. e[n].nbr = Cardinality(Members(e[n]))
  BY DEF NetInv, Sound, Counted, On
<1> QED BY <1>2, <1>3

\* A handler that leaves its node where it was moves nobody.
LEMMA StillHandler ==
  ASSUME NetInv, NEW n \in Nodes, NEW x \in Engines, StaysPut(n, x),
         Step(n, x) \/ \E m \in Nodes : StepAfter(n, m, x)
  PROVE  \A k \in Nodes : StaysPut(k, e'[k])
<1>1. e'[n] = Rested(n, x) /\ \A k \in Nodes \ {n} : e'[k] = e[k]
  BY HandlerUnread DEF NetInv
<1>2. StaysPut(n, e'[n])
  <2>1. /\ e'[n].nodeId = x.nodeId /\ e'[n].sessionId = x.sessionId /\ e'[n].tl = x.tl
        /\ e'[n].xform = x.xform /\ e'[n].enabled = x.enabled /\ e'[n].peers = x.peers
        /\ e'[n].measuring = x.measuring /\ e'[n].nbr = x.nbr /\ e'[n].pending = x.pending
    BY <1>1, RestedKeeps
  <2> QED BY <2>1 DEF StaysPut
<1>3. \A k \in Nodes \ {n} : StaysPut(k, e'[k])
  BY <1>1 DEF StaysPut
<1> QED BY <1>2, <1>3

\* A peer that says what is known of it changes nothing (sawPeerState).
LEMMA SawKnown ==
  ASSUME NEW x \in Engines, NEW p \in Ids, NEW d, x.peers[p] \in PeerStates
  PROVE  SawPeerState(x, p, x.peers[p], d) = x
<1>1. [x EXCEPT !.peers[p] = x.peers[p]] = x
  BY DEF Engines
<1>2. x.peers[p] # NoPeer
  BY NoneAssumption
<1>3. PropagateTimeline(x, x.peers[p], p) = x /\ PropagateStartStop(x, x.peers[p], p) = x
  BY <1>2 DEF PropagateTimeline, PropagateStartStop
<1> QED BY <1>1, <1>2, <1>3 DEF SawPeerState

\* What n reads of m is what n knows of m, as both are on.
LEMMA AgreedReads ==
  ASSUME NetInv, HeardInv, Agreed, NEW n \in Nodes, NEW m \in Nodes, HearAlive(n, m)
  PROVE  e[n].enabled => n # m /\ m \in On /\ unread[n][m].body = CurrentPeerState(e[m])
<1>1. n # m
  BY DEF HearAlive, HeardInv, Unread
<1>2. HearsOf(n, m)
  BY <1>1 DEF HeardInv, Unread
<1>3. e[m].enabled
  BY <1>2 DEF HearAlive, HearsOf
<1>4. ~e[m].pending
  BY <1>3 DEF Agreed, Quiet, On
<1>5. unread[n][m] = AliveNow(m)
  BY <1>2, <1>3, <1>4 DEF HearAlive, HearsOf
<1> QED BY <1>1, <1>3, <1>5 DEF AliveNow, On

\* ... so it learns nothing from it.
LEMMA HeardStill ==
  ASSUME NetInv, HeardInv, Agreed, NEW n \in Nodes, NEW m \in Nodes, HearAlive(n, m)
  PROVE  StepAfter(n, m, e[n])
<1>1. CASE e[n].enabled
  <2> DEFINE p == e[m].nodeId
  <2>1. n \in On /\ m \in On /\ n # m /\ unread[n][m].body = CurrentPeerState(e[m])
    BY <1>1, AgreedReads DEF On
  <2>2. e[n].peers[p] = [session |-> e[m].sessionId, tl |-> e[m].tl, ss |-> e[m].ss,
                         expired |-> FALSE]
    BY <2>1 DEF Agreed, Quiet, Knows
  <2>3. e[n] \in Engines /\ e[m] \in Engines
    BY DEF NetInv, NetworkTypes
  <2>4. p \in Ids /\ e[n].peers[p] \in PeerStates
    BY <2>2, <2>3 DEF PeerStates, Engines
  <2>5. PICK d \in Draws(n) : StepAfter(n, m, Saw(n, unread[n][m].body, d))
    BY <1>1 DEF HearAlive
  <2>6. Saw(n, CurrentPeerState(e[m]), d) = SawPeerState(e[n], p, e[n].peers[p], d)
    BY <2>2 DEF Saw, CurrentPeerState
  <2> HIDE DEF p
  <2> QED BY <2>1, <2>3, <2>4, <2>5, <2>6, SawKnown
<1>2. CASE ~e[n].enabled
  BY <1>2 DEF HearAlive
<1> QED BY <1>1, <1>2

\* x is n without some peers, none of which is on the network.
Loses(n, x) ==
  /\ x.enabled = e[n].enabled /\ x.nodeId = e[n].nodeId /\ x.sessionId = e[n].sessionId
  /\ x.tl = e[n].tl /\ x.xform = e[n].xform /\ x.nbr = e[n].nbr
  /\ x.measuring = e[n].measuring /\ x.pending = e[n].pending
  /\ \A p \in Ids : x.peers[p] \in {e[n].peers[p], NoPeer}
  /\ \A m \in On \ {n} : x.peers[e[m].nodeId] = e[n].peers[e[m].nodeId]

\* Such peers are not missed (removePeer, prunePeers).
LEMMA GoneStill ==
  ASSUME NetInv, HeardInv, Agreed, NEW n \in Nodes, NEW x \in Engines, NEW d,
         Loses(n, x), e[n].enabled
  PROVE  SessionMembershipChanged(x, d) = x /\ StaysPut(n, x)
<1>1. n \in On
  BY DEF On
<1>2. Cardinality(Members(x)) = x.nbr
  BY <1>1, SameMembers DEF Loses
<1> QED BY <1>2 DEF SessionMembershipChanged, StaysPut, Loses

\* A bye-bye read now is that of a node that is off.
LEMMA ByeByeStill ==
  ASSUME NetInv, HeardInv, Agreed, NEW n \in Nodes, NEW m \in Nodes, HearByeBye(n, m)
  PROVE  \E x \in Engines : StepAfter(n, m, x) /\ StaysPut(n, x)
<1> DEFINE p == unread[n][m].body.node
           x == [e[n] EXCEPT !.peers[p] = NoPeer]
<1>1. n # m /\ HearsOf(n, m)
  BY DEF HearByeBye, HeardInv, Unread
<1>2. ~e[m].enabled
  <2> SUFFICES ASSUME e[m].enabled PROVE FALSE
    OBVIOUS
  <2>1. ~e[m].pending
    BY DEF Agreed, Quiet, On
  <2>2. unread[n][m] = AliveNow(m)
    BY <1>1, <2>1 DEF HearByeBye, HearsOf
  <2> QED BY <2>2 DEF AliveNow, HearByeBye
<1>3. p \in OwnIds[m] /\ p \in Ids
  BY <1>1, <1>2, LinkNetworkAssumption DEF HearByeBye, HearsOf
<1>4. e[n] \in Engines
  BY DEF NetInv, NetworkTypes
<1>5. \A k \in On : e[k].nodeId # p
  <2>1. \A k \in On : k \in Nodes /\ k # m /\ e[k].nodeId \in OwnIds[k]
    BY <1>2 DEF On, HeardInv, AtRest
  <2> QED BY <1>3, <2>1, LinkNetworkAssumption
<1>6. PICK d \in Draws(n) : StepAfter(n, m, RemovePeer(e[n], p, d))
  BY DEF HearByeBye
<1> HIDE DEF p
<1>7. /\ x \in Engines /\ x.enabled = e[n].enabled /\ x.nodeId = e[n].nodeId
      /\ x.sessionId = e[n].sessionId /\ x.tl = e[n].tl /\ x.xform = e[n].xform
      /\ x.nbr = e[n].nbr /\ x.measuring = e[n].measuring /\ x.pending = e[n].pending
      /\ \A q \in Ids : x.peers[q] = IF q = p THEN NoPeer ELSE e[n].peers[q]
  BY <1>3, <1>4 DEF Engines
<1>8. \A k \in On : e[k].nodeId \in Ids
  BY DEF NetInv, NetworkTypes, Engines, On
<1>9. CASE e[n].peers[p] = NoPeer
  <2>1. RemovePeer(e[n], p, d) = e[n]
    BY <1>9 DEF RemovePeer
  <2> QED BY <1>4, <1>6, <2>1 DEF StaysPut
<1>10. CASE e[n].peers[p] # NoPeer
  <2>1. RemovePeer(e[n], p, d) = SessionMembershipChanged(x, d)
    BY <1>10 DEF RemovePeer
  <2>2. e[n].enabled
    BY <1>3, <1>10 DEF NetInv, Sound, Known
  <2> HIDE DEF x
  <2>3. Loses(n, x)
    BY <1>5, <1>7, <1>8 DEF Loses
  <2>4. SessionMembershipChanged(x, d) = x /\ StaysPut(n, x)
    BY <1>7, <2>2, <2>3, GoneStill
  <2> QED BY <1>6, <1>7, <2>1, <2>4
<1> QED BY <1>9, <1>10

\* A peer that expires now is not on the network.
LEMMA PruneStill ==
  ASSUME NetInv, HeardInv, Agreed, NEW n \in Nodes, PruneTicker(n)
  PROVE  \E x \in Engines : Step(n, x) /\ StaysPut(n, x)
<1> DEFINE x == [e[n] EXCEPT !.peers = [p \in Ids |-> IF p \in Expired(e[n]) THEN NoPeer ELSE @[p]]]
<1>1. PICK d \in Draws(n) : Step(n, PrunePeers(e[n], d))
  BY DEF PruneTicker
<1>2. e[n] \in Engines
  BY DEF NetInv, NetworkTypes
<1>3. /\ x \in Engines /\ x.enabled = e[n].enabled /\ x.nodeId = e[n].nodeId
      /\ x.sessionId = e[n].sessionId /\ x.tl = e[n].tl /\ x.xform = e[n].xform
      /\ x.nbr = e[n].nbr /\ x.measuring = e[n].measuring /\ x.pending = e[n].pending
      /\ \A q \in Ids : x.peers[q] = IF q \in Expired(e[n]) THEN NoPeer ELSE e[n].peers[q]
  BY <1>2 DEF Engines
<1>4. CASE Expired(e[n]) = {}
  <2>1. PrunePeers(e[n], d) = e[n]
    BY <1>4 DEF PrunePeers
  <2> QED BY <1>1, <1>2, <2>1 DEF StaysPut
<1>5. CASE Expired(e[n]) # {}
  <2>1. PrunePeers(e[n], d) = SessionMembershipChanged(x, d)
    BY <1>5 DEF PrunePeers
  <2>2. e[n].enabled
    BY <1>5 DEF NetInv, Sound, Expired
  <2>3. ASSUME NEW m \in On \ {n} PROVE e[m].nodeId \in Ids /\ e[m].nodeId \notin Expired(e[n])
    <3>1. e[m] \in Engines /\ n \in On
      BY <2>2 DEF NetInv, NetworkTypes, On
    <3>2. e[n].peers[e[m].nodeId] = [session |-> e[m].sessionId, tl |-> e[m].tl,
                                     ss |-> e[m].ss, expired |-> FALSE]
      BY <3>1 DEF Agreed, Quiet, Knows
    <3> QED BY <3>1, <3>2 DEF Expired, Engines
  <2> HIDE DEF x
  <2>4. Loses(n, x)
    BY <1>3, <2>3 DEF Loses
  <2>5. SessionMembershipChanged(x, d) = x /\ StaysPut(n, x)
    BY <1>3, <2>2, <2>4, GoneStill
  <2> QED BY <1>1, <1>3, <2>1, <2>5
<1> QED BY <1>4, <1>5

\* What is missed or commanded is spent.
LEMMA NothingSpent ==
  ASSUME NetInv, UNCHANGED spent
  PROVE  ~Missed /\ ~Command
<1>1. spent \in Nat /\ spent' = spent /\ MissCost \in Nat /\ MissCost # 0
  BY LinkNetworkAssumption DEF NetInv, NetworkTypes
<1> QED BY <1>1 DEF Missed, Spend, Command

\* The id whose TTL passes is the id of no node that is on.
LEMMA TtlStill ==
  ASSUME NetInv, NEW n \in Nodes, NEW id \in Ids, TtlPasses(n, id), UNCHANGED spent
  PROVE  \E x \in Engines : Step(n, x) /\ StaysPut(n, x)
<1> DEFINE aged == [e[n].peers[id] EXCEPT !.expired = TRUE]
           x == [e[n] EXCEPT !.peers[id].expired = TRUE]
<1>1. e[n] \in Engines
  BY DEF NetInv, NetworkTypes
<1>2. ~Live(id)
  BY NothingSpent DEF TtlPasses, Missed
<1>3. \A m \in On : e[m].nodeId # id
  BY <1>2 DEF Live, On
<1>4. e[n].peers[id] \in PeerStates
  BY <1>1 DEF TtlPasses, Known, Engines
<1>5. aged \in PeerStates
  BY <1>4 DEF PeerStates
<1>6. x = [e[n] EXCEPT !.peers[id] = aged]
  BY <1>1 DEF Engines
<1> HIDE DEF aged, x
<1>7. /\ x \in Engines /\ x.enabled = e[n].enabled /\ x.nodeId = e[n].nodeId
      /\ x.sessionId = e[n].sessionId /\ x.tl = e[n].tl /\ x.xform = e[n].xform
      /\ x.nbr = e[n].nbr /\ x.measuring = e[n].measuring /\ x.pending = e[n].pending
      /\ \A q \in Ids \ {id} : x.peers[q] = e[n].peers[q]
  BY <1>1, <1>5, <1>6 DEF Engines
<1>8. \A m \in On : e[m].nodeId \in Ids
  BY DEF NetInv, NetworkTypes, Engines, On
<1>9. StaysPut(n, x)
  BY <1>3, <1>7, <1>8 DEF StaysPut
<1>10. Step(n, x)
  BY DEF TtlPasses, x
<1> QED BY <1>7, <1>9, <1>10

\* No handler moves a node, where nothing is spent: it ends where it was, or is not
\* about the engines.
LEMMA NextStill ==
  ASSUME NetInv, HeardInv, Agreed, Next, UNCHANGED spent
  PROVE  \/ \E n \in Nodes, x \in Engines :
              StaysPut(n, x) /\ (Step(n, x) \/ \E m \in Nodes : StepAfter(n, m, x))
         \/ UNCHANGED e
<1>e. \A n \in Nodes : e[n] \in Engines
  BY DEF NetInv, NetworkTypes
<1>s. \A n \in Nodes : StaysPut(n, e[n])
  BY DEF StaysPut
<1>1. CASE \E n, m \in Nodes : HearAlive(n, m)
  BY <1>e, <1>s, <1>1, HeardStill
<1>2. CASE \E n \in Nodes : HearLateResponse(n)
  <2>1. PICK n \in Nodes : HearLateResponse(n)
    BY <1>2
  <2>2. ~e[n].enabled
    BY <2>1 DEF HearLateResponse, Agreed, Quiet, On
  <2> QED BY <2>1, <2>2 DEF HearLateResponse
<1>3. CASE \E n, m \in Nodes : HearByeBye(n, m)
  BY <1>3, ByeByeStill
<1>4. CASE \E n \in Nodes, id \in Ids : TtlPasses(n, id)
  BY <1>4, TtlStill
<1>5. CASE \E n \in Nodes : PruneTicker(n)
  BY <1>5, PruneStill
<1>6. CASE \E n \in Nodes : BroadcastTicker(n)
  <2>1. PICK n \in Nodes : Step(n, Broadcast(e[n]))
    BY <1>6 DEF BroadcastTicker
  <2> DEFINE x == Broadcast(e[n])
  <2>2. x \in Engines /\ OnlyAnnounces(e[n], x)
    BY <1>e, BroadcastType, BroadcastAnnounces
  <2>3. x.pending = e[n].pending
    <3>1. ~e[n].recent
      BY DEF HeardInv, AtRest
    <3> QED BY <1>e, <3>1 DEF Broadcast, BroadcastNow, Engines
  <2>4. Step(n, x)
    BY <2>1
  <2> HIDE DEF x
  <2>5. StaysPut(n, x)
    BY <2>2, <2>3 DEF StaysPut, OnlyAnnounces, Keeps
  <2> QED BY <2>2, <2>4, <2>5
<1>7. CASE \E n \in Nodes : BroadcastTimerFires(n)
  <2>1. PICK n \in Nodes : BroadcastTimerFires(n)
    BY <1>7
  <2> DEFINE x == [e[n] EXCEPT !.pending = FALSE]
             y == BroadcastNow(x)
  <2>2. ~e[n].enabled
    BY <2>1 DEF BroadcastTimerFires, Agreed, Quiet, On
  <2>e. e[n] \in Engines
    BY <1>e
  <2>3. x \in Engines /\ x.enabled = e[n].enabled
    BY <2>e DEF Engines
  <2>4. Step(n, y)
    BY <2>1 DEF BroadcastTimerFires
  <2> HIDE DEF x
  <2>5. y = x
    BY <2>2, <2>3 DEF BroadcastNow
  <2> HIDE DEF y
  <2> QED BY <2>2, <2>3, <2>4, <2>5 DEF StaysPut
<1>8. CASE \E n \in Nodes, s \in Ids : MeasurementEnds(n, s)
  <2>1. PICK n \in Nodes, s \in Ids : MeasurementEnds(n, s)
    BY <1>8
  <2> DEFINE x == [e[n] EXCEPT !.measuring[s] = NoPeer]
             y == SessionMeasurementFailed(x, s)
  <2>2. ~e[n].enabled
    BY <2>1 DEF MeasurementEnds, Agreed, Quiet, On
  <2>e. e[n] \in Engines
    BY <1>e
  <2>3. x \in Engines /\ x.enabled = e[n].enabled
    BY <2>e DEF Engines
  <2>4. Step(n, y)
    BY <2>1, <2>2 DEF MeasurementEnds, Answers
  <2> HIDE DEF x
  <2>5. y \in Engines /\ y.enabled = x.enabled
    BY <2>3, ForgetType, LaunchAside DEF Aside
  <2> HIDE DEF y
  <2> QED BY <2>2, <2>3, <2>4, <2>5 DEF StaysPut
<1>9. CASE \/ \E n \in Nodes, tempo \in NodeTempos, beat \in Beats : SetTempo(n, tempo, beat)
           \/ \E n \in Nodes : EnableLink(n)
           \/ \E n \in Nodes : DisableLink(n)
  BY <1>9, NothingSpent DEF SetTempo, EnableLink, DisableLink
<1>10. CASE Tick
  BY <1>10 DEF Tick
<1> QED
  BY <1>1, <1>2, <1>3, <1>4, <1>5, <1>6, <1>7, <1>8, <1>9, <1>10 DEF Next

\* ... nor does it leave a response for later.
LEMMA NothingLate ==
  ASSUME NetInv, [Next]_vars, UNCHANGED spent
  PROVE  \A k \in Nodes : late'[k] \in {NoMessage, late[k]}
<1>1. ~Missed /\ ~Command
  BY NothingSpent
<1>2. CASE \E n \in Nodes : HearLateResponse(n)
  BY <1>2 DEF HearLateResponse, NetInv, NetworkTypes
<1>3. CASE Next /\ ~\E n \in Nodes : HearLateResponse(n)
  <2>1. UNCHANGED late
    BY <1>1, <1>3 DEF Next, HearAlive, HearByeBye, TtlPasses, PruneTicker,
         BroadcastTicker, BroadcastTimerFires, MeasurementEnds, SetTempo, EnableLink,
         DisableLink, Tick
  <2> QED BY <2>1
<1>4. CASE UNCHANGED vars
  BY <1>4 DEF vars
<1> QED BY <1>2, <1>3, <1>4

\* Nodes that agree and have told each other so stay so until a command or a miss,
\* however many they are: what is still unread, what a ticker prunes, and what a node
\* that left has still to say drive nobody apart (sawPeerState, removePeer, prunePeers,
\* engine.go:364-432).
THEOREM AgreementIsStable == Spec => AgreementStays
<1> DEFINE Inv == NetInv /\ HeardInv
<1>1. Init => Inv
  BY InitInv, InitHeardInv
<1>2. Inv /\ [Next]_vars => Inv'
  BY NextInv, NextHeardInv
<1>3. Inv /\ Inv' /\ [Next]_vars => [Agreed /\ UNCHANGED spent => Agreed']_vars
  <2> SUFFICES ASSUME NetInv, HeardInv, HeardInv', [Next]_vars, Agreed, UNCHANGED spent
               PROVE  Agreed'
    BY DEF vars
  <2>1. \A n \in Nodes : StaysPut(n, e'[n])
    <3>1. \/ \E n \in Nodes, x \in Engines :
               StaysPut(n, x) /\ (Step(n, x) \/ \E m \in Nodes : StepAfter(n, m, x))
          \/ UNCHANGED e
      BY NextStill DEF vars
    <3>2. CASE UNCHANGED e
      BY <3>2 DEF StaysPut
    <3> QED BY <3>1, <3>2, StillHandler
  <2>2. \A n \in Nodes : late'[n] \in {NoMessage, late[n]}
    BY NothingLate
  <2> QED BY <2>1, <2>2, UnmovedAgreed
<1> QED BY <1>1, <1>2, <1>3, PTL DEF Spec, AgreementStays

=============================================================================
