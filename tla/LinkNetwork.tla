---------------------------- MODULE LinkNetwork ----------------------------
(***************************************************************************)
(* Several Link nodes on one network, each running the engine of           *)
(* SessionEngine.  Where LinkNode lets a peer say anything, here only the  *)
(* engines speak: what they multicast is read, lost or overtaken, their    *)
(* unicast responses may be late, their bye-byes arrive at any time, and a *)
(* measurement finds the clock of the node it reaches.                     *)
(*                                                                         *)
(* What readers and callbacks see is the subject of LinkNode and           *)
(* PublicAPI, and so is broadcast pacing: the gap after a broadcast passes *)
(* between two handlers of a node.  A transport state would take the way   *)
(* of a timeline through the network and is left out.                      *)
(***************************************************************************)
EXTENDS SessionEngine

CONSTANTS
  Nodes,
  OwnIds,         \* the ids each node may draw
  StartIds,       \* BOUND: those of them it starts with
  StartTempo,     \* the configured tempo of each node
  Skew,           \* the host clock of each node, ahead of the common time
  Instants,       \* times at which something happens
  NodeTempos,     \* tempi the applications ask for
  Beats,          \* beats a session can be at when a timeline is set or founded
  MissCost,       \* what a late response or a long silence takes of MaxSpent
  MaxSpent        \* BOUND on disturbances; a command takes 1 of it

ASSUME LinkNetworkAssumption ==
  /\ IsFiniteSet(Nodes)
  /\ OwnIds \in [Nodes -> (SUBSET Ids) \ {{}}] /\ Ids = UNION {OwnIds[n] : n \in Nodes}
  /\ \A n \in Nodes : StartIds[n] \subseteq OwnIds[n]
  /\ \A m, n \in Nodes : m # n => OwnIds[m] \cap OwnIds[n] = {}
  /\ StartTempo \in [Nodes -> NodeTempos] /\ Skew \in [Nodes -> Int]
  /\ Instants \subseteq Nat
  /\ NodeTempos \subseteq {t \in Tempos : MinTempo <= t /\ t <= MaxTempo}
  /\ Beats \subseteq Int /\ 0 \in Anchors
  /\ MissCost \in Nat \ {0} /\ MaxSpent \in Nat

VARIABLES
  e,          \* the engine of each node
  unread,     \* the last multicast of each node, where it has not been read
  late,       \* a response each node has still to read
  commands,   \* how many commands were given
  spent,      \* what commands and misses took of MaxSpent
  now         \* the common time

vars == <<e, unread, late, commands, spent, now>>

-----------------------------------------------------------------------------
(* The engines, less what readers see. *)

NewEngine(n, tempo) ==
  LET id == CHOOSE x \in OwnIds[n] : TRUE
  IN  [nodeId |-> id, sessionId |-> id,
       tl |-> [tempo |-> tempo, origin |-> 0, anchor |-> 0], xform |-> -Skew[n],
       ss |-> NoTransport, css |-> NoTransport, lastCb |-> FALSE, sync |-> FALSE,
       enabled |-> FALSE,
       peers |-> [p \in Ids |-> NoPeer], others |-> [s \in Ids |-> NoSession],
       measuring |-> [s \in Ids |-> NoPeer], nbr |-> 0, remeasure |-> FALSE,
       recent |-> FALSE, pending |-> FALSE, sent |-> NoMessage, echo |-> FALSE,
       snap |-> [enabled |-> FALSE, numPeers |-> 0, tempo |-> MinTempo, playing |-> FALSE,
                 nodeId |-> id, sessionId |-> id, peers |-> [p \in Ids |-> NoSession]],
       toldTempo |-> MinTempo, toldPeers |-> 0, forgotten |-> {}]

\* The engine as it enters its next handler: what only readers and pacing tell
\* apart is as in a new one, and the multicast has left it.
Rested(n, engine) ==
  [NewEngine(n, MinTempo) EXCEPT
     !.nodeId = engine.nodeId, !.sessionId = engine.sessionId, !.tl = engine.tl,
     !.xform = engine.xform, !.enabled = engine.enabled, !.peers = engine.peers,
     !.others = engine.others, !.measuring = engine.measuring, !.nbr = engine.nbr,
     !.pending = engine.pending]

\* A bye-bye is read for the id in its header only.
Packets == [type : {"Alive", "ByeBye"}, body : Messages]

ASSUME NoPacketAssumption == NoMessage \notin Packets

\* The packet a handler of n has multicast takes the place of what the others have
\* not read of n; read are the packets n has left after the one it handles.
Multicast(n, engine, packet, read) ==
  /\ e' = [e EXCEPT ![n] = Rested(n, engine)]
  /\ unread' = [m \in Nodes |-> IF m = n THEN read
                                ELSE IF packet = NoMessage THEN unread[m]
                                ELSE [unread[m] EXCEPT ![n] = packet]]

Announced(engine) ==
  IF engine.sent = NoMessage THEN NoMessage ELSE [type |-> "Alive", body |-> engine.sent]

\* n ends a handler as engine, or one that has read the packet of m.
Step(n, engine)         == Multicast(n, engine, Announced(engine), unread[n])
StepAfter(n, m, engine) ==
  Multicast(n, engine, Announced(engine), [unread[n] EXCEPT ![m] = NoMessage])

\* Ids some engine or some packet on its way refers to; a random id is none of them.
Taken ==
  LET bodies == {late[n] : n \in {k \in Nodes : late[k] # NoMessage}}
        \cup {unread[w[1]][w[2]].body : w \in {v \in Nodes \X Nodes : unread[v[1]][v[2]] # NoMessage}}
  IN  (UNION {InUse(e[n]) : n \in Nodes}) \cup UNION {{msg.node, msg.session} : msg \in bodies}

\* What founding a session takes from outside the engine of n.
Draws(n) ==
  [id : OwnIds[n] \ Taken, beat : Beats, anchor : {0}, now : {now + Skew[n]}]

Owner(id) == CHOOSE n \in Nodes : id \in OwnIds[n]
Live(id)  == \E n \in Nodes : e[n].enabled /\ e[n].nodeId = id
On        == {n \in Nodes : e[n].enabled}

\* The ghost time of a node's session, less the common time.
GhostClock(n) == HostToGhost(e[n].xform, Skew[n])

\* New with Enabled set, on every node.
Init ==
  /\ now = 0
  /\ \E id \in [Nodes -> Ids] :
       /\ \A n \in Nodes : id[n] \in StartIds[n]
       /\ LET new == [n \in Nodes |->
                Enable(NewEngine(n, StartTempo[n]),
                       [id |-> id[n], beat |-> 0, anchor |-> 0, now |-> Skew[n]])]
          IN  /\ e = [n \in Nodes |-> Rested(n, new[n])]
              /\ unread = [n \in Nodes |-> [m \in Nodes |->
                             IF m = n THEN NoMessage ELSE Announced(new[m])]]
  /\ late = [n \in Nodes |-> NoMessage]
  /\ commands = 0 /\ spent = 0

Spend(cost) == spent + cost <= MaxSpent /\ spent' = spent + cost
Missed      == Spend(MissCost)

-----------------------------------------------------------------------------
(* Discovery. *)

Saw(n, msg, d) ==
  SawPeerState(e[n], msg.node,
    [session |-> msg.session, tl |-> msg.tl, ss |-> msg.ss, expired |-> FALSE], d)

\* n reads a multicast of m and answers with its state.  An answer read at once
\* tells m what the next multicast of n tells it, so only late ones are kept.
HearAlive(n, m) ==
  /\ unread[n][m] # NoMessage /\ unread[n][m].type = "Alive"
  /\ IF e[n].enabled
     THEN \E d \in Draws(n) :
            LET seen == Saw(n, unread[n][m].body, d)
            IN  /\ StepAfter(n, m, seen)
                /\ \/ UNCHANGED <<late, spent>>
                   \/ /\ Missed
                      /\ late' = [late EXCEPT ![m] = CurrentPeerState(seen)]
     ELSE StepAfter(n, m, e[n]) /\ UNCHANGED <<late, spent>>
  /\ UNCHANGED <<commands, now>>

HearLateResponse(n) ==
  /\ late[n] # NoMessage
  /\ late' = [late EXCEPT ![n] = NoMessage]
  /\ IF e[n].enabled THEN \E d \in Draws(n) : Step(n, Saw(n, late[n], d))
     ELSE UNCHANGED <<e, unread>>
  /\ UNCHANGED <<commands, spent, now>>

HearByeBye(n, m) ==
  /\ unread[n][m] # NoMessage /\ unread[n][m].type = "ByeBye"
  /\ \E d \in Draws(n) : StepAfter(n, m, RemovePeer(e[n], unread[n][m].body.node, d))
  /\ UNCHANGED <<late, commands, spent, now>>

\* The nodes have told each other what they have, and no measurement is going on.
Knows(n, m) ==
  LET p == e[n].peers[e[m].nodeId]
  IN  p = [session |-> e[m].sessionId, tl |-> e[m].tl, ss |-> e[m].ss, expired |-> FALSE]

Quiet ==
  /\ \A n \in On : Measured(e[n]) = {} /\ ~e[n].pending /\ late[n] = NoMessage
  /\ \A n, m \in On : n # m => Knows(n, m)

\* Nothing was heard of an id for its TTL: nobody has it any more, or its
\* announcements were missed.  Six seconds are long against the 250 ms of a
\* broadcast and the 50 ms of a ping, so the TTL of an id that is gone passes
\* when the nodes have settled.
TtlPasses(n, id) ==
  /\ id \in Known(e[n]) /\ ~e[n].peers[id].expired
  /\ \/ ~Live(id) /\ Quiet /\ UNCHANGED spent
     \/ Live(id) /\ Missed
  /\ Step(n, [e[n] EXCEPT !.peers[id].expired = TRUE])
  /\ UNCHANGED <<late, commands, now>>

PruneTicker(n) ==
  /\ \E d \in Draws(n) : Step(n, PrunePeers(e[n], d))
  /\ UNCHANGED <<late, commands, spent, now>>

BroadcastTicker(n) ==
  /\ Step(n, Broadcast(e[n]))
  /\ UNCHANGED <<late, commands, spent, now>>

\* A handler that broadcasts twice leaves the second one to the timer.
BroadcastTimerFires(n) ==
  /\ e[n].pending
  /\ Step(n, BroadcastNow([e[n] EXCEPT !.pending = FALSE]))
  /\ UNCHANGED <<late, commands, spent, now>>

-----------------------------------------------------------------------------
(* Measurements.  Pings go to an address, so they reach the node that had   *)
(* the measured id, whatever its id is by now.                              *)

Answers(n, s, m) == e[n].enabled /\ e[m].enabled /\ e[m].sessionId = s

MeasurementEnds(n, s) ==
  /\ s \in Measured(e[n])
  /\ LET m     == Owner(e[n].measuring[s])
         ended == [e[n] EXCEPT !.measuring[s] = NoPeer]
     IN  IF Answers(n, s, m)
         THEN \E d \in Draws(n) :
                Step(n, SessionMeasured(ended, s, GhostClock(m) - Skew[n], d))
         ELSE Step(n, SessionMeasurementFailed(ended, s))
  /\ UNCHANGED <<late, commands, spent, now>>

-----------------------------------------------------------------------------
(* The applications, and time. *)

Command ==
  /\ Spend(1)
  /\ commands' = commands + 1
  /\ UNCHANGED <<late, now>>

SetTempo(n, tempo, beat) ==
  /\ tempo # e[n].tl.tempo
  /\ Step(n, CommitClientTimeline(e[n], tempo, e[n].tl.anchor, beat))
  /\ Command

EnableLink(n) ==
  /\ ~e[n].enabled
  /\ \E d \in Draws(n) :
       Step(n, Enable(e[n], d))
  /\ Command

DisableLink(n) ==
  /\ e[n].enabled
  /\ Multicast(n, Disable(e[n]), [type |-> "ByeBye", body |-> CurrentPeerState(e[n])], unread[n])
  /\ Command

Tick ==
  /\ now' \in {t \in Instants : t > now}
  /\ UNCHANGED <<e, unread, late, commands, spent>>

-----------------------------------------------------------------------------
Next ==
  \/ \E n, m \in Nodes : HearAlive(n, m)
  \/ \E n \in Nodes : HearLateResponse(n)
  \/ \E n, m \in Nodes : HearByeBye(n, m)
  \/ \E n \in Nodes, id \in Ids : TtlPasses(n, id)
  \/ \E n \in Nodes : PruneTicker(n)
  \/ \E n \in Nodes : BroadcastTicker(n)
  \/ \E n \in Nodes : BroadcastTimerFires(n)
  \/ \E n \in Nodes, s \in Ids : MeasurementEnds(n, s)
  \/ \E n \in Nodes, tempo \in NodeTempos, beat \in Beats : SetTempo(n, tempo, beat)
  \/ \E n \in Nodes : EnableLink(n)
  \/ \E n \in Nodes : DisableLink(n)
  \/ Tick

Spec == Init /\ [][Next]_vars

(***************************************************************************)
(* Fairness.  Each conjunct is the weak fairness of one action, written as *)
(* what its step brings about, for the action is enabled exactly when that *)
(* does not hold: an engine reads its sockets and its tickers and timers   *)
(* fire (engine.go:263), measurements end (MeasurementContract), and what  *)
(* nobody announces any more is not heard for a TTL.                       *)
(***************************************************************************)
AllTold(n) ==
  \A m \in Nodes \ {n} : unread[m][n] = [type |-> "Alive", body |-> CurrentPeerState(e[n])]

Fairness ==
  \A n \in Nodes :
    /\ []<>(e[n].enabled => AllTold(n))                                \* BroadcastTicker
    /\ []<>(~e[n].pending)                                             \* BroadcastTimerFires
    /\ \A m \in Nodes : []<>(unread[n][m] = NoMessage)                \* HearAlive, HearByeBye
    /\ \A s \in Ids : []<>(s \notin Measured(e[n]))                    \* MeasurementEnds
    /\ \A id \in Ids :                                                 \* TtlPasses
         []<>(id \in Known(e[n]) /\ Quiet => Live(id) \/ e[n].peers[id].expired)
    /\ []<>(Expired(e[n]) = {})                                        \* PruneTicker

FairSpec == Spec /\ Fairness

-----------------------------------------------------------------------------
(* Properties. *)

\* Every engine and every packet keeps its type, and there is an id left to draw,
\* so no action that may found a session is stopped by the bound on ids.
NetworkTypes ==
  /\ e \in [Nodes -> Engines]
  /\ unread \in [Nodes -> [Nodes -> Packets \cup {NoMessage}]]
  /\ late \in [Nodes -> Messages \cup {NoMessage}]
  /\ spent \in 0 .. MaxSpent /\ commands \in 0 .. spent /\ now \in Nat

TypeOK == NetworkTypes /\ \A n \in Nodes : Draws(n) # {}

\* Nodes that say they are in one session read the same ghost time at the same
\* moment, whoever they measured and however far their own clocks are apart
\* (handleSessionMeasurementResult, engine.go:554-563).
SameSessionSameClock ==
  \A m, n \in On : e[m].sessionId = e[n].sessionId => GhostClock(m) = GhostClock(n)

\* As long as the tempo was changed once at most, nodes in one session with the
\* same beat origin have the same timeline: the origin is all that the code
\* compares (engine.go:461).  Two changes at one beat tie, and then do not.
OriginIdentifiesTimeline ==
  commands <= 1 =>
    \A m, n \in On :
      e[m].sessionId = e[n].sessionId /\ e[m].tl.origin = e[n].tl.origin
        => e[m].tl = e[n].tl

InStep(n, m) ==
  /\ e[n].sessionId = e[m].sessionId
  /\ GhostClock(n) = GhostClock(m)
  /\ e[n].tl.origin = e[m].tl.origin
  /\ e[n].nbr = Cardinality(On) - 1

\* When no more commands are given and nothing is missed any more, all enabled
\* nodes end up in one session with one clock and one beat origin, and count each
\* other and nobody else (integration_test.go:52-61, 70-80).
Converges == <>[](\A n, m \in On : InStep(n, m))

\* Nodes that agree and have told each other so stay so until a command or a
\* miss: no ticker, no packet still on its way and no expiry drives them apart.
Agreed == Quiet /\ (\A n, m \in On : InStep(n, m))
AgreementStays == [][Agreed /\ UNCHANGED spent => Agreed']_vars

=============================================================================
