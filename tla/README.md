# A verification of abletonlink-client-go

The repository is a Go implementation of the Ableton Link protocol: nodes find
each other by multicast, agree on a session, measure the clock offset between
the session and themselves by ping/pong dialogs, and share a tempo, a beat grid
and a start/stop state. This directory holds TLA+ modules that model its logic,
TLC configurations that check them on small instances, and proofs that TLAPS
checks for every value of the constants.

Run `tlc -config X.cfg M` for a run of the table below, `tlapm M.tla` for a
`*Proofs` module.

## 1. The system

### How it runs

`engine.run` (engine.go:247) is one goroutine with a `select` over the packet
channels, the command channel, timer ids and two tickers. All session state
belongs to it, and every handler runs to its end before the next one starts.
Other goroutines only meet it at queues and at one snapshot:

| from | to | by |
|---|---|---|
| socket readers (network.go) | engine | channels of 128 to 256 packets; a packet that finds one full is dropped |
| `time.AfterFunc` (hub, engine.go:71) | engine | timer ids on a channel of 64; an id that finds it full is dropped |
| API calls that change something (link.go) | engine | closures on `cmdCh` (64), some waiting for the handler to end |
| engine | API calls that only read | the snapshot, under an `RWMutex` |
| engine | application | callbacks, on the engine goroutine |
| engine | peers | UDP, lossy and unordered |

So the interleavings that matter are those of whole handlers with one another,
with packets on their way and with the passing of time; a module's action is a
whole handler with everything it calls. Only at the public API, where callers and
callbacks run between the parts of a handler, is the grain finer.

### Components

**Session engine** (engine.go). State: node id, session id, session timeline,
ghost transform, session and client start/stop state, the peers with their last
state, other sessions with their timelines, measurements in progress, peer
count, remeasurement timer, published snapshot. Operations: see a peer's state,
remove or prune peers, take a measurement result, join a session, found a new
one, adopt timelines and start/stop states, enable, disable, application
commands. Hard: one packet may adopt a timeline, relay a transport state,
forget a session and recount the members, in this order; results of
measurements arrive after a reset or a disable; a join may complete after the
last peer has left. Correct when: the count is that of the peers in the current
session; a session is changed only to join a winner that was measured or to
found one after the last peer left; timelines and transports only advance within
a session; what readers see belongs together; every change is announced.

**Discovery and broadcast pacing** (engine.go, peerstate.go). State: last
broadcast time, pending flag, TTL of each peer. Operations: Alive, Response,
ByeBye, ticker, pacing timer, pruning. Hard: own multicasts looped back under a
former id, a change during the pacing gap, a bye-bye overtaking an announcement.
Correct when: after a change the node's last announcement is up to date or one
is scheduled.

**Clock measurement** (measurement.go). State: per session, the peer, the
estimates, the retries, the watchdog timer. Operations: start, pong, timer
expiry, finish, fail. Hard: late and reordered pongs, pongs of another session,
dead timer ids, disabling in the middle. Correct when: each measurement ends
once, and an estimate is right to half the packet delay.

**Beats, tempo, timelines** (beats.go, tempo.go, timeline.go, ghostxform.go,
clock.go). Pure arithmetic on rounded integers. Hard: rounding twice, negative
values, phases, the range of tempi. Correct when: encoding and decoding of
phases invert each other and changes do not jump.

**Client timeline** (engine.go, timeline.go). State: session timeline, client
timeline, transform. Operations: follow the session, tempo change, force,
request, founding. Correct when: the beat is continuous, all nodes stay on one
grid, a commit wins over what peers hold, a forced beat occurs.

**Several nodes.** What the engines do to each other: each decides with a clock it
measured, at its own time, on states that are late. Hard: both nodes found and
join sessions at once, a node leaves while it is measured, an announcement it made
before is still on its way. Correct when: all enabled nodes end up in one session
with one clock, beat origin and count, and nothing drives them apart again.

**Timer hub** (engine.go:53-106). State: timers and callbacks by id, ids in the
channel. Operations: arm, cancel, fire, stop all; the runtime expires timers and
sends their ids from goroutines of its own. Hard: a timer is cancelled when its id
is on the way already; the channel is full. Correct when: no callback runs early,
twice or after its cancellation, and none that is due is lost.

**Public API** (link.go). State: the snapshot, the command queue, the `done`
channel, the callbacks. Operations: setters, getters, callbacks, `Close`. Hard: a
callback runs in the middle of a handler and may call the API again; callers race
with `Close`; the queue is full. Correct when: calls return, getters catch up with
the engine, `Close` completes and the departure is announced.

**Terminal client** (cmd/linkclient). State: the last read of each getter, a
channel of one nudge. Operations: tick, nudge, key, quit. Hard: callbacks drop their
nudges, and read and publication overlap. Correct when: the screen ends up showing
what is, and quitting leaves the session.

**Send error reporter** (engine.go:181-226). State: last error, number of
suppressed ones. Only logs.

**Wire format** (wire.go, peerstate.go). Pure encoding and parsing of
packets. **Sockets** (network.go, multicast_*.go). Interfaces, multicast groups,
receive loops. **Logger and node ids** (logger.go, nodeid.go).

`PROJECT.json` says for each of them how far it is modelled, and lists the
hazards at the lines where they bite with the properties aimed at them.

## 2. The modules

| module | models |
|---|---|
| `SessionEngine` | the fields of `engine` as a record, every method that changes them as an operator from record to record, composed as the methods call each other |
| `LinkNode` | one engine with its clock among peers that may say anything: one action per case of the select loop |
| `LinkNetwork` | several engines made of `SessionEngine`'s operators, their multicasts, late responses, bye-byes and measurements of each other |
| `MeasurementContract` | the abstract specification of measurements: at most one per session, each ends once and ends eventually |
| `Measurement` | the ping/pong dialog of one node with peers that move between sessions, over a network that loses, delays and reorders; implements `MeasurementContract` |
| `Rounding`, `Timelines` | the arithmetic, with the code's rounding |
| `ClientTimeline` | the two timelines of a node and the operations that carry a change from one to the other, with the numbers |
| `TimerService` | the abstract specification of timers: what the users of the hub rely on |
| `TimerHub` | ids, the two maps, the runtime's timers and the channel of bounded capacity; implements `TimerService` |
| `PublicAPI` | callers, the command queue, the parts of a handler that others can tell apart, callbacks, receive loops and `Close` |
| `LinkClient` | the terminal client composed with `PublicAPI` |
| `MC*` | instances for TLC (`TimerHub` is its own) |
| `SessionEngineProofs` | lemmas about each method of the engine, for the next two |
| `LinkNodeProofs`, `LinkNetworkProofs` | the theorems about one engine, and about several |
| `ClientTimelineProofs`, `MeasurementProofs`, `TimerHubProofs`, `PublicAPIProofs`, `LinkClientProofs` | the theorems about these |

### SessionEngine and LinkNode

The variable `e` is the engine: `nodeId`, `sessionId`, `tl` (sessionTimeline),
`xform`, `ss` and `css` (session and client start/stop), `peers`, `others`
(otherSessions), `measuring` (measurements), `nbr` (sessionPeerNbr), `snap` (the
snapshot) and so on; the record type `Engines` says which field is which. `sent`
is the last multicast, `toldTempo` and `toldPeers` what the callbacks last said,
`forgotten` is history. `now` is the monotonic clock.

The abstractions, and why the session logic does not see them:

- a timeline is a tempo, a beat origin and an anchor: which timeline wins
  depends on the origin alone (engine.go:461), and whether it differs on all
  three. `ClientTimeline` has the numbers;
- a transform is its intercept: its slope is 1 in every one the code builds. Two
  ghost clocks are compared at the same host time, so they differ by their
  intercepts;
- ids are integers, as the code only compares their bytes. A random id is one
  that nothing in the engine refers to (`InUse`); when there is none left in
  `OwnIds` the actions that draw one stop, which bounds the model;
- the pacing gap, the TTL and the remeasurement interval are bits that time may
  set at any moment (`recent`, `expired`, `remeasure`), so no property depends
  on their lengths;
- peers are not modelled as engines: any id of `PeerIds` may announce any state
  at any time, which covers loss, duplication and reordering. A measurement
  succeeds with any of `Offsets` or fails, as `MeasurementContract` allows;
- a peer that is the node itself under a former id (looped-back multicast) is
  answered by the node's own present session only, as `MeasurementSucceeds` says.

### LinkNetwork

`e[n]` is the engine of node n, `unread[n][m]` the last multicast of m that n has not
read, `late[n]` a unicast response that n still has to read, `now` the common time;
each host clock is ahead of it by its own `Skew`. One place for each pair and a
multicast that takes it from its predecessor stand for the channels of the code:
a packet that is read too late to matter is lost, and any packet may be, for
nobody has to read it before the next one. Only a *late* response differs from what
the next multicast says, so others are not kept. A measurement is one step that finds
the clock of the node it reaches, exactly, if that node is in the session then;
`Measurement` is about how close it is and `MeasurementContract` what it may do.

`spent` counts disturbances: commands cost 1, a late response or the expiry of a peer
that is there `MissCost`. They are bounded because a network that goes on losing six
seconds of announcements, or an application that goes on changing the tempo, never
settles. What readers, callbacks and pacing tell apart is reset to a fixed value
(`Rested`) between handlers, as `LinkNode` and `PublicAPI` are about them. The TTL of
an id nobody has any more passes when the nodes have settled (`Quiet`): six seconds
against the quarter second of a broadcast. That is an assumption on timing.

### TimerHub

An id is *pending* in the runtime, then *firing* (the function of `time.AfterFunc` has
started), then in the channel `ch`, taken by the engine's `fire`. `Stop` reaches pending
timers only. `tim` and `cbs` are the two maps, `ran` and `peak` history. The refinement
computes the status of each timer from where its id is: armed, due, lost when a
callback is in the map and its id is on no way, cancelled when it is out of the map.

### PublicAPI and LinkClient

`todo` is what is left of the handler that runs: a command or the effects of a packet,
then the callbacks and the publication they lead to, in the order of the code. Each is
one step, so callers, receive loops and other goroutines come between them. `eng` is
what the engine would publish, `snap` what it has published. `Stuck` names the states
the code can really get into and not out of: a callback that sends to a full queue or
calls `Close`, and a program dead by closing `done` twice.

`LinkClient` extends it with the one caller `Ui`. A `refresh` is one step for each
getter. A nudge goes through `updates`, a channel with one place, to the goroutine of
`waitForUpdate`, and from there to `Update`. `owed` is history: a callback has nudged
and no refresh has begun since.

### Measurement

`measurer[s]` is the `measurer` of session s, `heard` what the engine knows of
the peers, `at` where they are, `pings` and `pongs` the packets in flight. Estimates
are kept doubled, so that halves stay integers, and each is put where it belongs when it
comes, where the code sorts them when it takes the median: only their order then
matters. A timer is running, then fired
(its id is in the channel), until the engine takes it; a cancelled timer's id is
dead in either state, so only the one a measurer holds is kept. A new ping is
sent for a pong that completes the measurement, as in the code. Pongs are matched
to measurements by the peer's address in the undefined order of a map: a choice
over the matching ones. The refinement is `measured <- Measured`, `ended <-
result.session`, `succeeded <- result.xform # Failed`; `LinkNode`'s
`MeasurementSucceeds` and `MeasurementFails` are the contract's `End`.

### Timelines and ClientTimeline

A beat is `Unit` micro-beats (10 in the runs, 10^6 in the code); a tempo is its
microseconds per beat. With 2 to 30 microseconds a beat one microsecond is 1/3 to
5 micro-beats, as in the code at 20 to 999 BPM (0.33 to 16.6): both directions in
which rounding loses something occur. The float64 results are taken as exact
rationals, rounded half away from zero as `math.Round` does; the error of
float64 itself (values beyond 2^53) is left out.

`shown` is the client timeline of the published snapshot. `UpdateSessionTiming`
returns early, like the code, when neither timeline nor transform changes, and
then `shown` stays behind `client`.

## 3. The runs

`pass` runs finish with no error. Deadlock is checked but in `TimerHub`, `PublicAPI` and
`LinkClient`, which model a program that ends.

| run | asks | states |
|---|---|---|
| `LinkNodeSessions` | membership, joins and foundings, snapshot, remeasurement, with two peers in two sessions and one of them not measurable | 845,000 |
| `LinkNodeTimelines` | rival timelines of two peers, tempo changes and beat moves, broadcast pacing | 711,000 |
| `LinkNodeTransport` | start/stop states and own multicasts in any order, application starts and stops, callbacks and readers | 1,150,000 |
| `LinkNetwork` | convergence of two engines, after misses and commands | 133,000 |
| `ClientTimeline` | continuity, the grid, phase round trip, commits, forced beats | 86,000 |
| `Measurement` | how wrong an estimate can be, and that `Measurement` implements `MeasurementContract`, liveness included | 683,000 |
| `TimerHub` | cancellation races, lost ids, and that `TimerHub` implements `TimerService` | 82,000 |
| `PublicAPI` | deadlocks, stale getters and `Close`, among callers and callbacks | 277,000 |
| `LinkClient` | lost nudges and stale screens | 387,000 |

### Bounds

*LinkNode.* Own ids 4 and 6, peers and foreign sessions 1 (lower) and 9 (higher):
both outcomes of every id comparison occur, and the node can found one session
after another. Offsets 0 and 2 with Epsilon 1 and an initial intercept of 0 or -1
put a measured clock below, within, at and beyond the epsilon. One timeline
suffices for membership; `LinkNodeTimelines` has three (lower origin with another
tempo, and two of equal origin and different tempi). `MaxOrigin` bounds how often
the application raises the origin and `MaxNow` the clock; both only stop the model
from counting for ever. `LinkNodeTransport` loops the node's own multicasts back, under
a former id too. The transports are absent, playing
at 1 and stopped at 2, against application times 0 and 1: earlier, equal, later.

*ClientTimeline.* Tempi are asked for outside both ends of the range and quanta
are one and two beats; `MaxOrigin` and `MaxDrift` bound the origins, which commands
and clock changes would let grow for ever.

*Measurement.* `MaxPoints` is 2 instead of 100: it is the least at which the median
discards something. `MaxStarts` is 1 instead of 5: a first ping and a retry. One peer
in two sessions whose ghost clocks are 9 microseconds apart, packets delayed by at
most 1, two in flight, one change of session or one disabling. The clock starts at 1,
as a time of 0 is an absent entry.

*LinkNetwork.* Two nodes with interleaved ids, so that either may have the lower one;
clocks that differ by the epsilon's width, within which ids decide, and foundings at two
instants, which put two sessions beyond it. `MaxSpent` is 2: two commands, or one miss.
Three nodes are out of reach of the liveness check.

*TimerHub.* Five timers for a channel of two places: two in the channel, one that finds
it full, and two more to arm after the loss.

*PublicAPI, LinkClient.* Two callers for a queue with one place, so one may wait for the
engine while the other closes; three calls. Packets bring a tempo, a transport and a
number of peers that are the engine's or not.

### What the properties say

*LinkNode.* `PeerCountExact`: the count is that of the known peers in the current
session, whichever handler changed either. `DisabledKnowsNobody`: nothing that
arrives while disabled brings a peer or a session back. `CurrentIsNotOther`: the
current session is not in otherSessions. `SnapshotCoherent`: the published count
is that of the published session among the published peers, although most
handlers publish nothing. `ForeignSessionRemeasured`: in a session of somebody
else the remeasurement stays armed. `SessionChangesJustified`: a session is left
to found one, under a new id, knowing nobody, after the last peer left or on
enabling; or to join one that was measured, tracked and won. `PeersNeverAhead`:
no known peer holds a timeline that would win over the node's for its session,
unless a failed measurement made the node forget it. `ChangesAreAnnounced`: the last
announcement is the current state or one is pending. `TimelineOnlyAdvances`,
`TransportOnlyAdvances`: within a session, older never replaces newer.
`ReadersAndCallbacksCurrent`: getters and callbacks have the engine's values.

*LinkNetwork.* `Converges`: when commands and misses end, all enabled nodes end up in one
session with one clock and one beat origin and count each other. It holds of the code
only because a failed measurement of a node that is still there does not occur in it
(`LinkNodeForgotten`). `AgreementStays`: what has settled stays so. `SameSessionSameClock`:
nodes that say they are in one session read one ghost time, whoever they measured.
`OriginIdentifiesTimeline`: with one tempo change at most, equal origins mean equal
timelines, which is what the code's comparison of origins takes for granted.

*TimerHub.* `ImplementsService` as above. `LostOnlyIfMany`: a callback is lost only if more
timers than the channel holds were on their way at one time. `EveryTimerEnds`: an armed
timer runs, is cancelled or is lost.

*PublicAPI.* `ReadersCurrent`: after a handler the getters return the engine's values; a
callback about the number of peers finds it in `NumPeers`. `CallsReturn`, `CloseCompletes`:
calls return, and after `done` is closed the engine leaves, says good-bye and the sockets
are closed, unless `Stuck`.

*LinkClient.* `NudgesAreKept`: a dropped nudge is covered by another one.
`ScreenSettles`: once nothing is published any more, the screen shows what is.
`QuitLeaves`: quitting takes the node off the network.

*ClientTimeline.* `GridAnchored`: the client's timeline, the engine's and the one readers
see, starts where the session's beat 0 is, to one rounding each way. `RoundTrip`: decoding a phase-encoded beat
gives the time back. `Continuous`: at a change that comes from the session, the
beat stays exactly. `FoundingContinuous`: so does the session's when a session is
founded. `CommitsAdvance`: a command leaves the session's timeline alone or raises
its origin. `ForcedBeatOccurs`: the forced beat is read at its time, up to
rounding and never exceeded.

*Measurement.* `EstimateAccurate`: a success is off by at most half the packet
delay and a rounding, if at most half of `MaxPoints` estimates mix the clocks of
two sessions. Such mixed estimates are real: a pong's previous ghost time may be
of the session its sender was in before; with the code's 100 points they do not
reach the median. `ImplementsContract` as above.

### Fairness

`LinkNode` and `ClientTimeline` state safety only and assume none.

`Measurement`: weak fairness of timer expiry (the Go runtime runs an AfterFunc), of
the engine taking a timer id (its select loop takes every channel again and again)
and of the passing of time. Nothing is assumed of the network or of peers: a measurement
ends without a single answer.

`TimerHub`: weak fairness of expiry, of the function of an expired timer and of `fire`.

`LinkNetwork`: engines read what is unread, tickers fire, measurements end and silence
lasts a TTL. Each is the weak fairness of one action, stated as `[]<>` of what that action
brings about: the action is enabled exactly when that is missing, so the two say the same,
and TLC does not have to decide ENABLED of a handler.

`PublicAPI`: weak fairness of callers, of the steps of a handler, of a read of a closed
socket; strong fairness of the engine's cases for commands and `done`, as `select` picks
at random among ready cases, so one that is ready again and again is picked. Nobody has to
call anything, and no packet has to come. `LinkClient`: the same, weak fairness of the
client's goroutines, and strong fairness of ticks and nudges, whose goroutines compete to
hand the event loop a message. No key has to be pressed.

### Disagreements between the code and its documentation

The first three are the counterexamples of `violation` runs.

| run | what happens |
|---|---|
| `LinkNodeForgotten` | a failed measurement forgets the session, "re-measured if seen again"; but a peer that repeats its state is not propagated again, so it is not |
| `ClientTimelineGrid` | `RequestBeatAtTime` with peers moves the session's grid by about a quantum, as `ClosestPhaseMatch` takes half a quantum in beats as micro-beats |
| `PublicAPIEnabled` | enabling on the clock reading on which the node was constructed publishes nothing, and `Enabled()` stays false while the node takes part; `e` in the terminal client then cannot disable it |

Met while modelling, in the models as they are in the code unless said otherwise, and
without a run:

- the node's own multicast, read after a reset gave it another id, is counted as a peer
  until it expires, though `NumPeers` is "the number of peers" (engine.go:344, link.go:177);
- a forced beat that leaves the session's timeline equal is not published: `BeatAtTime`
  still reads the old one (engine.go:602, link.go:246);
- a late pong of the session a peer was in before ends the measurement of the one it is
  in now, as if "the peer switched sessions while we were measuring" (measurement.go:82, 132);
- `Peers()` misses a peer of another session until something else is published
  (engine.go:441); disabling drops the peers without a callback (engine.go:743);
- a second `SetIsPlaying` at the same time is made local and not announced (engine.go:675, 681);
- two nodes that change the tempo at one beat keep different tempi until the next change
  (engine.go:461: only origins are compared);
- two sessions whose clocks differ by exactly the epsilon never join, and three sessions can
  each win over the next (engine.go:552; by reading the code, `LinkNetwork` has two nodes);
- the callback of a tempo runs before its publication, so `Tempo()` in it is the old one
  (engine.go:617-620); that of the number of peers runs after it;
- a second `Close` returns before the first has released the sockets; two at once may close
  `done` twice and panic; from a callback it waits for itself (link.go:145-152);
- a receive loop ends at any error, not only when its socket "is closed" (network.go:289-300);
- the count of a recovery in the log leaves out failures reported before (engine.go:200, not
  modelled);
- `NextPhaseMatch` returns its argument when that has the phase already (beats.go:53); an
  unchanged client timeline may come back as a new session timeline because its origin was
  rounded (timeline.go:90).

## 4. The proofs

For all values of the constants that satisfy the modules' assumptions:
`IdsAssumption` (finitely many ids), `TempoAssumption`, `EpsilonAssumption`,
`NoneAssumption` (the null values are no ids, states or messages) with
`LinkNodeAssumption` for `LinkNodeProofs`, and `LinkNetworkAssumption` (finitely many nodes,
no id that two of them may draw, a miss that costs something) with `NoPacketAssumption`
for `LinkNetworkProofs`; `UnitAssumption` and `ClientTimelineAssumption` for
`ClientTimelineProofs`; `MeasurementAssumption` and `NoMeasurerAssumption`,
`TimerHubAssumption`, `PublicAPIAssumption` with `InputsAssumption` and `NoCommandAssumption`,
and `LinkClientAssumption` for the others.
No theorem needs the values the bounds have in the runs.

### The engine (`SessionEngineProofs`, `LinkNodeProofs`)

`SessionEngineProofs` has, for each method, what it keeps in type, which fields it leaves
alone, and what it does to counts, session, publication and announcement. The step of
an action in `LinkNodeProofs` cites them in the order in which its handler calls the
methods. Four inductive invariants, each with the one before it where it needs it:

- `Inv`: types, exact count, disabled node. None of the last two is inductive alone:
  that a disabled node has a count of 0 after a handler recounts needs the count to be
  exact, and both need the types. A founding is the crux: it empties the peers and takes a
  fresh session id, so an exact count is 0, the value just stored. `TypeCorrect`,
  `PeerCountIsExact`, `DisabledNodeKnowsNobody`.
- `SessionInv`: with it, the tempo is clamped, the current session is no other one, and a
  foreign one is remeasured. Every step of the select loop is shown to stay in its
  session, found one, be measured against its own, or join one, and each of the four
  implies what a change of session, timeline or transport has to justify.
  `SessionIsNotAnother`, `ForeignSessionKeepsRemeasuring`, `TimelineAdvances`,
  `TransportAdvances`, `SessionChangesAreJustified`.
- `PublicInv`: what the readers, the callbacks and the peers were told is what the engine
  has, or what is still to be told. A handler that publishes nothing must have changed
  nothing that is published, which each method has a lemma for. `ReadersAreCurrent`,
  `SnapshotIsCoherent`, `EveryChangeIsAnnounced`.
- `AheadInv`: `SessionInv` and that no peer holds a timeline ahead of the one the node
  keeps for its session; joins need that the session joined was tracked.
  `PeersAreNeverAhead`.

### Several engines (`LinkNetworkProofs`)

- `NetworkTypeCorrect`: `Spec => []NetworkTypes`. `TypeOK` says also that the bound on ids
  never keeps a node from founding a session; that depends on the bound and is left to TLC.
- `SessionsShareTheirClock`, from `NetInv`: types, a sound engine at each node, and one
  clock per session. A joiner takes the clock it measured, exactly, of a node that is in the
  session; a founder takes an id nothing refers to, so nobody shares its session yet.
- `OriginsIdentifyTimelines`, from `OriginInv`. It does not suffice to look at what the nodes
  hold: a timeline comes back from a packet that is still unread or from `others`. The
  invariant is about `Circulating`, all pairs of session and timeline held, remembered or on
  their way; a handler only spreads pairs of it, founds a session, or commits a command.
- `AgreementIsStable`: `Spec => AgreementStays`, from `NetInv` and `HeardInv`. `Agreed` says
  nothing of the packets that are still unread, and a packet with an old state would drive
  the nodes apart; `HeardInv` says that there is none: the last unread packet of a node that
  is on is its present state, unless a broadcast is pending, and that of a node that is off is a
  bye-bye. For this to be inductive every method of the engine has to announce whatever it
  changes of the announced state, or leave a broadcast pending; `Speaks` says so, and
  `SessionEngineProofs` has a lemma for each method. The theorem then goes through the
  handlers: an announcement repeats what the reader has stored; a bye-bye, an expiry or a
  TTL is of an id that no node which is on has. Such an id may still be stored, and dropping it
  leads to a recount, which would found a new session or tell the application if it came
  out differently. It does not, because the members of a session are exactly the other
  nodes that are on (`AgreedMembers`): they are among the members, their ids are
  distinct, and the count, which is exact, is their number.

### Time and beats (`ClientTimelineProofs`)

- `TypeCorrect`: `Spec => []TypeOK`, so every tempo is in the clamped range.
- `ClientContinuous`: `Spec => Continuous`. The new client timeline is built from
  a line through (now, the old beat) to the time of beat 0; read at `now` it adds the
  rounded distance back. Both roundings are of the same rational with opposite
  signs, and rounding half away from zero is odd, so they cancel exactly.
- `FoundingIsContinuous`: `Spec => FoundingContinuous`. The founded timeline starts at
  the beat of the old one at now, where the new ghost time is 0.
- `CommitsAlwaysAdvance`: `Spec => CommitsAdvance`.
- `GridIsAnchored`, from `GridInv`, which says the same of the client's timeline and the
  published one. A timeline that follows the session is there exactly; one the
  application made moves the session's beat 0 to its own start exactly, or leaves the session
  alone because that reads beat 0 there, which loses a rounding each way.
- `EncodingRoundTrips`: `Spec => []RoundTrip`. Both phase matches move a value by whole
  quanta and into a window one quantum wide; two values of one window that are a whole
  number of quanta apart are equal, so the decoded beat is the raw one.
- `ForcedBeatsOccur`: `Spec => ForcedBeatOccurs`. What is committed comes back as it was
  (`CommitKeepsClient`: the way to the session's origin and back are rounded alike). The
  phases match in the same way as above (`ForcedReads`), so the beat read differs from the
  beat forced only by what the conversions round (`OnceNear`). If that is upwards, the second
  step, a microsecond later, reads at most the beat at the time itself (`TwiceNotAbove`):
  one micro-beat more would need two exact ties, and an odd number that 4 divides (`NoTwoTies`).

### Measurement (`MeasurementProofs`)

One invariant `Inv` gives all three theorems.

- `TypeCorrect`: `Spec => []TypeOK`.
- `EstimateIsAccurate`: `Spec => []EstimateAccurate`. A packet knows when its clock was read:
  a ghost time in flight is the clock's at a moment not more than `MaxDelay` before
  (`PacketsSound`), so an estimate of one clock is near. `Robust` says of the sorted
  estimates that beyond the `mixed` lowest all are high enough and beyond the `mixed`
  highest all are low enough. That is inductive without counting: wherever an estimate goes, one
  that is near keeps it, any other one needs `mixed` to be one greater. The median lies
  between, and `llround` adds half a microsecond.
- `KeepsContract`: each step is one of `MeasurementContract` or none of its variables
  changes. That every measurement ends is liveness and stays with TLC.

### Timers, API and client

- `TimerHubProofs!TypeCorrect`: `Spec => []TypeOK`. The type invariant is inductive because it
  says where an id may be: in one place on its way, distinct within the channel, out of the
  maps once its callback has run. The lemmas on the channel say what appending and taking an
  id do to the set of ids in it.
- `HubImplementsService`: `Spec => ImplementsService`. Each step changes the status of one
  timer or of none (`StepRefines`); that a callback which runs was due follows from the type
  invariant, as an id in the channel is pending no more.
- `NothingLostUnlessMany`: `Spec => []LostOnlyIfMany`, from `LoadInv`: what is on its way
  never exceeds `peak`. An id that is dropped finds `Capacity` others in the channel, distinct
  from each other and from it, so more than `Capacity` were on their way.
- `PublicAPIProofs!TypeCorrect`, and `ReadersAreCurrent` under the hypothesis `ClockSteps`:
  that enabling does not read the clock's value of the construction. Without it the property is
  false (`PublicAPIEnabled`). The invariant `PublishedInv` says of the handler under way
  what it still owes: if snapshot and engine differ a publication is to come, before
  anything but callbacks, and the callback about peers comes after it.
- `LinkClientProofs`: a client is one of `PublicAPI`'s users (`ClientIsUser`), so what is proved
  of the API holds under it. `ClientTypeCorrect` and `NudgesAreNeverLost`.

### Only model-checked

All liveness (`Converges`, the ends of timers, measurements and calls, `ScreenSettles`,
`QuitLeaves`), which the prover cannot reach: so that settled nodes stay so is proved for any
number of them, and that they settle is checked for two. The part of `LinkNetwork`'s `TypeOK`
that says an id is left to draw: it is about the bound on ids, and false of a smaller one.

## 5. Not modelled

- Encoding and parsing of packets, and packets that cannot be parsed: pure
  functions; the models exchange decoded records.
- Duplicated measurement packets; duplicated announcements are in `LinkNode`.
- Sockets, interfaces, multicast options: I/O. The receive loops are in `PublicAPI`.
- The error of float64, the width of 64-bit integers, a quantum of 0 (the code
  divides by it).
- In `LinkNetwork`: start/stop states, and the pacing of broadcasts (`LinkNode` has both),
  inaccurate or failing measurements of nodes that are there, more than two nodes.
- The terminal client's rendering, the tempo being typed, and its plain mode, which only
  prints; logging; the send reporter, which changes nothing another part reads.

## 6. Plan

In the order of importance; all are done.

1. `SessionEngine`, `LinkNode`: the engine among arbitrary peers.
2. `Rounding`, `Timelines`, `ClientTimeline`: the numbers it leaves out.
3. `MeasurementContract`, `Measurement`: the clocks it takes on trust.
4. Theorems: types, exact count, disabled node, continuity, commits.
5. `LinkNetwork`: several engines and what lies between them.
6. `TimerHub`, `TimerService`: the timers the engine and the measurements rely on.
7. `PublicAPI`, `LinkClient`: the goroutines around the engine.
8. Theorems about `TimerHub`: types, refinement, nothing lost.
9. Theorems about everything else the runs check: session, readers, announcements and peers of
   one engine, clocks and origins of several, grid, phases and forced beats, measurement and
   its contract, the API and its client.
10. `AgreementStays` as a theorem, with what the nodes have heard of each other.

Not planned: a refinement from `LinkNetwork` to one `LinkNode` per node. Both call the same
operators of `SessionEngine` and `LinkNode` takes any message, so it would repeat their
definitions.
