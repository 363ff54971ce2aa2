----------------------------- MODULE PublicAPI -----------------------------
(***************************************************************************)
(* The goroutines around the engine: callers of the API of link.go, the    *)
(* engine that takes their commands from a queue, the callbacks it runs,   *)
(* the snapshot it publishes, the loops that read the sockets, and Close.  *)
(*                                                                         *)
(* A handler of the engine, one step in LinkNode, is here a list of        *)
(* operations, for other goroutines look between them, and application     *)
(* code runs in them.  Of the state only what the getters return is kept.  *)
(***************************************************************************)
EXTENDS Integers, Sequences, FiniteSets

CONSTANTS
  Callers,        \* goroutines of the application
  Tempos, StartTempo, MaxPeers,
  QueueSize,      \* capacity of cmdCh
  InboxSize,      \* capacity of a packet channel
  NoCommand,
  Asked, Heard,   \* BOUND: commands the application gives, packets that come
  MaxCalls,       \* BOUND on the calls the application makes
  CloseWithin,    \* callbacks may call Close
  ClockSteps      \* the clock moves between New and its first command

ASSUME PublicAPIAssumption ==
  /\ IsFiniteSet(Callers) /\ Tempos \subseteq Int /\ StartTempo \in Tempos /\ MaxPeers \in Nat
  /\ QueueSize \in Nat \ {0} /\ InboxSize \in Nat \ {0} /\ MaxCalls \in Nat
  /\ CloseWithin \in BOOLEAN /\ ClockSteps \in BOOLEAN

Retimings == [op : {"retime"}, tempo : Tempos]
Commands  ==
  Retimings \cup [op : {"play", "enable", "follow"}, on : BOOLEAN]

\* What a peer's state does to ours (sawPeerState), or a measurement.
Packets ==
  {<<[op |-> "retime", tempo |-> tempo], [op |-> "transport", on |-> on],
     [op |-> "members", number |-> number]>> :
       tempo \in Tempos, on \in BOOLEAN, number \in 0 .. MaxPeers}

Publication == [op |-> "publish"]
Callback(what) == [op |-> "callback", what |-> what]
Callbacks == {Callback(what) : what \in {"tempoCallback", "startStopCb", "peersCallback"}}
CloseCall == [op |-> "close"]

ASSUME InputsAssumption == Asked \subseteq Commands /\ Heard \subseteq Packets
ASSUME NoCommandAssumption == NoCommand \notin Commands \cup {CloseCall}

Operations ==
  Commands \cup Callbacks \cup {Publication}
    \cup [op : {"transport"}, on : BOOLEAN] \cup [op : {"members"}, number : 0 .. MaxPeers]
Snapshots == [enabled : BOOLEAN, tempo : Tempos, playing : BOOLEAN, peers : 0 .. MaxPeers]

VARIABLES
  eng,       \* what the engine would publish
  sync,      \* startStopSync, which its getter reads in place
  snap,      \* the published snapshot
  todo,      \* what is left of the handler that runs
  calling,   \* the call a callback is in
  running,   \* the engine's goroutine is in run
  fresh,     \* no command has been taken yet
  present,   \* the network was told of the node, and not of its departure
  cmdCh,     \* the queue of commands
  pc,        \* where each caller is
  wants,     \* the command each caller is sending
  done,      \* the channel done is closed
  open,      \* the sockets are open
  reading,   \* the loop that reads them
  inbox,     \* packets it has read
  panicked,  \* the program has crashed
  calls      \* how many calls were made

engine  == <<eng, sync, snap, todo, running, fresh, present>>
callers == <<pc, wants, calls>>
sockets == <<open, reading, inbox>>
vars    == <<engine, callers, sockets, calling, cmdCh, done, panicked>>

Idle       == running /\ todo = <<>>
Now        == Head(todo)
Does(op)   == ~panicked /\ todo # <<>> /\ Now.op = op
InCallback == Does("callback")

\* New; the application has no Link before it returns.
Init ==
  /\ eng = [enabled |-> FALSE, tempo |-> StartTempo, playing |-> FALSE, peers |-> 0]
  /\ sync \in BOOLEAN
  /\ snap = eng /\ todo = <<>> /\ calling = NoCommand
  /\ running = TRUE /\ fresh = TRUE /\ present = FALSE
  /\ cmdCh \in {<<>>, <<[op |-> "enable", on |-> TRUE]>>}
  /\ pc = [c \in Callers |-> "idle"] /\ wants = [c \in Callers |-> NoCommand]
  /\ done = FALSE /\ open = TRUE /\ reading = TRUE /\ inbox = <<>>
  /\ panicked = FALSE /\ calls = 0

-----------------------------------------------------------------------------
(* Callers. *)

Calls == ~panicked /\ calls < MaxCalls /\ calls' = calls + 1

\* A setter enters command.
Call(c, cmd) ==
  /\ pc[c] = "idle" /\ Calls
  /\ pc' = [pc EXCEPT ![c] = "sending"] /\ wants' = [wants EXCEPT ![c] = cmd]
  /\ UNCHANGED <<engine, sockets, calling, cmdCh, done, panicked>>

\* The two cases of the select in command; both may be ready.
Send(cmd) == Len(cmdCh) < QueueSize /\ cmdCh' = Append(cmdCh, cmd)
Drop      == done /\ UNCHANGED cmdCh

\* MUTANT of CommandLeaves: command without the case of done.
CommandWaits(c) ==
  /\ pc[c] = "sending" /\ ~panicked
  /\ Send(wants[c])
  /\ pc' = [pc EXCEPT ![c] = "idle"] /\ wants' = [wants EXCEPT ![c] = NoCommand]
  /\ UNCHANGED <<engine, sockets, calling, done, panicked, calls>>

CommandLeaves(c) ==
  /\ pc[c] = "sending" /\ ~panicked
  /\ Send(wants[c]) \/ Drop
  /\ pc' = [pc EXCEPT ![c] = "idle"] /\ wants' = [wants EXCEPT ![c] = NoCommand]
  /\ UNCHANGED <<engine, sockets, calling, done, panicked, calls>>

\* Close returns at once if another call has closed done.
CloseCalled(c) ==
  /\ pc[c] = "idle" /\ Calls
  /\ pc' = [pc EXCEPT ![c] = IF done THEN "idle" ELSE "closing"]
  /\ UNCHANGED <<engine, sockets, calling, cmdCh, wants, done, panicked>>

\* Closing a closed channel panics.
CloseDone(c) ==
  /\ pc[c] = "closing" /\ ~panicked
  /\ done' = TRUE /\ panicked' = done
  /\ pc' = [pc EXCEPT ![c] = "waiting"]
  /\ UNCHANGED <<engine, sockets, calling, cmdCh, wants, calls>>

CloseReturns(c) ==
  /\ pc[c] = "waiting" /\ ~running /\ ~panicked
  /\ open' = FALSE
  /\ pc' = [pc EXCEPT ![c] = "idle"]
  /\ UNCHANGED <<engine, reading, inbox, calling, cmdCh, wants, done, panicked, calls>>

-----------------------------------------------------------------------------
(* The sockets. *)

\* MUTANT of Receive: a loop that keeps what the engine cannot take.
ReceiveAll(packet) ==
  /\ open /\ reading /\ ~panicked /\ Len(inbox) <= InboxSize
  /\ inbox' = Append(inbox, packet)
  /\ UNCHANGED <<engine, callers, calling, cmdCh, done, open, reading, panicked>>

\* Packets that find the channel full are dropped.
Receive(packet) ==
  /\ open /\ reading /\ ~panicked /\ Len(inbox) < InboxSize
  /\ inbox' = Append(inbox, packet)
  /\ UNCHANGED <<engine, callers, calling, cmdCh, done, open, reading, panicked>>

\* Whatever a read fails with, the loop ends.
ReadFails ==
  /\ reading /\ ~panicked
  /\ reading' = FALSE
  /\ UNCHANGED <<engine, callers, calling, cmdCh, done, open, inbox, panicked>>

-----------------------------------------------------------------------------
(* The loop of the engine. *)

TakeCommand ==
  /\ Idle /\ ~panicked /\ cmdCh # <<>>
  /\ cmdCh' = Tail(cmdCh) /\ todo' = <<Head(cmdCh)>>
  /\ UNCHANGED <<eng, sync, snap, running, fresh, present, sockets, callers, calling, done,
                 panicked>>

TakePacket ==
  /\ Idle /\ ~panicked /\ inbox # <<>>
  /\ inbox' = Tail(inbox)
  /\ todo' = IF eng.enabled THEN Head(inbox) ELSE <<>>
  /\ UNCHANGED <<eng, sync, snap, running, fresh, present, callers, calling, cmdCh, done, open,
                 reading, panicked>>

\* MUTANT of Leave: the engine returns without a deferred function.
LeaveSilently ==
  /\ Idle /\ done /\ ~panicked
  /\ running' = FALSE
  /\ UNCHANGED <<eng, sync, snap, todo, fresh, present, callers, sockets, calling, cmdCh, done,
                 panicked>>

\* The engine leaves its loop; the deferred function says good-bye.
Leave ==
  /\ Idle /\ done /\ ~panicked
  /\ running' = FALSE
  /\ present' = (present /\ ~eng.enabled)
  /\ UNCHANGED <<eng, sync, snap, todo, fresh, callers, sockets, calling, cmdCh, done, panicked>>

-----------------------------------------------------------------------------
(* The operations of a handler. *)

\* The operation under way makes that change, and is followed by those.
Change(change, first) == eng' = change /\ todo' = first \o Tail(todo)

Rest == UNCHANGED <<callers, sockets, calling, cmdCh, done, panicked, running, snap>>

\* What changes is told, and then published.
Tell(what, changed) == IF changed THEN <<Callback(what)>> ELSE <<>>

\* updateSessionTiming: a node that follows the session takes the transport of the
\* session again.  A timeline with the same tempo is not told apart.
Retime ==
  /\ Does("retime")
  /\ \E on \in {eng.playing} \cup {any \in BOOLEAN : sync} :
       LET told == Tell("startStopCb", on # eng.playing)
                     \o Tell("tempoCallback", Now.tempo # eng.tempo)
       IN  Change([eng EXCEPT !.tempo = Now.tempo, !.playing = on],
                  IF told = <<>> THEN <<>> ELSE told \o <<Publication>>)
  /\ fresh' = FALSE
  /\ Rest /\ UNCHANGED <<sync, present>>

\* reportPlayingIfChanged, and the publication after it.
Played(on) ==
  Change([eng EXCEPT !.playing = on],
         Tell("startStopCb", on # eng.playing) \o <<Publication>>)

\* A transport that is older than the known one changes nothing.
Play ==
  /\ Does("play")
  /\ \E on \in {Now.on, eng.playing} : Played(on)
  /\ Rest /\ UNCHANGED <<sync, fresh, present>>

FollowTransport ==
  /\ Does("transport")
  /\ \/ sync /\ Played(Now.on)
     \/ Change(eng, <<>>)
  /\ Rest /\ UNCHANGED <<sync, fresh, present>>

\* MUTANT of Recount: the callback runs before the count is published.
RecountToldFirst ==
  /\ Does("members")
  /\ Change([eng EXCEPT !.peers = Now.number],
            IF Now.number = eng.peers THEN <<>> ELSE <<Callback("peersCallback"), Publication>>)
  /\ Rest /\ UNCHANGED <<sync, fresh, present>>

\* sessionMembershipChanged.  The new session founded for 0 peers publishes the
\* same count once more.
Recount ==
  /\ Does("members")
  /\ Change([eng EXCEPT !.peers = Now.number],
            IF Now.number = eng.peers THEN <<>> ELSE <<Publication, Callback("peersCallback")>>)
  /\ Rest /\ UNCHANGED <<sync, fresh, present>>

\* resetState publishes through updateSessionTiming, which sees no change when
\* the session founded by New is founded again on one reading of the clock.
SetEnabled ==
  /\ Does("enable")
  /\ IF Now.on = eng.enabled THEN Change(eng, <<>>) /\ UNCHANGED <<fresh, present>>
     ELSE /\ present' = Now.on /\ fresh' = FALSE
          /\ \/ Change([eng EXCEPT !.enabled = Now.on, !.peers = 0], <<Publication>>)
             \/ /\ Now.on /\ fresh /\ ~ClockSteps
                /\ Change([eng EXCEPT !.enabled = TRUE], <<>>)
  /\ Rest /\ UNCHANGED sync

SetStartStopSync ==
  /\ Does("follow")
  /\ sync' = Now.on
  /\ Change(eng, <<>>)
  /\ Rest /\ UNCHANGED <<fresh, present>>

Publish ==
  /\ Does("publish")
  /\ snap' = eng /\ Change(eng, <<>>)
  /\ UNCHANGED <<sync, running, fresh, present, callers, sockets, calling, cmdCh, done, panicked>>

\* A callback returns, having called nothing.
CallbackReturns ==
  /\ InCallback /\ calling = NoCommand
  /\ Change(eng, <<>>)
  /\ Rest /\ UNCHANGED <<sync, fresh, present>>

\* A callback calls a setter on the engine's goroutine.
CallbackCalls(cmd) ==
  /\ InCallback /\ calling = NoCommand /\ Calls
  /\ calling' = cmd
  /\ UNCHANGED <<engine, sockets, cmdCh, pc, wants, done, panicked>>

CallbackCommandLeaves ==
  /\ InCallback /\ calling \in Commands
  /\ Send(calling) \/ Drop
  /\ calling' = NoCommand /\ Change(eng, <<>>)
  /\ UNCHANGED <<sync, snap, running, fresh, present, callers, sockets, done, panicked>>

\* A callback calls Close, and then waits for the goroutine it is on.
CallbackCloses ==
  /\ InCallback /\ calling = NoCommand /\ CloseWithin /\ ~done /\ Calls
  /\ calling' = CloseCall /\ done' = TRUE
  /\ UNCHANGED <<engine, sockets, cmdCh, pc, wants, panicked>>

-----------------------------------------------------------------------------
CallerStep(c) ==
  CommandLeaves(c) \/ CloseDone(c) \/ CloseReturns(c)

Operate ==
  Retime \/ Play \/ FollowTransport \/ Recount \/ SetEnabled \/ SetStartStopSync \/ Publish

Next ==
  \/ \E c \in Callers, cmd \in Asked : Call(c, cmd)
  \/ \E c \in Callers : CloseCalled(c)
  \/ \E c \in Callers : CallerStep(c)
  \/ \E packet \in Heard : Receive(packet)
  \/ ReadFails
  \/ TakeCommand
  \/ TakePacket
  \/ Leave
  \/ Operate
  \/ CallbackReturns
  \/ CallbackCommandLeaves
  \/ \E cmd \in Asked : CallbackCalls(cmd)
  \/ CallbackCloses

Spec == Init /\ [][Next]_vars

(***************************************************************************)
(* Fairness.  Goroutines are scheduled and callbacks return.  The select   *)
(* of the engine picks one of its ready cases at random, so a case that is *)
(* ready again and again is taken.  A read of a closed socket fails.       *)
(***************************************************************************)
Fairness ==
  /\ \A c \in Callers : WF_vars(CallerStep(c))
  /\ WF_vars(~open /\ ReadFails)
  /\ SF_vars(TakeCommand)
  /\ SF_vars(Leave)
  /\ WF_vars(Operate \/ CallbackReturns \/ CallbackCommandLeaves)

FairSpec == Spec /\ Fairness

-----------------------------------------------------------------------------
(* Properties. *)

\* Every variable keeps its type; a callback in a call is the engine's, and a
\* caller has a command exactly while it sends it.
TypeOK ==
  /\ eng \in Snapshots /\ snap \in Snapshots /\ sync \in BOOLEAN
  /\ todo \in Seq(Operations) /\ cmdCh \in Seq(Commands) /\ inbox \in Seq(Packets)
  /\ calling \in Commands \cup {CloseCall, NoCommand}
  /\ pc \in [Callers -> {"idle", "sending", "closing", "waiting"}]
  /\ wants \in [Callers -> Commands \cup {NoCommand}]
  /\ Len(cmdCh) <= QueueSize /\ Len(inbox) <= InboxSize /\ calls \in 0 .. MaxCalls
  /\ {running, fresh, present, done, open, reading, panicked} \subseteq BOOLEAN
  /\ calling # NoCommand => todo # <<>> /\ Now \in Callbacks
  /\ \A c \in Callers : pc[c] = "sending" <=> wants[c] # NoCommand

\* Whatever commands and packets were interleaved, and whatever callbacks did,
\* once a handler is over the getters return the engine's state, also after Close
\* (publishSnapshot, engine.go:755); and a callback about the number of peers finds
\* in NumPeers the number it was given, though one about the tempo may find the old
\* tempo (engine.go:447, 618).
ReadersCurrent ==
  /\ todo = <<>> => snap = eng
  /\ todo # <<>> /\ Now = Callback("peersCallback") => snap.peers = eng.peers

\* The engine waits for nobody who does not wait for Close: a callback sends to a
\* full queue, a callback has called Close, or the program is dead.
Stuck ==
  \/ panicked \/ calling = CloseCall
  \/ calling \in Commands /\ Len(cmdCh) = QueueSize /\ ~done

\* A call returns, unless the engine is stuck in a callback (link.go:157).
CallsReturn == \A c \in Callers : pc[c] # "idle" ~> pc[c] = "idle" \/ Stuck

\* Once done is closed, by a caller, the engine leaves even if it was stuck on its
\* queue, the departure of the node has been announced, the sockets are closed and
\* their loops over, for good (link.go:143-155, engine.go:257).
CloseCompletes ==
  done ~> [](\/ Stuck
             \/ ~running /\ ~present /\ ~open /\ ~reading)

\* What Enabled documents (link.go:174): it "reports whether the node is currently
\* participating in Link", at least between two handlers.
EnabledReports == Idle => snap.enabled = eng.enabled

=============================================================================
