----------------------------- MODULE LinkClient -----------------------------
(***************************************************************************)
(* The terminal client, src/cmd/linkclient/main.go, on the API it is built  *)
(* on: one goroutine that draws what it last read of the Link and turns     *)
(* keys into calls, ticks, and callbacks of the engine that nudge it        *)
(* through a channel with one place.                                        *)
(*                                                                         *)
(* The runtime of Bubble Tea runs each command (a tick, the wait for a      *)
(* nudge) on a goroutine of its own and hands what it returns to Update.    *)
(* Layout, the text being typed and the quantum do not leave the client.    *)
(***************************************************************************)
EXTENDS PublicAPI, Functions

CONSTANT Ui   \* the goroutine of the event loop, the only caller

ASSUME LinkClientAssumption == Callers = {Ui} /\ ~CloseWithin

Fields == <<"tempo", "peers", "playing", "enabled">>
Told   == <<"peersCallback", "tempoCallback", "startStopCb">>

VARIABLES
  shown,       \* the fields of the model
  steps,       \* what is left of newModel or refresh
  registered,  \* callbacks set on the Link
  ticking,     \* a tick is on its way
  waiting,     \* the goroutine of waitForUpdate: in the channel, with a message, or none
  updates,     \* how many nudges the channel holds
  owed,        \* a callback nudged after the last update was taken
  quit         \* the event loop is over, and main closes the Link

client     == <<shown, steps, registered, ticking, waiting, updates, owed, quit>>
clientVars == <<vars, client>>

InLoop == steps = <<>> /\ pc[Ui] = "idle" /\ ~quit

\* main up to newModel: the node is enabled by its first command.
ClientInit ==
  /\ Init /\ cmdCh # <<>>
  /\ shown = snap /\ steps = Fields \o Told
  /\ registered = {} /\ ticking = FALSE /\ waiting = "none" /\ updates = 0
  /\ owed = FALSE /\ quit = FALSE

-----------------------------------------------------------------------------
(* The event loop. *)

\* What a call of refresh, or newModel, does next.  Each getter takes a snapshot
\* of its own.  When all is done, the commands that have ended start again.
ReadField(field) == shown' = [shown EXCEPT ![field] = snap[field]] /\ UNCHANGED registered
Register(what)   == registered' = registered \cup {what} /\ UNCHANGED shown

Work ==
  /\ steps # <<>>
  /\ IF Head(steps) \in DOMAIN shown THEN ReadField(Head(steps)) ELSE Register(Head(steps))
  /\ steps' = Tail(steps)
  /\ IF Tail(steps) = <<>>
     THEN ticking' = TRUE /\ waiting' = IF waiting = "none" THEN "channel" ELSE waiting
     ELSE UNCHANGED <<ticking, waiting>>
  /\ UNCHANGED <<vars, updates, owed, quit>>

\* MUTANT of TickMsg: only nudges refresh.
TickRedraws ==
  /\ InLoop /\ ticking
  /\ UNCHANGED <<vars, client>>

\* A tick, 100 ms after the last one was handled, refreshes.
TickMsg ==
  /\ InLoop /\ ticking
  /\ ticking' = FALSE /\ steps' = Fields
  /\ UNCHANGED <<vars, shown, registered, waiting, updates, owed, quit>>

\* waitForUpdate takes a nudge from the channel.
Nudged ==
  /\ waiting = "channel" /\ updates > 0
  /\ updates' = updates - 1 /\ waiting' = "message"
  /\ UNCHANGED <<vars, shown, steps, registered, ticking, owed, quit>>

UpdateMsg ==
  /\ InLoop /\ waiting = "message"
  /\ waiting' = "none" /\ owed' = FALSE /\ steps' = Fields
  /\ UNCHANGED <<vars, shown, registered, ticking, updates, quit>>

\* Keys act on what is shown, but for a tempo that is typed.
Wanted ==
  Retimings \cup {[op |-> "play", on |-> ~shown.playing], [op |-> "enable", on |-> ~shown.enabled]}

KeyMsg(cmd) ==
  /\ InLoop /\ cmd \in Wanted
  /\ Call(Ui, cmd)
  /\ UNCHANGED client

\* MUTANT of Quit: main returns without Close, the process lives on.
QuitUnclosed ==
  /\ InLoop
  /\ quit' = TRUE
  /\ UNCHANGED <<vars, shown, steps, registered, ticking, waiting, updates, owed>>

\* The loop ends, with an error or without, and main calls Close.
Quit ==
  /\ InLoop /\ CloseCalled(Ui)
  /\ quit' = TRUE
  /\ UNCHANGED <<shown, steps, registered, ticking, waiting, updates, owed>>

-----------------------------------------------------------------------------
(* The engine. *)

\* MUTANT of Notify: a channel without a place takes a nudge only while it is
\* awaited.
NotifyUnbuffered ==
  /\ InCallback
  /\ IF Now.what \in registered
     THEN updates' = (IF waiting = "channel" THEN 1 ELSE updates) /\ owed' = TRUE
     ELSE UNCHANGED <<updates, owed>>
  /\ CallbackReturns
  /\ UNCHANGED <<shown, steps, registered, ticking, waiting, quit>>

\* MUTANT of Notify: a channel with places for more than one.
NotifyQueued ==
  /\ InCallback
  /\ IF Now.what \in registered
     THEN updates' = updates + 1 /\ owed' = TRUE
     ELSE UNCHANGED <<updates, owed>>
  /\ CallbackReturns
  /\ UNCHANGED <<shown, steps, registered, ticking, waiting, quit>>

\* A callback nudges without waiting, if it is registered.
Notify ==
  /\ InCallback
  /\ IF Now.what \in registered
     THEN updates' = 1 /\ owed' = TRUE
     ELSE UNCHANGED <<updates, owed>>
  /\ CallbackReturns
  /\ UNCHANGED <<shown, steps, registered, ticking, waiting, quit>>

Engine ==
  /\ TakeCommand \/ TakePacket \/ Leave \/ Operate
  /\ UNCHANGED client

Ports ==
  /\ ReadFails \/ \E packet \in Heard : Receive(packet)
  /\ UNCHANGED client

-----------------------------------------------------------------------------
Return == CallerStep(Ui) /\ UNCHANGED client

ClientNext ==
  \/ Work
  \/ TickMsg
  \/ Nudged
  \/ UpdateMsg
  \/ \E cmd \in Asked : KeyMsg(cmd)
  \/ Quit
  \/ Return
  \/ Notify
  \/ Engine
  \/ Ports

ClientSpec == ClientInit /\ [][ClientNext]_clientVars

(***************************************************************************)
(* Fairness.  Those of the goroutines of PublicAPI that take part, those of *)
(* the runtime, and the event loop, which takes messages in the order they *)
(* were offered.  Nobody has to press a key, or to quit.                   *)
(***************************************************************************)
ClientFairness ==
  /\ WF_clientVars(Return)
  /\ SF_clientVars(TakeCommand /\ UNCHANGED client)
  /\ SF_clientVars(Leave /\ UNCHANGED client)
  /\ WF_clientVars(Operate /\ UNCHANGED client)
  /\ WF_clientVars(Notify)
  /\ WF_clientVars(Work)
  /\ WF_clientVars(Nudged)
  /\ SF_clientVars(TickMsg)
  /\ SF_clientVars(UpdateMsg)

FairClientSpec == ClientSpec /\ ClientFairness

-----------------------------------------------------------------------------
(* Properties. *)

\* Every variable of the client keeps its type, and the engine never has to wait
\* for the client: no callback calls the Link.
ClientTypeOK ==
  /\ TypeOK
  /\ shown \in Snapshots
  /\ steps \in Seq(Range(Fields) \cup Range(Told)) /\ registered \subseteq Range(Told)
  /\ waiting \in {"none", "channel", "message"} /\ updates \in 0 .. 1
  /\ {ticking, owed, quit} \subseteq BOOLEAN
  /\ calling = NoCommand

\* A nudge that finds the channel full, or the client busy, is not lost: another
\* refresh is still to begin (main.go:177-182, 212-217).
NudgesAreKept == owed => updates > 0 \/ waiting = "message"

\* When nothing is published any more the client ends up showing what is, unless
\* it is left, although the nudge of a tempo comes before its publication and one
\* refresh may read several snapshots (engine.go:617-620, main.go:191-200).
ScreenSettles ==
  \/ []<><<snap' # snap>>_clientVars
  \/ <>[](quit \/ shown = snap)

\* Whoever leaves the client leaves the session too: the departure is announced
\* and the sockets are closed (main.go:80-88).
QuitLeaves == quit ~> ~running /\ ~present /\ ~open

=============================================================================
