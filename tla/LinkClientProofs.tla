--------------------------- MODULE LinkClientProofs ---------------------------
(* Theorems about LinkClient, for every value of its constants.  Its steps are *)
(* steps of PublicAPI or leave the Link alone, so what is proved of that module *)
(* is true of the Link the client uses.                                         *)
EXTENDS LinkClient, PublicAPIProofs

-----------------------------------------------------------------------------
(* The client and the API. *)

\* Every step of the client is one that any caller of the API may take, or none.
LEMMA ClientStepsAreSteps ==
  ASSUME ClientNext \/ UNCHANGED clientVars
  PROVE  [Next]_vars
<1>u. Ui \in Callers
  BY LinkClientAssumption
<1>1. ASSUME UNCHANGED clientVars PROVE UNCHANGED vars
  BY <1>1 DEF clientVars
<1>2. ASSUME Work \/ TickMsg \/ Nudged \/ UpdateMsg PROVE UNCHANGED vars
  BY <1>2 DEF Work, TickMsg, Nudged, UpdateMsg
<1>3. ASSUME NEW cmd \in Asked, KeyMsg(cmd) PROVE Next
  BY <1>3, <1>u DEF KeyMsg, Next
<1>4. ASSUME Quit \/ Return PROVE Next
  BY <1>4, <1>u DEF Quit, Return, Next
<1>5. ASSUME Notify \/ Engine \/ Ports PROVE Next
  BY <1>5 DEF Notify, Engine, Ports, Next
<1> QED BY <1>1, <1>2, <1>3, <1>4, <1>5 DEF ClientNext

\* The client is a user of the API: whatever the API guarantees to any callers is
\* guaranteed to it.
LEMMA ClientIsUser == ClientSpec => Spec
<1>1. ClientInit => Init
  BY DEF ClientInit
<1>2. [ClientNext]_clientVars => [Next]_vars
  BY ClientStepsAreSteps
<1> QED BY <1>1, <1>2, PTL DEF ClientSpec, Spec

-----------------------------------------------------------------------------
(* Type correctness. *)

\* What newModel and refresh have still to do are fields and callbacks.
Steps == Range(Fields) \cup Range(Told)

\* The fields are those of a snapshot, and the callbacks none of them.
LEMMA StepNames ==
  /\ Range(Fields) = {"tempo", "peers", "playing", "enabled"}
  /\ Range(Told) = {"peersCallback", "tempoCallback", "startStopCb"}
  /\ Fields \in Seq(Steps) /\ Told \in Seq(Steps) /\ Fields \o Told \in Seq(Steps)
<1>1. DOMAIN Fields = 1 .. 4 /\ Fields[1] = "tempo" /\ Fields[2] = "peers"
      /\ Fields[3] = "playing" /\ Fields[4] = "enabled"
  BY DEF Fields
<1>2. DOMAIN Told = 1 .. 3 /\ Told[1] = "peersCallback" /\ Told[2] = "tempoCallback"
      /\ Told[3] = "startStopCb"
  BY DEF Told
<1>3. 1 .. 4 = {1, 2, 3, 4} /\ 1 .. 3 = {1, 2, 3}
  OBVIOUS
<1>4. Range(Fields) = {"tempo", "peers", "playing", "enabled"}
  BY <1>1, <1>3 DEF Range
<1>5. Range(Told) = {"peersCallback", "tempoCallback", "startStopCb"}
  BY <1>2, <1>3 DEF Range
<1>6. /\ "tempo" \in Steps /\ "peers" \in Steps /\ "playing" \in Steps /\ "enabled" \in Steps
      /\ "peersCallback" \in Steps /\ "tempoCallback" \in Steps /\ "startStopCb" \in Steps
  BY <1>4, <1>5 DEF Steps
<1>7. Fields \in Seq(Steps) /\ Told \in Seq(Steps)
  BY <1>6 DEF Fields, Told
<1> QED BY <1>4, <1>5, <1>7, ConcatProperties

\* What is typed of the client besides the Link.
ClientOwnTypeOK ==
  /\ shown \in Snapshots /\ steps \in Seq(Steps) /\ registered \subseteq Range(Told)
  /\ waiting \in {"none", "channel", "message"} /\ updates \in 0 .. 1
  /\ {ticking, owed, quit} \subseteq BOOLEAN
  /\ calling = NoCommand

\* A call of refresh reads one field of a snapshot, or registers a callback.
LEMMA WorkType ==
  ASSUME TypeOK, ClientOwnTypeOK, Work
  PROVE  shown' \in Snapshots /\ registered' \subseteq Range(Told) /\ steps' \in Seq(Steps)
<1> DEFINE step == Head(steps)
<1>1. step \in Steps /\ steps' \in Seq(Steps)
  BY HeadAndTail DEF Work, ClientOwnTypeOK
<1>2. DOMAIN shown = {"enabled", "tempo", "playing", "peers"}
  BY DEF ClientOwnTypeOK, Snapshots
<1>3. snap \in Snapshots /\ shown \in Snapshots /\ registered \subseteq Range(Told)
  BY DEF TypeOK, ClientOwnTypeOK
<1>w. IF step \in DOMAIN shown THEN ReadField(step) ELSE Register(step)
  BY DEF Work
<1> HIDE DEF step
<1>4. CASE step \in DOMAIN shown
  <2>1. shown' = [shown EXCEPT ![step] = snap[step]] /\ registered' = registered
    BY <1>4, <1>w DEF ReadField
  <2>2. step \in {"enabled", "tempo", "playing", "peers"}
    BY <1>2, <1>4
  <2>3. shown' \in Snapshots
    BY <1>3, <2>1, <2>2 DEF Snapshots
  <2> QED BY <1>1, <1>3, <2>1, <2>3
<1>5. CASE step \notin DOMAIN shown
  <2>1. step \in Range(Told)
    BY <1>1, <1>2, <1>5, StepNames DEF Steps
  <2> QED BY <1>1, <1>3, <1>5, <1>w, <2>1 DEF Register
<1> QED BY <1>4, <1>5

\* A callback leaves one nudge and owes a refresh, if it is registered.
LEMMA NotifyNudges ==
  ASSUME Notify
  PROVE  \/ updates' = 1 /\ updates' > 0 /\ owed' = TRUE
         \/ updates' = updates /\ owed' = owed
<1>1. CASE Now.what \in registered
  BY <1>1 DEF Notify
<1>2. CASE Now.what \notin registered
  BY <1>2 DEF Notify
<1> QED BY <1>1, <1>2

\* Each step keeps the types of the client.
LEMMA ClientOwnType ==
  ASSUME TypeOK, ClientOwnTypeOK, [ClientNext]_clientVars
  PROVE  ClientOwnTypeOK'
<1> USE DEF ClientOwnTypeOK
<1>1. CASE UNCHANGED clientVars
  BY <1>1 DEF clientVars, client, vars
<1>2. CASE Work
  BY <1>2, WorkType DEF Work, vars
<1>3. CASE TickMsg
  BY <1>3, StepNames DEF TickMsg, vars
<1>4. CASE Nudged
  BY <1>4 DEF Nudged, vars
<1>5. CASE UpdateMsg
  BY <1>5, StepNames DEF UpdateMsg, vars
<1>6. ASSUME NEW cmd \in Asked, KeyMsg(cmd) PROVE ClientOwnTypeOK'
  BY <1>6 DEF KeyMsg, Call, client
<1>7. CASE Quit
  BY <1>7 DEF Quit, CloseCalled
<1>8. CASE Return
  BY <1>8 DEF Return, CallerStep, CommandLeaves, CloseDone, CloseReturns, client
<1>9. CASE Notify
  <2>1. UNCHANGED <<shown, steps, registered, ticking, waiting, quit>>
    BY <1>9 DEF Notify
  <2>2. calling' = calling
    BY <1>9 DEF Notify, CallbackReturns, Rest
  <2>3. updates' \in 0 .. 1
    <3>1. updates' = 1 \/ updates' = updates
      BY <1>9, NotifyNudges, Zenon
    <3> QED BY <3>1
  <2>4. owed' \in BOOLEAN
    BY <1>9, NotifyNudges
  <2> QED BY <2>1, <2>2, <2>3, <2>4
<1>10. CASE Engine
  <2>1. calling' = calling
    BY <1>10 DEF Engine, TakeCommand, TakePacket, Leave, Operate, Retime, Play, FollowTransport,
                 Recount, SetEnabled, SetStartStopSync, Publish, Rest
  <2> QED BY <1>10, <2>1 DEF Engine, client
<1>11. CASE Ports
  BY <1>11 DEF Ports, ReadFails, Receive, client
<1> QED
  BY <1>1, <1>2, <1>3, <1>4, <1>5, <1>6, <1>7, <1>8, <1>9, <1>10, <1>11 DEF ClientNext

\* The types of the Link and of the client are the types of both.
LEMMA ClientTypeParts == ClientTypeOK <=> TypeOK /\ ClientOwnTypeOK
BY DEF ClientTypeOK, ClientOwnTypeOK, Steps

\* Every variable of the client keeps its type, and no callback calls the Link, so the
\* engine never waits for the client (main.go:177).
THEOREM ClientTypeCorrect == ClientSpec => []ClientTypeOK
<1>1. ClientInit => ClientOwnTypeOK
  <2> SUFFICES ASSUME ClientInit PROVE ClientOwnTypeOK
    OBVIOUS
  <2>1. snap \in Snapshots /\ calling = NoCommand
    BY InitType DEF ClientInit, TypeOK, Init
  <2>2. Range(Fields) \cup Range(Told) = Steps /\ Fields \o Told \in Seq(Steps)
    BY StepNames DEF Steps
  <2>3. steps \in Seq(Steps) /\ shown \in Snapshots /\ registered = {}
    BY <2>1, <2>2 DEF ClientInit
  <2>4. /\ ticking = FALSE /\ owed = FALSE /\ quit = FALSE /\ updates = 0 /\ waiting = "none"
    BY DEF ClientInit
  <2>5. {ticking, owed, quit} \subseteq BOOLEAN
    BY <2>4
  <2>6. updates \in 0 .. 1 /\ waiting \in {"none", "channel", "message"}
    BY <2>4
  <2> QED BY <2>1, <2>3, <2>5, <2>6 DEF ClientOwnTypeOK
<1>2. TypeOK /\ ClientOwnTypeOK /\ [ClientNext]_clientVars => ClientOwnTypeOK'
  BY ClientOwnType
<1> QED BY <1>1, <1>2, ClientIsUser, TypeCorrect, ClientTypeParts, PTL DEF ClientSpec

-----------------------------------------------------------------------------
(* Nudges. *)

\* No nudge is lost: a callback that finds the channel full, or nobody waiting for it,
\* leaves a refresh that is still to begin (main.go:177-182, 212-217).
THEOREM NudgesAreNeverLost == ClientSpec => []NudgesAreKept
<1>1. ClientInit => NudgesAreKept
  BY DEF ClientInit, NudgesAreKept
<1>2. ClientTypeOK /\ NudgesAreKept /\ [ClientNext]_clientVars => NudgesAreKept'
  <2> SUFFICES ASSUME ClientTypeOK, NudgesAreKept, [ClientNext]_clientVars
               PROVE  NudgesAreKept'
    OBVIOUS
  <2> USE DEF NudgesAreKept
  <2>1. ASSUME UNCHANGED <<owed, updates, waiting>> PROVE NudgesAreKept'
    BY <2>1
  <2>2. CASE Work
    BY <2>2 DEF Work
  <2>3. CASE Nudged
    BY <2>3 DEF Nudged
  <2>4. CASE UpdateMsg
    BY <2>4 DEF UpdateMsg
  <2>5. CASE Notify
    <3>1. waiting' = waiting
      BY <2>5 DEF Notify
    <3> QED BY <2>5, <3>1, NotifyNudges, Zenon
  <2>6. ASSUME \/ UNCHANGED clientVars \/ TickMsg \/ Quit \/ Return \/ Engine \/ Ports
               \/ \E cmd \in Asked : KeyMsg(cmd)
        PROVE  UNCHANGED <<owed, updates, waiting>>
    BY <2>6 DEF clientVars, client, TickMsg, Quit, Return, Engine, Ports, KeyMsg
  <2> QED BY <2>1, <2>2, <2>3, <2>4, <2>5, <2>6 DEF ClientNext
<1> QED BY <1>1, <1>2, ClientTypeCorrect, PTL DEF ClientSpec

=============================================================================
