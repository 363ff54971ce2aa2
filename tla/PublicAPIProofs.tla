--------------------------- MODULE PublicAPIProofs ---------------------------
(* Theorems about PublicAPI, for every value of its constants. *)
EXTENDS PublicAPI, SequenceTheorems, TLAPS

-----------------------------------------------------------------------------
(* Operations and lists of them. *)

\* The operations of a handler are told apart by op.
LEMMA OperationKinds ==
  ASSUME NEW o \in Operations
  PROVE  /\ o.op = "retime" => o.tempo \in Tempos
         /\ o.op \in {"play", "enable", "follow", "transport"} => o.on \in BOOLEAN
         /\ o.op = "members" => o.number \in 0 .. MaxPeers
         /\ o.op = "publish" <=> o = Publication
         /\ o.op = "callback" <=> o \in Callbacks
         /\ o \in Commands => o.op \in {"retime", "play", "enable", "follow"}
<1>1. CASE o \in Retimings
  BY <1>1 DEF Retimings, Publication, Callbacks, Callback, Commands
<1>2. CASE o \in [op : {"play", "enable", "follow"}, on : BOOLEAN]
  BY <1>2 DEF Retimings, Publication, Callbacks, Callback, Commands
<1>3. CASE o \in Callbacks
  BY <1>3 DEF Retimings, Publication, Callbacks, Callback, Commands
<1>4. CASE o = Publication
  BY <1>4 DEF Retimings, Publication, Callbacks, Callback, Commands
<1>5. CASE o \in [op : {"transport"}, on : BOOLEAN]
  BY <1>5 DEF Retimings, Publication, Callbacks, Callback, Commands
<1>6. CASE o \in [op : {"members"}, number : 0 .. MaxPeers]
  BY <1>6 DEF Retimings, Publication, Callbacks, Callback, Commands
<1> QED BY <1>1, <1>2, <1>3, <1>4, <1>5, <1>6 DEF Operations, Commands

\* Commands, callbacks and publications are operations.
LEMMA SomeOperations ==
  /\ Commands \subseteq Operations /\ Callbacks \subseteq Operations
  /\ Publication \in Operations
  /\ \A what \in {"tempoCallback", "startStopCb", "peersCallback"} : Callback(what) \in Callbacks
BY DEF Operations, Callbacks

\* A packet is a handler of its own.
LEMMA PacketType == Packets \subseteq Seq(Operations)
<1> DEFINE State(tempo, on, number) ==
             <<[op |-> "retime", tempo |-> tempo], [op |-> "transport", on |-> on],
               [op |-> "members", number |-> number]>>
<1>1. Packets = {State(t, on, n) : t \in Tempos, on \in BOOLEAN, n \in 0 .. MaxPeers}
  BY DEF Packets
<1>2. ASSUME NEW t \in Tempos, NEW on \in BOOLEAN, NEW n \in 0 .. MaxPeers
      PROVE  State(t, on, n) \in Seq(Operations)
  <2>1. [op |-> "retime", tempo |-> t] \in Operations
    BY DEF Operations, Commands, Retimings
  <2>2. [op |-> "transport", on |-> on] \in Operations
    BY DEF Operations
  <2>3. [op |-> "members", number |-> n] \in Operations
    BY DEF Operations
  <2> QED BY <2>1, <2>2, <2>3
<1> HIDE DEF State
<1> QED BY <1>1, <1>2

\* What a list is after its first entry.
LEMMA HeadAndTail ==
  ASSUME NEW S, NEW s \in Seq(S), s # <<>>
  PROVE  /\ Head(s) \in S /\ Head(s) = s[1] /\ Len(s) \in Nat \ {0}
         /\ Tail(s) \in Seq(S) /\ Len(Tail(s)) = Len(s) - 1
         /\ \A i \in 1 .. Len(s) - 1 : Tail(s)[i] = s[i + 1]
BY HeadTailProperties, EmptySeq

\* Telling is a list of callbacks, of one at most.
LEMMA TellType ==
  ASSUME NEW what \in {"tempoCallback", "startStopCb", "peersCallback"}, NEW changed \in BOOLEAN
  PROVE  /\ Tell(what, changed) \in Seq({Callback(what)})
         /\ (Tell(what, changed) = <<>>) <=> ~changed
<1> DEFINE cb == Callback(what)
<1>1. cb \in {cb}
  OBVIOUS
<1> HIDE DEF cb
<1>2. <<cb>> \in Seq({cb}) /\ <<>> \in Seq({cb}) /\ <<cb>> # <<>>
  OBVIOUS
<1> QED BY <1>2 DEF Tell, cb

\* What an operation that tells a tempo and a transport leaves to do.
Announcements == Seq({Callback("tempoCallback"), Callback("startStopCb")})

\* Told lists are lists of callbacks, none of which is about peers.
LEMMA ToldType ==
  ASSUME NEW a \in BOOLEAN, NEW b \in BOOLEAN
  PROVE  /\ Tell("startStopCb", a) \in Announcements
         /\ Tell("startStopCb", a) \o Tell("tempoCallback", b) \in Announcements
         /\ Tell("startStopCb", a) \o Tell("tempoCallback", b) = <<>> => ~a /\ ~b
<1> DEFINE S == {Callback("tempoCallback"), Callback("startStopCb")}
           s == Tell("startStopCb", a)
           t == Tell("tempoCallback", b)
<1>1. s \in Seq(S) /\ t \in Seq(S)
  <2>1. s \in Seq({Callback("startStopCb")}) /\ t \in Seq({Callback("tempoCallback")})
    BY TellType
  <2>2. {Callback("startStopCb")} \subseteq S /\ {Callback("tempoCallback")} \subseteq S
    OBVIOUS
  <2> HIDE DEF s, t, S
  <2> QED BY <2>1, <2>2
<1>2. (s = <<>> => ~a) /\ (t = <<>> => ~b)
  BY TellType
<1> HIDE DEF s, t, S
<1>3. s \o t \in Seq(S) /\ (s \o t = <<>> => s = <<>> /\ t = <<>>)
  BY <1>1, ConcatProperties, ConcatEqualIffEmpty
<1> QED BY <1>1, <1>2, <1>3 DEF Announcements, s, t, S

\* Such a list, and the publication after it, are operations.
LEMMA AnnouncementsType ==
  ASSUME NEW a \in Announcements
  PROVE  /\ a \in Seq(Operations) /\ a \in Seq(Callbacks)
         /\ a \o <<Publication>> \in Seq(Operations)
<1>1. a \in Seq(Callbacks)
  BY SomeOperations DEF Announcements
<1>2. a \in Seq(Operations)
  BY <1>1, SomeOperations
<1>3. <<Publication>> \in Seq(Operations)
  BY SomeOperations
<1> QED BY <1>1, <1>2, <1>3, ConcatProperties

-----------------------------------------------------------------------------
(* Type correctness. *)

\* An operation that leaves a list of operations to do first keeps the types of the
\* engine and of its handler.
LEMMA ChangeType ==
  ASSUME TypeOK, todo # <<>>, NEW change \in Snapshots, NEW first \in Seq(Operations),
         Change(change, first)
  PROVE  eng' \in Snapshots /\ todo' \in Seq(Operations)
<1>1. Tail(todo) \in Seq(Operations)
  BY HeadAndTail DEF TypeOK
<1>2. first \o Tail(todo) \in Seq(Operations)
  BY <1>1, ConcatProperties
<1> QED BY <1>2 DEF Change

\* An operation under way, of a kind that is not a callback, runs in no call of one.
LEMMA NoCallWithin ==
  ASSUME TypeOK, NEW op, Does(op), op # "callback"
  PROVE  todo # <<>> /\ Now \in Operations /\ Now.op = op /\ calling = NoCommand
<1>1. todo # <<>> /\ Now.op = op
  BY DEF Does
<1>2. Now \in Operations
  BY <1>1, HeadAndTail DEF Now, TypeOK
<1>3. Now \notin Callbacks
  BY <1>1, <1>2, OperationKinds
<1> QED BY <1>1, <1>2, <1>3 DEF TypeOK

\* An operation that keeps the types of what it changes keeps them all.
LEMMA OperationType ==
  ASSUME TypeOK, calling = NoCommand, Rest,
         eng' \in Snapshots, todo' \in Seq(Operations),
         sync' \in BOOLEAN, fresh' \in BOOLEAN, present' \in BOOLEAN
  PROVE  TypeOK'
BY DEF TypeOK, Rest, callers, sockets, Now

\* What is made of a snapshot is a snapshot.
LEMMA SnapshotType ==
  ASSUME NEW s \in Snapshots
  PROVE  /\ \A t \in Tempos, on \in BOOLEAN : [s EXCEPT !.tempo = t, !.playing = on] \in Snapshots
         /\ \A on \in BOOLEAN : [s EXCEPT !.playing = on] \in Snapshots
         /\ \A n \in 0 .. MaxPeers : [s EXCEPT !.peers = n] \in Snapshots
         /\ \A on \in BOOLEAN : [s EXCEPT !.enabled = on] \in Snapshots
         /\ \A on \in BOOLEAN : [s EXCEPT !.enabled = on, !.peers = 0] \in Snapshots
         /\ s.playing \in BOOLEAN /\ s.enabled \in BOOLEAN /\ s.tempo \in Tempos
<1>1. 0 \in 0 .. MaxPeers
  BY PublicAPIAssumption
<1> QED BY <1>1 DEF Snapshots

\* Lists of one publication, and of a publication and a callback, are operations.
LEMMA PublicationLists ==
  /\ <<Publication>> \in Seq(Operations) /\ <<>> \in Seq(Operations)
  /\ <<Publication, Callback("peersCallback")>> \in Seq(Operations)
<1>1. Publication \in Operations /\ Callback("peersCallback") \in Operations
  BY SomeOperations
<1> QED BY <1>1

\* What the operations of a handler but the publication do: they change the engine's
\* state to another, and either tell what changed and publish it, or publish a count
\* and tell it, or leave nothing to do and change nothing that readers see, but for the
\* session founded again on one reading of the clock.
Outcome ==
  \E change \in Snapshots :
    \/ \E a \in Announcements : Change(change, a \o <<Publication>>)
    \/ Change(change, <<Publication, Callback("peersCallback")>>)
    \/ Change(change, <<>>) /\ (change = eng \/ ~ClockSteps)

Silent ==
  \/ Retime \/ Play \/ FollowTransport \/ Recount \/ SetEnabled \/ SetStartStopSync

\* Playing what is played, or something else, is one of them.
LEMMA PlayedOutcome ==
  ASSUME TypeOK, NEW on \in BOOLEAN, Played(on)
  PROVE  Outcome
<1>1. Tell("startStopCb", on # eng.playing) \in Announcements
  BY ToldType
<1>2. [eng EXCEPT !.playing = on] \in Snapshots
  BY SnapshotType DEF TypeOK
<1> QED BY <1>1, <1>2 DEF Played, Outcome

\* Every operation but the publication is one of them, of a handler in no callback.
LEMMA SilentOutcome ==
  ASSUME TypeOK, Silent
  PROVE  /\ Outcome /\ Rest /\ todo # <<>> /\ calling = NoCommand
         /\ Now \in Operations /\ Now \notin Callbacks \cup {Publication}
         /\ sync' \in BOOLEAN /\ fresh' \in BOOLEAN /\ present' \in BOOLEAN
<1> DEFINE Kind == /\ Rest /\ todo # <<>> /\ calling = NoCommand
                   /\ Now \in Operations /\ Now \notin Callbacks \cup {Publication}
<1>k. ASSUME NEW op \in {"retime", "play", "transport", "members", "enable", "follow"},
             Does(op), Rest
      PROVE  Kind /\ Now.op = op
  BY <1>k, NoCallWithin, OperationKinds
<1>t. eng \in Snapshots /\ {sync, fresh, present} \subseteq BOOLEAN
  BY DEF TypeOK
<1>1. CASE Retime
  <2>1. Kind /\ Now.op = "retime"
    BY <1>1, <1>k DEF Retime
  <2>2. Now.tempo \in Tempos
    BY <2>1, OperationKinds
  <2>3. PICK on \in {eng.playing} \cup {any \in BOOLEAN : sync} :
          LET told == Tell("startStopCb", on # eng.playing)
                        \o Tell("tempoCallback", Now.tempo # eng.tempo)
          IN  Change([eng EXCEPT !.tempo = Now.tempo, !.playing = on],
                     IF told = <<>> THEN <<>> ELSE told \o <<Publication>>)
    BY <1>1 DEF Retime
  <2>4. on \in BOOLEAN
    BY <1>t, SnapshotType
  <2> DEFINE told   == Tell("startStopCb", on # eng.playing)
                         \o Tell("tempoCallback", Now.tempo # eng.tempo)
             change == [eng EXCEPT !.tempo = Now.tempo, !.playing = on]
  <2>5. told \in Announcements
        /\ (told = <<>> => on = eng.playing /\ Now.tempo = eng.tempo)
    BY ToldType
  <2>6. change \in Snapshots
    BY <1>t, <2>2, <2>4, SnapshotType
  <2>7. on = eng.playing /\ Now.tempo = eng.tempo => change = eng
    BY <1>t DEF Snapshots
  <2>8. Change(change, IF told = <<>> THEN <<>> ELSE told \o <<Publication>>)
    BY <2>3
  <2> HIDE DEF told, change
  <2>9. Outcome
    BY <2>5, <2>6, <2>7, <2>8 DEF Outcome
  <2> QED BY <1>1, <1>t, <2>1, <2>9 DEF Retime
<1>2. CASE Play
  <2>1. Kind /\ Now.op = "play"
    BY <1>2, <1>k DEF Play
  <2>2. Now.on \in BOOLEAN /\ eng.playing \in BOOLEAN
    BY <1>t, <2>1, OperationKinds, SnapshotType
  <2> QED BY <1>2, <1>t, <2>1, <2>2, PlayedOutcome DEF Play
<1>3. CASE FollowTransport
  <2>1. Kind /\ Now.op = "transport"
    BY <1>3, <1>k DEF FollowTransport
  <2>2. Now.on \in BOOLEAN
    BY <2>1, OperationKinds
  <2>3. Change(eng, <<>>) => Outcome
    BY <1>t DEF Outcome
  <2> QED BY <1>3, <1>t, <2>1, <2>2, <2>3, PlayedOutcome DEF FollowTransport
<1>4. CASE Recount
  <2>1. Kind /\ Now.op = "members"
    BY <1>4, <1>k DEF Recount
  <2>2. Now.number \in 0 .. MaxPeers
    BY <2>1, OperationKinds
  <2> DEFINE change == [eng EXCEPT !.peers = Now.number]
  <2>3. change \in Snapshots /\ (Now.number = eng.peers => change = eng)
    BY <1>t, <2>2 DEF Snapshots
  <2>4. Change(change, IF Now.number = eng.peers THEN <<>>
                       ELSE <<Publication, Callback("peersCallback")>>)
    BY <1>4 DEF Recount
  <2> HIDE DEF change
  <2> QED BY <1>4, <1>t, <2>1, <2>3, <2>4 DEF Recount, Outcome
<1>5. CASE SetEnabled
  <2>1. Kind /\ Now.op = "enable"
    BY <1>5, <1>k DEF SetEnabled
  <2>2. Now.on \in BOOLEAN
    BY <2>1, OperationKinds
  <2>3. /\ [eng EXCEPT !.enabled = Now.on, !.peers = 0] \in Snapshots
        /\ [eng EXCEPT !.enabled = TRUE] \in Snapshots
    BY <1>t, <2>2, SnapshotType
  <2>4. <<>> \in Announcements /\ <<>> \o <<Publication>> = <<Publication>>
    BY ConcatEmptySeq, PublicationLists DEF Announcements
  <2>5. \/ Change(eng, <<>>)
        \/ Change([eng EXCEPT !.enabled = Now.on, !.peers = 0], <<>> \o <<Publication>>)
        \/ Change([eng EXCEPT !.enabled = TRUE], <<>>) /\ ~ClockSteps
    BY <1>5, <2>4 DEF SetEnabled
  <2>6. Outcome
    BY <1>t, <2>3, <2>4, <2>5 DEF Outcome
  <2> QED BY <1>5, <1>t, <2>1, <2>2, <2>6 DEF SetEnabled
<1>6. CASE SetStartStopSync
  <2>1. Kind /\ Now.op = "follow"
    BY <1>6, <1>k DEF SetStartStopSync
  <2>2. Now.on \in BOOLEAN
    BY <2>1, OperationKinds
  <2> QED BY <1>6, <1>t, <2>1, <2>2 DEF SetStartStopSync, Outcome
<1> QED BY <1>1, <1>2, <1>3, <1>4, <1>5, <1>6 DEF Silent

\* The steps of the engine's goroutine that are no operation of a handler.
Others ==
  \/ \E c \in Callers, cmd \in Asked : Call(c, cmd)
  \/ \E c \in Callers : CloseCalled(c)
  \/ \E c \in Callers : CallerStep(c)
  \/ \E packet \in Heard : Receive(packet)
  \/ ReadFails
  \/ Leave

\* The queue of commands stays one, whichever case of command's select is taken.
LEMMA SendType ==
  ASSUME TypeOK, NEW cmd \in Commands, Send(cmd) \/ Drop
  PROVE  cmdCh' \in Seq(Commands) /\ Len(cmdCh') <= QueueSize
<1>1. cmdCh \in Seq(Commands) /\ Len(cmdCh) <= QueueSize /\ QueueSize \in Nat
  BY PublicAPIAssumption DEF TypeOK
<1>2. CASE Send(cmd)
  <2>1. cmdCh' = Append(cmdCh, cmd) /\ Len(cmdCh) < QueueSize
    BY <1>2 DEF Send
  <2>2. Append(cmdCh, cmd) \in Seq(Commands) /\ Len(Append(cmdCh, cmd)) = Len(cmdCh) + 1
    BY <1>1, AppendProperties
  <2>3. Len(cmdCh) \in Nat
    BY <1>1, LenProperties
  <2> QED BY <1>1, <2>1, <2>2, <2>3
<1>3. CASE Drop
  BY <1>1, <1>3 DEF Drop
<1> QED BY <1>2, <1>3

\* Types after a step of a caller, of a socket, or of the engine leaving.
LEMMA OthersType ==
  ASSUME TypeOK, Others
  PROVE  TypeOK'
<1> USE DEF callers, sockets, engine
<1>n. NoCommand \notin Commands
  BY NoCommandAssumption
<1>1. ASSUME NEW c \in Callers, NEW cmd \in Asked, Call(c, cmd) PROVE TypeOK'
  <2>1. cmd \in Commands /\ calls' \in 0 .. MaxCalls
    BY <1>1, InputsAssumption, PublicAPIAssumption DEF Call, Calls, TypeOK
  <2>2. /\ pc' \in [Callers -> {"idle", "sending", "closing", "waiting"}]
        /\ wants' \in [Callers -> Commands \cup {NoCommand}]
        /\ \A d \in Callers : pc'[d] = "sending" <=> wants'[d] # NoCommand
    BY <1>1, <1>n, <2>1 DEF Call, TypeOK
  <2> QED BY <1>1, <2>1, <2>2 DEF Call, TypeOK, Now
<1>2. ASSUME NEW c \in Callers, CloseCalled(c) PROVE TypeOK'
  <2>1. calls' \in 0 .. MaxCalls
    BY <1>2, PublicAPIAssumption DEF CloseCalled, Calls, TypeOK
  <2>2. /\ pc' \in [Callers -> {"idle", "sending", "closing", "waiting"}]
        /\ \A d \in Callers : pc'[d] = "sending" <=> wants'[d] # NoCommand
    BY <1>2 DEF CloseCalled, TypeOK
  <2> QED BY <1>2, <2>1, <2>2 DEF CloseCalled, TypeOK, Now
<1>3. ASSUME NEW c \in Callers, CommandLeaves(c) PROVE TypeOK'
  <2>1. /\ pc' \in [Callers -> {"idle", "sending", "closing", "waiting"}]
        /\ wants' \in [Callers -> Commands \cup {NoCommand}]
        /\ \A d \in Callers : pc'[d] = "sending" <=> wants'[d] # NoCommand
    BY <1>3 DEF CommandLeaves, TypeOK
  <2>2. wants[c] \in Commands
    BY <1>3 DEF CommandLeaves, TypeOK
  <2>3. cmdCh' \in Seq(Commands) /\ Len(cmdCh') <= QueueSize
    BY <1>3, <2>2, SendType DEF CommandLeaves
  <2> QED BY <1>3, <2>1, <2>3 DEF CommandLeaves, TypeOK, Now
<1>4. ASSUME NEW c \in Callers, CloseDone(c) PROVE TypeOK'
  <2>1. /\ pc' \in [Callers -> {"idle", "sending", "closing", "waiting"}]
        /\ \A d \in Callers : pc'[d] = "sending" <=> wants'[d] # NoCommand
    BY <1>4 DEF CloseDone, TypeOK
  <2> QED BY <1>4, <2>1 DEF CloseDone, TypeOK, Now
<1>5. ASSUME NEW c \in Callers, CloseReturns(c) PROVE TypeOK'
  <2>1. /\ pc' \in [Callers -> {"idle", "sending", "closing", "waiting"}]
        /\ \A d \in Callers : pc'[d] = "sending" <=> wants'[d] # NoCommand
    BY <1>5 DEF CloseReturns, TypeOK
  <2> QED BY <1>5, <2>1 DEF CloseReturns, TypeOK, Now
<1>6. ASSUME NEW packet \in Heard, Receive(packet) PROVE TypeOK'
  <2>1. packet \in Packets
    BY InputsAssumption
  <2>2. inbox' \in Seq(Packets) /\ Len(inbox') <= InboxSize
    BY <1>6, <2>1, AppendProperties, PublicAPIAssumption DEF Receive, TypeOK
  <2> QED BY <1>6, <2>2 DEF Receive, TypeOK, Now
<1>7. CASE ReadFails
  BY <1>7 DEF ReadFails, TypeOK, Now
<1>8. CASE Leave
  BY <1>8 DEF Leave, TypeOK, Now
<1> QED BY <1>1, <1>2, <1>3, <1>4, <1>5, <1>6, <1>7, <1>8 DEF Others, CallerStep

\* Types after the engine has taken a command or a packet.
LEMMA TakeType ==
  ASSUME TypeOK, TakeCommand \/ TakePacket
  PROVE  TypeOK'
<1> USE DEF callers, sockets, engine
<1>0. calling = NoCommand
  BY DEF TakeCommand, TakePacket, Idle, TypeOK
<1>1. CASE TakeCommand
  <2>1. /\ Head(cmdCh) \in Commands /\ Tail(cmdCh) \in Seq(Commands)
        /\ Len(Tail(cmdCh)) <= QueueSize
    BY <1>1, HeadAndTail, PublicAPIAssumption DEF TakeCommand, TypeOK
  <2>2. <<Head(cmdCh)>> \in Seq(Operations)
    BY <2>1, SomeOperations
  <2> QED BY <1>0, <1>1, <2>1, <2>2 DEF TakeCommand, TypeOK, Now
<1>2. CASE TakePacket
  <2>1. /\ Head(inbox) \in Packets /\ Tail(inbox) \in Seq(Packets)
        /\ Len(Tail(inbox)) <= InboxSize
    BY <1>2, HeadAndTail, PublicAPIAssumption DEF TakePacket, TypeOK
  <2>2. todo' \in Seq(Operations)
    BY <1>2, <2>1, PacketType, PublicationLists DEF TakePacket
  <2> QED BY <1>0, <1>2, <2>1, <2>2 DEF TakePacket, TypeOK, Now
<1> QED BY <1>1, <1>2

\* Types after an operation of a handler, or a step of a callback.
LEMMA HandlerType ==
  ASSUME TypeOK,
         \/ Silent \/ Publish \/ CallbackReturns \/ CallbackCommandLeaves
         \/ \E cmd \in Asked : CallbackCalls(cmd)
         \/ CallbackCloses
  PROVE  TypeOK'
<1> USE DEF callers, sockets, engine
<1>e. eng \in Snapshots /\ <<>> \in Seq(Operations)
  BY PublicationLists DEF TypeOK
<1>1. CASE Silent
  <2>1. Outcome /\ Rest /\ todo # <<>> /\ calling = NoCommand
        /\ sync' \in BOOLEAN /\ fresh' \in BOOLEAN /\ present' \in BOOLEAN
    BY <1>1, SilentOutcome
  <2>2. PICK change \in Snapshots, first \in Seq(Operations) : Change(change, first)
    BY <2>1, AnnouncementsType, PublicationLists DEF Outcome
  <2> QED BY <2>1, <2>2, ChangeType, OperationType
<1>2. CASE Publish
  <2>1. todo # <<>> /\ calling = NoCommand
    BY <1>2, NoCallWithin DEF Publish
  <2>2. eng' \in Snapshots /\ todo' \in Seq(Operations)
    BY <1>e, <1>2, <2>1, ChangeType DEF Publish
  <2> QED BY <1>e, <1>2, <2>1, <2>2 DEF Publish, TypeOK, Now
<1>c. InCallback => todo # <<>> /\ Now \in Callbacks
  <2> SUFFICES ASSUME InCallback PROVE todo # <<>> /\ Now \in Callbacks
    OBVIOUS
  <2>1. todo # <<>> /\ Now \in Operations /\ Now.op = "callback"
    BY HeadAndTail DEF InCallback, Does, Now, TypeOK
  <2> QED BY <2>1, OperationKinds
<1>3. CASE CallbackReturns
  <2>1. eng' \in Snapshots /\ todo' \in Seq(Operations)
    BY <1>c, <1>e, <1>3, ChangeType DEF CallbackReturns
  <2> QED BY <1>3, <2>1, OperationType DEF CallbackReturns, TypeOK
<1>4. CASE CallbackCommandLeaves
  <2>1. eng' \in Snapshots /\ todo' \in Seq(Operations)
    BY <1>c, <1>e, <1>4, ChangeType DEF CallbackCommandLeaves
  <2>2. cmdCh' \in Seq(Commands) /\ Len(cmdCh') <= QueueSize
    BY <1>4, SendType DEF CallbackCommandLeaves
  <2> QED BY <1>4, <2>1, <2>2 DEF CallbackCommandLeaves, TypeOK
<1>5. ASSUME NEW cmd \in Asked, CallbackCalls(cmd) PROVE TypeOK'
  <2>1. cmd \in Commands /\ calls' \in 0 .. MaxCalls
    BY <1>5, InputsAssumption, PublicAPIAssumption DEF CallbackCalls, Calls, TypeOK
  <2>2. InCallback /\ todo' = todo
    BY <1>5 DEF CallbackCalls
  <2> QED BY <1>5, <1>c, <2>1, <2>2 DEF CallbackCalls, TypeOK, Now
<1>6. CASE CallbackCloses
  <2>1. calls' \in 0 .. MaxCalls
    BY <1>6, PublicAPIAssumption DEF CallbackCloses, Calls, TypeOK
  <2>2. InCallback /\ todo' = todo
    BY <1>6 DEF CallbackCloses
  <2> QED BY <1>6, <1>c, <2>1, <2>2 DEF CallbackCloses, TypeOK, Now
<1> QED BY <1>1, <1>2, <1>3, <1>4, <1>5, <1>6

\* The node starts with the types.
LEMMA InitType == Init => TypeOK
<1> SUFFICES ASSUME Init PROVE TypeOK
  OBVIOUS
<1>1. eng \in Snapshots /\ snap \in Snapshots
  BY PublicAPIAssumption DEF Init, Snapshots
<1>2. cmdCh \in Seq(Commands) /\ Len(cmdCh) <= QueueSize
  <2> DEFINE cmd == [op |-> "enable", on |-> TRUE]
  <2>1. cmd \in Commands
    BY DEF Commands
  <2>2. cmdCh \in {<<>>, <<cmd>>}
    BY DEF Init
  <2> HIDE DEF cmd
  <2>3. <<>> \in Seq(Commands) /\ Len(<<>>) = 0 /\ <<cmd>> \in Seq(Commands) /\ Len(<<cmd>>) = 1
    BY <2>1
  <2>4. 0 <= QueueSize /\ 1 <= QueueSize
    BY PublicAPIAssumption
  <2> DEFINE one == <<cmd>>
             none == <<>>
  <2>5. cmdCh \in {none, one} /\ {none, one} \subseteq Seq(Commands)
        /\ Len(none) <= QueueSize /\ Len(one) <= QueueSize
    BY <2>2, <2>3, <2>4
  <2> HIDE DEF one, none
  <2> QED BY <2>5
<1>3. todo \in Seq(Operations) /\ inbox \in Seq(Packets) /\ Len(inbox) <= InboxSize
  BY PublicAPIAssumption DEF Init
<1>4. /\ pc \in [Callers -> {"idle", "sending", "closing", "waiting"}]
      /\ wants \in [Callers -> Commands \cup {NoCommand}]
      /\ \A c \in Callers : pc[c] = "sending" <=> wants[c] # NoCommand
  BY DEF Init
<1>5. calling = NoCommand /\ calls \in 0 .. MaxCalls
  BY PublicAPIAssumption DEF Init
<1>6. {sync, running, fresh, present, done, open, reading, panicked} \subseteq BOOLEAN
  BY DEF Init
<1> QED BY <1>1, <1>2, <1>3, <1>4, <1>5, <1>6 DEF TypeOK

\* The operations of a handler are the publication and the silent ones.
LEMMA OperateIs == Operate <=> Silent \/ Publish
BY DEF Operate, Silent

\* Every step keeps them.
LEMMA NextType == TypeOK /\ [Next]_vars => TypeOK'
<1> SUFFICES ASSUME TypeOK, [Next]_vars PROVE TypeOK'
  OBVIOUS
<1>1. CASE UNCHANGED vars
  BY <1>1 DEF vars, engine, callers, sockets, TypeOK, Now
<1> QED BY <1>1, OthersType, TakeType, HandlerType, OperateIs DEF Next, Others

\* Every variable keeps its type: a callback in a call is the engine's, and a caller
\* has a command exactly while it sends it (link.go:157).
THEOREM TypeCorrect == Spec => []TypeOK
BY InitType, NextType, PTL DEF Spec

-----------------------------------------------------------------------------
(* Readers. *)

\* A list of operations that publishes before it does anything but call back.
Pays(list) ==
  \E i \in 1 .. Len(list) :
    list[i] = Publication /\ \A j \in 1 .. i - 1 : list[j] \in Callbacks

\* ... and one that tells the number of peers only when it has published it.
Ordered(list) ==
  \A i \in 2 .. Len(list) : list[i] = Callback("peersCallback") => list[i - 1] = Publication

\* The inductive invariant: what readers do not see yet will be published before
\* anything else changes, and a callback about peers follows a publication.
PublishedInv ==
  /\ snap # eng => Pays(todo)
  /\ Ordered(todo)
  /\ todo # <<>> /\ Now = Callback("peersCallback") => snap = eng

\* A list that begins with a callback publishes after it what it owes.
LEMMA PaysTail ==
  ASSUME NEW s \in Seq(Operations), s # <<>>, Pays(s), Head(s) \in Callbacks
  PROVE  Pays(Tail(s))
<1>1. PICK i \in 1 .. Len(s) : s[i] = Publication /\ \A j \in 1 .. i - 1 : s[j] \in Callbacks
  BY DEF Pays
<1>2. /\ Head(s) = s[1] /\ Len(s) \in Nat \ {0} /\ Len(Tail(s)) = Len(s) - 1
      /\ \A k \in 1 .. Len(s) - 1 : Tail(s)[k] = s[k + 1]
  BY HeadAndTail
<1>3. Publication \notin Callbacks
  BY DEF Publication, Callbacks, Callback
<1>4. i # 1
  BY <1>1, <1>2, <1>3
<1>5. i - 1 \in 1 .. Len(Tail(s)) /\ Tail(s)[i - 1] = Publication
  BY <1>1, <1>2, <1>4
<1>6. ASSUME NEW j \in 1 .. (i - 1) - 1 PROVE Tail(s)[j] \in Callbacks
  <2>1. j \in 1 .. Len(s) - 1 /\ j + 1 \in 1 .. i - 1
    BY <1>2
  <2> QED BY <1>1, <1>2, <2>1
<1> QED BY <1>5, <1>6 DEF Pays

\* One that begins with anything else publishes at once.
LEMMA PaysAtOnce ==
  ASSUME NEW s \in Seq(Operations), s # <<>>, Pays(s)
  PROVE  Head(s) \in Callbacks \cup {Publication}
<1>1. PICK i \in 1 .. Len(s) : s[i] = Publication /\ \A j \in 1 .. i - 1 : s[j] \in Callbacks
  BY DEF Pays
<1>2. Head(s) = s[1] /\ Len(s) \in Nat \ {0}
  BY HeadAndTail
<1>3. CASE i = 1
  BY <1>1, <1>2, <1>3
<1>4. CASE i # 1
  <2>1. 1 \in 1 .. i - 1
    BY <1>2, <1>4
  <2> QED BY <1>1, <1>2, <2>1
<1> QED BY <1>3, <1>4

\* A list is ordered after its first entry too, and what follows it is about peers
\* only if it publishes.
LEMMA OrderedTail ==
  ASSUME NEW s \in Seq(Operations), s # <<>>, Ordered(s)
  PROVE  /\ Ordered(Tail(s))
         /\ Tail(s) # <<>> /\ Head(Tail(s)) = Callback("peersCallback") => Head(s) = Publication
<1> DEFINE cb == Callback("peersCallback")
<1>1. /\ Head(s) = s[1] /\ Len(s) \in Nat \ {0} /\ Len(Tail(s)) = Len(s) - 1
      /\ Tail(s) \in Seq(Operations)
      /\ \A k \in 1 .. Len(s) - 1 : Tail(s)[k] = s[k + 1]
  BY HeadAndTail
<1>o. \A i \in 2 .. Len(s) : s[i] = cb => s[i - 1] = Publication
  BY DEF Ordered
<1> HIDE DEF cb
<1>2. ASSUME NEW i \in 2 .. Len(Tail(s)), Tail(s)[i] = cb PROVE Tail(s)[i - 1] = Publication
  <2>1. /\ i \in 1 .. Len(s) - 1 /\ i - 1 \in 1 .. Len(s) - 1
        /\ i + 1 \in 2 .. Len(s) /\ (i - 1) + 1 = i /\ (i + 1) - 1 = i
    BY <1>1
  <2>2. s[i + 1] = cb
    BY <1>1, <1>2, <2>1
  <2>3. s[i] = Publication
    BY <1>o, <2>1, <2>2
  <2> QED BY <1>1, <2>1, <2>3
<1>3. ASSUME Tail(s) # <<>>, Head(Tail(s)) = cb PROVE Head(s) = Publication
  <2>1. Head(Tail(s)) = Tail(s)[1] /\ Len(Tail(s)) \in Nat \ {0}
    BY <1>1, <1>3, HeadAndTail
  <2>2. 1 \in 1 .. Len(s) - 1 /\ 2 \in 2 .. Len(s) /\ Tail(s)[1] = s[1 + 1]
    BY <1>1, <2>1
  <2> QED BY <1>1, <1>3, <1>o, <2>1, <2>2
<1> QED BY <1>2, <1>3 DEF Ordered, cb

\* An announcement and the publication after it, before an ordered list, pays and is
\* ordered, and begins with nothing about peers.
LEMMA AnnouncedFirst ==
  ASSUME NEW a \in Announcements, NEW r \in Seq(Operations), Ordered(r)
  PROVE  LET list == (a \o <<Publication>>) \o r
         IN  Pays(list) /\ Ordered(list) /\ list # <<>> /\ Head(list) # Callback("peersCallback")
<1> DEFINE cb   == Callback("peersCallback")
           one  == <<Publication>>
           f    == a \o one
           list == f \o r
           n    == Len(a)
<1>1. /\ one \in Seq(Operations) /\ Len(one) = 1 /\ one[1] = Publication
  BY PublicationLists
<1>2. a \in Seq(Operations) /\ a \in Seq(Callbacks)
  BY AnnouncementsType
<1>3. Publication # cb /\ \A i \in 1 .. Len(a) : a[i] # cb /\ a[i] \in Callbacks
  <2>1. \A i \in 1 .. Len(a) : a[i] \in {Callback("tempoCallback"), Callback("startStopCb")}
    BY ElementOfSeq DEF Announcements
  <2>2. cb \notin {Callback("tempoCallback"), Callback("startStopCb"), Publication}
    BY DEF Callback, Publication
  <2> QED BY <2>1, <2>2, SomeOperations
<1>o. \A i \in 2 .. Len(r) : r[i] = cb => r[i - 1] = Publication
  BY DEF Ordered
<1> HIDE DEF one, cb
<1>4. n \in Nat
  BY <1>2, LenProperties
<1>5. /\ f \in Seq(Operations) /\ Len(f) = n + 1
      /\ \A i \in 1 .. n + 1 : f[i] = IF i <= n THEN a[i] ELSE one[i - n]
  <2>1. /\ f \in Seq(Operations) /\ Len(f) = Len(a) + Len(one)
        /\ \A i \in 1 .. Len(a) + Len(one) : f[i] = IF i <= Len(a) THEN a[i] ELSE one[i - Len(a)]
    BY <1>1, <1>2, ConcatProperties
  <2> HIDE DEF f
  <2> QED BY <1>1, <2>1
<1> HIDE DEF f
<1>6. /\ \A i \in 1 .. n : f[i] = a[i]
      /\ f[n + 1] = Publication
  BY <1>1, <1>4, <1>5
<1>7. Len(r) \in Nat
  BY LenProperties
<1>8. /\ list \in Seq(Operations) /\ Len(list) = n + 1 + Len(r)
      /\ \A i \in 1 .. n + 1 + Len(r) : list[i] = IF i <= n + 1 THEN f[i] ELSE r[i - (n + 1)]
  <2>1. /\ list \in Seq(Operations) /\ Len(list) = Len(f) + Len(r)
        /\ \A i \in 1 .. Len(f) + Len(r) : list[i] = IF i <= Len(f) THEN f[i] ELSE r[i - Len(f)]
    BY <1>5, ConcatProperties, ZenonT(60)
  <2> HIDE DEF list
  <2> QED BY <1>5, <2>1
<1> HIDE DEF list, n
<1>9. /\ \A i \in 1 .. n : list[i] = a[i]
      /\ list[n + 1] = Publication
      /\ \A i \in n + 2 .. Len(list) : list[i] = r[i - (n + 1)] /\ i - (n + 1) \in 1 .. Len(r)
  BY <1>4, <1>6, <1>7, <1>8
<1>10. Pays(list)
  <2>1. n + 1 \in 1 .. Len(list) /\ \A j \in 1 .. (n + 1) - 1 : list[j] \in Callbacks
    BY <1>3, <1>4, <1>7, <1>8, <1>9 DEF n
  <2> QED BY <1>9, <2>1 DEF Pays
<1>11. ASSUME NEW i \in 2 .. Len(list), list[i] = cb PROVE list[i - 1] = Publication
  <2>1. i > n + 1
    BY <1>3, <1>4, <1>9, <1>11 DEF n
  <2>2. CASE i = n + 2
    BY <1>4, <1>9, <2>2
  <2>3. CASE i > n + 2
    <3> DEFINE k == i - (n + 1)
    <3>1. k \in 2 .. Len(r) /\ i - 1 \in n + 2 .. Len(list) /\ (i - 1) - (n + 1) = k - 1
          /\ i \in n + 2 .. Len(list)
      BY <1>4, <1>7, <1>8, <2>3
    <3>2. list[i] = r[k] /\ list[i - 1] = r[k - 1]
      BY <1>9, <3>1
    <3> HIDE DEF k
    <3> QED BY <1>11, <1>o, <3>1, <3>2
  <2> QED BY <1>4, <2>1, <2>2, <2>3
<1>12. list # <<>> /\ Head(list) # cb
  <2>1. Len(list) >= 1
    BY <1>4, <1>7, <1>8
  <2>2. list # <<>>
    BY <2>1
  <2>3. Head(list) = list[1]
    BY <1>8, <2>2, HeadAndTail
  <2>4. list[1] # cb
    <3>1. CASE n = 0
      BY <1>3, <1>9, <3>1
    <3>2. CASE n # 0
      BY <1>3, <1>4, <1>9, <3>2 DEF n
    <3> QED BY <3>1, <3>2
  <2> QED BY <2>2, <2>3, <2>4
<1> QED BY <1>10, <1>11, <1>12 DEF Ordered, list, cb, f, one

\* A publication and the count it shows, before an ordered list that does not begin with
\* a count, pays and is ordered.
LEMMA CountFirst ==
  ASSUME NEW r \in Seq(Operations), Ordered(r), r # <<>> => Head(r) # Callback("peersCallback")
  PROVE  LET list == <<Publication, Callback("peersCallback")>> \o r
         IN  Pays(list) /\ Ordered(list) /\ list # <<>> /\ Head(list) # Callback("peersCallback")
<1> DEFINE cb   == Callback("peersCallback")
           f    == <<Publication, cb>>
           list == f \o r
<1>1. f \in Seq(Operations) /\ Len(f) = 2 /\ f[1] = Publication /\ f[2] = cb
  BY PublicationLists
<1>2. Publication # cb
  BY DEF Callback, Publication
<1>3. Len(r) \in Nat /\ (Len(r) > 0 => r[1] # cb)
  <2>1. Len(r) \in Nat
    BY LenProperties
  <2>2. Len(r) > 0 => r # <<>>
    BY EmptySeq
  <2>3. r # <<>> => Head(r) = r[1]
    BY HeadAndTail
  <2> QED BY <2>1, <2>2, <2>3
<1>o. \A i \in 2 .. Len(r) : r[i] = cb => r[i - 1] = Publication
  BY DEF Ordered
<1> HIDE DEF f, cb
<1>4. /\ list \in Seq(Operations) /\ Len(list) = 2 + Len(r)
      /\ \A i \in 1 .. 2 + Len(r) : list[i] = IF i <= 2 THEN f[i] ELSE r[i - 2]
  <2>1. /\ list \in Seq(Operations) /\ Len(list) = Len(f) + Len(r)
        /\ \A i \in 1 .. Len(f) + Len(r) : list[i] = IF i <= Len(f) THEN f[i] ELSE r[i - Len(f)]
    BY <1>1, ConcatProperties
  <2> HIDE DEF list
  <2> QED BY <1>1, <2>1
<1> HIDE DEF list
<1>5. list[1] = Publication /\ list[2] = cb
  BY <1>1, <1>3, <1>4
<1>6. ASSUME NEW i \in 2 .. Len(list), list[i] = cb PROVE list[i - 1] = Publication
  <2>1. CASE i = 2
    BY <1>5, <2>1
  <2>2. CASE i = 3
    <3>1. list[3] = r[1] /\ Len(r) > 0
      BY <1>3, <1>4, <2>2
    <3> QED BY <1>3, <1>6, <2>2, <3>1
  <2>3. CASE i > 3
    <3> DEFINE k == i - 2
    <3>1. k \in 2 .. Len(r) /\ (i - 1) - 2 = k - 1 /\ i - 1 \in 1 .. 2 + Len(r) /\ i - 1 > 2
      BY <1>3, <1>4, <2>3
    <3>2. list[i] = r[k] /\ list[i - 1] = r[k - 1]
      BY <1>3, <1>4, <3>1
    <3> HIDE DEF k
    <3> QED BY <1>6, <1>o, <3>1, <3>2
  <2> QED BY <2>1, <2>2, <2>3
<1>7. Pays(list)
  <2>1. 1 \in 1 .. Len(list) /\ \A j \in 1 .. 1 - 1 : list[j] \in Callbacks
    BY <1>3, <1>4
  <2> QED BY <1>5, <2>1 DEF Pays
<1>8. list # <<>> /\ Head(list) # cb
  <2>1. list # <<>>
    BY <1>3, <1>4
  <2> QED BY <1>2, <1>4, <1>5, <2>1, HeadAndTail
<1> QED BY <1>6, <1>7, <1>8 DEF Ordered, list, f, cb

\* Nothing pays nothing.
LEMMA NothingPays == ~Pays(<<>>)
BY DEF Pays

\* The inductive invariant is about what the handler has still to do, and what readers
\* see.
LEMMA SilentKeepsPublished ==
  ASSUME TypeOK, ClockSteps, PublishedInv, Silent
  PROVE  PublishedInv'
<1>1. /\ Outcome /\ snap' = snap /\ todo # <<>> /\ todo \in Seq(Operations)
      /\ Now \notin Callbacks \cup {Publication}
  BY SilentOutcome DEF Rest, TypeOK
<1>2. snap = eng
  BY <1>1, PaysAtOnce DEF PublishedInv, Now
<1> DEFINE r == Tail(todo)
<1>3. /\ r \in Seq(Operations) /\ Ordered(r)
      /\ (r # <<>> => Head(r) # Callback("peersCallback"))
  <2>1. Ordered(todo) /\ Head(todo) # Publication
    BY <1>1 DEF PublishedInv, Now
  <2> QED BY <1>1, <2>1, HeadAndTail, OrderedTail
<1>4. PICK change \in Snapshots :
        \/ \E a \in Announcements : Change(change, a \o <<Publication>>)
        \/ Change(change, <<Publication, Callback("peersCallback")>>)
        \/ Change(change, <<>>) /\ change = eng
  BY <1>1 DEF Outcome
<1>5. ASSUME NEW a \in Announcements, Change(change, a \o <<Publication>>) PROVE PublishedInv'
  <2>1. todo' = (a \o <<Publication>>) \o r
    BY <1>5 DEF Change
  <2> HIDE DEF r
  <2>2. Pays(todo') /\ Ordered(todo') /\ Head(todo') # Callback("peersCallback")
    BY <1>3, <2>1, AnnouncedFirst
  <2> QED BY <2>2 DEF PublishedInv, Now, Pays, Ordered
<1>6. CASE Change(change, <<Publication, Callback("peersCallback")>>)
  <2>1. todo' = <<Publication, Callback("peersCallback")>> \o r
    BY <1>6 DEF Change
  <2> HIDE DEF r
  <2>2. Pays(todo') /\ Ordered(todo') /\ Head(todo') # Callback("peersCallback")
    BY <1>3, <2>1, CountFirst
  <2> QED BY <2>2 DEF PublishedInv, Now, Pays, Ordered
<1>7. CASE Change(change, <<>>) /\ change = eng
  <2>1. todo' = <<>> \o r /\ eng' = eng
    BY <1>7 DEF Change
  <2> HIDE DEF r
  <2>2. todo' = r
    BY <1>3, <2>1, ConcatEmptySeq
  <2>3. Ordered(todo')
    BY <1>3, <2>2
  <2> QED BY <1>1, <1>2, <1>3, <2>1, <2>2, <2>3 DEF PublishedInv, Now, Ordered
<1> QED BY <1>4, <1>5, <1>6, <1>7

\* What every step of a handler, and of anybody else, keeps.
LEMMA PublishedKept ==
  ASSUME TypeOK, ClockSteps, PublishedInv, [Next]_vars
  PROVE  PublishedInv'
<1> USE DEF callers, sockets, engine
<1>1. CASE UNCHANGED <<eng, snap, todo>>
  BY <1>1 DEF PublishedInv, Now, Pays, Ordered
<1>2. CASE Silent
  BY <1>2, SilentKeepsPublished
<1>h. ASSUME todo # <<>>, Change(eng, <<>>)
      PROVE  /\ eng' = eng /\ todo' = Tail(todo) /\ Ordered(todo') /\ todo \in Seq(Operations)
             /\ todo' # <<>> /\ Head(todo') = Callback("peersCallback") => Now = Publication
  <2>1. todo \in Seq(Operations) /\ Tail(todo) \in Seq(Operations)
    BY <1>h, HeadAndTail DEF TypeOK
  <2>2. eng' = eng /\ todo' = Tail(todo)
    BY <1>h, <2>1, ConcatEmptySeq DEF Change
  <2>3. Ordered(Tail(todo)) /\ (Tail(todo) # <<>> /\ Head(Tail(todo)) = Callback("peersCallback")
                                  => Head(todo) = Publication)
    BY <1>h, <2>1, OrderedTail DEF PublishedInv
  <2> QED BY <2>1, <2>2, <2>3 DEF Now
<1>3. CASE Publish
  <2>1. todo # <<>> /\ Change(eng, <<>>) /\ snap' = eng
    BY <1>3 DEF Publish, Does
  <2>2. snap' = eng' /\ Ordered(todo')
    BY <1>h, <2>1
  <2> QED BY <2>2 DEF PublishedInv, Ordered
<1>4. CASE CallbackReturns \/ CallbackCommandLeaves
  <2>1. todo # <<>> /\ Change(eng, <<>>) /\ snap' = snap /\ Now.op = "callback"
    BY <1>4 DEF CallbackReturns, CallbackCommandLeaves, InCallback, Does, Rest
  <2>2. Now \in Callbacks /\ Now # Publication
    <3>1. Now \in Operations
      BY <2>1, HeadAndTail DEF Now, TypeOK
    <3>2. Now # Publication
      BY <2>1 DEF Publication
    <3> QED BY <2>1, <3>1, <3>2, OperationKinds
  <2>3. /\ eng' = eng /\ todo' = Tail(todo) /\ Ordered(todo') /\ todo \in Seq(Operations)
        /\ todo' # <<>> => Head(todo') # Callback("peersCallback")
    BY <1>h, <2>1, <2>2
  <2>4. snap # eng => Pays(Tail(todo))
    BY <2>1, <2>2, <2>3, PaysTail DEF PublishedInv, Now
  <2>5. snap' # eng' => Pays(todo')
    BY <2>1, <2>3, <2>4
  <2> QED BY <2>3, <2>5 DEF PublishedInv, Now, Ordered, Pays
<1>5. CASE TakeCommand \/ TakePacket
  <2>1. snap = eng /\ snap' = snap /\ eng' = eng
    BY <1>5, NothingPays DEF TakeCommand, TakePacket, Idle, PublishedInv
  <2>2. \A i \in 1 .. Len(todo') : todo'[i] \notin Callbacks
    <3>1. CASE TakeCommand
      <4> DEFINE cmd == Head(cmdCh)
      <4>1. cmd \in Commands /\ todo' = <<cmd>>
        BY <3>1, HeadAndTail DEF TakeCommand, TypeOK
      <4>2. cmd \notin Callbacks
        BY <4>1 DEF Commands, Retimings, Callbacks, Callback
      <4> HIDE DEF cmd
      <4> QED BY <4>1, <4>2
    <3>2. CASE TakePacket
      <4> DEFINE State(t, on, n) == <<[op |-> "retime", tempo |-> t], [op |-> "transport", on |-> on],
                                      [op |-> "members", number |-> n]>>
      <4>1. Head(inbox) \in Packets /\ (todo' = Head(inbox) \/ todo' = <<>>)
        BY <3>2, HeadAndTail DEF TakePacket, TypeOK
      <4>2. Packets = {State(t, on, n) : t \in Tempos, on \in BOOLEAN, n \in 0 .. MaxPeers}
        BY DEF Packets
      <4>3. ASSUME NEW t \in Tempos, NEW on \in BOOLEAN, NEW n \in 0 .. MaxPeers
            PROVE  \A i \in 1 .. Len(State(t, on, n)) : State(t, on, n)[i] \notin Callbacks
        BY DEF Callbacks, Callback
      <4> HIDE DEF State
      <4>4. \A p \in Packets : \A i \in 1 .. Len(p) : p[i] \notin Callbacks
        BY <4>2, <4>3
      <4>5. \A i \in 1 .. Len(<<>>) : <<>>[i] \notin Callbacks
        OBVIOUS
      <4> QED BY <4>1, <4>4, <4>5
    <3> QED BY <1>5, <3>1, <3>2
  <2>3. Callback("peersCallback") \in Callbacks
    BY SomeOperations
  <2>4. Ordered(todo')
    BY <2>2, <2>3 DEF Ordered
  <2>5. PublishedInv' <=> /\ snap' # eng' => Pays(todo')
                          /\ Ordered(todo')
                          /\ todo' # <<>> /\ Head(todo') = Callback("peersCallback") => snap' = eng'
    BY DEF PublishedInv, Now, Pays, Ordered
  <2> QED BY <2>1, <2>4, <2>5
<1> QED
  BY <1>1, <1>2, <1>3, <1>4, <1>5, OperateIs
     DEF Next, CallerStep, Call, CloseCalled, CommandLeaves, CloseDone, CloseReturns, Receive,
         ReadFails, Leave, CallbackCalls, CallbackCloses, vars

\* Once a handler is over the getters return the engine's state, and a callback about the
\* number of peers finds the number it was given, whatever commands and packets were
\* interleaved and whatever the callbacks did, if the clock has moved before the first
\* command is handled: else the node may found again the session it has, and is enabled
\* without a publication (engine.go:602, 755).
THEOREM ReadersAreCurrent ==
  ASSUME ClockSteps
  PROVE  Spec => []ReadersCurrent
<1>1. Init => PublishedInv
  <2> SUFFICES ASSUME Init PROVE PublishedInv
    OBVIOUS
  <2>1. snap = eng /\ todo = <<>>
    BY DEF Init
  <2> QED BY <2>1 DEF PublishedInv, Ordered
<1>2. TypeOK /\ PublishedInv => ReadersCurrent
  BY NothingPays DEF PublishedInv, ReadersCurrent
<1>3. TypeOK /\ PublishedInv /\ [Next]_vars => PublishedInv'
  BY PublishedKept
<1> QED BY <1>1, <1>2, <1>3, TypeCorrect, PTL DEF Spec

=============================================================================
