------------------------------ MODULE TimerHub ------------------------------
(***************************************************************************)
(* timerHub of engine.go.  The maps of the hub belong to the engine's      *)
(* goroutine; the function of an expired timer runs on a goroutine of its  *)
(* own and hands the id of the timer to the engine through a channel, so   *)
(* a timer may be cancelled when its id is on the way already, and an id   *)
(* that finds the channel full is dropped.                                 *)
(***************************************************************************)
EXTENDS Integers, Sequences, FiniteSets, Functions

CONSTANTS
  Capacity,       \* places in the channel timerC
  MaxTimers       \* BOUND on the timers that are armed

ASSUME TimerHubAssumption == Capacity \in Nat \ {0} /\ MaxTimers \in Nat

Timers == 1 .. MaxTimers

VARIABLES
  seq,       \* the last id given
  tim, cbs,  \* ids with a time.Timer, and with a callback
  pending,   \* timers of the runtime that have not expired
  firing,    \* those whose function has started, and not sent
  ch,        \* ids the engine has still to take
  ran,       \* ids whose callback has run
  running,   \* the engine is in its loop
  peak       \* the most ids that were on their way when a timer was armed

hub     == <<seq, tim, cbs>>
runtime == <<pending, firing, ch>>
vars    == <<hub, runtime, ran, running, peak>>

OnTheWay == pending \cup firing \cup Range(ch)

Init ==
  /\ seq = 0 /\ tim = {} /\ cbs = {}
  /\ pending = {} /\ firing = {} /\ ch = <<>>
  /\ ran = {} /\ running = TRUE /\ peak = 0

-----------------------------------------------------------------------------
(* The engine. *)

after ==
  /\ running /\ seq < MaxTimers
  /\ seq' = seq + 1
  /\ cbs' = cbs \cup {seq + 1} /\ tim' = tim \cup {seq + 1}
  /\ pending' = pending \cup {seq + 1}
  /\ LET n == Cardinality(OnTheWay) + 1 IN peak' = IF n > peak THEN n ELSE peak
  /\ UNCHANGED <<firing, ch, ran, running>>

\* Stop comes too late for a timer whose function has started.
Stop(ids) == pending' = pending \ ids

cancel(id) ==
  /\ running
  /\ Stop(tim \cap {id})
  /\ tim' = tim \ {id} /\ cbs' = cbs \ {id}
  /\ UNCHANGED <<seq, firing, ch, ran, running, peak>>

\* MUTANT of fire: the callback of a cancelled timer runs too.
fireUnchecked ==
  /\ running /\ ch # <<>>
  /\ ch' = Tail(ch)
  /\ Stop({Head(ch)})
  /\ tim' = tim \ {Head(ch)} /\ cbs' = cbs \ {Head(ch)} /\ ran' = ran \cup {Head(ch)}
  /\ UNCHANGED <<seq, firing, running, peak>>

\* MUTANT of fire: the callback runs and stays in the map.
fireKeeps ==
  /\ running /\ ch # <<>>
  /\ ch' = Tail(ch)
  /\ ran' = ran \cup ({Head(ch)} \cap cbs)
  /\ UNCHANGED <<hub, pending, firing, running, peak>>

\* An id without a callback was cancelled on its way.
fire ==
  /\ running /\ ch # <<>>
  /\ ch' = Tail(ch)
  /\ LET id == Head(ch)
     IN  IF id \in cbs
         THEN /\ Stop(tim \cap {id})
              /\ tim' = tim \ {id} /\ cbs' = cbs \ {id}
              /\ ran' = ran \cup {id}
         ELSE UNCHANGED <<tim, cbs, pending, ran>>
  /\ UNCHANGED <<seq, firing, running, peak>>

\* MUTANT of stopAll: the callbacks are dropped and the timers go on.
stopAllForgets ==
  /\ running /\ running' = FALSE
  /\ cbs' = cbs \ tim
  /\ UNCHANGED <<seq, tim, runtime, ran, peak>>

\* The engine leaves its loop.
stopAll ==
  /\ running /\ running' = FALSE
  /\ Stop(tim)
  /\ tim' = {} /\ cbs' = cbs \ tim
  /\ UNCHANGED <<seq, firing, ch, ran, peak>>

-----------------------------------------------------------------------------
(* The runtime. *)

Expire(id) ==
  /\ id \in pending
  /\ pending' = pending \ {id} /\ firing' = firing \cup {id}
  /\ UNCHANGED <<hub, ch, ran, running, peak>>

\* MUTANT of Send: a place short.
SendEarlyFull(id) ==
  /\ id \in firing
  /\ firing' = firing \ {id}
  /\ ch' = IF Len(ch) + 1 < Capacity THEN Append(ch, id) ELSE ch
  /\ UNCHANGED <<hub, pending, ran, running, peak>>

\* The select with a default case.
Send(id) ==
  /\ id \in firing
  /\ firing' = firing \ {id}
  /\ ch' = IF Len(ch) < Capacity THEN Append(ch, id) ELSE ch
  /\ UNCHANGED <<hub, pending, ran, running, peak>>

-----------------------------------------------------------------------------
Next ==
  \/ after
  \/ \E id \in Timers : cancel(id)
  \/ fire
  \/ stopAll
  \/ \E id \in Timers : Expire(id)
  \/ \E id \in Timers : Send(id)

Spec == Init /\ [][Next]_vars

(***************************************************************************)
(* Fairness.  The runtime expires timers and runs their functions, and the *)
(* engine takes an id that is in the channel, as its handlers all return.  *)
(***************************************************************************)
Fairness ==
  /\ WF_vars(fire)
  /\ \A id \in Timers : WF_vars(Expire(id)) /\ WF_vars(Send(id))

FairSpec == Spec /\ Fairness

-----------------------------------------------------------------------------
(* Properties. *)

Distinct == \A i, j \in DOMAIN ch : ch[i] = ch[j] => i = j

\* Every variable keeps its type, the two maps have the same ids, a timer is in
\* one place on its way at most, what may still expire has its callback, and
\* nothing is left in the maps when the engine has ended.
TypeOK ==
  /\ seq \in 0 .. MaxTimers /\ running \in BOOLEAN /\ peak \in 0 .. MaxTimers
  /\ tim \subseteq 1 .. seq /\ cbs = tim /\ ran \subseteq (1 .. seq) \ cbs
  /\ pending \subseteq tim /\ firing \subseteq 1 .. seq
  /\ ch \in Seq(1 .. seq) /\ Distinct
  /\ firing \cap pending = {} /\ Range(ch) \cap (pending \cup firing) = {}
  /\ ran \cap OnTheWay = {}
  /\ running \/ tim = {}

Lost == cbs \ OnTheWay

\* The status of a timer for its user.
Status(id) ==
  CASE id > seq                 -> "unused"
    [] id \in ran               -> "ran"
    [] id \in cbs \cap pending  -> "armed"
    [] id \in cbs \cap (firing \cup Range(ch)) -> "due"
    [] id \in Lost              -> "lost"
    [] OTHER                    -> "cancelled"

Service ==
  INSTANCE TimerService WITH status <- [id \in Timers |-> Status(id)], open <- running

\* What the hub does is what its users may rely on, whatever races of expiry, the
\* channel and cancel there are (engine.go:53-54).
ImplementsService == Service!Spec

\* A callback is lost only if more timers than the channel holds were on their way
\* at one time, cancelled ones included (engine.go:70-75).
LostOnlyIfMany == Lost # {} => peak > Capacity

\* Every timer that is armed runs or is cancelled, if it is not lost.
EveryTimerEnds == \A id \in Timers : id \in cbs ~> id \notin cbs \/ id \in Lost \ ran

=============================================================================
