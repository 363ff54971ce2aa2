---------------------------- MODULE TimerService ----------------------------
(***************************************************************************)
(* What the timer hub of engine.go promises its users, who arm single-shot *)
(* timers and cancel them: a callback runs at most once, not before its    *)
(* time and never after it was cancelled.  It may be lost instead.         *)
(***************************************************************************)
CONSTANT Timers

VARIABLES status, open

Statuses == {"unused", "armed", "due", "ran", "lost", "cancelled"}

Init == status = [t \in Timers |-> "unused"] /\ open = TRUE

Becomes(t, from, to) ==
  status[t] \in from /\ status' = [status EXCEPT ![t] = to] /\ UNCHANGED open

Arm(t)    == open /\ Becomes(t, {"unused"}, "armed")
Expire(t) == Becomes(t, {"armed"}, "due")
Run(t)    == open /\ Becomes(t, {"due"}, "ran")
Lose(t)   == Becomes(t, {"due"}, "lost")
Cancel(t) == open /\ Becomes(t, {"armed", "due", "lost"}, "cancelled")

\* Nothing is armed, and nothing runs, after the service has closed.
Close ==
  /\ open /\ open' = FALSE
  /\ status' = [t \in Timers |->
                  IF status[t] \in {"armed", "due", "lost"} THEN "cancelled" ELSE status[t]]

Next ==
  \/ \E t \in Timers : Arm(t) \/ Expire(t) \/ Run(t) \/ Lose(t) \/ Cancel(t)
  \/ Close

Spec == Init /\ [][Next]_<<status, open>>
=============================================================================
