------------------------ MODULE MeasurementContract ------------------------
(***************************************************************************)
(* What the session logic expects of clock measurements: at most one at a  *)
(* time for a session, each ending once, with a transform or a failure,    *)
(* and each ending eventually.  LinkNode is written against this contract  *)
(* (MeasurementSucceeds and MeasurementFails); Measurement implements it.  *)
(***************************************************************************)
CONSTANTS Sessions, NoSession

VARIABLES
  measured,    \* sessions with a measurement in progress
  ended,       \* the session of the last one that ended
  succeeded    \* whether it found a transform

vars == <<measured, ended, succeeded>>

Init == measured = {} /\ ended = NoSession /\ succeeded = FALSE

Start(s) ==
  /\ s \notin measured
  /\ measured' = measured \cup {s}
  /\ UNCHANGED <<ended, succeeded>>

End(s) ==
  /\ s \in measured
  /\ measured' = measured \ {s}
  /\ ended' = s
  /\ succeeded' \in BOOLEAN

Next == \E s \in Sessions : Start(s) \/ End(s)

Spec == Init /\ [][Next]_vars /\ \A s \in Sessions : WF_vars(End(s))

=============================================================================
