-------------------------- MODULE MCClientTimeline --------------------------
(* Instances of ClientTimeline for TLC. *)
EXTENDS ClientTimeline
=============================================================================
