--------------------------- MODULE MCMeasurement ---------------------------
(* Instances of Measurement for TLC. *)
EXTENDS Measurement

CONSTANTS s1, s2

\* The ghost clock of s1 is a little ahead of the node, that of s2 far behind.
TwoSessions == {s1, s2}
FarApart    == [s \in TwoSessions |-> IF s = s1 THEN 1 ELSE -8]

===========================================================================
