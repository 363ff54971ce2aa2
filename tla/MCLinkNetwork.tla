--------------------------- MODULE MCLinkNetwork ---------------------------
(* Instances of LinkNetwork for TLC. *)
EXTENDS LinkNetwork

\* Node n draws the ids that are n modulo the number of nodes, and has that tempo.
TwoNodes    == 1 .. 2
Interleaved == [n \in Nodes |-> {i \in Ids : i % Cardinality(Nodes) = n % Cardinality(Nodes)}]
Middle      == [n \in Nodes |-> IF n = 1 THEN {3} ELSE {2, 4}]
OwnTempo    == [n \in Nodes |-> IF n \in Tempos THEN n ELSE MinTempo]
Ahead       == [n \in Nodes |-> n]

===========================================================================
