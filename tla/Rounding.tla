------------------------------ MODULE Rounding ------------------------------
(* The rounding of src/link/beats.go and clock.go, on exact rationals. *)
EXTENDS Integers

Magnitude(n) == IF n < 0 THEN -n ELSE n

\* n/d to the nearest integer, halves away from zero.
LLRound(n, d) == IF n >= 0 THEN (2 * n + d) \div (2 * d) ELSE -((d - 2 * n) \div (2 * d))

=============================================================================
