--------------------------- MODULE MCOutcomeFinals ---------------------------
(* A small instance of OutcomeFinals for TLC. *)
EXTENDS OutcomeFinals, TLC

CONSTANTS r1, r2, c1, c2, x, s1

Symmetry == Permutations({r1, r2}) \cup Permutations({c1, c2})
=============================================================================
