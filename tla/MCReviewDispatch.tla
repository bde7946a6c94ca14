-------------------------- MODULE MCReviewDispatch --------------------------
(* A small instance of ReviewDispatch for TLC. *)
EXTENDS ReviewDispatch, TLC

CONSTANTS d1, d2, o1, t1, c1, c2

Symmetry == Permutations({d1, d2}) \cup Permutations({c1, c2})
=============================================================================
