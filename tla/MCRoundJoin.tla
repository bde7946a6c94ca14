----------------------------- MODULE MCRoundJoin -----------------------------
(* A small instance of RoundJoin for TLC. *)
EXTENDS RoundJoin

CONSTANTS a, b

\* The round as planned, and a caller who has dropped a key of it.
PlannedOrCut == {<<a, b>>, <<b>>}
=============================================================================
