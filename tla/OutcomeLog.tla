----------------------------- MODULE OutcomeLog -----------------------------
(***************************************************************************)
(* The vocabulary of the append-only PR-review outcome log                 *)
(* (engine/src/domain/outcome-log.ts and route-posterior.ts): what its     *)
(* events say, what an append does when its id is already on disk, which   *)
(* amendments the gate lets through, and which final speaks for a route.   *)
(*                                                                         *)
(* Event ids are derived from content: a route's route.decided, its        *)
(* dispatch.terminal, its outcome.finalized and its one amendment each     *)
(* have exactly one id.  The log is therefore modelled as the map byId     *)
(* that readOutcomeLog builds: one slot per id, None while it is absent.   *)
(***************************************************************************)

CONSTANT None      \* an id that is not in the log; null in an event's field

POLICY_ARMS == {"static", "thompson"}

DISPATCH_STATES == {"COMPLETED", "EFFECT_UNKNOWN", "DISPATCH_FAILED"}

TERMINAL_OUTCOMES == {"VERIFIED_SUCCESS", "NOT_VERIFIED_WITHIN_WINDOW", "CENSORED"}

\* Bug: the dedupe compares nothing, so a repeated append is written again.
AppendVerdict_NoDedupe(prior, event) ==
  IF prior = None \/ prior = event THEN "appended" ELSE "conflict"

(***************************************************************************)
(* What appendOutcomeEvent answers, under the lock, for an event whose id  *)
(* is occupied by prior: the write, the idempotent no-op, or               *)
(* DUPLICATE_ID_CONFLICT.                                                  *)
(***************************************************************************)
AppendVerdict(prior, event) ==
  IF prior = None THEN "appended"
  ELSE IF prior = event THEN "duplicate-noop"
  ELSE "conflict"

\* The outcomes an amendment may move a final to: only towards a decision.
AMEND_LATTICE(outcome) ==
  CASE outcome = "CENSORED" -> {"VERIFIED_SUCCESS", "NOT_VERIFIED_WITHIN_WINDOW"}
    [] outcome = "NOT_VERIFIED_WITHIN_WINDOW" -> {"VERIFIED_SUCCESS"}
    [] OTHER -> {}

\* The final that speaks for a route: the highest amend_seq present.
EffectiveFinal(original, amendment) ==
  IF amendment # None THEN amendment ELSE original
=============================================================================
