----------------------------- MODULE Processes -----------------------------
(* What the commands of one machine share: they fail and die alike. *)
EXTENDS Integers, SequencesExt, FiniteSetsExt

CONSTANTS
    Faults, \* which of "io" (a write fails) and "crash" (a process dies) may happen
    None    \* no such file, no value
=============================================================================
