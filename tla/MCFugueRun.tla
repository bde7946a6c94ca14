----------------------------- MODULE MCFugueRun -----------------------------
(***************************************************************************)
(* A small instance of FugueRun, with a round of two tasks and one whose   *)
(* two lines name the same task; and the review loop on its own, with more *)
(* rounds and findings.  A behaviour picks one of the two.                 *)
(***************************************************************************)
EXTENDS FugueRun

CONSTANTS t1, t2, Parts

VARIABLE part

TwoTasks == {<<t1, t2>>, <<t1, t1>>}

Loop == INSTANCE ReviewLoop WITH Caps <- {1, 2}, MaxFindings <- 1

-----------------------------------------------------------------------------
partsVars == <<part, vars>>

PartsInit == part \in Parts /\ Init

RunMoves == part = "run" /\ Next /\ UNCHANGED part
LoopMoves == part = "loop" /\ Loop!LoopNext /\ UNCHANGED <<part, cacheVars, runVars>>

PartsSpec == PartsInit /\ [][RunMoves \/ LoopMoves]_partsVars
=============================================================================
