------------------------------ MODULE FugueRun ------------------------------
(***************************************************************************)
(* A run from the operator's side: the round cache, the review loop that   *)
(* follows it, and `run` (src/engine/src/cli/commands/run.ts), which keeps *)
(* the current round in `run.meta` and works out the next action from the  *)
(* files of the other two.  `run next` reads those files one by one while  *)
(* the agents' scripts and the operator's other terminal change them.      *)
(*                                                                         *)
(* The modelled cache directory is that of round 1; the loop patches what  *)
(* that round delivered ("NOT re-dispatch", SKILL.md:267), so the          *)
(* directories of later rounds stay undeclared.                            *)
(***************************************************************************)
EXTENDS RoundCache, ReviewLoop

VARIABLES runRound, \* the round in `run.meta`; 0 while the file is not there
          look      \* the `run next` at work, or None

runVars == <<runRound, look>>

vars == <<cacheVars, loopVars, runVars>>

Round == 1
LaterRound == 2

Looks == [round : {Round, LaterRound}, over : Manifests \cup {None},
          at : Nat, pending : BOOLEAN, reading : {"manifest", "statuses", "loop"}]

TypeOK ==
    /\ CacheTypeOK
    /\ LoopTypeOK
    /\ runRound \in {0, Round, LaterRound}
    /\ look \in Looks \cup {None}

Init ==
    /\ CacheInit
    /\ LoopInit
    /\ runRound = 0
    /\ look = None

-----------------------------------------------------------------------------
\* `run set`, `run round`, `run clear`: run.meta and nothing else.

RunSet ==
    /\ \E r \in {Round, LaterRound} : runRound' = r
    /\ UNCHANGED <<cacheVars, loopVars, look>>

RunClear ==
    /\ runRound' = 0
    /\ UNCHANGED <<cacheVars, loopVars, look>>

-----------------------------------------------------------------------------
\* `run next`

LookAtRun ==
    /\ look = None
    /\ runRound # 0
    /\ look' = [round |-> runRound, over |-> None, at |-> 1, pending |-> FALSE, reading |-> "manifest"]
    /\ UNCHANGED <<cacheVars, loopVars, runRound>>

LookAtManifest ==
    /\ look # None
    /\ look.reading = "manifest"
    /\ look' = IF look.round = Round /\ manifest # None
               THEN [look EXCEPT !.over = manifest, !.reading = "statuses"]
               ELSE [look EXCEPT !.reading = "loop"]
    /\ UNCHANGED <<cacheVars, loopVars, runRound>>

\* Bug: a result file that is there stands for its status.
Counts_Result(id) == status[id] \in {"done", "fail"} \/ result[id] # "absent"

\* A status is counted when it says done or fail (run.ts:218-222).
Counts(id) == status[id] \in {"done", "fail"}

LookAtStatus ==
    /\ look # None
    /\ look.reading = "statuses"
    /\ look' = [round |-> look.round, over |-> look.over, at |-> look.at + 1,
                pending |-> look.pending \/ ~Counts(look.over[look.at]),
                reading |-> IF look.at < Len(look.over) THEN "statuses" ELSE "loop"]
    /\ UNCHANGED <<cacheVars, loopVars, runRound>>

\* Without a cap, or without a round, there is no decision; the fast path is not looked at.
loopDecision == IF meta # Unset /\ rounds # <<>> THEN decideLoop(rounds, meta.max, FALSE) ELSE Unset

nextFor(over, pending, decision) ==
    IF over # None /\ pending THEN "barrier"
    ELSE IF decision # Unset THEN "loop"
    ELSE IF over # None THEN "integrate"
    ELSE "start"

LookAtLoop ==
    /\ look # None
    /\ look.reading = "loop"
    /\ look' = None
    /\ UNCHANGED <<cacheVars, loopVars, runRound>>

\* What the look that ends now tells the operator.
advised == nextFor(look.over, look.pending, loopDecision)

-----------------------------------------------------------------------------
\* The operator's order.  The loop starts behind a barrier that passed (SKILL.md:192) and
\* when the round's commands are over; the round is not declared anew from then on, nor
\* under a `run next`.

Quiet == barrier = None /\ \A id \in Ids : report[id] = "idle"

CacheStep ==
    /\ turn = "off"
    /\ CacheNext
    /\ manifest' = None => manifest = None \/ look = None
    /\ UNCHANGED <<loopVars, runVars>>

LoopStep ==
    /\ turn = "off" => passed # "no" /\ Quiet
    /\ LoopNext
    /\ UNCHANGED <<cacheVars, runVars>>

RunStep == RunSet \/ RunClear \/ LookAtRun \/ LookAtManifest \/ LookAtStatus \/ LookAtLoop

Next == CacheStep \/ LoopStep \/ RunStep

Spec == Init /\ [][Next]_vars

-----------------------------------------------------------------------------
(***************************************************************************)
(* "do not enter Integrate" (run.ts:150-154): when `run next` sends the    *)
(* operator on, every task of the round has been returned, although its    *)
(* files were read one by one while commands wrote them, died and tried    *)
(* again; and a loop it calls done was accepted by two reviews.            *)
(***************************************************************************)
AdviceIsSafe ==
    [][LookAtLoop => /\ advised \in {"integrate", "loop"} => Resume = {}
                     /\ loopDecision = "DONE" => Cardinality(Accepted(reviews)) >= Confirmations]_vars
=============================================================================
