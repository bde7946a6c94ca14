----------------------------- MODULE RoundCache -----------------------------
(***************************************************************************)
(* The files of one round of the command line's result cache               *)
(* (src/engine/src/cli/commands/cache.ts).  Each `cache` command is a      *)
(* process of its own and none takes a lock: the agents' scripts put and   *)
(* fail while the operator's barrier looks at one status file after the    *)
(* other.  A process may die between any two of its steps.                 *)
(***************************************************************************)
EXTENDS Naturals, Sequences, Functions

CONSTANTS Ids,       \* the task ids of the round
          Manifests, \* the manifests an operator may declare, as the ids of their lines
          None,      \* no manifest, no barrier
          Careful    \* the operator declares a round anew only when no command is at work

\* A declared round has at least one task (cache.ts:145).
ASSUME ManifestsAssumption == /\ Manifests \subseteq Seq(Ids) \ {<<>>}
                              /\ None \notin Manifests
ASSUME CarefulAssumption == Careful \in BOOLEAN

VARIABLES manifest, \* manifest.tsv; None while the directory is not there
          temp,     \* .<id>.result.tmp
          result,   \* <id>.result
          status,   \* <id>.status
          report,   \* where the put or fail of a task has got to
          barrier,  \* the barrier that is looking at the round, or None
          passed    \* what the last barrier of this declaration answered with exit code 0

cacheVars == <<manifest, temp, result, status, report, barrier, passed>>

Contents == {"absent", "partial", "whole"}

Barriers == [over : Manifests, at : Nat \ {0}, strict : BOOLEAN, recheck : BOOLEAN]

CacheTypeOK ==
    /\ manifest \in Manifests \cup {None}
    /\ temp \in [Ids -> Contents]
    /\ result \in [Ids -> Contents]
    /\ status \in [Ids -> {"pending", "done", "fail"}]
    /\ report \in [Ids -> {"idle", "checked", "copying", "copied", "placed", "failing"}]
    /\ barrier \in Barriers \cup {None}
    /\ barrier # None => barrier.at <= Len(barrier.over)
    /\ passed \in {"no", "returned", "succeeded"}

CacheInit ==
    /\ manifest = None
    /\ temp = [id \in Ids |-> "absent"]
    /\ result = [id \in Ids |-> "absent"]
    /\ status = [id \in Ids |-> "pending"]
    /\ report = [id \in Ids |-> "idle"]
    /\ barrier = None
    /\ passed = "no"

-----------------------------------------------------------------------------
\* What the commands read of a round.

declared == IF manifest = None THEN {} ELSE Range(manifest)

\* `cache resume`: the tasks without a status file.
Resume == {id \in declared : status[id] = "pending"}

-----------------------------------------------------------------------------
\* `cache init`: the directory of the round is removed, and made again with a manifest.

\* Nothing but the operator's care keeps a running put or barrier out of this.
Wipe ==
    /\ manifest # None
    /\ Careful => barrier = None /\ \A id \in Ids : report[id] = "idle"
    /\ manifest' = None
    /\ temp' = [id \in Ids |-> "absent"]
    /\ result' = [id \in Ids |-> "absent"]
    /\ status' = [id \in Ids |-> "pending"]
    /\ passed' = "no"
    /\ UNCHANGED <<report, barrier>>

Declare(m) ==
    /\ manifest = None
    /\ manifest' = m
    /\ UNCHANGED <<temp, result, status, report, barrier, passed>>

-----------------------------------------------------------------------------
\* `cache put`: only a declared task, then copy, rename, and the status last.

To(id, place) == report' = [report EXCEPT ![id] = place]

StartPut(id) ==
    /\ report[id] = "idle"
    /\ id \in declared
    /\ To(id, "checked")
    /\ UNCHANGED <<manifest, temp, result, status, barrier, passed>>

BeginCopy(id) ==
    /\ report[id] = "checked"
    /\ manifest # None
    /\ temp' = [temp EXCEPT ![id] = "partial"]
    /\ To(id, "copying")
    /\ UNCHANGED <<manifest, result, status, barrier, passed>>

\* A copy whose file was unlinked by a Wipe ends nowhere.
EndCopy(id) ==
    /\ report[id] = "copying"
    /\ temp' = [temp EXCEPT ![id] = IF @ = "absent" THEN "absent" ELSE "whole"]
    /\ To(id, "copied")
    /\ UNCHANGED <<manifest, result, status, barrier, passed>>

\* Bug: the result is copied in place, so the rename finds what is there so far.
Place_Early(id) ==
    /\ report[id] \in {"copying", "copied"}
    /\ temp[id] # "absent"
    /\ result' = [result EXCEPT ![id] = temp[id]]
    /\ temp' = [temp EXCEPT ![id] = "absent"]
    /\ To(id, "placed")
    /\ UNCHANGED <<manifest, status, barrier, passed>>

\* rename(2): without the temporary file it fails and the command ends (CommandDies).
Place(id) ==
    /\ report[id] = "copied"
    /\ temp[id] # "absent"
    /\ result' = [result EXCEPT ![id] = temp[id]]
    /\ temp' = [temp EXCEPT ![id] = "absent"]
    /\ To(id, "placed")
    /\ UNCHANGED <<manifest, status, barrier, passed>>

\* fs.write makes the directory it needs, so this succeeds whatever became of the round.
MarkDone(id) ==
    /\ report[id] = "placed"
    /\ status' = [status EXCEPT ![id] = "done"]
    /\ To(id, "idle")
    /\ UNCHANGED <<manifest, temp, result, barrier, passed>>

\* `cache fail`: also for a task that has been put, as put is for one that has failed.

StartFail(id) ==
    /\ report[id] = "idle"
    /\ id \in declared
    /\ To(id, "failing")
    /\ UNCHANGED <<manifest, temp, result, status, barrier, passed>>

MarkFail(id) ==
    /\ report[id] = "failing"
    /\ status' = [status EXCEPT ![id] = "fail"]
    /\ To(id, "idle")
    /\ UNCHANGED <<manifest, temp, result, barrier, passed>>

\* A put or fail is killed, or one of its calls throws; its files stay.
CommandDies(id) ==
    /\ report[id] # "idle"
    /\ To(id, "idle")
    /\ UNCHANGED <<manifest, temp, result, status, barrier, passed>>

-----------------------------------------------------------------------------
\* `cache barrier`: counts the status files of the manifest it read at its start, one
\* after the other; --require-success then reads them all again.

StartBarrier(strict) ==
    /\ barrier = None
    /\ manifest # None
    /\ barrier' = [over |-> manifest, at |-> 1, strict |-> strict, recheck |-> FALSE]
    /\ UNCHANGED <<manifest, temp, result, status, report, passed>>

looked == barrier.over[barrier.at]

\* Bug: a task counts as returned when its result file is there.
IsTerminal_Result(id) == status[id] # "pending" \/ result[id] # "absent"

IsTerminal(id) == status[id] # "pending"

\* What the second reading lets through.
Acceptable(id) == status[id] # "fail"

BarrierLooks ==
    /\ barrier # None
    /\ barrier.at < Len(barrier.over)
    /\ IF barrier.recheck THEN Acceptable(looked) ELSE IsTerminal(looked)
    /\ barrier' = [barrier EXCEPT !.at = @ + 1]
    /\ UNCHANGED <<manifest, temp, result, status, report, passed>>

BarrierRechecks ==
    /\ barrier # None
    /\ barrier.strict /\ ~barrier.recheck
    /\ barrier.at = Len(barrier.over)
    /\ IsTerminal(looked)
    /\ barrier' = [over |-> barrier.over, at |-> 1, strict |-> TRUE, recheck |-> TRUE]
    /\ UNCHANGED <<manifest, temp, result, status, report, passed>>

BarrierPasses ==
    /\ barrier # None
    /\ barrier.at = Len(barrier.over)
    /\ \/ ~barrier.strict /\ IsTerminal(looked)
       \/ barrier.recheck /\ Acceptable(looked)
    /\ passed' = IF barrier.strict THEN "succeeded" ELSE "returned"
    /\ barrier' = None
    /\ UNCHANGED <<manifest, temp, result, status, report>>

\* Too few have returned: --wait sleeps and counts again until its time is up.
BarrierWaits ==
    /\ barrier # None
    /\ ~barrier.recheck /\ ~IsTerminal(looked)
    /\ barrier' = [barrier EXCEPT !.at = 1]
    /\ UNCHANGED <<manifest, temp, result, status, report, passed>>

\* Exit code 1: too few returned, or one of them failed.
BarrierRefuses ==
    /\ barrier # None
    /\ IF barrier.recheck THEN ~Acceptable(looked) ELSE ~IsTerminal(looked)
    /\ barrier' = None
    /\ UNCHANGED <<manifest, temp, result, status, report, passed>>

-----------------------------------------------------------------------------
Reports(id) ==
    \/ StartPut(id)
    \/ BeginCopy(id)
    \/ EndCopy(id)
    \/ Place(id)
    \/ MarkDone(id)
    \/ StartFail(id)
    \/ MarkFail(id)
    \/ CommandDies(id)

Joins ==
    \/ \E strict \in BOOLEAN : StartBarrier(strict)
    \/ BarrierLooks
    \/ BarrierRechecks
    \/ BarrierPasses
    \/ BarrierWaits
    \/ BarrierRefuses

CacheNext ==
    \/ Wipe
    \/ \E m \in Manifests : Declare(m)
    \/ \E id \in Ids : Reports(id)
    \/ Joins

CacheSpec == CacheInit /\ [][CacheNext]_cacheVars

-----------------------------------------------------------------------------
(***************************************************************************)
(* "success -> cached + marked done" (orchestration/fuguectl/SKILL.md:178):*)
(* a task that is marked done has its whole result in the cache, whichever *)
(* commands died on the way (cache.ts:173-178: copy, rename, then status). *)
(***************************************************************************)
DoneIsCached == \A id \in Ids : status[id] = "done" => result[id] = "whole"

(***************************************************************************)
(* "exit 0 ONLY when all N are terminal" (SKILL.md:185): once a barrier has*)
(* let the round pass there is nothing left to resume, and once            *)
(* --require-success has, there is a whole result of every task to collect,*)
(* although the status files were read one by one while they changed.      *)
(***************************************************************************)
PassIsEarned ==
    /\ passed # "no" => Resume = {}
    /\ passed = "succeeded" => \A id \in declared : result[id] = "whole"
=============================================================================
