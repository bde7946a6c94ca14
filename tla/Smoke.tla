-------------------------------- MODULE Smoke -------------------------------
(* `fuguectl smoke`: every selected runtime is asked at once for one exact    *)
(* line; the TASK file gets a line before and after each, the directory of    *)
(* artifacts its answer, and the command says GO when all were exact.         *)
EXTENDS Runner, FiniteSets

CONSTANTS Faults     \* bound: writes that fail

VARIABLES smoke,     \* the command: "asking", "summing", "go", "no-go", "thrown"
          step,      \* job -> where its smoke stands
          told,      \* job -> its lines in the TASK file
          kept,      \* job -> its artifact
          faults

smokeVars == <<proc, smoke, step, told, kept, faults>>

SmokeInit == /\ RunnerInit
             /\ smoke = "asking" /\ faults = 0
             /\ step = [j \in Jobs |-> "new"]
             /\ told = [j \in Jobs |-> <<>>]
             /\ kept = [j \in Jobs |-> None]

Ends == {"go", "no-go", "thrown"}

(* A write that throws rejects the whole batch; the others' runs go on.      *)
Fails == /\ faults < Faults /\ faults' = faults + 1
         /\ smoke' = IF smoke \in Ends THEN smoke ELSE "thrown"

Wrote(j, from, to) == step[j] = from /\ step' = [step EXCEPT ![j] = to]
Unwritten(j, from) == Wrote(j, from, "failed") /\ Fails /\ UNCHANGED <<proc, told, kept>>

TellStart(j) ==
  /\ Wrote(j, "new", "ask")
  /\ told' = [told EXCEPT ![j] = <<"started">>]
  /\ UNCHANGED <<proc, smoke, kept, faults>>

Dispatch(j) ==
  /\ Wrote(j, "ask", "asked") /\ (Spawn(j) \/ SpawnFails(j))
  /\ UNCHANGED <<smoke, told, kept, faults>>

Keep(j) ==
  /\ proc[j].result # None /\ Wrote(j, "asked", "kept")
  /\ kept' = [kept EXCEPT ![j] = proc[j].result]
  /\ UNCHANGED <<proc, smoke, told, faults>>

isExact(j) == proc[j].result.kind = "ok" /\ proc[j].result.output = "exact"

TellEnd(j) ==
  /\ Wrote(j, "kept", "done")
  /\ told' = [told EXCEPT ![j] = <<"started", IF isExact(j) THEN "ok" ELSE "failed">>]
  /\ UNCHANGED <<proc, smoke, kept, faults>>

(* Promise.all: the last of them, then the summary and the verdict.          *)
Summary ==
  /\ smoke = "asking" /\ \A j \in Jobs : step[j] = "done"
  /\ smoke' = "summing"
  /\ UNCHANGED <<proc, step, told, kept, faults>>

Verdict ==
  /\ smoke = "summing"
  /\ \/ smoke' = (IF \A j \in Jobs : isExact(j) THEN "go" ELSE "no-go") /\ UNCHANGED faults
     \/ Fails
  /\ UNCHANGED <<proc, step, told, kept>>

Running(j) == (World(j) \/ Watch(j)) /\ UNCHANGED <<smoke, step, told, kept, faults>>

Asking(j) == \/ TellStart(j) \/ Dispatch(j) \/ Keep(j) \/ TellEnd(j)
             \/ Unwritten(j, "new") \/ (proc[j].result # None /\ Unwritten(j, "asked")) \/ Unwritten(j, "kept")

SmokeNext == \/ \E j \in Jobs : Asking(j) \/ Running(j)
             \/ Summary \/ Verdict

(* The event loop serves what is ready and its timers fire; the commands may  *)
(* do nothing for ever.                                                      *)
SmokeFairness ==
  /\ \A j \in Jobs : WF_smokeVars(Asking(j)) /\ WF_smokeVars(Watch(j) /\ UNCHANGED <<smoke, step, told, kept, faults>>)
  /\ WF_smokeVars(Summary \/ Verdict)

-----------------------------------------------------------------------------
(* GO is said only when every runtime ended by itself with 0, in its time and *)
(* with the exact line, and the TASK file and the artifacts say the same.     *)
GoIsEarned ==
  smoke = "go" => \A j \in Jobs :
    /\ proc[j].child = 0 /\ ~proc[j].timedOut /\ proc[j].output = "exact"
    /\ told[j] = <<"started", "ok">> /\ kept[j].output = "exact"

(* Whatever the runtimes and what they leave behind do, the smoke ends.      *)
SmokeEnds == <>(smoke \in Ends)
=============================================================================
