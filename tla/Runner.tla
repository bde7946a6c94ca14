------------------------------- MODULE Runner -------------------------------
(* A command under a time limit: NodeCommandRunner spawns it as the leader of *)
(* a process group, asks the group to end when the time is up, and kills it   *)
(* a second later.  The run is over when the command has exited and nobody    *)
(* holds its output any more.  The command, and a process it leaves behind,   *)
(* do what they like: ignore the first signal, or outlive their parent.       *)
EXTENDS Absent, Naturals

CONSTANTS Jobs,      \* the commands
          Outputs   \* what a command may print

VARIABLE proc        \* job -> its processes and the runner's view of them

Alive == 256   \* no exit code yet
Term == 143
Killed == 137
TimedOut == 124

NotRun == [child |-> None, heir |-> None, output |-> None, timer |-> "off", force |-> "off", timedOut |-> FALSE, result |-> None]

RunnerInit == proc = [j \in Jobs |-> NotRun]

Open(j) == proc[j].child # None /\ proc[j].result = None

Spawn(j) == /\ proc[j] = NotRun
            /\ proc' = [proc EXCEPT ![j].child = Alive, ![j].timer = "on"]

SpawnFails(j) == proc[j] = NotRun /\ proc' = [proc EXCEPT ![j].result = [kind |-> "spawn-failed"]]

(* The command starts a process that outlives it, with its output or not.    *)
Forks(j, pipe) == /\ proc[j].child = Alive /\ proc[j].heir = None
                  /\ proc' = [proc EXCEPT ![j].heir = pipe]

Exits(j, code, out) == /\ proc[j].child = Alive
                       /\ proc' = [proc EXCEPT ![j].child = code, ![j].output = out]

HeirEnds(j) == /\ proc[j].heir \in {"piped", "quiet"}
               /\ proc' = [proc EXCEPT ![j].heir = None]

(* Who of the group obeys a signal that may be ignored.                      *)
TimeIsUp(j) ==
  /\ Open(j) /\ proc[j].timer = "on"
  /\ \E child \in {proc[j].child, Term}, heir \in {proc[j].heir, None} :
       /\ proc[j].child # Alive => child = proc[j].child
       /\ proc' = [proc EXCEPT ![j].timer = "off", ![j].timedOut = TRUE, ![j].force = "on", ![j].child = child, ![j].heir = heir,
                               ![j].output = IF child = Term THEN "other" ELSE @]

ForceKill_ChildOnly(j) ==
  /\ Open(j) /\ proc[j].force = "on"
  /\ proc' = [proc EXCEPT ![j].force = "off", ![j].child = IF @ = Alive THEN Killed ELSE @]

ForceKill(j) ==
  /\ Open(j) /\ proc[j].force = "on"
  /\ proc' = [proc EXCEPT ![j].force = "off", ![j].heir = None,
                          ![j].child = IF @ = Alive THEN Killed ELSE @]

Code_Exit(j) == proc[j].child

(* What the run's end is told as: an exit in the second of grace is no        *)
(* success, and a signal is never 0.                                         *)
Code(j) == IF proc[j].timedOut THEN TimedOut ELSE proc[j].child

(* A zero exit that printed an error and nothing else is no answer.          *)
runDispatch(j) ==
  IF Code(j) # 0 THEN [kind |-> "nonzero-exit", code |-> Code(j)]
  ELSE IF proc[j].output = "error" THEN [kind |-> "unavailable"]
  ELSE [kind |-> "ok", output |-> proc[j].output]

Close(j) ==
  /\ Open(j) /\ proc[j].child # Alive /\ proc[j].heir # "piped"
  /\ proc' = [proc EXCEPT ![j].result = runDispatch(j), ![j].timer = "off", ![j].force = "off"]

World(j) == \/ \E pipe \in {"piped", "quiet"} : Forks(j, pipe)
            \/ \E out \in Outputs, code \in {0, 1, Killed} : Exits(j, code, out)
            \/ HeirEnds(j)

Watch(j) == TimeIsUp(j) \/ ForceKill(j) \/ Close(j)
=============================================================================
