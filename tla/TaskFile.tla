------------------------------ MODULE TaskFile ------------------------------
(***************************************************************************)
(* One TASK file and the commands that write to it: FsTaskStore            *)
(* (adapters/task/fs-task-store.ts), which creates it, logs to it and      *)
(* closes it, and appendTaskAudit (cli/task-audit.ts), through which       *)
(* dispatch, route, integrate, plan, smoke and summary leave their lines.  *)
(* All of them serialise on `<task>.lock` (infra/file-lock.ts), a file     *)
(* made with O_EXCL, polled for ten seconds and never stolen.              *)
(*                                                                         *)
(*   taskFile   None, or the Status line and the lines of the Log          *)
(*   lock       the client that made the lock file, or None                *)
(*   call       per client, the locked section it is in                    *)
(*   orders     how many task commands are still to be given               *)
(***************************************************************************)
EXTENDS Processes

CONSTANTS
    Clients,   \* the processes that write to the TASK
    TaskClient \* the client that runs `fugue task ...`

VARIABLES taskFile, lock, call, orders

taskVars == <<taskFile, lock, call, orders>>

\* No call is being made, or the last has been dealt with.
Off == [step |-> "off", line |-> None, seen |-> None]

\* The lines, and the one order that is no line: `task done`.
Line(client, what, rc) == [by |-> client, what |-> what, rc |-> rc]
Lines == [by : Clients, rc : {0, 1, 2, 124},
          what : {"started", "guard", "ok", "failed", "incident", "note", "done"}]
Done == Line(TaskClient, "done", 0)

\* The store's own commands insist on the file, an audit line does not.
Strict(line) == line.by = TaskClient

TaskFiles == [status : {"IN_PROGRESS", "DONE"}, log : Seq(Lines)]

ASSUME TaskAssumption ==
    /\ TaskClient \in Clients
    /\ None \notin Clients /\ None \notin TaskFiles

TaskInit ==
    /\ taskFile = None
    /\ lock = None
    /\ call = [client \in Clients |-> Off]

-----------------------------------------------------------------------------
(* FsTaskStore.create: a taken number is taken for good, so the search for a *)
(* free one is its last step, which makes the file with O_EXCL.              *)

NewTask ==
    /\ taskFile = None
    /\ taskFile' = [status |-> "IN_PROGRESS", log |-> << >>]
    /\ UNCHANGED <<lock, call, orders>>

-----------------------------------------------------------------------------
(* withFileLock, and the sections that run under it.                       *)

Begun(client, line) == [call EXCEPT ![client] = [step |-> "wait", line |-> line, seen |-> None]]

\* Bug: the section runs whether or not the lock file could be made.
MayEnter_Unlocked(client) == call[client].step = "wait"

MayEnter(client) == call[client].step = "wait" /\ lock = None

Enter(client) ==
    /\ MayEnter(client)
    /\ lock' = client
    /\ call' = [call EXCEPT ![client].step = "read"]
    /\ UNCHANGED <<taskFile, orders>>

\* Bug: a lock file that is there is waited for without an end.
TimeOut_Never(client) == FALSE /\ UNCHANGED taskVars

\* The deadline has passed at a poll that finds the lock file there still.
TimeOut(client) ==
    /\ call[client].step = "wait"
    /\ lock \notin {None, client}
    /\ call' = [call EXCEPT ![client] = [@ EXCEPT !.step = "threw"]]
    /\ UNCHANGED <<taskFile, lock, orders>>

ReadTask(client) ==
    /\ call[client].step = "read"
    /\ call' = [call EXCEPT ![client] =
            IF taskFile = None
            THEN [@ EXCEPT !.step = IF Strict(call[client].line) THEN "leave-threw" ELSE "leave-ok"]
            ELSE [@ EXCEPT !.step = "write", !.seen = taskFile]]
    /\ UNCHANGED <<taskFile, lock, orders>>

\* A line is appended to the file as it is; `task done` writes what it has read with the
\* Status and Completed lines replaced.
Written(client) ==
    IF call[client].line = Done
    THEN [call[client].seen EXCEPT !.status = "DONE"]
    ELSE [taskFile EXCEPT !.log = Append(@, call[client].line)]

WriteTask(client) ==
    /\ call[client].step = "write"
    /\ \/ /\ taskFile' = Written(client)
          /\ call' = [call EXCEPT ![client] = [@ EXCEPT !.step = "leave-ok", !.seen = None]]
       \/ /\ "io" \in Faults
          /\ call' = [call EXCEPT ![client] = [@ EXCEPT !.step = "leave-threw", !.seen = None]]
          /\ UNCHANGED <<taskFile, orders>>
    /\ UNCHANGED <<lock, orders>>

\* finally: the lock file is removed, whoever made it.
Leave(client) ==
    /\ call[client].step \in {"leave-ok", "leave-threw"}
    /\ lock' = None
    /\ call' = [call EXCEPT ![client] =
            [@ EXCEPT !.step = IF @ = "leave-ok" THEN "ok" ELSE "threw"]]
    /\ UNCHANGED <<taskFile, orders>>

\* The client dies; a lock file it has made stays.
Die(client) == call' = [call EXCEPT ![client] = Off] /\ UNCHANGED <<taskFile, lock, orders>>

Section(client) ==
    Enter(client) \/ TimeOut(client) \/ ReadTask(client) \/ WriteTask(client) \/ Leave(client)

\* What the caller of the section finds when it goes on.
Over(client) == call[client].step \in {"off", "ok"}
Threw(client) == call[client].step = "threw"

-----------------------------------------------------------------------------
(* The task commands.                                                      *)

\* `task log`, `task done`.
TaskCommand(what) ==
    /\ call[TaskClient].step = "off" /\ orders > 0
    /\ orders' = orders - 1
    /\ call' = Begun(TaskClient, Line(TaskClient, what, 0))
    /\ UNCHANGED <<taskFile, lock>>

\* It ends, and the next may be orders.
TaskCommandEnds ==
    /\ call[TaskClient].step \in {"ok", "threw"}
    /\ call' = [call EXCEPT ![TaskClient] = Off]
    /\ UNCHANGED <<taskFile, lock, orders>>

TaskCommandDies ==
    /\ "crash" \in Faults
    /\ call[TaskClient].step \notin {"off", "ok", "threw"}
    /\ Die(TaskClient)

TaskTypeOK ==
    /\ taskFile # None => taskFile.status \in {"IN_PROGRESS", "DONE"}
    /\ taskFile # None => \A i \in DOMAIN taskFile.log : taskFile.log[i].by \in Clients
    /\ lock \in Clients \cup {None}
    /\ orders \in Nat
    /\ \A client \in Clients :
        /\ call[client].step \in {"off", "wait", "read", "write", "leave-ok", "leave-threw",
                                  "ok", "threw"}
        /\ call[client].step \in {"read", "write", "leave-ok", "leave-threw"} => lock = client

\* The record of a task is append-only and does not reopen, although one of its writers
\* replaces the whole file with what it read a moment ago: no line a command was told is
\* written is ever lost, and a DONE task stays DONE.
RecordOnlyGrows ==
    [][taskFile # None =>
        /\ taskFile' # None
        /\ IsPrefix(taskFile.log, taskFile'.log)
        /\ taskFile.status = "DONE" => taskFile'.status = "DONE"]_taskVars
=============================================================================
