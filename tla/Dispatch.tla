------------------------------ MODULE Dispatch ------------------------------
(***************************************************************************)
(* `fugue dispatch` (src/engine/src/cli/commands/dispatch.ts): one prompt  *)
(* to one agent, and what the command leaves of it: the --out artifact,    *)
(* the action certificate, the lines of the TASK, the incident packet and  *)
(* the row of the allocation ledger.  Commands run side by side, next to   *)
(* `fugue task` and `fugue allocate`; each may die at any of its awaits.   *)
(*                                                                         *)
(*   request  per dispatch, its command line                               *)
(*   run   per dispatch: its step; the exit code and failure kind as they  *)
(*         stand; what is in its --out and --certificate files; whether    *)
(*         it wrote --incident; the ledger as it read it                   *)
(***************************************************************************)
EXTENDS TaskFile, Allocation, RuntimeGuard

CONSTANTS
    Dispatches, \* the dispatch processes; with TaskClient they are the Clients
    Workloads   \* what the operator may set out to do: a command line per dispatch, and
                \* how many `task` and `allocate` commands next to them

VARIABLES request, run

vars == <<taskVars, allocVars, request, run>>

\* What the parsers make of the options, and of the files they name.
Options == {"ok", "bad", "no-prompt", "no-skeptic", "bad-timeout"}

\* A command line: which options it has, --task-type and its value, the agent, --guard, and
\* what the guard's expressions match in the prompt.
Requests ==
    [task : BOOLEAN, digest : BOOLEAN, out : BOOLEAN, certificate : BOOLEAN, incident : BOOLEAN,
     requireOutput : BOOLEAN, type : Types \cup {None}, target : Targets,
     guard : {"off", "warn", "strict"}, signals : SUBSET Signals, options : Options]

ASSUME DispatchAssumption ==
    /\ IsFiniteSet(Dispatches)
    /\ Clients = Dispatches \cup {TaskClient} /\ TaskClient \notin Dispatches
    /\ \A w \in Workloads :
        w.request \in [Dispatches -> Requests] /\ w.orders \in Nat /\ w.commands \in Nat
    /\ None \notin {"text", "blank"}

New == [pc |-> "new", rc |-> 0, kind |-> "none", artifact |-> None, certificate |-> None,
        incident |-> FALSE, seen |-> None]

Init ==
    /\ TaskInit
    /\ AllocInit
    /\ \E w \in Workloads : request = w.request /\ orders = w.orders /\ commands = w.commands
    /\ run = [d \in Dispatches |-> New]

At(d, pc) == run[d].pc = pc

Goes(d, next) == run' = [run EXCEPT ![d] = next] /\ UNCHANGED request

GoesTo(d, pc) == Goes(d, [run[d] EXCEPT !.pc = pc])

\* appendTaskLine: without --task there is nothing to do.
Tells(d, what, rc) ==
    IF request[d].task THEN call' = Begun(d, Line(d, what, rc)) ELSE UNCHANGED call

\* The line before has been dealt with: written, or not as there is no TASK file.
Told(d) == Over(d)

NoTask == UNCHANGED <<taskFile, lock, orders>>
NoAlloc == UNCHANGED allocVars

-----------------------------------------------------------------------------
(* Before the agent is asked.                                              *)

\* An option is out of its range, or does not fit the others.
Unfit(d) == request[d].options = "bad"

\* The prompt file, the template or the workspace is not there, or none of them is named.
NoPrompt(d) == request[d].options = "no-prompt"

\* --task-digest has no TASK file to digest.
NoDigest(d) == request[d].digest /\ taskFile = None

\* --skeptic has no playbook, or an empty one.
NoSkeptic(d) == request[d].options = "no-skeptic"

Refused(d) == Unfit(d) \/ NoPrompt(d) \/ NoDigest(d) \/ NoSkeptic(d)

Refuse(d) ==
    /\ At(d, "new")
    /\ Refused(d)
    /\ Goes(d, [run[d] EXCEPT !.pc = "returned", !.rc = 2])
    /\ UNCHANGED call /\ NoTask /\ NoAlloc

\* runGuard
Uncertified(d) ==
    /\ ~request[d].certificate
    /\ \E x \in findings(request[d].signals) : x.kind = "privileged-action-without-certificate"

Blocks(d) ==
    /\ request[d].guard = "strict"
    /\ disposition(findings(request[d].signals)) = "block" \/ Uncertified(d)

Silent(d) ==
    \/ request[d].guard = "off"
    \/ disposition(findings(request[d].signals)) = "allow" /\ ~Uncertified(d)

Guard(d) ==
    /\ At(d, "new") /\ ~Refused(d)
    /\ IF Silent(d) THEN UNCHANGED call ELSE Tells(d, "guard", 0)
    /\ GoesTo(d, IF ~Silent(d) /\ Blocks(d) THEN "blocked" ELSE "guarded")
    /\ NoTask /\ NoAlloc

\* The guard's refusal, or a --timeout-ms that is no number of milliseconds.
Reject(d) ==
    /\ \/ At(d, "blocked")
       \/ At(d, "guarded") /\ request[d].options = "bad-timeout"
    /\ Told(d)
    /\ Goes(d, [run[d] EXCEPT !.pc = "returned", !.rc = 2])
    /\ UNCHANGED call /\ NoTask /\ NoAlloc

Start(d) ==
    /\ At(d, "guarded") /\ Told(d)
    /\ request[d].options = "ok"
    /\ Tells(d, "started", 0)
    /\ GoesTo(d, "starting")
    /\ NoTask /\ NoAlloc

Ask(d) ==
    /\ At(d, "starting") /\ Told(d)
    /\ GoesTo(d, "asked")
    /\ UNCHANGED call /\ NoTask /\ NoAlloc

-----------------------------------------------------------------------------
(* The answer.                                                             *)

\* What the harnesses return: the output of a run that exited 0, or an error with the exit
\* code of the run (124 for a timeout) or none.
Answers ==
    {[ok |-> TRUE, rc |-> 0, kind |-> "none", output |-> text] : text \in {"text", "blank"}}
    \cup {[ok |-> FALSE, rc |-> 124, kind |-> "nonzero-exit", output |-> None],
          [ok |-> FALSE, rc |-> 1, kind |-> "unavailable", output |-> None]}

\* Bug: output that is required and missing is reported and not counted as a failure.
Judged_Empty(d, answer, written) ==
    IF ~answer.ok \/ (request[d].requireOutput /\ answer.output = "blank")
    THEN [rc |-> answer.rc, kind |-> answer.kind, artifact |-> None]
    ELSE IF request[d].out /\ ~written
    THEN [rc |-> 1, kind |-> "artifact-write-failed", artifact |-> None]
    ELSE [rc |-> 0, kind |-> "none", artifact |-> IF request[d].out THEN answer.output ELSE None]

Judged(d, answer, written) ==
    IF ~answer.ok THEN [rc |-> answer.rc, kind |-> answer.kind, artifact |-> None]
    ELSE IF request[d].requireOutput /\ answer.output = "blank"
    THEN [rc |-> 1, kind |-> "empty-output", artifact |-> None]
    ELSE IF request[d].out /\ ~written
    THEN [rc |-> 1, kind |-> "artifact-write-failed", artifact |-> None]
    ELSE [rc |-> 0, kind |-> "none", artifact |-> IF request[d].out THEN answer.output ELSE None]

Answer(d) ==
    /\ At(d, "asked")
    /\ \E answer \in Answers, written \in {TRUE} \cup {b \in {FALSE} : "io" \in Faults} :
        LET x == Judged(d, answer, written)
        IN  Goes(d, [run[d] EXCEPT !.pc = "answered", !.rc = x.rc, !.kind = x.kind,
                                   !.artifact = x.artifact])
    /\ UNCHANGED call /\ NoTask /\ NoAlloc

\* Of all that a certificate says, the exit code as it stands.
actionCertificate(d) == run[d].rc

\* That the certificate cannot be written is a failure of its own.
Certify(d) ==
    /\ At(d, "answered")
    /\ \/ /\ ~request[d].certificate
          /\ GoesTo(d, "certified")
       \/ /\ request[d].certificate
          /\ Goes(d, [run[d] EXCEPT !.pc = "certified", !.certificate = actionCertificate(d)])
       \/ /\ request[d].certificate /\ "io" \in Faults
          /\ Goes(d, [run[d] EXCEPT !.pc = "certified", !.rc = 1,
                                    !.kind = "certificate-write-failed"])
    /\ UNCHANGED call /\ NoTask /\ NoAlloc

Close(d) ==
    /\ At(d, "certified")
    /\ Tells(d, IF run[d].rc = 0 THEN "ok" ELSE "failed", run[d].rc)
    /\ GoesTo(d, "closing")
    /\ NoTask /\ NoAlloc

\* recordIncident: the packet if a path is given, and the line of the TASK; a packet that
\* cannot be written is only reported.
Incident(d) ==
    /\ At(d, "closing") /\ Told(d)
    /\ IF run[d].rc # 0 THEN Tells(d, "incident", run[d].rc) ELSE UNCHANGED call
    /\ \E written \in {TRUE} \cup {b \in {FALSE} : "io" \in Faults} :
        Goes(d, [run[d] EXCEPT !.pc = "ledger",
                               !.incident = written /\ run[d].rc # 0 /\ request[d].incident])
    /\ NoTask /\ NoAlloc

\* appendAllocationLedger
ReadLedger(d) ==
    /\ At(d, "ledger") /\ Told(d)
    /\ request[d].type # None
    /\ Goes(d, [run[d] EXCEPT !.pc = "row", !.seen = ledger])
    /\ UNCHANGED call /\ NoTask /\ NoAlloc

AddRow(d) ==
    /\ At(d, "row")
    /\ ledger' = WithRow(run[d].seen, <<request[d].type, request[d].target>>)
    /\ excused' = Overtaken(run[d].seen, ledger)
    /\ GoesTo(d, "returned")
    /\ UNCHANGED <<call, stats, clerk, commands, decays, paid>> /\ NoTask

Return(d) ==
    /\ At(d, "ledger") /\ Told(d)
    /\ request[d].type = None
    /\ GoesTo(d, "returned")
    /\ UNCHANGED call /\ NoTask /\ NoAlloc

\* A line that cannot be written, as the lock was not to be had or the file not to be
\* appended to, rejects the whole command, whatever is left for it to do.
Throw(d) ==
    /\ Threw(d)
    /\ GoesTo(d, "threw")
    /\ call' = [call EXCEPT ![d] = Off]
    /\ NoTask /\ NoAlloc

DispatchDies(d) ==
    /\ "crash" \in Faults
    /\ run[d].pc \notin {"new", "returned", "threw", "dead"}
    /\ ~Threw(d)
    /\ GoesTo(d, "dead")
    /\ Die(d)
    /\ NoAlloc

\* The steps the command takes on its own.
Runs(d) ==
    \/ Guard(d) \/ Refuse(d) \/ Reject(d) \/ Start(d) \/ Ask(d)
    \/ Certify(d) \/ Close(d) \/ Incident(d) \/ ReadLedger(d) \/ AddRow(d) \/ Return(d)
    \/ Throw(d)

Locked(client) == Section(client) /\ UNCHANGED <<allocVars, request, run>>

TaskSteps ==
    /\ \/ NewTask
       \/ \E what \in {"note", "done"} : TaskCommand(what)
       \/ TaskCommandEnds \/ TaskCommandDies
    /\ UNCHANGED <<allocVars, request, run>>

AllocSteps == \E p \in Clerks : Allocate(p) /\ UNCHANGED <<taskVars, request, run>>

Next ==
    \/ \E d \in Dispatches : Runs(d) \/ Answer(d) \/ DispatchDies(d)
    \/ \E client \in Clients : Locked(client)
    \/ TaskSteps
    \/ AllocSteps

Spec == Init /\ [][Next]_vars

\* A process that is not dead goes on, at its own steps or at the lock.  Nothing makes the
\* agent answer (no timeout unless one is configured), or the operator give a command.
Fairness == \A d \in Dispatches : WF_vars(Runs(d) \/ Locked(d))

FairSpec == Spec /\ Fairness

-----------------------------------------------------------------------------
Steps == {"new", "blocked", "guarded", "starting", "asked", "answered", "certified", "closing",
          "ledger", "row", "returned", "threw", "dead"}

TypeOK ==
    /\ TaskTypeOK
    /\ AllocTypeOK
    /\ \A d \in Dispatches :
        /\ run[d].pc \in Steps
        /\ run[d].rc \in {0, 1, 2, 124}
        /\ run[d].artifact \in {None, "text", "blank"}
        /\ run[d].certificate \in {None, 0, 1, 124}
        /\ run[d].seen = None \/ run[d].seen \in Seq(Rows)

LinesOf(d, whats) ==
    IF taskFile = None THEN {}
    ELSE {i \in DOMAIN taskFile.log : taskFile.log[i].by = d /\ taskFile.log[i].what \in whats}

\* What a dispatch leaves of itself tells one story, whichever of its writes fail and
\* whenever it dies: at most one line starts it and one closes it, in that order; the close
\* line has the exit code the command returns, an artifact only if that is 0 or the
\* certificate failed, never a blank one under --require-output; the certificate agrees.
OneStory ==
    /\ TypeOK
    /\ \A d \in Dispatches :
        /\ Cardinality(LinesOf(d, {"started"})) <= 1
        /\ Cardinality(LinesOf(d, {"ok", "failed"})) <= 1
        /\ \A i \in LinesOf(d, {"started"}), j \in LinesOf(d, {"ok", "failed", "incident"}) : i < j
        /\ \A j \in LinesOf(d, {"ok", "failed"}) :
            LET line == taskFile.log[j]
            IN  /\ line.rc = run[d].rc
                /\ line.what = "ok" /\ request[d].out => run[d].artifact # None
                /\ line.what = "ok" /\ request[d].certificate => run[d].certificate = 0
                /\ run[d].certificate # None => run[d].certificate = line.rc
                /\ run[d].artifact # None => line.rc = 0 \/ run[d].kind = "certificate-write-failed"
                /\ run[d].artifact = "blank" => ~request[d].requireOutput

\* The flywheel counts every dispatch once.  While no command overtakes another and none
\* decays, resets or keeps rows, the evidence is the sum of the outcomes paid in; and every
\* dispatch that has come to its end is either a row of the ledger or has been fed.
CountedOnce ==
    ~excused =>
        \A e \in Evidence :
            /\ stats[e].s + stats[e].f = Unit * (paid[e].fed + paid[e].told)
            /\ (\A p \in Clerks : clerk[p].doing \notin {"feed", "keep"}) =>
                 paid[e].fed + RowsOf(e) =
                   Cardinality({d \in Dispatches : At(d, "returned") /\ run[d].rc # 2
                       /\ request[d].type # None
                       /\ <<request[d].type, NormalAgent[request[d].target]>> = e})

\* Once the agent has answered, the command ends: a lock file that a dead process has left
\* behind makes it throw and not wait for ever.
DispatchEnds ==
    \A d \in Dispatches :
        At(d, "answered") ~> run[d].pc \in {"returned", "threw", "dead"}
=============================================================================
