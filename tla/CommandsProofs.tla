--------------------------- MODULE CommandsProofs ---------------------------
(***************************************************************************)
(* Proofs about the commands that ask models and report, in this order:    *)
(*   Smoke      GO is earned, for any runtimes and any failing writes      *)
(*   Companion  a team's report accounts for all, for any command lines    *)
(*   PlanPanel  what a panel counts as a success is fresh, for any panels  *)
(*   Selection  trust is earned, for any candidates and any thresholds     *)
(***************************************************************************)
EXTENDS Smoke, Companion, PlanPanel, Selection, FiniteSetTheorems, TLAPS

-----------------------------------------------------------------------------
(* The smoke.                                                              *)

SmokeSpec == SmokeInit /\ [][SmokeNext]_smokeVars

ExitCodes == {0, 1, Alive, Term, Killed, TimedOut}
Printed == Outputs \cup {None, "other"}
RunResults ==
    [kind : {"spawn-failed", "unavailable"}] \cup [kind : {"nonzero-exit"}, code : ExitCodes \cup {None}]
    \cup [kind : {"ok"}, output : Printed]
ProcStates ==
    [child : ExitCodes \cup {None}, heir : {None, "piped", "quiet"}, output : Printed, timer : {"on", "off"},
     force : {"on", "off"}, timedOut : BOOLEAN, result : RunResults \cup {None}]
TaskLines == {<<>>, <<"started">>, <<"started", "ok">>, <<"started", "failed">>}
JobSteps == {"new", "ask", "asked", "kept", "done", "failed"}

SmokeTypeOK ==
    /\ proc \in [Jobs -> ProcStates]
    /\ smoke \in {"asking", "summing"} \cup Ends
    /\ step \in [Jobs -> JobSteps]
    /\ told \in [Jobs -> TaskLines]
    /\ kept \in [Jobs -> RunResults \cup {None}]

\* A good result is what the command that was run did: it exited with 0 before its time was
\* up, and the result repeats what it printed.
ResultIsTrue(j) ==
    proc[j].result # None /\ proc[j].result.kind = "ok" =>
      proc[j].child = 0 /\ ~proc[j].timedOut /\ proc[j].output = proc[j].result.output

\* From its artifact on, a smoke has the result of its run, and its last line tells it.
JobIsTold(j) ==
    /\ step[j] \in {"kept", "done"} => proc[j].result # None /\ kept[j] = proc[j].result
    /\ step[j] = "done" => told[j] = <<"started", IF isExact(j) THEN "ok" ELSE "failed">>

SmokeInv ==
    /\ SmokeTypeOK
    /\ \A j \in Jobs : ResultIsTrue(j) /\ JobIsTold(j)
    /\ smoke \in {"summing", "go"} => \A j \in Jobs : step[j] = "done"
    /\ smoke = "go" => \A j \in Jobs : isExact(j)

\* Before anything runs there is nothing to be wrong.
LEMMA SmokeInitially == SmokeInit => SmokeInv
  BY DEF SmokeInit, RunnerInit, NotRun, SmokeInv, SmokeTypeOK, ProcStates, JobSteps, TaskLines, Ends, Printed,
         ResultIsTrue, JobIsTold

\* The types, what a good result says and the results that are there stay.
RunsOn ==
    /\ proc' \in [Jobs -> ProcStates]
    /\ \A k \in Jobs : ResultIsTrue(k)'
    /\ \A k \in Jobs : proc[k].result # None => proc'[k].result = proc[k].result

\* One process changes: it is enough to know that what it becomes is sound.
LEMMA OneRunsOn ==
    ASSUME SmokeInv, NEW j \in Jobs, NEW next \in ProcStates, proc' = [proc EXCEPT ![j] = next],
           proc[j].result # None => next.result = proc[j].result,
           next.result # None /\ next.result.kind = "ok" =>
             next.child = 0 /\ ~next.timedOut /\ next.output = next.result.output
    PROVE  RunsOn
<1>1. proc \in [Jobs -> ProcStates] /\ \A k \in Jobs : ResultIsTrue(k)
  BY DEF SmokeInv, SmokeTypeOK
<1>2. proc' \in [Jobs -> ProcStates] /\ proc'[j] = next /\ \A k \in Jobs \ {j} : proc'[k] = proc[k]
  BY <1>1
<1>3. ASSUME NEW k \in Jobs PROVE ResultIsTrue(k)'
  BY <1>1, <1>2 DEF ResultIsTrue
<1> QED BY <1>2, <1>3 DEF RunsOn

\* What the runner and the processes do.
LEMMA RunnerStep ==
    ASSUME SmokeInv, NEW j \in Jobs, World(j) \/ Watch(j) \/ Spawn(j) \/ SpawnFails(j)
    PROVE  RunsOn
<1> DEFINE p == proc[j]
<1> USE DEF Alive, Term, Killed, TimedOut
<1>0. /\ p \in ProcStates /\ proc \in [Jobs -> ProcStates]
      /\ p.result # None /\ p.result.kind = "ok" => p.child = 0 /\ ~p.timedOut /\ p.output = p.result.output
  BY DEF SmokeInv, SmokeTypeOK, ResultIsTrue
<1>1. CASE Spawn(j)
  <2> DEFINE next == [p EXCEPT !.child = Alive, !.timer = "on"]
  <2>1. p.result = None /\ next \in ProcStates /\ next.result = None /\ proc' = [proc EXCEPT ![j] = next]
    BY <1>0, <1>1 DEF Spawn, NotRun, ProcStates, ExitCodes
  <2> QED BY <2>1, OneRunsOn
<1>2. CASE SpawnFails(j)
  <2> DEFINE next == [p EXCEPT !.result = [kind |-> "spawn-failed"]]
  <2>1. p.result = None /\ proc' = [proc EXCEPT ![j] = next]
    BY <1>0, <1>2 DEF SpawnFails, NotRun
  <2>2. [kind |-> "spawn-failed"] \in RunResults
    BY DEF RunResults
  <2>3. next \in ProcStates /\ next.result.kind # "ok"
    BY <1>0, <2>2 DEF ProcStates
  <2> QED BY <2>1, <2>3, OneRunsOn
<1>3. CASE World(j)
  <2>1. ASSUME NEW pipe \in {"piped", "quiet"}, Forks(j, pipe) PROVE RunsOn
    <3> DEFINE next == [p EXCEPT !.heir = pipe]
    <3>1. proc' = [proc EXCEPT ![j] = next]
      BY <1>0, <2>1 DEF Forks
    <3>2. next \in ProcStates /\ next.result = p.result /\ next.child = p.child /\ next.timedOut = p.timedOut /\ next.output = p.output
      BY <1>0 DEF ProcStates
    <3> QED BY <1>0, <3>1, <3>2, OneRunsOn
  <2>2. ASSUME NEW out \in Outputs, NEW code \in {0, 1, Killed}, Exits(j, code, out) PROVE RunsOn
    <3> DEFINE next == [p EXCEPT !.child = code, !.output = out]
    <3>1. p.child = Alive /\ proc' = [proc EXCEPT ![j] = next]
      <4>1. p.child = Alive /\ proc' = [proc EXCEPT ![j].child = code, ![j].output = out]
        BY <2>2 DEF Exits
      <4>2. PICK first : first = [proc EXCEPT ![j].child = code]
        OBVIOUS
      <4>3. first = [proc EXCEPT ![j] = [p EXCEPT !.child = code]]
        BY <1>0, <4>2
      <4>4. proc' = [first EXCEPT ![j].output = out]
        BY <4>1, <4>2
      <4>5. first[j] = [p EXCEPT !.child = code]
        BY <1>0, <4>3
      <4>6. proc' = [first EXCEPT ![j] = [first[j] EXCEPT !.output = out]]
        BY <4>4
      <4>7. [first[j] EXCEPT !.output = out] = next
        BY <4>5
      <4>8. \A x : [first EXCEPT ![j] = x] = [proc EXCEPT ![j] = x]
        BY <4>3
      <4> QED BY <4>1, <4>6, <4>7, <4>8
    <3>2. code \in ExitCodes \cup {None} /\ out \in Printed
      BY DEF ExitCodes, Printed
    <3>3. p \in ProcStates
      BY <1>0
    <3>4. next \in ProcStates /\ next.result = p.result /\ next.child = code
      BY <3>2, <3>3 DEF ProcStates
    <3>5. next.result # None => next.result.kind # "ok"
      BY <1>0, <3>1, <3>4
    <3> QED BY <3>1, <3>4, <3>5, OneRunsOn
  <2>3. CASE HeirEnds(j)
    <3> DEFINE next == [p EXCEPT !.heir = None]
    <3>1. proc' = [proc EXCEPT ![j] = next]
      BY <1>0, <2>3 DEF HeirEnds
    <3>2. next \in ProcStates /\ next.result = p.result /\ next.child = p.child /\ next.timedOut = p.timedOut /\ next.output = p.output
      BY <1>0 DEF ProcStates
    <3> QED BY <1>0, <3>1, <3>2, OneRunsOn
  <2> QED BY <1>3, <2>1, <2>2, <2>3 DEF World
<1>4. CASE Watch(j)
  <2>1. CASE TimeIsUp(j)
    <3>1. PICK ended \in {p.child, Term}, heir \in {p.heir, None} :
            proc' = [proc EXCEPT ![j].timer = "off", ![j].timedOut = TRUE, ![j].force = "on", ![j].child = ended,
                                 ![j].heir = heir, ![j].output = IF ended = Term THEN "other" ELSE @]
      BY <2>1 DEF TimeIsUp
    <3> DEFINE next == [p EXCEPT !.timer = "off", !.timedOut = TRUE, !.force = "on", !.child = ended,
                                 !.heir = heir, !.output = IF ended = Term THEN "other" ELSE @]
    <3>2. p.result = None /\ proc' = [proc EXCEPT ![j] = next]
      BY <1>0, <2>1, <3>1 DEF TimeIsUp, Open
    <3> DEFINE output == IF ended = Term THEN "other" ELSE p.output
    <3>3. p \in ProcStates
      BY <1>0
    <3>4. ended \in ExitCodes \cup {None} /\ output \in Printed /\ heir \in {None, "piped", "quiet"}
      BY <3>3 DEF ProcStates, ExitCodes, Printed
    <3>5. next = [p EXCEPT !.timer = "off", !.timedOut = TRUE, !.force = "on", !.child = ended,
                                 !.heir = heir, !.output = output]
      BY <3>3 DEF ProcStates
    <3> HIDE DEF output, next
    <3>6. next \in ProcStates /\ next.result = p.result
      BY <3>3, <3>4, <3>5 DEF ProcStates
    <3> QED BY <3>2, <3>6, OneRunsOn
  <2>2. CASE ForceKill(j)
    <3> DEFINE next == [p EXCEPT !.force = "off", !.heir = None, !.child = IF @ = Alive THEN Killed ELSE @]
    <3>1. p.result = None /\ proc' = [proc EXCEPT ![j] = next]
      BY <1>0, <2>2 DEF ForceKill, Open
    <3> DEFINE ended == IF p.child = Alive THEN Killed ELSE p.child
    <3>2. p \in ProcStates
      BY <1>0
    <3>3. ended \in ExitCodes \cup {None}
      BY <3>2 DEF ProcStates, ExitCodes
    <3>4. next = [p EXCEPT !.force = "off", !.heir = None, !.child = ended]
      BY <3>2 DEF ProcStates
    <3> HIDE DEF ended, next
    <3>5. next \in ProcStates /\ next.result = p.result
      BY <3>2, <3>3, <3>4 DEF ProcStates
    <3> QED BY <3>1, <3>5, OneRunsOn
  <2>3. CASE Close(j)
    <3> DEFINE next == [p EXCEPT !.result = runDispatch(j), !.timer = "off", !.force = "off"]
    <3>1. p.result = None /\ p.child # None /\ proc' = [proc EXCEPT ![j] = next]
      BY <1>0, <2>3 DEF Close, Open
    <3>2. runDispatch(j) \in RunResults
      BY <1>0, <3>1 DEF runDispatch, Code, RunResults, ProcStates, ExitCodes
    <3>3. runDispatch(j).kind = "ok" => p.child = 0 /\ ~p.timedOut /\ p.output = runDispatch(j).output
      BY <1>0, <3>1 DEF runDispatch, Code, ProcStates
    <3>4. /\ next \in ProcStates /\ next.result = runDispatch(j)
          /\ next.child = p.child /\ next.timedOut = p.timedOut /\ next.output = p.output
      BY <1>0, <3>2 DEF ProcStates
    <3> QED BY <3>1, <3>3, <3>4, OneRunsOn
  <2> QED BY <1>4, <2>1, <2>2, <2>3 DEF Watch
<1> QED BY <1>1, <1>2, <1>3, <1>4

\* Every step of the smoke preserves the invariant.
LEMMA SmokeStep == SmokeInv /\ [SmokeNext]_smokeVars => SmokeInv'
<1> SUFFICES ASSUME SmokeInv, [SmokeNext]_smokeVars PROVE SmokeInv'
  OBVIOUS
<1> USE DEF SmokeInv, SmokeTypeOK, JobIsTold, isExact
<1>1. ASSUME NEW j \in Jobs, TellStart(j) PROVE SmokeInv'
  <2>1. told' = [told EXCEPT ![j] = <<"started">>] /\ <<"started">> \in TaskLines
    BY <1>1 DEF TellStart, TaskLines
  <2>2. told' \in [Jobs -> TaskLines]
    BY <2>1
  <2>3. step' \in [Jobs -> JobSteps] /\ step[j] = "new" /\ step'[j] = "ask" /\ \A k \in Jobs \ {j} : step'[k] = step[k] /\ told'[k] = told[k]
    BY <1>1, <2>1 DEF TellStart, Wrote, JobSteps
  <2> QED BY <1>1, <2>2, <2>3 DEF TellStart, ResultIsTrue
<1>2. ASSUME NEW j \in Jobs, Dispatch(j) PROVE SmokeInv'
  <2>1. RunsOn
    BY <1>2, RunnerStep DEF Dispatch
  <2>2. /\ step' \in [Jobs -> JobSteps] /\ \A k \in Jobs : step'[k] \in {"kept", "done"} <=> step[k] \in {"kept", "done"}
        /\ \A k \in Jobs : step'[k] = "done" <=> step[k] = "done"
        /\ UNCHANGED <<smoke, told, kept>>
    BY <1>2 DEF Dispatch, Wrote, JobSteps
  <2> QED BY <2>1, <2>2 DEF RunsOn
<1>3. ASSUME NEW j \in Jobs, Keep(j) PROVE SmokeInv'
  BY <1>3 DEF Keep, Wrote, JobSteps, ResultIsTrue, ProcStates
<1>4. ASSUME NEW j \in Jobs, TellEnd(j) PROVE SmokeInv'
  <2> DEFINE line == IF isExact(j) THEN "ok" ELSE "failed"
  <2>1. told' = [told EXCEPT ![j] = <<"started", line>>] /\ line \in {"ok", "failed"}
    BY <1>4 DEF TellEnd, isExact
  <2>2. told' \in [Jobs -> TaskLines] /\ told'[j] = <<"started", line>>
    <3>1. <<"started", line>> \in TaskLines
      BY <2>1 DEF TaskLines
    <3> QED BY <2>1, <3>1
  <2>3. /\ step' \in [Jobs -> JobSteps] /\ step[j] = "kept" /\ step'[j] = "done"
        /\ \A k \in Jobs \ {j} : step'[k] = step[k] /\ told'[k] = told[k]
    BY <1>4, <2>1 DEF TellEnd, Wrote, JobSteps
  <2> QED BY <1>4, <2>2, <2>3 DEF TellEnd, ResultIsTrue
<1>5. ASSUME NEW j \in Jobs, NEW from \in {"new", "asked", "kept"}, Unwritten(j, from) PROVE SmokeInv'
  BY <1>5 DEF Unwritten, Wrote, Fails, JobSteps, Ends, ResultIsTrue
<1>6. ASSUME NEW j \in Jobs, Running(j) PROVE SmokeInv'
  <2>1. RunsOn
    BY <1>6, RunnerStep DEF Running
  <2> QED BY <1>6, <2>1 DEF RunsOn, Running
<1>7. CASE Summary
  BY <1>7 DEF Summary, ResultIsTrue
<1>8. CASE Verdict
  BY <1>8 DEF Verdict, Fails, Ends, ResultIsTrue
<1>9. CASE UNCHANGED smokeVars
  BY <1>9 DEF smokeVars, ResultIsTrue
<1> QED
  BY <1>1, <1>2, <1>3, <1>4, <1>5, <1>6, <1>7, <1>8, <1>9 DEF SmokeNext, Asking

\* GO is said only when every runtime ended by itself with 0, in its time and with the exact
\* line, and the TASK file and the artifacts say the same (smoke.ts, node-command-runner.ts).
THEOREM GoIsAlwaysEarned == SmokeSpec => []GoIsEarned
<1>1. SmokeInv => GoIsEarned
  BY DEF SmokeInv, ResultIsTrue, JobIsTold, isExact, GoIsEarned
<1> QED BY <1>1, SmokeInitially, SmokeStep, PTL DEF SmokeSpec

-----------------------------------------------------------------------------
(* The companion.                                                          *)

CompanionSpec == CompanionInit /\ [][CompanionNext]_companionVars

ChildStates == {"alive", "zero", "nonzero", "signal", "unspawned"}
PromiseStates == {"pending", "zero", "nonzero", "signal", "rejected"}

RunsOfRan ==
    /\ promise \in [DOMAIN promise -> PromiseStates]
    /\ child \in [DOMAIN promise -> ChildStates]
    /\ DOMAIN promise # {} => asked # None /\ DOMAIN available = Team /\ DOMAIN promise = Ran

\* A run that closed closed as its launcher ended, which does not end again.
ClosedAsEnded == \A m \in DOMAIN promise : promise[m] \in {"zero", "nonzero", "signal"} => child[m] = promise[m]

TeamReport == Said([results |-> Results, skipped |-> Team \ Ran], IF \E m \in Ran : Results[m] THEN 0 ELSE 1)

\* Nothing of a team is open when it is reported, and what was reported stays so.
ReportIsFinal ==
    asked # None /\ asked.op = "team" /\ report # None /\ DOMAIN promise # {} =>
      report = TeamReport /\ \A m \in DOMAIN promise : Settled(m)

PingsFirst == ping # None => DOMAIN promise = {}

CompanionInv == RunsOfRan /\ ClosedAsEnded /\ ReportIsFinal /\ PingsFirst

\* Nothing was asked yet.
LEMMA CompanionInitially == CompanionInit => CompanionInv
  BY DEF CompanionInit, CompanionInv, RunsOfRan, ClosedAsEnded, ReportIsFinal, PingsFirst, Empty

\* A function on nothing is the empty one.
LEMMA EmptyRuns == ASSUME RunsOfRan, child = Empty PROVE promise = Empty
  BY DEF RunsOfRan, Empty

\* Every step of the companion preserves the invariant.
LEMMA CompanionStep == CompanionInv /\ [CompanionNext]_companionVars => CompanionInv'
<1> SUFFICES ASSUME CompanionInv, [CompanionNext]_companionVars PROVE CompanionInv'
  OBVIOUS
<1> USE DEF CompanionInv
<1>1. ASSUME NEW c \in Calls, Call(c) PROVE CompanionInv'
  <2>1. DOMAIN promise = {} /\ UNCHANGED <<child, promise>> /\ asked = None
    BY <1>1 DEF Call, RunsOfRan
  <2> QED BY <2>1 DEF RunsOfRan, ClosedAsEnded, ReportIsFinal, PingsFirst
<1>2. ASSUME NEW m \in Named, pingModel(m) PROVE CompanionInv'
  <2>1. DOMAIN promise = {} /\ UNCHANGED <<child, promise>>
    BY <1>2 DEF pingModel, RunsOfRan
  <2> QED BY <2>1 DEF RunsOfRan, ClosedAsEnded, ReportIsFinal, PingsFirst
<1>11. CASE PingEnds
  <2>1. DOMAIN promise = {} /\ UNCHANGED <<child, promise>>
    BY <1>11 DEF PingEnds, PingsFirst
  <2> QED BY <2>1 DEF RunsOfRan, ClosedAsEnded, ReportIsFinal, PingsFirst
<1>12. CASE PingIsLate
  <2>1. DOMAIN promise = {} /\ UNCHANGED <<child, promise>>
    BY <1>12 DEF PingIsLate, PingsFirst
  <2> QED BY <2>1 DEF RunsOfRan, ClosedAsEnded, ReportIsFinal, PingsFirst
<1>13. CASE Goes
  BY <1>13 DEF Goes, RunsOfRan, ClosedAsEnded, ReportIsFinal, PingsFirst, TeamReport, Results, Ran, Team, Settled
<1>3. CASE Begin
  <2>1. DOMAIN promise = {} /\ DOMAIN available = Team /\ report = None /\ asked # None /\ ping = None /\ UNCHANGED <<asked, available, ping>>
    BY <1>3, EmptyRuns DEF Begin, Pinged, Working, Empty
  <2>2. CASE UNCHANGED <<child, promise>>
    BY <2>1, <2>2 DEF RunsOfRan, ClosedAsEnded, ReportIsFinal, PingsFirst
  <2>3. CASE child' = [m \in Ran |-> "alive"] /\ promise' = [m \in Ran |-> "pending"] /\ UNCHANGED report
    <3>1. Ran' = Ran /\ Team' = Team
      BY <2>1 DEF Ran, Team
    <3> QED BY <2>1, <2>3, <3>1 DEF RunsOfRan, ClosedAsEnded, ReportIsFinal, PingsFirst, PromiseStates, ChildStates
  <2> QED BY <1>3, <2>2, <2>3 DEF Begin
<1>4. ASSUME NEW m \in Named, NEW how \in {"zero", "nonzero", "signal"}, ChildEnds(m, how) PROVE CompanionInv'
  BY <1>4 DEF ChildEnds, RunsOfRan, ClosedAsEnded, ReportIsFinal, PingsFirst, TeamReport, Results, Ran, Team, Settled,
              PromiseStates, ChildStates
<1>5. ASSUME NEW m \in Named, Closes(m) PROVE CompanionInv'
  BY <1>5 DEF Closes, Pending, RunsOfRan, ClosedAsEnded, ReportIsFinal, PingsFirst, Ran, Team, Settled,
              PromiseStates, ChildStates
<1>6. ASSUME NEW m \in Named, SpawnErrs(m) PROVE CompanionInv'
  BY <1>6 DEF SpawnErrs, Pending, RunsOfRan, ClosedAsEnded, ReportIsFinal, PingsFirst, Ran, Team, Settled,
              PromiseStates, ChildStates
<1>7. ASSUME NEW m \in Named, TimesOut(m) PROVE CompanionInv'
  BY <1>7 DEF TimesOut, Pending, RunsOfRan, ClosedAsEnded, ReportIsFinal, PingsFirst, Ran, Team, Settled,
              PromiseStates, ChildStates
<1>8. CASE ReportTask
  BY <1>8 DEF ReportTask, RunsOfRan, ClosedAsEnded, ReportIsFinal, PingsFirst, Ran, Team
<1>9. CASE ReportTeam
  <2>1. /\ report' = TeamReport /\ UNCHANGED <<asked, available, ping, child, promise>>
        /\ \A m \in Ran : Settled(m)
    BY <1>9 DEF ReportTeam, TeamReport
  <2>2. Ran' = Ran /\ Team' = Team /\ Results' = Results
    BY <2>1 DEF Ran, Team, Results
  <2> QED BY <2>1, <2>2 DEF RunsOfRan, ClosedAsEnded, ReportIsFinal, PingsFirst, TeamReport, Settled
<1>10. CASE UNCHANGED companionVars
  BY <1>10 DEF companionVars, RunsOfRan, ClosedAsEnded, ReportIsFinal, PingsFirst, TeamReport, Results, Ran, Team, Settled
<1> QED
  BY <1>1, <1>2, <1>3, <1>4, <1>5, <1>6, <1>7, <1>8, <1>9, <1>10, <1>11, <1>12, <1>13 DEF CompanionNext

\* What the companion prints of a team is what became of every member that was named: its ping
\* failed, or its launcher ended with 0 in its time, or it did not (cn-companion.mjs handleTeam).
THEOREM TeamIsAlwaysAccountedFor == CompanionSpec => []TeamAccountsForAll
<1>1. CompanionInv => TeamAccountsForAll
  <2> SUFFICES ASSUME CompanionInv, asked # None, asked.op = "team", report # None, DOMAIN promise # {}
               PROVE  TeamAccountsForAll
    BY DEF TeamAccountsForAll
  <2>1. /\ report.text.results = Results /\ report.text.skipped = Team \ Ran
        /\ report.exit = IF \E m \in Ran : Results[m] THEN 0 ELSE 1
        /\ \A m \in Ran : Settled(m) /\ promise[m] \in PromiseStates
    BY DEF CompanionInv, RunsOfRan, ReportIsFinal, TeamReport, Said
  <2>2. DOMAIN Results = Ran /\ Ran \subseteq Team /\ \A m \in Ran : Results[m] <=> promise[m] = "zero"
    BY DEF Results, Ran
  <2>3. \A m \in Ran : promise[m] \in {"zero", "nonzero", "signal"} => child[m] = promise[m]
    BY DEF CompanionInv, ClosedAsEnded, RunsOfRan
  <2> QED BY <2>1, <2>2, <2>3 DEF TeamAccountsForAll, Settled, PromiseStates
<1> QED BY <1>1, CompanionInitially, CompanionStep, PTL DEF CompanionSpec

-----------------------------------------------------------------------------
(* The plan panel.                                                         *)

PlanSpec == PlanInit /\ [][PlanNext]_planVars

FileNames == {Filename[t] : t \in Targets}
PlannerStates ==
    [at : {"new", "asked", "answered", "kept", "told", "failed"}, ok : BOOLEAN, output : BOOLEAN,
     artifact : {"pending", "written", "captured", "missing"}]

PlanTypeOK ==
    /\ panel \in [n : 0..MaxPanels, of : Panels \cup {None}, exit : {None, 0, 1}, flaw : {None, "write", "pipe"},
                  at : {"over", "asking", "running", "thrown", "summed"}]
    /\ planner \in [Targets -> PlannerStates]
    /\ file \in [FileNames -> PlanFiles \cup {None}]

\* The summary is of a panel that was asked, and so is the panel that stands there.
AskedRight ==
    /\ summary # None => summary.of \in 1..panel.n
    /\ panel.n = 0 => panel.at = "over" /\ panel.exit = None /\ \A t \in Targets : planner[t].at = "new"
    /\ panel.n # 0 => panel.of \in Panels /\ Here # {} /\ Distinct(Here)

\* From its removal on, a planner's file is of this panel if it is there, and it is there when
\* a plan was found or kept.
PartIsFresh(t) ==
    LET plan == file[Filename[t]] IN
    planner[t].at # "new" =>
      /\ t \in Here /\ panel.at # "asking"
      /\ planner[t].at # "failed" => plan = None \/ plan.in = panel.n
      /\ planner[t].at \in {"kept", "told"} /\ planner[t].artifact # "missing" => plan # None

\* The summary that a panel ends with tells how its planners stand, and they stand still.
SummaryTells ==
    /\ panel.at \in {"running", "thrown", "summed"} => summary # None /\ summary.of = panel.n
    /\ panel.at = "summed" => Counted
    /\ Counted =>
         /\ panel.at \in {"summed", "over"}
         /\ summary.exit = PanelExit /\ summary.results = Good
         /\ \A t \in Here : planner[t].at = "told"

\* How a panel that has ended ended.
StatusTells ==
    panel.at = "over" /\ panel.exit # None =>
      \/ Counted /\ panel.exit = summary.exit
      \/ panel.exit = 1 /\ panel.flaw = "write"
      \/ panel.exit = 0 /\ panel.flaw = "pipe"

PanelInv ==
    /\ PlanTypeOK
    /\ AskedRight
    /\ \A t \in Targets : PartIsFresh(t)
    /\ SummaryTells
    /\ StatusTells

\* No panel was asked.
LEMMA PanelInitially == PlanInit => PanelInv
<1> SUFFICES ASSUME PlanInit PROVE PanelInv
  OBVIOUS
<1>1. 0 \in 0..MaxPanels
  BY PlanAssumption
<1>2. New \in PlannerStates /\ New.at = "new"
  BY DEF New, PlannerStates
<1>3. PlanTypeOK
  BY <1>1, <1>2 DEF PlanInit, PlanTypeOK, FileNames
<1>4. panel.at = "over" /\ panel.exit = None /\ panel.n = 0 /\ summary = None /\ \A t \in Targets : planner[t].at = "new"
  BY <1>1, <1>2 DEF PlanInit
<1> QED BY <1>3, <1>4 DEF PanelInv, AskedRight, PartIsFresh, SummaryTells, StatusTells, Counted

\* Those who are asked are planners, and their files are files.
LEMMA HereAreTargets ==
    ASSUME PanelInv, panel.n # 0
    PROVE  Here \subseteq Targets /\ \A t \in Targets : Filename[t] \in FileNames
  BY PlanAssumption DEF PanelInv, AskedRight, Here, FileNames

\* What the panel is, and who are good, depends on nothing but itself and the planners.
LEMMA PanelStands ==
    ASSUME UNCHANGED <<panel, planner>>
    PROVE  /\ Here' = Here /\ Good' = Good /\ PanelExit' = PanelExit /\ Distinct(Here)' = Distinct(Here)
  BY DEF Here, Good, Succeeded, PanelExit, Distinct

\* A plan is written where there is none, and says of which panel it is.
LEMMA PlanIsWritten ==
    ASSUME PanelInv, NEW t \in Targets, NEW by \in {"planner", "panel"}, file[Filename[t]] = None, Written(t, by)
    PROVE  /\ file' \in [FileNames -> PlanFiles \cup {None}]
           /\ file'[Filename[t]] # None /\ file'[Filename[t]].in = panel.n
           /\ \A f \in FileNames : file[f] # None => file'[f] = file[f]
           /\ \A f \in FileNames : file'[f] = file[f] \/ file'[f].in = panel.n
<1>1. Filename[t] \in FileNames /\ [in |-> panel.n, by |-> by] \in PlanFiles
  BY DEF FileNames, PlanFiles, PanelInv, PlanTypeOK
<1>2. [in |-> panel.n, by |-> by] # None
  BY <1>1, PlanAssumption DEF PlanFiles
<1> QED BY <1>1, <1>2 DEF Written, PanelInv, PlanTypeOK

\* A part of the panel goes on; nothing that was found or kept is lost.
LEMMA PartGoesOn ==
    ASSUME PanelInv, NEW t \in Targets,
           removePlanArtifact(t) \/ ensurePlanArtifact(t) \/ TellPart(t) \/ \E ok, output \in BOOLEAN : Answers(t, ok, output)
    PROVE  PanelInv'
<1>1. /\ t \in Here /\ panel.at \in {"running", "thrown"} /\ panel.n # 0 /\ panel.of \in Panels /\ Here # {} /\ Distinct(Here)
      /\ Here \subseteq Targets /\ Filename[t] \in FileNames
      /\ \A u \in Targets : Filename[u] \in FileNames
      /\ \A u \in Here \ {t} : Filename[u] # Filename[t]
  BY HereAreTargets DEF removePlanArtifact, ensurePlanArtifact, TellPart, Answers, Step, PanelInv, AskedRight, Distinct
<1>2. PlanTypeOK /\ \A u \in Targets : PartIsFresh(u)
  BY DEF PanelInv
<1>3. /\ panel' = panel \/ panel' = [panel EXCEPT !.at = "thrown", !.flaw = "write"]
      /\ UNCHANGED summary
      /\ PlanTypeOK'
      /\ \A u \in Targets : PartIsFresh(u)'
  <2>1. CASE removePlanArtifact(t)
    <3>1. CASE Step(t, "new", [New EXCEPT !.at = "asked"]) /\ file' = Without(t) /\ UNCHANGED <<panel, summary>>
      <4>1. planner' = [planner EXCEPT ![t] = [New EXCEPT !.at = "asked"]] /\ [New EXCEPT !.at = "asked"] \in PlannerStates
        BY <3>1 DEF Step, New, PlannerStates
      <4>2. [New EXCEPT !.at = "asked"].at = "asked"
        BY DEF New
      <4>3. PlanTypeOK' /\ file'[Filename[t]] = None /\ planner'[t].at = "asked"
        BY <1>1, <1>2, <3>1, <4>1, <4>2 DEF Without, PlanTypeOK
      <4>4. \A u \in Here \ {t} : planner'[u] = planner[u] /\ file'[Filename[u]] = file[Filename[u]]
        BY <1>1, <1>2, <3>1, <4>1 DEF Without, PlanTypeOK
      <4>5. \A u \in Targets \ {t} : planner'[u] = planner[u]
        BY <1>2, <4>1 DEF PlanTypeOK
      <4> QED BY <1>1, <1>2, <3>1, <4>3, <4>4, <4>5 DEF PartIsFresh, Here
    <3>2. CASE /\ Step(t, "new", [New EXCEPT !.at = "failed"]) /\ panel' = [panel EXCEPT !.at = "thrown", !.flaw = "write"]
               /\ UNCHANGED <<file, summary>>
      <4>1. planner' = [planner EXCEPT ![t] = [New EXCEPT !.at = "failed"]] /\ [New EXCEPT !.at = "failed"] \in PlannerStates
        BY <3>2 DEF Step, New, PlannerStates
      <4>2. [New EXCEPT !.at = "failed"].at = "failed"
        BY DEF New
      <4> QED BY <1>1, <1>2, <3>2, <4>1, <4>2 DEF PlanTypeOK, PartIsFresh, Here
    <3> QED BY <2>1, <3>1, <3>2 DEF removePlanArtifact, Throws
  <2>2. CASE \E ok, output \in BOOLEAN : Answers(t, ok, output)
    BY <1>1, <1>2, <2>2 DEF Answers, Step, PlanTypeOK, PlannerStates, PartIsFresh, Here
  <2>3. CASE ensurePlanArtifact(t)
    <3> DEFINE art == IF file[Filename[t]] # None THEN "written" ELSE IF planner[t].output THEN "captured" ELSE "missing"
    <3>1. CASE /\ Step(t, "answered", [planner[t] EXCEPT !.at = "kept", !.artifact = art])
               /\ IF art = "captured" THEN Written(t, "panel") ELSE UNCHANGED file
               /\ UNCHANGED <<panel, summary, orphans, broken>>
      <4> DEFINE next == [planner[t] EXCEPT !.at = "kept", !.artifact = art]
      <4>1. /\ next \in PlannerStates /\ next.at = "kept" /\ next.artifact = art
            /\ planner' = [planner EXCEPT ![t] = next] /\ planner[t].at = "answered"
            /\ UNCHANGED <<panel, summary>>
        BY <1>2, <3>1 DEF Step, PlanTypeOK, PlannerStates
      <4>2. /\ file' \in [FileNames -> PlanFiles \cup {None}]
            /\ \A f \in FileNames : file[f] # None => file'[f] = file[f]
            /\ \A f \in FileNames : file'[f] = file[f] \/ file'[f].in = panel.n
            /\ art # "missing" => file'[Filename[t]] # None
        BY <1>1, <1>2, <3>1, PlanIsWritten DEF PlanTypeOK
      <4> HIDE DEF next, art
      <4>3. /\ planner' \in [Targets -> PlannerStates] /\ planner'[t] = next
            /\ \A u \in Targets \ {t} : planner'[u] = planner[u]
        BY <1>2, <4>1 DEF PlanTypeOK
      <4>4. PlanTypeOK'
        BY <1>2, <4>1, <4>2, <4>3 DEF PlanTypeOK
      <4>5. \A u \in Targets \ {t} : PartIsFresh(u)'
        BY <1>1, <1>2, <4>1, <4>2, <4>3 DEF PartIsFresh, Here
      <4>6. PartIsFresh(t)'
        BY <1>1, <1>2, <4>1, <4>2, <4>3 DEF PartIsFresh, Here
      <4> QED BY <4>1, <4>4, <4>5, <4>6
    <3>2. CASE /\ Step(t, "answered", [planner[t] EXCEPT !.at = "failed"]) /\ Fault
               /\ panel' = [panel EXCEPT !.at = "thrown", !.flaw = "write"]
               /\ UNCHANGED <<file, summary, orphans>>
      BY <1>1, <1>2, <3>2 DEF Step, PlanTypeOK, PlannerStates, PartIsFresh, Here
    <3> QED BY <2>3, <3>1, <3>2 DEF ensurePlanArtifact, Throws
  <2>4. CASE TellPart(t)
    <3> DEFINE next == planner'[t].at
    <3>1. /\ UNCHANGED <<file, summary>> /\ planner[t].at = "kept" /\ next \in {"told", "failed"}
          /\ planner' = [planner EXCEPT ![t] = [planner[t] EXCEPT !.at = next]]
          /\ panel' = panel \/ panel' = [panel EXCEPT !.at = "thrown", !.flaw = "write"]
      BY <1>1, <1>2, <2>4 DEF TellPart, Step, Throws, PlanTypeOK, PlannerStates
    <3> HIDE DEF next
    <3>2. /\ planner' \in [Targets -> PlannerStates] /\ planner'[t].at = next /\ planner'[t].artifact = planner[t].artifact
          /\ \A u \in Targets \ {t} : planner'[u] = planner[u]
      BY <1>2, <3>1 DEF PlanTypeOK, PlannerStates
    <3>3. PlanTypeOK' /\ panel'.n = panel.n /\ panel'.of = panel.of /\ panel'.at \in {"running", "thrown"}
      BY <1>1, <1>2, <3>1, <3>2 DEF PlanTypeOK
    <3>4. \A u \in Targets \ {t} : PartIsFresh(u)'
      BY <1>2, <3>1, <3>2, <3>3 DEF PartIsFresh, Here
    <3>5. PartIsFresh(t)'
      BY <1>1, <1>2, <3>1, <3>2, <3>3 DEF PartIsFresh, Here
    <3> QED BY <3>1, <3>3, <3>4, <3>5
  <2> QED BY <2>1, <2>2, <2>3, <2>4
<1>4. panel'.at \in {"running", "thrown"} /\ panel'.of = panel.of /\ panel'.n = panel.n
  BY <1>1, <1>2, <1>3 DEF PlanTypeOK
<1> QED BY <1>1, <1>3, <1>4 DEF PanelInv, AskedRight, SummaryTells, StatusTells, Counted, Distinct, Here

\* A panel that stops writing goes over, and its planners and files stand as they do.
LEMMA PanelStops ==
    ASSUME PanelInv, panel.n # 0, UNCHANGED <<planner, file, summary>>,
           NEW exit \in {None, 0, 1}, NEW flaw \in {None, "write", "pipe"}, PanelEnds(exit, flaw),
           \/ exit = None
           \/ exit = 1 /\ flaw = "write"
           \/ exit = 0 /\ flaw = "pipe"
           \/ Counted /\ exit = summary.exit
    PROVE  PanelInv'
<1>1. /\ panel'.at = "over" /\ panel'.exit = exit /\ panel'.flaw = flaw /\ panel'.of = panel.of /\ panel'.n = panel.n
      /\ PlanTypeOK'
  BY DEF PanelEnds, PanelInv, PlanTypeOK
<1>2. Here' = Here /\ Good' = Good /\ PanelExit' = PanelExit /\ Distinct(Here)' = Distinct(Here) /\ Counted' = Counted
  BY <1>1 DEF Here, Good, Succeeded, PanelExit, Distinct, Counted
<1>3. AskedRight' /\ \A t \in Targets : PartIsFresh(t)'
  BY <1>1, <1>2 DEF PanelInv, AskedRight, PartIsFresh
<1> QED BY <1>1, <1>2, <1>3 DEF PanelInv, SummaryTells, StatusTells

\* Every step of the panel preserves the invariant.
LEMMA PanelStep == PanelInv /\ [PlanNext]_planVars => PanelInv'
<1> SUFFICES ASSUME PanelInv, [PlanNext]_planVars PROVE PanelInv'
  OBVIOUS
<1>1. PlanTypeOK /\ AskedRight /\ SummaryTells /\ StatusTells /\ \A t \in Targets : PartIsFresh(t)
  BY DEF PanelInv
<1>2. ASSUME NEW p \in Panels, AskPanel(p) PROVE PanelInv'
  <2>1. /\ panel' = [n |-> panel.n + 1, of |-> p, at |-> "asking", exit |-> None, flaw |-> None]
        /\ panel.n + 1 \in 0..MaxPanels /\ panel.n + 1 # 0 /\ panel.n \in Nat
        /\ p.targets # {} /\ Distinct(p.targets)
        /\ UNCHANGED <<file, summary>>
    BY <1>1, <1>2, PlanAssumption DEF AskPanel, PlanTypeOK
  <2>2. /\ planner' \in [Targets -> PlannerStates] /\ \A t \in Targets : planner'[t].at = "new"
    BY <1>2 DEF AskPanel, New, PlannerStates
  <2>3. PlanTypeOK' /\ Here' = p.targets /\ panel'.n = panel.n + 1 /\ panel'.at = "asking" /\ panel'.of = p
    BY <1>1, <2>1, <2>2 DEF PlanTypeOK, Here
  <2>4. Distinct(Here)'
    BY <2>1, <2>3 DEF Distinct
  <2>5. summary # None => summary.of \in 1..(panel.n + 1) /\ summary.of # panel.n + 1
    BY <1>1, <2>1 DEF AskedRight
  <2>6. ~Counted' /\ AskedRight'
    BY <2>1, <2>2, <2>3, <2>4, <2>5 DEF Counted, AskedRight
  <2> QED BY <2>2, <2>3, <2>6 DEF PanelInv, PartIsFresh, SummaryTells, StatusTells
<1>0. panel.at # "over" => panel.n # 0 /\ panel.n \in 1..panel.n
  BY <1>1 DEF AskedRight, PlanTypeOK
<1>3. CASE writeRunningSummary
  <2>0. panel.n # 0 /\ panel.n \in 1..panel.n /\ panel.at = "asking" /\ UNCHANGED <<planner, file>>
    BY <1>0, <1>3 DEF writeRunningSummary
  <2>1. CASE PanelEnds(1, "write") /\ UNCHANGED summary
    BY <2>0, <2>1, PanelStops
  <2>2. CASE /\ panel' = [panel EXCEPT !.at = "running"]
             /\ summary' = [of |-> panel.n, status |-> "running", exit |-> 1, results |-> {}]
    <3>1. panel'.at = "running" /\ panel'.n = panel.n /\ panel'.of = panel.of /\ PlanTypeOK' /\ Here' = Here
      BY <1>1, <2>0, <2>2 DEF PlanTypeOK, Here
    <3>2. summary' \in Summaries /\ summary' # None
      <4>1. panel.n \in 0..MaxPanels
        BY <1>1 DEF PlanTypeOK
      <4> QED BY <2>2, <4>1, PlanAssumption DEF Summaries
    <3>3. summary'.of = panel.n /\ summary'.status = "running" /\ Distinct(Here)' = Distinct(Here)
      BY <2>2, <3>1 DEF Distinct
    <3>4. AskedRight' /\ ~Counted'
      BY <1>1, <2>0, <3>1, <3>3 DEF AskedRight, Counted
    <3> QED BY <1>1, <2>0, <3>1, <3>2, <3>3, <3>4 DEF PanelInv, PartIsFresh, SummaryTells, StatusTells
  <2> QED BY <1>3, <2>1, <2>2 DEF writeRunningSummary
<1>4. CASE writeSummary
  <2>1. Here \subseteq Targets /\ panel.n # 0 /\ panel.n \in 1..panel.n
    BY <1>0, <1>4, HereAreTargets DEF writeSummary
  <2>2. /\ Here' = Here /\ Good' = Good /\ PanelExit' = PanelExit /\ Distinct(Here)' = Distinct(Here)
        /\ panel.at = "running" /\ panel'.at \in {"summed", "thrown"} /\ panel'.of = panel.of /\ panel'.n = panel.n
        /\ UNCHANGED <<planner, file>> /\ \A t \in Here : planner[t].at = "told"
        /\ PlanTypeOK'
    <3>1. /\ panel.at = "running" /\ UNCHANGED <<planner, file>> /\ \A t \in Here : planner[t].at = "told"
          /\ \/ panel' = [panel EXCEPT !.at = "summed"]
             \/ panel' = [panel EXCEPT !.at = "thrown", !.flaw = "write"]
      BY <1>4 DEF writeSummary, Throws
    <3>2. panel'.at \in {"summed", "thrown"} /\ panel'.of = panel.of /\ panel'.n = panel.n /\ PlanTypeOK'
      BY <1>1, <3>1 DEF PlanTypeOK
    <3> QED BY <3>1, <3>2 DEF Here, Good, Succeeded, PanelExit, Distinct
  <2>3. /\ panel'.at = "summed" => summary' = [of |-> panel.n, status |-> Status, exit |-> PanelExit, results |-> Good]
        /\ panel'.at = "thrown" => UNCHANGED summary
    BY <1>1, <1>4 DEF writeSummary, Throws, PlanTypeOK
  <2>4. \A t \in Targets : PartIsFresh(t)'
    BY <1>1, <2>2 DEF PartIsFresh
  <2>5. CASE panel'.at = "thrown"
    BY <1>1, <2>1, <2>2, <2>3, <2>4, <2>5 DEF PanelInv, AskedRight, SummaryTells, StatusTells, Counted
  <2>6. CASE panel'.at = "summed"
    <3>1. summary' # None /\ Status # "running"
      <4>1. panel.n \in 0..MaxPanels /\ Good \in SUBSET Targets
        BY <1>1, <2>1 DEF PlanTypeOK, Good
      <4>2. Status \in {"ok", "partial", "failed"} /\ PanelExit \in {0, 1}
        BY DEF Status, PanelExit
      <4> HIDE DEF Status
      <4>3. summary' \in Summaries
        BY <2>3, <2>6, <4>1, <4>2 DEF Summaries
      <4> QED BY <4>2, <4>3, PlanAssumption
    <3>2. summary'.of = panel.n /\ summary'.status = Status /\ summary'.exit = PanelExit /\ summary'.results = Good
      BY <2>3, <2>6
    <3> QED BY <1>1, <2>1, <2>2, <2>4, <2>6, <3>1, <3>2 DEF PanelInv, AskedRight, SummaryTells, StatusTells, Counted
  <2> QED BY <2>2, <2>5, <2>6
<1>5. CASE PanelReturns \/ ReturnThrown \/ StartUntold \/ PanelDies \/ PipeBreaks
  <2>1. panel.n # 0 /\ UNCHANGED <<planner, file, summary>>
    BY <1>0, <1>5 DEF PanelReturns, ReturnThrown, StartUntold, PanelDies, PipeBreaks
  <2>2. PICK exit \in {None, 0, 1}, flaw \in {None, "write", "pipe"} :
          /\ PanelEnds(exit, flaw)
          /\ \/ exit = None
             \/ exit = 1 /\ flaw = "write"
             \/ exit = 0 /\ flaw = "pipe"
             \/ Counted /\ exit = summary.exit
    <3>1. CASE PanelReturns
      <4>1. Counted /\ PanelExit = summary.exit /\ PanelExit \in {0, 1}
        BY <1>1, <3>1 DEF PanelReturns, SummaryTells, PanelExit
      <4> QED BY <3>1, <4>1 DEF PanelReturns
    <3> QED BY <1>5, <3>1 DEF ReturnThrown, StartUntold, PanelDies, PipeBreaks
  <2> QED BY <2>1, <2>2, PanelStops
<1>8. ASSUME NEW t \in Targets, PlannerWrites(t) PROVE PanelInv'
  <2>1. /\ UNCHANGED <<panel, planner, summary>>
        /\ file' \in [FileNames -> PlanFiles \cup {None}]
        /\ \A f \in FileNames : file[f] # None => file'[f] = file[f]
        /\ \A f \in FileNames : file'[f] = file[f] \/ file'[f].in = panel.n
    BY <1>8, PlanIsWritten DEF PlannerWrites
  <2>2. \A u \in Targets : Filename[u] \in FileNames
    BY DEF FileNames
  <2>3. \A u \in Targets : PartIsFresh(u)'
    BY <1>1, <2>1, <2>2 DEF PartIsFresh, Here
  <2> QED BY <1>1, <2>1, <2>3, PanelStands DEF PanelInv, PlanTypeOK, AskedRight, SummaryTells, StatusTells, Counted
<1>9. ASSUME NEW t \in Targets, OrphanEnds(t) PROVE PanelInv'
  BY <1>1, <1>9, PanelStands
  DEF OrphanEnds, PanelInv, PlanTypeOK, AskedRight, SummaryTells, StatusTells, Counted, PartIsFresh
<1>10. CASE UNCHANGED planVars
  BY <1>1, <1>10, PanelStands
  DEF planVars, PanelInv, PlanTypeOK, AskedRight, SummaryTells, StatusTells, Counted, PartIsFresh
<1> QED
  BY <1>2, <1>3, <1>4, <1>5, <1>8, <1>9, <1>10, PartGoesOn DEF PlanNext

\* What a summary counts is in its file and of that panel, however the panel ended, and the exit
\* status is the summary's but where a write failed or the output broke off (plan.ts, main.ts).
THEOREM PlansAreAlwaysFresh == PlanSpec => []PlansAreFresh
<1>1. PanelInv => PlansAreFresh
  <2> SUFFICES ASSUME PanelInv PROVE PlansAreFresh
    OBVIOUS
  <2>1. SummaryTells /\ StatusTells
    BY DEF PanelInv
  <2>2. ASSUME Counted
        PROVE  /\ \A t \in summary.results : /\ planner[t].ok /\ file[Filename[t]] # None
                                             /\ file[Filename[t]].in = panel.n
               /\ summary.exit = 0 <=> summary.results = Here \/ (panel.of.partial /\ summary.results # {})
    <3>1. panel.n # 0
      BY <2>2 DEF PanelInv, AskedRight, Counted
    <3>2. /\ summary.exit = PanelExit /\ summary.results = Good
          /\ Here \subseteq Targets /\ \A t \in Here : planner[t].at = "told" /\ PartIsFresh(t)
      BY <2>2, <3>1, HereAreTargets DEF PanelInv, SummaryTells
    <3> QED BY <3>2 DEF Good, Succeeded, PartIsFresh, PanelExit
  <2> QED BY <2>1, <2>2 DEF PlansAreFresh, SummaryTells, StatusTells
<1> QED BY <1>1, PanelInitially, PanelStep, PTL DEF PlanSpec

-----------------------------------------------------------------------------
(* The selector.                                                           *)

SelectSpec == SelectInit /\ [][SelectNext]_selectVars

IsList(s) == s \in Seq(Range(s))

\* What an operator appends to a list is its last element.
LEMMA Appended ==
    ASSUME NEW s, IsList(s), NEW e
    PROVE  /\ IsList(Append(s, e)) /\ Len(Append(s, e)) = Len(s) + 1 /\ Len(s) \in Nat
           /\ DOMAIN s = 1..Len(s)
           /\ DOMAIN Append(s, e) = 1..(Len(s) + 1)
           /\ \A i \in DOMAIN s : Append(s, e)[i] = s[i]
           /\ Append(s, e)[Len(s) + 1] = e
<1>1. s \in Seq(Range(s) \cup {e})
  BY DEF IsList
<1>2. /\ Append(s, e) \in Seq(Range(s) \cup {e}) /\ Len(Append(s, e)) = Len(s) + 1 /\ Len(s) \in Nat
      /\ DOMAIN s = 1..Len(s) /\ DOMAIN Append(s, e) = 1..(Len(s) + 1)
      /\ \A i \in 1..Len(s) : Append(s, e)[i] = s[i]
      /\ Append(s, e)[Len(s) + 1] = e
  BY <1>1
<1>3. \A i \in 1..(Len(s) + 1) : Append(s, e)[i] \in Range(Append(s, e))
  BY <1>2 DEF Range
<1>4. Append(s, e) \in Seq(Range(Append(s, e)))
  BY <1>2, <1>3
<1> QED BY <1>2, <1>4 DEF IsList

\* A set of numbers that is not empty has a least one.
LEMMA FirstIsLeast ==
    ASSUME NEW S \in SUBSET Nat, S # {}
    PROVE  First(S) \in S /\ \A j \in S : First(S) <= j
<1>1. PICK x \in S : \A y \in S : <<y, x>> \notin OpToRel(<, Nat)
  BY NatLessThanWellFounded, WFMin
<1>2. \A y \in S : x <= y
  <2> SUFFICES ASSUME NEW y \in S, ~(x <= y) PROVE FALSE
    OBVIOUS
  <2>1. y \in Nat /\ x \in Nat /\ y < x
    OBVIOUS
  <2>2. <<y, x>> \in Nat \X Nat /\ <<y, x>>[1] < <<y, x>>[2]
    BY <2>1
  <2>3. <<y, x>> \in OpToRel(<, Nat)
    BY <2>2, Zenon DEF OpToRel
  <2> QED BY <1>1, <2>3
<1> QED BY <1>2 DEF First

\* The places of a list are finitely many, and a cluster has at most as many votes.
LEMMA VotesAreCounted ==
    ASSUME NEW cs, IsList(cs)
    PROVE  /\ Labelled(cs) \subseteq Nat /\ IsFiniteSet(Labelled(cs)) /\ Cardinality(Labelled(cs)) \in Nat
           /\ \A i \in DOMAIN cs : Votes(cs, i) \in 0..Len(cs)
<1>1. Len(cs) \in Nat /\ DOMAIN cs = 1..Len(cs) /\ IsFiniteSet(1..Len(cs)) /\ Cardinality(1..Len(cs)) = Len(cs)
  <2>1. Len(cs) \in Nat /\ DOMAIN cs = 1..Len(cs)
    BY DEF IsList
  <2>2. IsFiniteSet(1..Len(cs)) /\ Cardinality(1..Len(cs)) = IF 1 > Len(cs) THEN 0 ELSE Len(cs) - 1 + 1
    BY <2>1, FS_Interval
  <2> QED BY <2>1, <2>2
<1>2. \A S \in SUBSET (1..Len(cs)) : IsFiniteSet(S) /\ Cardinality(S) \in Nat /\ Cardinality(S) <= Len(cs)
  <2> SUFFICES ASSUME NEW S \in SUBSET (1..Len(cs))
               PROVE  IsFiniteSet(S) /\ Cardinality(S) \in Nat /\ Cardinality(S) <= Len(cs)
    OBVIOUS
  <2>1. IsFiniteSet(S) /\ Cardinality(S) <= Cardinality(1..Len(cs))
    BY <1>1, FS_Subset
  <2> QED BY <1>1, <2>1, FS_CardinalityType
<1>3. Labelled(cs) \in SUBSET (1..Len(cs)) /\ \A i \in DOMAIN cs : Cluster(cs, cs[i].label) \in SUBSET (1..Len(cs))
  BY <1>1 DEF Labelled, Cluster
<1> QED BY <1>1, <1>2, <1>3 DEF Votes

\* Where anybody is labelled, there is a dominant one.
LEMMA DominantIsLabelled ==
    ASSUME NEW cs, IsList(cs), Labelled(cs) # {}
    PROVE  Dominant(cs) \in Labelled(cs)
<1> DEFINE n == Len(cs)
           rest == {n - Votes(cs, i) : i \in Labelled(cs)}
           largest == {i \in Labelled(cs) : \A j \in Labelled(cs) : Votes(cs, i) >= Votes(cs, j)}
<1>1. n \in Nat /\ Labelled(cs) \subseteq Nat /\ \A i \in Labelled(cs) : Votes(cs, i) \in 0..n
  <2>1. n \in Nat
    BY DEF IsList
  <2>2. Labelled(cs) \subseteq DOMAIN cs
    BY DEF Labelled
  <2> QED BY <2>1, <2>2, VotesAreCounted
<1>2. rest \in SUBSET Nat /\ rest # {}
  BY <1>1
<1>3. First(rest) \in rest /\ \A x \in rest : First(rest) <= x
  BY <1>2, FirstIsLeast
<1>4. PICK i \in Labelled(cs) : First(rest) = n - Votes(cs, i)
  BY <1>3
<1>5. \A j \in Labelled(cs) : Votes(cs, i) >= Votes(cs, j)
  <2> SUFFICES ASSUME NEW j \in Labelled(cs) PROVE Votes(cs, i) >= Votes(cs, j)
    OBVIOUS
  <2>1. n - Votes(cs, i) <= n - Votes(cs, j)
    BY <1>3, <1>4
  <2> QED BY <1>1, <2>1
<1>6. largest \in SUBSET Nat /\ largest # {}
  BY <1>1, <1>5
<1>7. First(largest) \in largest
  BY <1>6, FirstIsLeast
<1> QED BY <1>7 DEF Dominant

\* At the default threshold of 70 of 100, a smoothed share that reaches it is more than two
\* thirds, and more than one vote where there are two.
LEMMA QuorumIsTwoThirds ==
    ASSUME NEW k \in Nat, NEW n \in Nat, NEW percent \in Int, percent >= 70, n # 0, n # 1, smoothed(k, n, percent)
    PROVE  3 * k > 2 * n /\ k > 1
<1>1. percent * (n + 2) >= 70 * (n + 2)
  <2>1. (percent - 70) * (n + 2) >= 0
    BY Z3
  <2> QED BY <2>1
<1>2. 100 * (k + 1) >= 70 * (n + 2) /\ n >= 2
  BY <1>1 DEF smoothed
<1> QED BY <1>2

\* What the selector decides of any candidates it has earned.
LEMMA DecisionIsEarned ==
    ASSUME NEW cs, IsList(cs), NEW config, config.threshold \in Int
    PROVE  LET d == route(cs, config) IN
           /\ ExitCode(d) = 0 => \E i \in DOMAIN cs : cs[i].agent = d.pick /\ cs[i].verified = TRUE
           /\ ExitCode(d) = 10 =>
                /\ \A i \in DOMAIN cs : cs[i].verified = None
                /\ config.category \notin config.forced
                /\ config.threshold >= 70 /\ ~config.trustSingleton =>
                     \E i \in DOMAIN cs : /\ cs[i].agent = d.pick /\ cs[i].label # None
                                          /\ 3 * Votes(cs, i) > 2 * Cardinality(Labelled(cs))
                                          /\ Votes(cs, i) > 1
<1> DEFINE d == route(cs, config)
           passed == {i \in DOMAIN cs : cs[i].verified = TRUE}
           n == Cardinality(Labelled(cs))
           first == Dominant(cs)
<1>1. Len(cs) \in Nat /\ DOMAIN cs = 1..Len(cs)
  BY DEF IsList
<1>2. d.outcome \in {"TRUST", "TRUST_SPOT_CHECK", "ESCALATE"}
  BY DEF route, byAgreement, Escalate
<1>3. /\ ExitCode(d) = 0 <=> d.outcome = "TRUST"
      /\ ExitCode(d) = 10 <=> d.outcome = "TRUST_SPOT_CHECK"
  BY <1>2 DEF ExitCode
<1>4. ASSUME d.outcome = "TRUST" PROVE \E i \in DOMAIN cs : cs[i].agent = d.pick /\ cs[i].verified = TRUE
  <2>1. passed # {} /\ d.pick = cs[First(passed)].agent
    BY <1>4 DEF route, byAgreement, Escalate
  <2>2. First(passed) \in passed
    <3>1. passed \in SUBSET Nat
      BY <1>1
    <3> HIDE DEF passed
    <3> QED BY <2>1, <3>1, FirstIsLeast
  <2> QED BY <2>1, <2>2
<1>5. ASSUME d.outcome = "TRUST_SPOT_CHECK"
      PROVE  /\ ~gateRan(cs) /\ config.category \notin config.forced
             /\ n # 0 /\ (n = 1 => config.trustSingleton)
             /\ n = 1 \/ smoothed(Votes(cs, first), n, config.threshold)
             /\ d.pick = cs[first].agent
  BY <1>5 DEF route, byAgreement, Escalate
<1>6. ~gateRan(cs) => \A i \in DOMAIN cs : cs[i].verified = None
  BY DEF gateRan, Range
<1>7. ASSUME d.outcome = "TRUST_SPOT_CHECK", config.threshold >= 70, ~config.trustSingleton
      PROVE  \E i \in DOMAIN cs : /\ cs[i].agent = d.pick /\ cs[i].label # None
                                  /\ 3 * Votes(cs, i) > 2 * n
                                  /\ Votes(cs, i) > 1
  <2>1. n \in Nat /\ n # 0 /\ n # 1 /\ smoothed(Votes(cs, first), n, config.threshold)
    BY <1>5, <1>7, VotesAreCounted
  <2>2. Labelled(cs) # {}
    BY <2>1, FS_EmptySet
  <2>3. first \in DOMAIN cs /\ cs[first].label # None
    BY <2>2, DominantIsLabelled DEF Labelled
  <2>4. Votes(cs, first) \in Nat
    BY <1>1, <2>3, VotesAreCounted
  <2>5. 3 * Votes(cs, first) > 2 * n /\ Votes(cs, first) > 1
    BY <1>7, <2>1, <2>4, QuorumIsTwoThirds
  <2> QED BY <1>5, <1>7, <2>3, <2>5
<1> QED BY <1>3, <1>4, <1>5, <1>6, <1>7

IsCommand(c) == c = [f \in {"at", "of", "row", "result", "candidates", "seen", "decision"} |-> c[f]]

\* A candidate of a round whose gate said yes had a result that the gate accepts.
VerdictsAreSeen(c) ==
    /\ IsList(c.seen) /\ Len(c.seen) = Len(c.candidates)
    /\ \A i \in DOMAIN c.candidates : c.candidates[i].verified = TRUE => c.of.gate /\ c.seen[i] \in Passing

CommandIsSound(c) ==
    /\ IsCommand(c)
    /\ c.at \in {"status", "result", "gate"} => c.of.round
    /\ c.at = "gate" => c.of.gate
    /\ c.at # "idle" =>
         /\ c.of \in Questions /\ IsList(c.candidates)
         /\ c.of.round => VerdictsAreSeen(c)
    /\ c.at = "told" => c.decision = route(c.candidates, c.of.config)

SelectInv == CommandIsSound(command)

\* An idle command is sound.
LEMMA IdleIsSound == CommandIsSound(Idle)
  BY DEF CommandIsSound, IsCommand, Idle

\* One candidate more, with the verdict of a gate or with none.
LEMMA CandidateIsSeen ==
    ASSUME NEW c, CommandIsSound(c), c.at \in {"result", "gate"}, NEW agent, NEW verified, NEW label, NEW v,
           NEW at \in {"status", "decide"}, NEW row,
           verified = TRUE => c.of.gate /\ v \in Passing
    PROVE  CommandIsSound([[c EXCEPT !.at = at, !.row = row] EXCEPT
                             !.candidates = Append(@, [agent |-> agent, verified |-> verified, label |-> label]),
                             !.seen = Append(@, v)])
<1> DEFINE e == [agent |-> agent, verified |-> verified, label |-> label]
           more == [[c EXCEPT !.at = at, !.row = row] EXCEPT !.candidates = Append(@, e), !.seen = Append(@, v)]
           cs == Append(c.candidates, e)
           seen == Append(c.seen, v)
<1>1. /\ IsCommand(c) /\ c.of.round /\ c.of \in Questions /\ IsList(c.candidates) /\ VerdictsAreSeen(c)
  BY DEF CommandIsSound
<1>3. IsCommand(more) /\ more.at = at /\ more.of = c.of /\ more.candidates = Append(c.candidates, e) /\ more.seen = Append(c.seen, v)
  <2> DEFINE next == [c EXCEPT !.at = at, !.row = row]
  <2>1. IsCommand(next) /\ next.at = at /\ next.of = c.of /\ next.candidates = c.candidates /\ next.seen = c.seen
    BY <1>1 DEF IsCommand
  <2>2. more = [next EXCEPT !.candidates = cs, !.seen = seen]
    BY <2>1, Zenon
  <2> HIDE DEF next, more, cs, seen
  <2>3. IsCommand(more) /\ more.at = at /\ more.of = c.of /\ more.candidates = cs /\ more.seen = seen
    BY <2>1, <2>2 DEF IsCommand
  <2> QED BY <2>3 DEF cs, seen
<1> HIDE DEF more, cs, seen
<1>2. e.verified = verified
  OBVIOUS
<1> HIDE DEF e
<1>5. IsList(more.candidates)
  BY <1>1, <1>3, Appended
<1>6. VerdictsAreSeen(more)
  <2>1. /\ IsList(more.seen) /\ Len(more.seen) = Len(c.seen) + 1 /\ Len(more.candidates) = Len(c.candidates) + 1
        /\ Len(c.seen) = Len(c.candidates) /\ Len(c.candidates) \in Nat
        /\ DOMAIN c.candidates = 1..Len(c.candidates) /\ DOMAIN more.candidates = 1..(Len(c.candidates) + 1)
        /\ DOMAIN c.seen = 1..Len(c.candidates)
    BY <1>1, <1>3, Appended DEF VerdictsAreSeen
  <2>2. ASSUME NEW i \in DOMAIN more.candidates, more.candidates[i].verified = TRUE
        PROVE  more.of.gate /\ more.seen[i] \in Passing
    <3>1. CASE i = Len(c.candidates) + 1
      BY <1>1, <1>2, <1>3, <2>1, <2>2, <3>1, Appended DEF VerdictsAreSeen
    <3>2. CASE i # Len(c.candidates) + 1
      <4>1. i \in DOMAIN c.candidates /\ i \in DOMAIN c.seen
        BY <2>1, <3>2
      <4>2. more.candidates[i] = c.candidates[i] /\ more.seen[i] = c.seen[i]
        BY <1>1, <1>3, <4>1, Appended DEF VerdictsAreSeen
      <4> QED BY <1>1, <1>3, <2>2, <4>1, <4>2 DEF VerdictsAreSeen
    <3> QED BY <3>1, <3>2
  <2> QED BY <2>1, <2>2 DEF VerdictsAreSeen
<1>7. CommandIsSound(more)
  BY <1>1, <1>3, <1>5, <1>6 DEF CommandIsSound
<1> QED BY <1>7 DEF more, e

\* A row is left behind.
LEMMA NextRowGoesOn ==
    \E at \in {"status", "decide"}, row \in {1, command.row, command.row + 1} : NextRow = [command EXCEPT !.at = at, !.row = row]
<1>1. CASE command.row = Len(Tasks)
  BY <1>1 DEF NextRow
<1>2. CASE command.row # Len(Tasks)
  <2>1. NextRow = [command EXCEPT !.at = "status", !.row = command.row + 1]
    BY <1>2 DEF NextRow
  <2> QED BY <2>1
<1> QED BY <1>1, <1>2

\* Every step of the command and of the round that it reads preserves the invariant.
LEMMA SelectStep == SelectInv /\ [SelectNext]_selectVars => SelectInv'
<1> SUFFICES ASSUME SelectInv, [SelectNext]_selectVars PROVE SelectInv'
  OBVIOUS
<1>1. IsCommand(command) /\ CommandIsSound(command)
  BY DEF SelectInv, CommandIsSound
<1>2. ASSUME NEW q \in Questions, AskRoute(q) PROVE SelectInv'
  <2> DEFINE at == IF q.round THEN "status" ELSE "decide"
             cs == IF q.round THEN <<>> ELSE q.file
             asking == [Idle EXCEPT !.of = q, !.at = at, !.candidates = cs]
  <2>0. /\ IsCommand(Idle) /\ Idle.seen = <<>>
        /\ q.round => at = "status" /\ cs = <<>>
        /\ ~q.round => at = "decide" /\ cs = q.file
    BY DEF Idle, IsCommand
  <2>2. command' = asking
    BY <1>2 DEF AskRoute
  <2> HIDE DEF at, cs
  <2>1. IsCommand(asking) /\ asking.of = q /\ asking.seen = <<>> /\ asking.at = at /\ asking.candidates = cs
    BY <2>0 DEF IsCommand
  <2> HIDE DEF asking
  <2>3. IsList(<<>>)
    BY DEF IsList
  <2>4. q.round \/ IsList(q.file)
    BY SelectAssumption DEF IsList
  <2>5. CommandIsSound(asking)
    BY <2>0, <2>1, <2>3, <2>4 DEF CommandIsSound, VerdictsAreSeen
  <2> QED BY <2>2, <2>5 DEF SelectInv
<1>3. CASE ReadStatus
  <2>1. PICK at \in {"result", "status", "decide"}, row \in {1, command.row, command.row + 1} :
          /\ command' = [command EXCEPT !.at = at, !.row = row]
          /\ command.at = "status"
    <3>1. CASE command' = [command EXCEPT !.at = "result"]
      <4>1. command' = [command EXCEPT !.at = "result", !.row = command.row]
        BY <1>1, <3>1 DEF IsCommand
      <4> QED BY <1>3, <4>1 DEF ReadStatus
    <3>2. CASE command' = NextRow
      BY <1>3, <3>2, NextRowGoesOn DEF ReadStatus
    <3> QED BY <1>3, <3>1, <3>2 DEF ReadStatus
  <2>2. /\ IsCommand(command') /\ command'.at = at
        /\ command'.of = command.of /\ command'.candidates = command.candidates /\ command'.seen = command.seen
    BY <1>1, <2>1 DEF IsCommand
  <2> QED BY <1>1, <2>1, <2>2 DEF SelectInv, CommandIsSound, VerdictsAreSeen
<1>4. CASE ReadResult
  <2> DEFINE v == round[Row.id].result
  <2>1. CASE command.of.gate
    <3>1. command.at = "result" /\ command' = [command EXCEPT !.at = "gate"]
      BY <1>4, <2>1 DEF ReadResult
    <3>2. /\ IsCommand(command') /\ command'.at = "gate"
          /\ command'.of = command.of /\ command'.candidates = command.candidates /\ command'.seen = command.seen
      <4>1. command' = [command EXCEPT !.at = "gate", !.row = command.row]
        BY <1>1, <3>1 DEF IsCommand
      <4> QED BY <1>1, <4>1 DEF IsCommand
    <3> QED BY <1>1, <2>1, <3>1, <3>2 DEF SelectInv, CommandIsSound, VerdictsAreSeen
  <2>2. CASE ~command.of.gate
    <3>1. PICK at \in {"status", "decide"}, row \in {1, command.row, command.row + 1} : NextRow = [command EXCEPT !.at = at, !.row = row]
      BY NextRowGoesOn
    <3>2. /\ command.at = "result"
          /\ command' = [NextRow EXCEPT !.candidates = Append(@, [agent |-> Row.agent, verified |-> None, label |-> v]),
                                        !.seen = Append(@, v)]
      BY <1>4, <2>2 DEF ReadResult
    <3>3. command' = [[command EXCEPT !.at = at, !.row = row] EXCEPT
                        !.candidates = Append(@, [agent |-> Row.agent, verified |-> None, label |-> v]),
                        !.seen = Append(@, v)]
      BY <3>1, <3>2, Zenon
    <3>4. None # TRUE
      BY SelectAssumption
    <3> HIDE DEF v
    <3>5. CommandIsSound([[command EXCEPT !.at = at, !.row = row] EXCEPT
                            !.candidates = Append(@, [agent |-> Row.agent, verified |-> None, label |-> v]),
                            !.seen = Append(@, v)])
      BY <1>1, <3>2, <3>4, CandidateIsSeen
    <3> QED BY <3>3, <3>5, Zenon DEF SelectInv
  <2> QED BY <2>1, <2>2
<1>5. CASE RunGate
  <2> DEFINE v == round[Row.id].result
  <2>1. CASE command' = Idle
    BY <2>1, IdleIsSound DEF SelectInv
  <2>2. ASSUME NEW inTime \in BOOLEAN,
               command' = [NextRow EXCEPT !.candidates = Append(@, [agent |-> Row.agent, verified |-> inTime /\ v \in Passing,
                                                                    label |-> None]),
                                          !.seen = Append(@, v)]
        PROVE  SelectInv'
    <3>1. PICK at \in {"status", "decide"}, row \in {1, command.row, command.row + 1} : NextRow = [command EXCEPT !.at = at, !.row = row]
      BY NextRowGoesOn
    <3>2. command' = [[command EXCEPT !.at = at, !.row = row] EXCEPT
                        !.candidates = Append(@, [agent |-> Row.agent, verified |-> inTime /\ v \in Passing, label |-> None]),
                        !.seen = Append(@, v)]
      BY <2>2, <3>1, Zenon
    <3>3. command.at = "gate"
      BY <1>5 DEF RunGate
    <3> DEFINE said == inTime /\ v \in Passing
    <3>4. said = TRUE => command.of.gate /\ v \in Passing
      BY <1>1, <3>3 DEF CommandIsSound
    <3>5. CommandIsSound([[command EXCEPT !.at = at, !.row = row] EXCEPT
                            !.candidates = Append(@, [agent |-> Row.agent, verified |-> said, label |-> None]),
                            !.seen = Append(@, v)])
      <4> HIDE DEF said, v
      <4> QED BY <1>1, <3>3, <3>4, CandidateIsSeen
    <3> QED BY <3>2, <3>5, Zenon DEF SelectInv
  <2> QED BY <1>5, <2>1, <2>2 DEF RunGate
<1>6. CASE Decide
  <2>0. CASE command' = Idle
    BY <2>0, IdleIsSound DEF SelectInv
  <2> SUFFICES ASSUME command' # Idle PROVE SelectInv'
    BY <2>0
  <2>1. /\ command.at = "decide"
        /\ command' = [command EXCEPT !.at = "told", !.decision = route(command.candidates, command.of.config)]
    BY <1>6 DEF Decide
  <2>2. /\ IsCommand(command') /\ command'.at = "told" /\ command'.decision = route(command.candidates, command.of.config)
        /\ command'.of = command.of /\ command'.candidates = command.candidates /\ command'.seen = command.seen
    BY <1>1, <2>1 DEF IsCommand
  <2> QED BY <1>1, <2>1, <2>2 DEF SelectInv, CommandIsSound, VerdictsAreSeen
<1>7. CASE RouteReturns
  BY <1>7, IdleIsSound DEF RouteReturns, SelectInv
<1>8. CASE UNCHANGED command
  BY <1>8 DEF SelectInv, CommandIsSound, IsCommand, VerdictsAreSeen
<1> QED
  BY <1>2, <1>3, <1>4, <1>5, <1>6, <1>7, <1>8 DEF SelectNext, PutStatus, PutResult, selectVars

\* Clean trust goes only to an agent whose result a gate accepted, unverified trust only where
\* no gate ran, to an agent that more than two thirds agree with (route.ts, selector.ts).
THEOREM TrustIsAlwaysEarned == SelectSpec => []TrustIsEarned
<1>1. SelectInit => SelectInv
  BY IdleIsSound DEF SelectInit, SelectInv
<1>2. SelectInv => TrustIsEarned
  <2> SUFFICES ASSUME SelectInv, command.at = "told" PROVE TrustIsEarned
    BY DEF TrustIsEarned
  <2> DEFINE d == command.decision
             cs == command.candidates
             config == command.of.config
  <2>1. /\ IsList(cs) /\ config.threshold \in Int /\ d = route(cs, config)
        /\ command.of.round => VerdictsAreSeen(command)
    BY SelectAssumption DEF SelectInv, CommandIsSound
  <2>2. /\ ExitCode(d) = 0 => \E i \in DOMAIN cs : cs[i].agent = d.pick /\ cs[i].verified = TRUE
        /\ ExitCode(d) = 10 =>
             /\ \A i \in DOMAIN cs : cs[i].verified = None
             /\ config.category \notin config.forced
             /\ config.threshold >= 70 /\ ~config.trustSingleton =>
                  \E i \in DOMAIN cs : /\ cs[i].agent = d.pick /\ cs[i].label # None
                                       /\ 3 * Votes(cs, i) > 2 * Cardinality(Labelled(cs))
                                       /\ Votes(cs, i) > 1
    <3> HIDE DEF cs, d, config
    <3> QED BY <2>1, DecisionIsEarned
  <2>3. command.of.round => \A i \in DOMAIN cs : cs[i].verified = TRUE => command.of.gate /\ command.seen[i] \in Passing
    BY <2>1 DEF VerdictsAreSeen
  <2> HIDE DEF d, config
  <2>4. ExitCode(d) = 0 =>
            \E i \in DOMAIN cs : /\ cs[i].agent = d.pick
                                 /\ IF command.of.round THEN command.of.gate /\ command.seen[i] \in Passing
                                    ELSE cs[i].verified = TRUE
    BY <2>2, <2>3
  <2> QED BY <2>2, <2>4 DEF TrustIsEarned, d, config
<1> QED BY <1>1, <1>2, SelectStep, PTL DEF SelectSpec
=============================================================================
