# FuguNano: a verification development

TLA+ models of the control plane in `src/engine/src`, the TLC configurations that
check them on small instances, and TLAPS proofs of the core's safety properties
for every instance. Paths below are relative to the repository root.

Run TLC with `tlc -config X.cfg M`, the proofs with `tlapm M.tla`.

## 1. The system

FuguNano coordinates coding agents. A task is handed out to one or several agents,
their answers are joined, the changes are integrated, reviewed and fixed in a loop,
and what was learned is fed back into routing. Almost every operation is a short
lived process started from a shell; what the processes share is files. There is no
server. The state therefore lives in files that several processes read, decide on
and write, mostly without a lock, and in the interleaving of the promises inside
one process.

| Part | State it keeps | Operations | What is hard |
|---|---|---|---|
| Outcome log (`domain/outcome-log.ts`) | an append-only JSONL file under `flock`; one id per event, derived from its content | append with dedupe, read | torn and short lines, lock timeouts, an fsync that fails after the write |
| Review dispatch (`domain/review-dispatch.ts`, `domain/dispatch-machine.ts`) | none of its own: it reads the log without the lock, decides, and appends later | dispatch, abandon | stale reads, effects that cannot be undone (a posted review), crashes after the effect, a timeout that races an exit |
| Finals and posteriors (`domain/outcome-log.ts`, `domain/route-posterior.ts`) | the same log | finalize, amend, fold, classify orphans, count the tripwire | late and duplicate signals, corrections, retries of a sync |
| Round join (`app/coordinator.ts`, `adapters/barrier`, `app/wait-for-round.ts`) | a manifest file per round, results, run events; a promise mutex in memory | dispatchRound, mark, open, settle, wait | interleaving at awaits, rejected promises whose siblings go on, expiry against a late answer, restart |
| CLI round cache (`cli/commands/cache.ts`) | manifest, result and status files of a round | init, put, fail, barrier, collect, resume | two processes putting one task, put against fail, crash between result and status |
| Review loop (`domain/loop-decide.ts`, `cli/commands/loop.ts`, `adapters/loop`) | `meta` and `rounds.tsv` | init, record, decide | two files written one after the other, keep-best, the stop rules |
| Run state (`cli/commands/run.ts`) | `run.meta` | set, round, next, clear | a second reading of the cache's and the loop's files |
| Allocation (`cli/commands/allocate.ts`, `adapters/allocation`) | a posterior table and a ledger | record, feed, decay, reset, rank | read-modify-write without a lock, a feed that dies half way |
| `fugue dispatch` (`cli/commands/dispatch.ts`, `domain/runtime-guard.ts`) | what one dispatch leaves: an artifact, a certificate, lines of the TASK, an incident, a ledger row | guard, ask, write, certify, close | five writes one after the other, each of which may fail |
| TASK files and their lock (`adapters/task`, `cli/task-audit.ts`, `infra/file-lock.ts`) | one TASK, one lock file made with `O_EXCL` | new, log, done, audit lines | a writer that replaces the whole file, a lock that nobody steals |
| Skills (`cli/commands/skills.ts`) | a catalog file | index, list, match, show, inject, validate, forge | a scan over directories that change, catalogs rebuilt side by side |
| Integrator (`adapters/integrate`, `cli/commands/integrate.ts`) | git worktrees and the main branch | ownership check, commit, cherry-pick, abort | one agent's conflict and the others, renames and failing calls that the check does not see, a crash between any two calls of git |
| Evolution (`cli/commands/evolve.ts`, `app/evolution-loop.ts`, `adapters/evolution`) | candidates, cases, fitness, a lineage of what was promoted | mine, validate, promote, history, the loop | a promotion on evidence that has gone stale |
| Self-harness (`app/self-harness-loop.ts`, `adapters/self-harness`) | a configuration and its lineage | mine, propose, score, accept | edits that compete, case files and copies of them that the scored agent can rewrite |
| Experience memory (`adapters/experience`, `domain/experience.ts`) | one Markdown file per remembered method | add, learn, promote, recall, policy, audit, eval | read-modify-write, imports that are not to be trusted |
| Packets (`domain/*-packet.ts`, `task-handoff.ts`, `task-context-digest.ts`, `evolution-evidence.ts`) | packet files | incident, recovery, review, handoff, digest, mine | packets of packets, made of texts that move on |
| Runtime (`cli/commands/runtime.ts`, `fleet.ts`) | an installed bundle, the provider's version stamp, daemons | check, adapt, up, down, status | syncs that race or die, daemons that go on with old code |
| Selector and plan panel (`domain/selector.ts`, `cli/commands/route.ts`, `plan.ts`) | none; they read rounds and write plans | route, plan | a round that moves under its reader, planners that outlive their panel |
| Command runner and smoke (`infra/node-command-runner.ts`, `cli/commands/smoke.ts`) | process groups | run with a limit, smoke | signals, exits and pipes in any order |
| Companion (`orchestration/cn-plugin/cn/scripts/cn-companion.mjs`) | none | task, team, ping, setup | launchers that hang, are killed or answer late |
| Everything else | listed in `PROJECT.json` with the reason it is left out | | |

The outcome log is the one store whose rules carry the system's central promise
("a duplicate review on a real PR is worse than a missing one",
`dispatch-machine.ts:19-21`), so it comes first.

Interaction: `fugue route --auto` and `fugue route abandon` are processes over the
log. The outcome sync, for which the code has builders and an append gate but no
writer yet, is the third kind of writer; the models treat it as an external actor
held to that gate. The posterior fold reads the log and steers later routing. In
the engine the coordinator calls agents and marks the barrier; a waiter polls the
same barrier. On the command line the operator does the same by hand through the
cache, and `run next` reads cache and loop to say what comes next.

## 2. Plan

Order of work, most important behaviour first:

1. `OutcomeLog`, `ReviewLedger`, `ReviewDispatch`: done, checked and proved.
2. `Barrier`, `RoundJoin`, `OutcomeFinals`: done, checked and proved.
3. `RoundCache`, `ReviewLoop`, `FugueRun`: done, checked and proved.
4. `Processes`, `TaskFile`, `Allocation`, `RuntimeGuard`, `Dispatch`: done, checked and proved.
5. `Integrate`, `Evolution`, `SelfHarness`, `Experience`, `Runtime`, `Skills`: done, checked
   and proved. `PacketForms`, `PacketFiles`: done, checked.
6. `Runner`, `Smoke`, `Companion`, `PlanPanel`, `Selection`: done, checked and proved.
7. What a proof cannot reach here is listed at the end of section 6.

Abstract specifications: `ReviewLedger` says what dispatch promises, `Barrier` what the
port of `domain/ports/barrier.ts` does; the detailed modules are shown to implement them.

Compositions: `FugueRun` is `RoundCache` with `ReviewLoop` under `run next`; `Dispatch` is
`TaskFile`, `Allocation` and `RuntimeGuard` under one command; `Smoke` runs over `Runner`;
`PacketFiles` and `Evolution` over `PacketForms`. `MCStores` and `MCCommands` compose
nothing: their parts share no state, and one run checks them side by side. `Absent` holds
the one constant that those parts have in common, `None`.

## 3. The modules

### OutcomeLog
The vocabulary the dispatch and the finals share. `AppendVerdict` is what an append
answers for an id that is free, taken by an equal event, or taken by another one;
`AMEND_LATTICE` is the table of amendments that are let through; `EffectiveFinal` is
the final that speaks for a route. Event ids are derived from content, so the log is
a map from ids to events: one slot per id, `None` while it is absent. This is the
map `readOutcomeLog` builds.

### ReviewLedger
The abstract specification. Routes `<<task, epoch>>` are opened once, at most one
candidate is ever started under one, it is closed at most once and truthfully, and
the next epoch opens only behind a route that started nobody or was waived.

### ReviewDispatch
| Model | Code |
|---|---|
| `decided`, `terminal`, `original`, `amendment` | the slots of the log for `route.decided`, `dispatch.terminal` and the two finals of a route |
| `torn` | the file ends in a partial line; every reader and writer throws until it is repaired by hand |
| `pc`, `job`, `todo`, `verdict` | a `fugue route --auto` process: resolved, deciding, trying candidates, a child running, about to append its terminal |
| `giveUp` | a `fugue route abandon` process between its checks and its append |
| `ran` | history: the candidates ever started under a route |
| `Resolve` | `runReviewDispatch` up to the read of the log and `resolveRetryDispatch` |
| `WinRoute`, `LoseRoute`, `DecideFails` | the append of `route.decided` and its answers |
| `NeverSpawned`, `Spawn`, `SpawnErrs`, `SpawnThrows`, `Exhausted` | `runCandidate` and the loop of `dispatchReview` |
| `Completes`, `LosesTrack` | the settled child: a valid answer, or anything else |
| `EmitTerminal`, `EmitFails` | `emitTerminal`, which never throws |
| `AbandonRead`, `AbandonAppend`, `AbandonFails` | `abandonReviewRoute` |
| `SyncFinalize`, `SyncAmend`, `RepairTail` | external: the outcome sync, and the operator's repair |

A lock that is not obtained, a refused clock, a full file and a torn tail are all
"the append throws and nothing was written". `Faults` says which of crash, lock,
torn, unsynced (fsync fails after the write), throw (spawn throws synchronously) and
short (a short write answered as whole) may happen.

Left out: which reviewers are eligible (a ranking is any duplicate-free sequence of
candidates), the Thompson draw, the payload of an answer beyond its receipt's head,
clocks.

### RoundJoin and Barrier
`Barrier` is the port: `Open`, `Mark`, `Settle`, each one step. `RoundJoin` is the
implementation at the grain of its awaits: a promise mutex (`queue`) admits one
client at a time to load, mutate and save the manifest; `worker` is `dispatchOne` of
each call and key; `waiter` is `waitForRound`. `Throws` is a failing read or write in
a critical section; `Crash` kills the process and keeps its files. `Promise.all`
rejects on the first failing worker and leaves the others running, so a later call
meets the stragglers of an earlier one: workers are indexed by call.

### OutcomeFinals
Every writer the log admits, over two routes: decisions, terminals, abandonment,
observed signals, orphan syncs, and submissions of arbitrary finals, well formed or
not, to the append gate. `IsOriginal` and `IsAmendment` are the gate of
`assertAmendmentShape`; `effectiveFinal` is the reader's rule; `Lessons` is the
posterior fold. The point of the module is that the gate and the readers were written
apart and have to agree.

### RoundCache
The files of one round, at the grain of the file operations of each `cache` command.
`manifest`, `temp`, `result` and `status` are the files; `report` is the put or fail at
work on each task, one at a time; `barrier` is a `cache barrier` between two of its
reads; `passed` is what the last barrier of this declaration answered. Init is two
steps, since the directory is removed before its manifest is written. `CommandDies`
stands for a kill and for any call that throws. `Careful` says whether the operator
waits for running commands before a round is declared anew; nothing in the code does.

### ReviewLoop
`decideLoop` and `bestRound` as operators over the table, and the store of
`cli/commands/loop.ts` around them: `meta` and `rounds` are its two files, `row` the
options of the record at work, `reviews` the history of every review made. `SaveBest`
and `AppendRow` are the two writes of `record`; `RecordDies` falls between them. The
gate, the reviewer and the patch are the operator's, after SKILL.md's Phase 5: a commit
is a number and a patch makes a new one.

### FugueRun
The composition. It EXTENDS both and adds `run`: `runRound` is `run.meta`, `look` a
`run next` between its reads. `CacheStep` and `LoopStep` carry the operator's order:
the loop starts behind a barrier that passed, with no command of the round at work,
and the round is not declared anew from then on, nor under a `run next`.

### TaskFile and Processes
`taskFile` is the TASK, `lock` the holder of its lock file, `call` the section a client is
in: `MayEnter`, `Enter` and `TimeOut` are `withFileLock`, `ReadTask` and `WriteTask` the
read and the rename of `FsTaskStore` and `appendTaskAudit`, `Leave` the unlink. `Die` leaves
the lock file behind. A client that does not obtain the lock throws.
When there is no TASK file, the store's own commands (`task log`, `task done`) throw too and an
audit line is dropped. `Processes` holds the constants they share.

### Allocation
`ledger` and `stats` are the two files; `clerk` is an `allocate` command between its read
and its write. A row of the ledger is `<<type, target>>`; one outcome counts `Unit`,
a multiple of `2^MaxDecays`, so that `decay` halves it exactly. `Score` is the posterior mean, compared
by cross multiplication. `excused` is a history variable: it says that a command has
overtaken another, died between its two files, decayed, reset or kept the rows.

### RuntimeGuard and Dispatch
`run[d]` is one `fugue dispatch` between its awaits: `Refuse` is what the parsers reject,
`Guard` and `Reject` the runtime guard, `Start`, `Ask`, `Answer`, `Certify`, `Close`,
`Incident`, `ReadLedger`, `AddRow` the steps in their order, `Throw` the failing write at
any of them, `DispatchDies` a kill. `Answer` judges exit code, artifact and
`--require-output` at once, since nothing is awaited in between but the artifact's write.
`RuntimeGuard` maps the signals that a prompt shows to findings and a disposition.

### Integrate
A tree is the version each file has, one of which is "gone". `tree[a]` is an agent's worktree
with its HEAD, index and files, `main` the tree of the main repository, `stuck` a cherry-pick
in progress there. `Status`, `Add`, `Commit`, `Pick` or `PickFails` and `Abort` are the git
calls of `DefaultIntegrator.integrate` and `GitVcsPort`, each a step of its own; `NoCommit`,
`CommitFails`, `HeadFails`, `PickErrs` and `AbortFails` are their other answers, and `Die` may
fall between any two of them, the pick and its abort included. `Move` is an agent's `mv` or
`git mv`, `Resolve` the operator's `cherry-pick --continue`. `made` is the history of commits
and what became of each, `credit` counts the aborts that were not made against the picks that
were refused for them. Which agents have a worktree is looked up at once (`present`).

What the check sees is what the code lets it see: `changedFiles` leaves out the old path of a
staged rename, as `porcelainPath` does, and a failing `git status`, whose exit code is ignored,
lists any part of the changes or none (`Listings`).

### Evolution
`draft`, `cases` and `fitness` are the files of the command line, `lineage`, `last` and
`history` what the store keeps. `ReadCandidate`, `Score` and `WriteFitness` are `validate`;
`ReadFitness`, `Put` and `WriteSidecar` are `promote`; `ListLineage`, `ReadEntry` and
`WriteHistory` are `history`; `Propose`, `Judge` and `LoopReturns` the `EvolutionLoop`.
`Write` is whoever edits the files meanwhile. A digest is the content it is made from. A
score is a number of cases: those that pass (`Passed`), `samples` times for a rubric.

### SelfHarness
`study` is the loop's run: `Mine`, `ProposeEdits`, then for every trial of every edited
configuration `PrepareCase`, `RunCase` and `JudgeCase`, or `CaseFails` at any of them, then
`Accept`, which merges what `verdict` let through and writes the lineage. `copy` is what the
trial's workspace holds of the case files: the agent that runs there may rewrite it before the
gate runs in the same place, and `Rewrite` changes the source they are copied from. What agents
answer is a constant, good answers and bad ones. A spec may have no cases, or not one in either
half: then every configuration scores nothing and no case is run. The model's lineage rows hold
the text of an edit, which the code's do not, so that the property can tell what became of it.

### Experience
`memory` maps a slug to the record of its file, `memo` is a command between two file
operations: `FirstStep` of add and learn, `Look` and `Promoted` of promote, `ListMemory` and
`ReadFile` of everything that recalls. `Wanted`, `Superseding`, `Fresh` and `Matching` are
the filters of `recall`; `Recalled` is the places of the records that pass them, which
`Ranked` puts in order by counting for each of them who precedes it.

### Runtime
`source` and `target` are bundles as functions from names to contents; a sync is the steps
`Copy`, `Point`, `RemoveWrappers`, `ListSource`, `ListTarget`, `RemoveExtras`, one file
operation each. `Synced`, `Restart` and `Record` are `adapt`; `Up`, `UpEnds`, `Down` and
`FleetStatus` are `fleet`. `settled` and `spared` are history: the targets that an undisturbed
sync left, and the daemons that an adapt failed to stop. A target is only ever settled with
a bundle that can be installed (`Fit`): it has the files a status asks for and none that a
sync removes or writes itself.

### PacketForms and PacketFiles
`PacketForms` is pure: what an incident, recovery, review, handoff, digest and certificate
is made of, as operators over lines reduced to what the patterns see of them. `PacketFiles`
is the commands: the shell empties the output file (`SendFor`), each input is read
(`ReadInput`), the packet is printed. `Rewrite` is the agents, between any two steps.

### Skills
`disk` is what stands where skills are looked for, `catalog` the file, `reader` a command:
`LookAtCatalog`, then a scan (`ListSkills` per directory, `pushSkill` per file,
`WriteCatalog`, `ReadCatalog`) or not, then the answer. `bounds` is history: the skills that
stood during the whole of the scan the catalog is from, and those that stood at some time.

### Runner and Smoke
`proc[j]` is a child as leader of its group, a process it leaves behind (`heir`), the pipe,
the two timers and the result. `World` is what the processes do, `Watch` the runner:
`TimeIsUp` (SIGTERM to the group), `ForceKill` (SIGKILL a second later), `Close`. `Smoke`
tells the TASK, asks every runtime at once, keeps the answers and says GO.

### Companion, PlanPanel, Selection
`Companion`: `ping` is the `spawnSync` at work, which returns when its launcher ends and not
when its time is up (`PingIsLate`). `child` and `promise` per member make a launcher's end and
the settling of its run two steps; a late child is asked to end and not waited for, but the
process goes (`Goes`) only when none is left. `PlanPanel`: planners and panels that die, with
`orphans` that go on writing. Every file and every line of the TASK that a panel writes may fail
it (`Throws`, `StartUntold`, `TellPart`, `PanelReturns`), at each place with what has been
written by then; `PipeBreaks` is `main.ts`, which ends any command with 0 when its output is
closed. `flaw` is history: what broke the panel. `Selection`: the selector over a file of
candidates, or over a round read task by task (`ReadStatus`, `ReadResult`, `RunGate`) while
agents put results. A gate may time out whatever the result is; the threshold is looked at
after all of that (`Decide`), as the command does. A cluster is the places of the candidates of
one label.

### MCStores and MCCommands
Model-checking modules that EXTEND the parts above (`PacketFiles` is an INSTANCE) and give
their constants values. `part` picks one part in the initial state and nothing else moves.
The properties are the parts' own. Labels of candidates are told apart and nothing else, so
that files of candidates are enumerated up to their names (`NamedInOrder`).

## 4. The runs

| Run | Shows | Bounds, and why they are enough |
|---|---|---|
| `review_dispatch` | one dispatcher per route, terminals that tell the truth, one admission per task, one review unless abandoned, the refinement of `ReviewLedger` | one task (the code shares nothing between tasks but the torn tail), two dispatchers and an operator (races are between two readers of the log), two candidates (one fallback), one retry (two epochs; the chain rule looks at the epoch before). The proofs cover the rest |
| `review_dispatch_live` | every decided route is given its terminal | the same, without faults: with them it is false by design, since a lost terminal is not retried |
| `epoch_race`, `short_write`, `integrate_skip`, `integrate_rename` | expected violations, see section 7 | |
| `round_join` | the barrier is atomic, done keys have results, returned rounds are joined, every wait ends | two keys, two calls of the round, one waiter, one crash or any number of failing writes: a straggler, its successor and the expiry. The proofs cover the rest of what is safety |
| `outcome_finals` | verdicts only rise and successes are kept (`NothingIsUndone`), corrections stay possible and the tripwire counts routes (`CorrectionsStand`), one lesson per route | two routes (one can shadow another), two candidates, one outside executor, six events: decision, terminal, original, signal, amendment of one route and one event of the other; the proofs cover the rest |
| `fugue_run` | done tasks are cached, a passed barrier is earned, the advice of `run next` is safe; keep-best through crashes, DONE is earned, the loop is bounded | two tasks (one is looked at while the other moves), a manifest that names one task twice, every command that may die, a loop with a cap of one. And the loop alone, with caps of one and two (one round at the cap, one below) and zero or one finding (equal, more and fewer); the proofs cover the rest |
| `dispatch` | what a dispatch leaves tells one story, every outcome is counted once, the ranking is earned, the TASK's record only grows, an answered dispatch ends | five workloads of two dispatches (everything asked for, next to the TASK's commands; two that leave rows, next to two allocator commands; the guard's three modes; what the parsers refuse), each write may fail, each process may die. A lock is between two holders and one who waits. The allocator's commands are given once each dispatch has come to the ledger (`OrderedSpec`): what comes before it commutes with them. The proofs cover the rest of what is safety |
| `stores` | the eight parts of `MCStores`, each by its properties: `LandsOwnAndWhole`, `AbortIsolates` (integrator), `LineageIsEarned` (evolution), `LineageTellsTheConfig`, `PinnedRulesHold` (self-harness), `ImportsAreContained` (experience), `SyncSettles`, `StampIsBacked` (runtime), `PacketsTellTheirSource` (packets), `CatalogIsOfOneScan` (skills) | two agents, one of which owns one of two files and the other both, three edits or renames and two runs in which any call of git fails and any step is the last; three candidate files, of which two share a lineage name, three commands; two rounds of two surfaces; three requests and two slugs that coincide; two processes on one target, one edit of its source; three packet commands and one rewrite; two skill commands over one id in two places, and one edit. Two processes stand for any number: no command waits for another, so what one sees of the rest is a state that changed |
| `commands` | GO is earned and every smoke ends, a team's report accounts for all and is given, plans are fresh and summary and exit status agree, trust is earned | two runtimes (one may fail while the other runs) with one fault; nine command lines of the companion; two panels (one that dies, one that follows) with two targets of one file name and two faults; rounds of three tasks and files of up to five candidates (a quorum of two thirds, at and below it) |

`CHECK_DEADLOCK FALSE` is set where the system may stop: nobody has to dispatch, and
a round that was joined is over, an operator need not give another command.

Every property of a passing run has a mutant in `PROJECT.json`: an operator of the
module, named after the one it replaces (`Picked_Tree` for `Picked`), that changes the model
the way a plausible mistake in the code would, and that makes the property fail.

## 5. Fairness

- `ReviewDispatch`: `WF_vars(Step(d))` for each started dispatch. Its event loop runs
  on, a running child is ended by the dispatch timer (`LosesTrack`), and the append's
  lock is waited for at most five seconds. Nobody is assumed to start a dispatch, to
  abandon, to sync, or to repair.
- `RoundJoin`: `WF_vars(Section)` (the mutex chain is driven by the event loop),
  `WF_vars(Poll)` and `WF_vars(DeadlinePasses)` (the waiter's sleep and the clock).
  Agents are never assumed to answer: a harness has no timeout unless one is
  configured. `EveryWaitEnds` therefore rests on the waiter's deadline alone.
- `Dispatch`: `WF_vars(Runs(d) \/ Locked(d))`: a process that is not dead goes on, and where
  it waits for a lock, polls it or gives up after ten seconds. The
  agent's answer is not fair, so `DispatchEnds` begins with it.
- `Smoke`: the event loop goes on (`Asking`, `Watch`, `Summary`, `Verdict`); the timers are
  part of `Watch`. What the processes do is not fair: `EverySmokeEnds` rests on SIGKILL and
  on a command that leaves nobody behind to hold its pipe outside its group.
- `Companion`: the event loop and the timers (`Begin`, reports, `pingModel`, `PingIsLate`,
  `Reacts`). A launcher need not end, whether it was asked to or not. `CompanionAnswers`
  therefore has a condition: no ping waits for ever on a launcher that ignores its SIGTERM.
- `MCStores` states none: its properties are about safety.

## 6. What is proved

`ReviewDispatchProofs`, for any sets of tasks, candidates, dispatchers, operators and
any number of epochs:

| Theorem | States | Assumes |
|---|---|---|
| `TypeCorrect` | `Spec => []TypeOK` | nothing about the faults |
| `LogGrows` | `Spec => LogOnlyGrows` | nothing about the faults |
| `DispatchInvCorrect` | `Spec => []DispatchInv` | whole writes |
| `OneDispatcher`, `TerminalIsTrue`, `AdmissionIsFrozen`, `NoSecondReview` | the four safety properties | whole writes |
| `Implements` | `Spec => Ledger!Spec` | whole writes |

"Whole writes" is `"short" \notin Faults`, an assumption that the run `short_write`
shows to be needed: the code does not look at what `writeSync` has written.

The argument. None of the four safety properties is inductive. `NoSecondReview` says
that two epochs in which somebody was started are separated by an abandoned route; a
step that starts a candidate preserves that only because (a) the process that starts
one has won its route and nobody was started under it (`EngagedOwn`), (b) nobody else
is engaged on it (`OneDispatcherPerRoute`), and (c) every earlier epoch of the task is
settled (`Chained`). (c) is decided on a log read some time before the append, so the
invariant must say of a process between the two that its chain holds already
(`ReadersBehind`); that survives other processes' steps because the log only grows and
because a settled route stays settled (`AmendmentsDecide` keeps an amendment from
turning an abandoned route into something else). `TerminalTellsTruth` then excludes
that a route settled by `DISPATCH_FAILED` had started anybody. `UnopenedUntouched` is
what the appender of a fresh route relies on. The refinement follows from the same
invariant: each action maps to one step of the ledger or to none.

`FugueRunProofs` has three parts. Of the cache, for any tasks and manifests, under `Careful`:
`DoneIsCachedAlways` and `PassIsEarnedAlways`. The invariant says of a put that its
copy is whole before it is placed and its result before its status (`PutsAreOrdered`),
and of a barrier that every task behind it has returned and, on its second reading,
has a result (`BarrierKnows`). It survives other commands because a status is never
taken back and a whole result is never replaced by less (`Grows`).

Of the review loop, for any caps, any number of findings and of dying records:
`KeepBestAlways`, `DoneIsEarnedAlways`, `LoopIsBoundedAlways`. DONE is decided from
the table, while the property speaks of the reviews: the invariant keeps an injection
from rows to reviews (`RowsWereReviewed`), which a record that is made again does not
break. Keep-best needs two parts, since a death between the two writes leaves `meta`
ahead of the table: `BestIsLeast`, which holds always, and `BestIsFirst`, which says
what `meta` names as long as no review was made in vain. `RoomForOneMore` bounds the
table: the loop goes on at the cap only to confirm, and not twice.

Of the run, under `Careful`: `CacheIsItself` and `LoopIsItself` (a run is a
behaviour of each part, so the theorems above hold in it) and `AdviceIsSafeAlways`,
from the two invariants, from `LoopFollowsPass` (a loop was begun behind a barrier that
passed) and from what a `run next` knows of the statuses behind it (`LookKnows`).

`Careful` is an assumption on the operator that the code does not enforce: `cache init`
removes the round's directory whatever is at work in it, and a put that goes on marks
its task done in the new directory, without a result (see the hazards in
`PROJECT.json`).

`RoundJoinProofs`, for any keys, calls, waiters and faults: `RoundInvCorrect`,
`DoneHasResultAlways`, `ReturnsAreJoinedAlways`, and `Implements`, by which the barrier at
the grain of its awaits is the one of `Barrier`. A key is marked in three steps, load,
change and save, between which anybody may be scheduled; that it is still one step of
the port rests on `LoadedIsCurrent` (what the holder of the mutex has loaded is what the
file says) and that on `QueueTellsWhoWaits` (the head of the queue and nobody else is in
a section). `DoneHasResult` needs of the workers that whoever asks for a mark has its
result in the store (`WorkersHaveDone`), which a failing write or a crash before it does
not change. What a call returns is true of its own opening of the round (`CallIsOpen`).

`OutcomeFinalsProofs`, for any routes, candidates, strangers and sources and a log of any
length: `FinalsInvCorrect`, `OneLessonPerRouteAlways`, `CorrectionsStandAlways` and
`NothingIsUndoneAlways`. The invariant is `WellFormed` of the log: ids are unique, and a
final is either the first of its route or corrects one, along the lattice. From that alone
the readers are shown to agree: a route has one final or two (`OneOrTwoFinals`), an
amendment speaks as soon as it is there, and no step of a writer can lower a verdict.

`DispatchProofs`, for any dispatches, clients of the TASK, clerks, ledgers and benches:

| Theorem | States | Assumes |
|---|---|---|
| `DispatchInvCorrect` | `Spec => []DispatchInv` | nothing about the faults |
| `OneStoryAlways` | what a dispatch leaves tells one story | nothing about the faults |
| `CountedOnceAlways` | while nothing excuses it (`excused`), the evidence and the ledger count every outcome once | nothing about the faults |
| `RecordOnlyGrowsAlways` | no line of the TASK is lost, DONE stays | nothing about the faults |
| `RankIsEarnedAlways` | the ranking departs from the bench by evidence | benches of at most five |

The TASK is replaced as a whole, so `RecordOnlyGrows` needs that what a writer has read is
what the file says when it writes: `TaskInv` makes whoever is in a section the holder of
the lock, which nobody else takes and which a death leaves taken. `Story` says of each
dispatch which line it is writing (`Speaks`), which lines it has written (`Said`) and what
its files hold (`Holds`); it survives the others because a dispatch touches nothing but its
own record, and the TASK only through its call. `CountedOnce` speaks of moments at which no
feed is under way; the invariant balances every moment: paid in and in the ledger is
counted once, or a second time by a feed that has paid and not yet cleared its row
(`Balanced`, with `FedBy` the rows of the feeds under way).

`RankIsEarned` compares fractions by cross multiplication, for any amount of evidence.
`ShortBenches` is needed, and no run has a bench that shows it: the prior of an agent that
is not on the bench is 3/20, which from six on exceeds the last's, 1/(n+1). There an
unlisted agent whose only evidence is a failure that has decayed may go before a listed one
that has none, and from ten on one with a whole failure. The longest bench in
`src/orchestration/fuguectl/allocation.tsv` has four.

`IntegrateProofs`, for any agents, files, lists, manifest and number of runs:
`IntegrateInvCorrect`, `AllOrNothingAlways` and `AbortIsolatesAlways`, whatever dies, fails
or edits late, and `LandsOwnAndWholeAlways` when no agent edits under the integrator
(`"late" \notin Faults`: the check and `git add` read the files at different times). That
main never has what a commit in conflict brought, and that what was picked is not taken
back by a later pick, rests on an order: an agent's versions only rise, so that HEAD is
behind the index and the index behind the files (`IsWorktree`), and of an author's commits
each begins where the ones before have ended (`CommitInv`). Hence what the commit at hand
brings is new to every other commit (`NothingComesBack`). `OwnedInv` carries the check from
`git status` over `git add` to the commit, for all but the files that a rename takes away and
for a listing that is complete: of the rest the code promises nothing (`integrate_rename`).
`AbortIsolates` counts: while every run aborts, a pick is in progress only behind an abort
that failed or was cut off, or just before one, and each such abort is worth one refusal
(`CreditInv`).

`CommandsProofs`, one inductive invariant for each part:

| Theorem | States | Argument |
|---|---|---|
| `GoIsAlwaysEarned` | GO is said only when every runtime ended well and the TASK and the artifacts say so | `SmokeInv`: a good result is what its process did (`ResultIsTrue`), however its group is killed and whatever it leaves behind, and from its artifact on each job has that result (`JobIsTold`) |
| `TeamIsAlwaysAccountedFor` | a team's report tells of every member, truly | `CompanionInv`: a run that closed closed as its launcher ended (`ClosedAsEnded`); when a report is made nothing is open, so that it stays true while late launchers end (`ReportIsFinal`) |
| `PlansAreAlwaysFresh` | a plan that counts was written while its panel was at work; the summary's exit code is 0 exactly if that is all or enough, and is the exit status but after a failing write or a closed output | `PanelInv`: from the removal of its file on, a target has no plan or one of this panel (`PartIsFresh`), planners of dead panels among those who write; the summary tells how planners stand that do not move any more (`SummaryTells`). Assumes that `None` is no plan and no summary |
| `TrustIsAlwaysEarned` | trust is behind a gate or a quorum | `SelectInv`: a candidate's verdict is of a result that was seen (`VerdictsAreSeen`), the decision is `route` of the candidates. That `(k + 1) / (n + 2)` at a threshold of 70 or more, of more than one candidate, is more than two thirds is `QuorumIsTwoThirds`, for all numbers |

`StoresProofs`, for any values of the constants; the assumptions are the types of what
operators and agents give (lists are lists, bounds are numbers, sets of files finite):

| Theorem | Inductive invariant and why it is needed |
|---|---|
| `StampIsAlwaysBacked`, `SyncAlwaysSettles` | `RuntimeInv`. The stamp is written after the restarts, so an adapt must be known to have left no older daemon behind among the projects it has passed (`WorkIsBacked`), while others start daemons and the provider is upgraded. A sync takes six kinds of steps at a target, next to others of the same target: `Knows` says what holds at each of them that no sync of the same source undoes; an edit of the source, a death or another's last step disturbs it. A settled target has nobody at work in it (`SettledIsAlone`) |
| `CatalogIsAlwaysOfOneScan` | `SkillInv`. A scan passes directories and files one by one while skills come and go: `ScanIsHonest` says that what stood all along was found or is still to be passed, that nothing was found that was never there, and that no directory is passed twice |
| `LineageAlwaysTellsTheConfig`, `PinnedRulesAlwaysHold` | `StudyInv`. Of a surface at most one edit is promoted, the one that gained most: that the maximum exists and that merging applies it once is shown of `promoted` and `mergeAccepted` for edits of any number. A trial begins under the pinned rules and is judged under them, or under what its own agent made of its copy (`PinsHold`) |
| `LineageIsAlwaysEarned` | `EvolveInv`. `validate` and `promote` are two commands: what lies in the fitness file, in a command between two steps, in the lineage and in each sidecar is the score of a candidate and of cases that were judged together (`FitnessIsScored`, `EntryIsEarned`), although both files may have been rewritten since. `TimesKeepOrder` carries a gain over `samples` looks to a gain in cases |
| `ImportsAreAlwaysContained` | `MemoryInv`. A promotion writes back the record it has read, over whatever stands there: the record at hand names an origin and its confirmations are others (`KeeperFits`), and each stored record of an imported text says so (`IsContained`). That a recall hides nothing but behind a trusted record (`RecallHides`) rests on the order of `Precedes`: no two records have one rank, so all that passed the filters are in the answer, unless it is full |

Three of these proofs found what TLC had not on the instances at hand: a bundle that holds
the file which a sync writes itself may stay unsettled (`Fit` now excludes it); the model never ended
a study without cases, which the code scores with nothing (`ProposeEdits`); and
`OnlyTrustedHides` had let a record be hidden by itself.

Only model-checked:

- Liveness (`EveryRouteEnds`, `EveryWaitEnds`, `DispatchEnds`, `EverySmokeEnds`,
  `CompanionAnswers`): the provers have neither ENABLED nor fairness here.
- `PacketsTellTheirSource` of `PacketForms` and `PacketFiles`. A packet is computed from lists
  of any length by `SelectSeq` and `FlattenSeq`. The library's lemmas about these take an
  operator as a parameter, which no prover here can instantiate, so each use would need an
  induction of its own. It would also need the operator's wiring of files to commands as an
  assumption: the model says what a text is, not what a packet is that is read as one.
- What the commands of the memory answer beyond a recall: what fits in a prompt, the audit,
  the benchmark. No property speaks of them.

## 7. Findings

Checked by a run that TLC finds violated:

- `epoch_race` (code): `isEpochRetryable` is documented never to open an epoch after a
  candidate provably or possibly ran. The log is read without the lock and used 72 lines
  later; a terminal that lands in between is not seen.
- `short_write` (code): `appendOutcomeEvent` ignores how much `writeSync` wrote. A
  dispatch whose `route.decided` was cut short starts its reviewer all the same, and
  after the repair the same task is given out again.
- `integrate_skip` (code against a comment): with `--onconflict skip` the first conflict's
  cherry-pick stays in progress, and the next agent's pick fails for it, although
  `default-integrator.ts:8-9` says that a conflict stops only its agent.
- `integrate_rename` (code): the ownership check reads the new path of a rename alone
  (`git-vcs.ts:8-12`), so an agent that moves another's file with `git mv` to a path of its
  own is let through and the commit deletes that file, although SKILL.md:207 says that it is
  held back whole.

Met while modelling and not given a run of their own:

- A receipt must name the dispatched head (the schema's comment), and nothing compares them.
- A retried orphan sync is not a no-op once another signal has arrived, as its comment says:
  the other payload is refused as a conflict.
- ACCEPTED rounds are counted over the whole table (`loop-decide.ts:80`), so a patch between
  two of them does not start the confirmation again, which SKILL.md:245 may be read to say.
- The exit code of `git status` is not looked at (`git-vcs.ts:29-33`): where it fails, the
  ownership check passes. That of `git cherry-pick --abort` is not either (63): where it fails,
  or the integrator dies before it, the next agent's cherry-pick is refused for it.
- `fuguectl plan` exits with 1 beside a summary whose exit code is 0 when the line of the TASK
  behind it cannot be appended (`plan.ts:358`).
- `cn-companion ping` has a limit of ten seconds that a launcher can ignore: `spawnSync` sends
  SIGTERM and waits on (`cn-companion.mjs:285`).
- `route --round` trusts two done tasks of three that agree: who has not answered is not
  counted against the quorum (`route.ts:75`).
- Keep-best looks at findings alone: a commit that failed its gate stays the best.
- `dispatch.ts:584-590` says that the incident packet is consumable by the rest of the loop;
  `--incident` writes `{incident, recovery}`, which neither `evolve mine` nor `incident
  recovery` recognises. The failure kinds empty-output, artifact-write-failed and a silent
  rc 124 match no incident pattern, so that their recovery is blocked.
- `loop.ts:292` says that `--review` reads a raw review or an already rendered packet; a
  rendered packet (`verdict=NEEDS_FIX`) does not match the expression and reads as UNKNOWN.
- `loop.ts:291-293` says that values passed explicitly win; a review whose verdict is UNKNOWN
  is refused with "pass --verdict explicitly" although `--verdict` was passed.
- `skills forge` advises `skills validate NAME` when the worker is done; validate looks the
  name up in the catalog first, and may judge another file of that id than the forged one.
  The catalog keeps the first path of an id, the engine's `FsSkillCatalog.inject` the last.

## 8. Not modelled

`PROJECT.json` lists every component with its status. What is left out, and why:

- Reviewer eligibility, config parsing and the Thompson draw (a ranking is any duplicate-free
  sequence, which is all that dispatch relies on), and every other float.
- The engine's persistent loop, run and allocation stores: whole-file writes under the mutex
  that `RoundJoin` models, around functions that are modelled with the command line's stores.
- Policy, agent registries, doctor, preflight, init, template, summary: tables, probes and
  prints. Nothing is decided on their output but what the models take as an outcome.
- `delivery-verdict.ts`: nothing but its test calls it.
- Secret guards, redaction, ownership globs, and the expressions behind a packet's lines:
  pattern matching over one text. A text is what the patterns see of it.
- The goal gate: it parses a goal file and runs one command through the runner that `Runner`
  models.
- The adapters' command lines and the ACP session's messages: text.
- The model launcher (`backends/bin`): tables of environment variables and a child that is
  waited for; the settings file it writes is the provider's own.
- That any command ends with 0 when its output is closed (`main.ts:5`) is modelled in
  `PlanPanel`, whose summary it contradicts, and in no other command.
- The fuguectl shims, the workflow prompts, wiring, the documentation checker, benchmarks.
