------------------------------ MODULE Integrate ------------------------------
(***************************************************************************)
(* `fugue integrate` (src/engine/src/cli/commands/integrate.ts) over the   *)
(* DefaultIntegrator and the GitVcsPort: the work of each agent's worktree *)
(* is checked against the ownership manifest, committed there and          *)
(* cherry-picked onto the main repository, one agent after the other.      *)
(* An agent whose task has timed out may be at work still; the integrator  *)
(* may die; the operator resolves what it leaves and runs it again.        *)
(*                                                                         *)
(* A tree is the version each path has.  A version is <<who, n, like>>:    *)
(* whose n-th edit made it, and the path at which the file it descends     *)
(* from first was, or "gone".  Edits of one file by two agents conflict; a *)
(* file that is moved is edited by it.                                     *)
(*                                                                         *)
(*   main     the tree at HEAD of the main repository                      *)
(*   stuck    the commit whose cherry-pick is in progress there, or None   *)
(*   tree     per agent, its worktree: the trees at HEAD, in the index and *)
(*            in the files; None while there is no worktree                *)
(*   job      the integrate command at work, or None; jobs: the modes of   *)
(*            those that were given                                        *)
(*   made     history: the commits made, with what became of each          *)
(*   credit   history: the cherry-picks that were to be aborted and were   *)
(*            not, less the picks that git refused for no conflict         *)
(***************************************************************************)
EXTENDS Absent, Integers, SequencesExt, FiniteSetsExt

CONSTANTS
    Agents,
    Files,
    NewFiles,   \* the paths at which there is nothing at first
    Integrations,   \* the options an operator may give: --agents, --onconflict, --ownership, --dry
    Owned,      \* agent -> the files it may change, as the manifest has it
    MaxEdits,   \* how often the agents edit, together
    MaxJobs,    \* how often integrate is run
    Faults      \* which of "crash", "io" (a call of git fails of itself, and changes nothing)
                \* and "late" (an agent edits during integrate) may happen

Likes == Files \cup {"gone"}
Bases == {"base"} \X {0} \X Likes
Versions == (Agents \X (Nat \ {0}) \X Likes) \cup Bases \cup ({"operator"} \X {1} \X Likes)
Trees == [Files -> Versions]
Worktrees == [head : Trees, index : Trees, files : Trees]
Commits == [by : Agents, from : Trees, to : Trees, checked : BOOLEAN]
Jobs == [left : Seq(Agents), present : SUBSET Agents, mode : {"abort", "skip"},
         owners : BOOLEAN, dry : BOOLEAN, checked : BOOLEAN,
         step : {"status", "add", "commit", "pick", "abort"},
         commit : Commits \cup {None}]

ASSUME IntegrateAssumption ==
    /\ Owned \in [Agents -> SUBSET Files]
    /\ NewFiles \subseteq Files /\ "gone" \notin Files
    /\ MaxEdits \in Nat /\ MaxJobs \in Nat
    /\ Integrations \subseteq [agents : Seq(Agents), mode : {"abort", "skip"}, owners : BOOLEAN, dry : BOOLEAN]
    /\ \A r \in Integrations : IsInjective(r.agents)
    /\ Agents \cap {"base", "operator"} = {}
    /\ None \notin Worktrees /\ None \notin Commits /\ None \notin Jobs

VARIABLES main, stuck, tree, edits, job, jobs, made, credit

vars == <<main, stuck, tree, edits, job, jobs, made, credit>>

Like(version) == version[3]
Gone(version) == Like(version) = "gone"

Original == [f \in Files |-> <<"base", 0, IF f \in NewFiles THEN "gone" ELSE f>>]

Differ(s, t) == {f \in Files : s[f] # t[f]}

Init ==
    /\ main = Original
    /\ stuck = None
    /\ tree = [a \in Agents |-> None]
    /\ edits = [a \in Agents |-> 0]
    /\ job = None
    /\ jobs = << >>
    /\ made = {}
    /\ credit = 0

-----------------------------------------------------------------------------
(* The agents, and the operator at the main repository.                    *)

MayEdit(a) ==
    /\ job = None \/ "late" \in Faults
    /\ SumFunction(edits) < MaxEdits

\* A worktree begins at what the main repository had at first.
Before(a) ==
    IF tree[a] = None THEN [head |-> Original, index |-> Original, files |-> Original] ELSE tree[a]

Edit(a, f) ==
    /\ MayEdit(a)
    /\ edits' = [edits EXCEPT ![a] = @ + 1]
    /\ LET old == Before(a).files[f]
           new == <<a, edits[a] + 1, IF Gone(old) THEN f ELSE Like(old)>>
       IN  tree' = [tree EXCEPT ![a] = [Before(a) EXCEPT !.files = [@ EXCEPT ![f] = new]]]
    /\ UNCHANGED <<main, stuck, job, jobs, made, credit>>

\* The tree in which f was moved to g by a's n-th edit.
MoveIn(t, a, n, f, g, like) == [t EXCEPT ![f] = <<a, n, "gone">>, ![g] = <<a, n, like>>]

\* `mv`, or `git mv` and `git add`, which stage it.
Move(a, f, g, staged) ==
    /\ f # g /\ ~Gone(Before(a).files[f]) /\ Gone(Before(a).files[g])
    /\ MayEdit(a)
    /\ edits' = [edits EXCEPT ![a] = @ + 1]
    /\ LET Moved(t) == MoveIn(t, a, edits[a] + 1, f, g, Like(Before(a).files[f]))
       IN  tree' = [tree EXCEPT ![a] =
                      [Before(a) EXCEPT !.index = IF staged THEN Moved(@) ELSE @, !.files = Moved(@)]]
    /\ UNCHANGED <<main, stuck, job, jobs, made, credit>>

\* The fate of a commit: "new" until its cherry-pick returns.
Fate(c, fate) == (made \ {[commit |-> c, fate |-> x] : x \in {"new", "conflict"}})
                    \cup {[commit |-> c, fate |-> fate]}

\* The operator resolves a cherry-pick that was left in progress, and continues it.
Resolve ==
    /\ job = None /\ stuck # None
    /\ main' = [f \in Files |-> IF f \in Differ(stuck.from, stuck.to) THEN <<"operator", 1, f>>
                                ELSE main[f]]
    /\ stuck' = None
    /\ made' = Fate(stuck, "resolved")
    /\ UNCHANGED <<tree, edits, job, jobs, credit>>

-----------------------------------------------------------------------------
(* The command.  Which agents have a worktree is looked up first.  What     *)
(* refuses the command (options, no repository, a handoff that is blocked,  *)
(* no manifest) does so before anything is changed.                         *)

Integrate(r) ==
    /\ job = None
    /\ Len(jobs) < MaxJobs
    /\ jobs' = Append(jobs, r.mode)
    /\ job' = [left |-> r.agents, present |-> {a \in Agents : tree[a] # None}, mode |-> r.mode,
               owners |-> r.owners, dry |-> r.dry, checked |-> FALSE, step |-> "status", commit |-> None]
    /\ UNCHANGED <<main, stuck, tree, edits, made, credit>>

At(step) == job # None /\ job.left # << >> /\ job.step = step

Agent == Head(job.left)
Its == tree[Agent]

\* The next worktree's turn, whatever became of this one's.
NextAgent == job' = [job EXCEPT !.left = Tail(@), !.step = "status", !.checked = FALSE, !.commit = None]

\* Bug: what is staged already is not looked at.
changedFiles_Unstaged == Differ(Its.index, Its.files)

\* The paths that `git status` shows as the old ones of staged renames, 'R old -> new'.
OldPaths ==
    {f \in Files : /\ ~Gone(Its.head[f]) /\ Gone(Its.index[f])
                   /\ \E g \in Files : /\ Gone(Its.head[g])
                                       /\ Like(Its.index[g]) = Like(Its.head[f])}

\* `git status --porcelain --untracked-files=all`; porcelainPath keeps the new path of a rename.
changedFiles == (Differ(Its.head, Its.index) \ OldPaths) \cup Differ(Its.index, Its.files)

\* What is taken for the listing: all of it, or what a failing `git status` had written by
\* then, for its exit code is not looked at.
Listings == {changedFiles} \cup {part \in SUBSET changedFiles : "io" \in Faults}

violatingFiles(a, changed) == changed \ Owned[a]

\* An agent without a worktree is missing, and passed over.
Missing ==
    /\ At("status")
    /\ Agent \notin job.present
    /\ NextAgent
    /\ UNCHANGED <<main, stuck, tree, edits, jobs, made, credit>>

Status ==
    /\ At("status")
    /\ Agent \in job.present
    /\ \E listed \in Listings :
          IF job.dry \/ (job.owners /\ violatingFiles(Agent, listed) # {}) THEN NextAgent
          ELSE job' = [job EXCEPT !.step = "add", !.checked = job.owners /\ listed = changedFiles]
    /\ UNCHANGED <<main, stuck, tree, edits, jobs, made, credit>>

\* `git add -A`: the files as they are by now.  Its exit code is not looked at.
Add ==
    /\ At("add")
    /\ \/ tree' = [tree EXCEPT ![Agent] = [@ EXCEPT !.index = Its.files]]
       \/ "io" \in Faults /\ UNCHANGED tree
    /\ job' = [job EXCEPT !.step = "commit"]
    /\ UNCHANGED <<main, stuck, edits, jobs, made, credit>>

\* `git diff --cached --quiet`, and `git commit` when there is something staged.
NoCommit ==
    /\ At("commit")
    /\ Its.head = Its.index
    /\ NextAgent
    /\ UNCHANGED <<main, stuck, tree, edits, jobs, made, credit>>

\* The commit fails and leaves the index as it is; a `git diff` that fails is taken for
\* something staged, and where there is nothing, the commit fails for it.
CommitFails ==
    /\ At("commit")
    /\ "io" \in Faults
    /\ NextAgent
    /\ UNCHANGED <<main, stuck, tree, edits, jobs, made, credit>>

Commit ==
    /\ At("commit")
    /\ Its.head # Its.index
    /\ LET c == [by |-> Agent, from |-> Its.head, to |-> Its.index, checked |-> job.checked]
       IN  /\ job' = [job EXCEPT !.step = "pick", !.commit = c]
           /\ made' = made \cup {[commit |-> c, fate |-> "new"]}
    /\ tree' = [tree EXCEPT ![Agent] = [@ EXCEPT !.head = Its.index]]
    /\ UNCHANGED <<main, stuck, edits, jobs, credit>>

\* `git rev-parse HEAD` fails: the commit is made, and nobody picks it.
HeadFails ==
    /\ At("pick")
    /\ "io" \in Faults
    /\ made' = Fate(job.commit, "orphaned")
    /\ NextAgent
    /\ UNCHANGED <<main, stuck, tree, edits, jobs, credit>>

\* The commit changes what main has as the commit found it.
Fits(c) == \A f \in Differ(c.from, c.to) : main[f] = c.from[f]

\* Git refuses the pick also while another is in progress.
Applies(c) == stuck = None /\ Fits(c)

\* Bug: the tree of the commit is taken, and not its changes.
Picked_Tree(c) == c.to

Picked(c) == [f \in Files |-> IF f \in Differ(c.from, c.to) THEN c.to[f] ELSE main[f]]

Pick ==
    /\ At("pick")
    /\ Applies(job.commit)
    /\ main' = Picked(job.commit)
    /\ made' = Fate(job.commit, "picked")
    /\ NextAgent
    /\ UNCHANGED <<stuck, tree, edits, jobs, credit>>

\* Bug: the two modes are mistaken for each other.
MustAbort_Swapped == job.mode = "skip"

MustAbort == job.mode # "skip"

\* What follows a failing `git cherry-pick`, as another call.
AfterFailure ==
    IF MustAbort THEN job' = [job EXCEPT !.step = "abort", !.commit = None] ELSE NextAgent

\* `git cherry-pick` conflicts and is in progress, or is refused as another one is.
PickFails ==
    /\ At("pick")
    /\ ~Applies(job.commit)
    /\ stuck' = IF stuck = None THEN job.commit ELSE stuck
    /\ made' = Fate(job.commit, "conflict")
    /\ credit' = IF Fits(job.commit) THEN credit - 1 ELSE credit
    /\ AfterFailure
    /\ UNCHANGED <<main, tree, edits, jobs>>

PickErrs ==
    /\ At("pick")
    /\ "io" \in Faults
    /\ made' = Fate(job.commit, "conflict")
    /\ AfterFailure
    /\ UNCHANGED <<main, stuck, tree, edits, jobs, credit>>

\* `git cherry-pick --abort` ends whichever pick is in progress.
Abort ==
    /\ At("abort")
    /\ stuck' = None
    /\ NextAgent
    /\ UNCHANGED <<main, tree, edits, jobs, made, credit>>

\* An abort that is not made leaves the pick in progress, if one is.
Unaborted == credit' = IF stuck = None THEN credit ELSE credit + 1

\* Nobody looks at the abort's exit code.
AbortFails ==
    /\ At("abort")
    /\ "io" \in Faults
    /\ Unaborted
    /\ NextAgent
    /\ UNCHANGED <<main, stuck, tree, edits, jobs, made>>

\* The report, which tells the outcome of each, is printed and logged to the TASK.
Report ==
    /\ job # None /\ job.left = << >>
    /\ job' = None
    /\ UNCHANGED <<main, stuck, tree, edits, jobs, made, credit>>

\* The integrator dies between two calls of git.
Die ==
    /\ "crash" \in Faults
    /\ job # None /\ job.left # << >>
    /\ job' = None
    /\ made' = IF job.commit = None THEN made ELSE Fate(job.commit, "orphaned")
    /\ IF job.step = "abort" THEN Unaborted ELSE UNCHANGED credit
    /\ UNCHANGED <<main, stuck, tree, edits, jobs>>

Next ==
    \/ \E a \in Agents, f \in Files : Edit(a, f)
    \/ \E a \in Agents, f, g \in Files, staged \in BOOLEAN : Move(a, f, g, staged)
    \/ Resolve
    \/ \E r \in Integrations : Integrate(r)
    \/ Missing \/ Status \/ Add \/ NoCommit \/ CommitFails \/ Commit \/ HeadFails
    \/ Pick \/ PickFails \/ PickErrs \/ Abort \/ AbortFails \/ Report
    \/ Die

Spec == Init /\ [][Next]_vars

-----------------------------------------------------------------------------
TypeOK ==
    /\ main \in Trees
    /\ stuck \in Commits \cup {None}
    /\ \A a \in Agents : tree[a] = None \/ tree[a] \in Worktrees
    /\ edits \in [Agents -> Nat]
    /\ job \in Jobs \cup {None}
    /\ job # None => (job.step = "pick" <=> job.commit # None)
    /\ credit \in Int
    /\ jobs \in Seq({"abort", "skip"})
    /\ made \subseteq [commit : Commits, fate : {"new", "picked", "conflict", "resolved", "orphaned"}]

\* "A worker that touched files outside its `owned` set ... is flagged `violation` and held
\* back whole" (SKILL.md:207): a commit made under the manifest changes nothing but what its
\* author owns.  With `git mv` it does: the old path of a rename is not looked at
\* (git-vcs.ts:8).
ManifestIsEnforced ==
    \A m \in made : m.commit.checked => Differ(m.commit.from, m.commit.to) \subseteq Owned[m.commit.by]

\* What holds of it: under the manifest and a `git status` that told all it had to, no agent
\* writes a file that is not its own.  It may take one away, by a rename.  The check reads
\* `git status` and the commit takes what `git add -A` finds, over several runs, conflicts,
\* failing calls and deaths (git-vcs.ts:28-51).
OwnershipHolds ==
    /\ TypeOK
    /\ \A m \in made : m.commit.checked =>
          \A f \in Differ(m.commit.from, m.commit.to) : f \in Owned[m.commit.by] \/ Gone(m.commit.to[f])

\* "A conflict stops only that agent; the rest still integrate" (default-integrator.ts:8),
\* whatever --onconflict says: a pick that is refused did not fit.
ConflictIsIsolated ==
    [][\A m \in made' \ made : m.fate = "conflict" => ~Fits(m.commit)]_vars

\* As long as conflicts are aborted, git refuses an agent's cherry-pick for no conflict of
\* its own only after an abort that failed or was not made any more, and of each such one
\* only one agent has the harm: the next to be refused cleans up (git-vcs.ts:60-65).
AbortIsolates == ToSet(jobs) \subseteq {"abort"} => credit >= 0

\* A commit lands whole or not at all: what main has of an agent was picked, what was picked
\* is never undone by another pick, and of a commit whose pick failed, or whose integrator
\* died before it, main has nothing.
AllOrNothing ==
    /\ \A f \in Files : main[f][1] \in Agents =>
          \E m \in made : m.fate = "picked" /\ m.commit.to[f] = main[f]
    /\ \A m \in made : \A f \in Differ(m.commit.from, m.commit.to) :
          CASE m.fate = "picked" -> main[f] # m.commit.from[f]
            [] m.fate \in {"conflict", "orphaned"} -> main[f] # m.commit.to[f]
            [] m.fate = "new" -> job # None /\ job.commit = m.commit
            [] OTHER -> TRUE

\* No agent writes what it does not own, and what lands of an agent lands whole
\* (default-integrator.ts integrate, git-vcs.ts commitAll and cherryPick).
LandsOwnAndWhole == OwnershipHolds /\ AllOrNothing
=============================================================================
