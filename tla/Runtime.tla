------------------------------ MODULE Runtime ------------------------------
(***************************************************************************)
(* The runtime that the agents run on, and the commands that keep it:      *)
(* `fugue fleet` (src/engine/src/cli/commands/fleet.ts), which starts and  *)
(* stops the provider's daemon of each project, and `fugue runtime`        *)
(* (runtime.ts), which follows the provider's upgrades and copies the      *)
(* workflow bundle of the repository to where the agents read it.          *)
(*                                                                         *)
(*   version, stamp   the provider that is installed, and the one that was *)
(*            recorded last                                                *)
(*   source, target   the files of the bundle, and of each place it is     *)
(*            installed at: name -> contents                               *)
(*   daemon, starting   per project, the version its daemon has loaded,    *)
(*            and the sessions in which one is starting                    *)
(*   work     what each command is doing                                   *)
(*   settled  the targets that the last sync left as the source is         *)
(*   spared   the daemons of which an adapt did not hear that they stopped *)
(***************************************************************************)
EXTENDS Absent, Integers, Sequences, FiniteSets, Functions

CONSTANTS
    Operators,  \* processes
    Targets,    \* where the bundle is installed: --skill and the aliases
    Providers,  \* the projects with a .fugue-cc
    Bundles,    \* what the bundle may be
    Leftovers,  \* what may lie in a target before
    Orders,     \* the commands given: [op, apply, strict, projects]
    RuntimeFaults,
    MaxVersion, MaxSourceEdits, MaxOrders

ASSUME RuntimeAssumption == \A order \in Orders : order.projects \in Seq(Range(order.projects))

VARIABLES version, stamp, source, target, daemon, starting, work, settled, spared, edited, ordered

runtimeVars == <<version, stamp, source, target, daemon, starting, work, settled, spared, edited, ordered>>
fleet == <<daemon, starting, spared>>
bundle == <<source, target, settled>>
outside == <<version, edited, ordered>>

Skill == "SKILL.md"
Driver == "fuguectl"
Legacy == {"fuguectl-old.sh"}
Pointer == ".fugunano-repo-root"
Torn == "torn"

Resting == [order |-> None, at |-> "rest", current |-> None, left |-> << >>, sync |-> None, disturbed |-> FALSE, code |-> None]

RuntimeInit ==
    /\ version = 1 /\ stamp \in {None, 1}
    /\ source \in Bundles
    /\ target \in [Targets -> Leftovers]
    /\ daemon = [p \in Providers |-> None] /\ starting = [p \in Providers |-> None]
    /\ work = [o \in Operators |-> Resting]
    /\ settled = {} /\ spared = {}
    /\ edited = 0 /\ ordered = 0

-----------------------------------------------------------------------------
(* The bundle.                                                             *)

ignoredTargetOnlyFile == {Pointer}

\* Bug: the pointer counts as a leftover, as every file does that the source lacks.
targetOnlyFiles_Mirror(from, to) == to \ from

targetOnlyFiles(from, to) == to \ (from \cup ignoredTargetOnlyFile)

mismatchedFiles(from, to) == {f \in DOMAIN from : f \notin DOMAIN to \/ to[f] # from[f]}

compareBundleFiles(from, to) ==
    /\ DOMAIN from # {}
    /\ mismatchedFiles(from, to) = {}
    /\ targetOnlyFiles(DOMAIN from, DOMAIN to) = {}

\* upToDate
workflowSkillStatus(from, to) ==
    /\ Skill \in DOMAIN from \cap DOMAIN to
    /\ Driver \in DOMAIN to
    /\ compareBundleFiles(from, to)
    /\ Pointer \in DOMAIN to
    /\ Legacy \cap DOMAIN to = {}

Without(files, names) == [f \in DOMAIN files \ names |-> files[f]]
With(files, name, contents) == [f \in DOMAIN files \cup {name} |-> IF f = name THEN contents ELSE files[f]]

-----------------------------------------------------------------------------
(* The operator, the provider and what they change under the commands.     *)

Syncing(o) == work[o].at = "sync"
AtTarget(o, t) == Syncing(o) /\ work[o].sync[t].at \notin {"done", "failed"}

\* A command that has been reading or writing what now changes.
Disturbed(these) ==
    [o \in Operators |-> IF o \in these /\ work[o].at # "rest" THEN [work[o] EXCEPT !.disturbed = TRUE] ELSE work[o]]

EditSource ==
    /\ edited < MaxSourceEdits
    /\ source' \in Bundles \ {source}
    /\ edited' = edited + 1
    /\ settled' = {}
    /\ work' = Disturbed(Operators)
    /\ UNCHANGED <<version, stamp, target, ordered, fleet>>

Upgrade ==
    /\ version < MaxVersion
    /\ version' = version + 1
    /\ UNCHANGED <<stamp, edited, ordered, bundle, fleet, work>>

\* A daemon that was started mounts, with the code it has loaded, or does not.
Mount(p) ==
    /\ starting[p] # None
    /\ daemon' = [daemon EXCEPT ![p] = IF daemon[p] = None THEN starting[p] ELSE daemon[p]]
    /\ starting' = [starting EXCEPT ![p] = None]
    /\ UNCHANGED <<stamp, spared, outside, bundle, work>>

Stop(p) ==
    /\ "crash" \in RuntimeFaults
    /\ daemon[p] # None
    /\ daemon' = [daemon EXCEPT ![p] = None]
    /\ UNCHANGED <<stamp, starting, spared, outside, bundle, work>>

GiveOrder(o, order) ==
    /\ work[o].at \in {"rest", "told"} /\ ordered < MaxOrders
    /\ ordered' = ordered + 1
    /\ work' = [work EXCEPT ![o] = [Resting EXCEPT !.order = order, !.at = "begun", !.left = order.projects]]
    /\ UNCHANGED <<version, stamp, edited, bundle, fleet>>

Does(o, op, at) == work[o].at = at /\ work[o].order.op = op
Proceeds(o, next) == work' = [work EXCEPT ![o] = next]
ProceedsTo(o, at) == Proceeds(o, [work[o] EXCEPT !.at = at])
Exits(o, code) ==
    Proceeds(o, [Resting EXCEPT !.at = "told", !.order = work[o].order, !.disturbed = work[o].disturbed, !.code = code])

-----------------------------------------------------------------------------
(* fleet: one project of the command line after the other.                 *)

Project(o) == Head(work[o].left)
NextProject(o) == Proceeds(o, [work[o] EXCEPT !.left = Tail(work[o].left)])

\* startTmux, startPty: a session that is there already is refused.
Starts(p) == starting[p] = None /\ starting' = [starting EXCEPT ![p] = version]

\* A project without a provider is passed over, a daemon that answers the ping left alone;
\* a start that fails is only printed.
Up(o) ==
    /\ Does(o, "up", "begun") /\ work[o].left # << >>
    /\ \/ Project(o) \in Providers /\ daemon[Project(o)] = None /\ Starts(Project(o))
       \/ UNCHANGED starting
    /\ NextProject(o)
    /\ UNCHANGED <<stamp, daemon, spared, outside, bundle>>

\* Whatever the self-verify finds, `up` returns 0.
UpEnds(o) ==
    /\ Does(o, "up", "begun") /\ work[o].left = << >>
    /\ Exits(o, 0)
    /\ UNCHANGED <<stamp, outside, bundle, fleet>>

\* `fleet down`, and the restart of `runtime adapt`: the provider's own kill, which stops
\* the daemon that is mounted.
Kill(p) == p \in Providers /\ daemon[p] # None /\ daemon' = [daemon EXCEPT ![p] = None]

Down(o) ==
    /\ Does(o, "down", "begun") /\ work[o].left # << >>
    /\ Kill(Project(o)) \/ UNCHANGED daemon
    /\ NextProject(o)
    /\ UNCHANGED <<stamp, starting, spared, outside, bundle>>

DownEnds(o) ==
    /\ Does(o, "down", "begun") /\ work[o].left = << >>
    /\ Exits(o, 0)
    /\ UNCHANGED <<stamp, outside, bundle, fleet>>

\* 0 if any project is ready.  Each is pinged on its own; the code counts them all.
FleetStatus(o) ==
    /\ Does(o, "status", "begun") /\ work[o].left # << >>
    /\ LET ready == Project(o) \in Providers /\ daemon[Project(o)] # None IN
       Proceeds(o, [work[o] EXCEPT !.left = Tail(work[o].left), !.code = IF ready THEN 0 ELSE work[o].code])
    /\ UNCHANGED <<stamp, outside, bundle, fleet>>

FleetStatusEnds(o) ==
    /\ Does(o, "status", "begun") /\ work[o].left = << >>
    /\ Exits(o, IF work[o].code = None THEN 1 ELSE 0)
    /\ UNCHANGED <<stamp, outside, bundle, fleet>>

-----------------------------------------------------------------------------
(* runtime check: the drift of the provider is printed; under --strict the *)
(* exit code is that of the targets.                                       *)

\* What a check is disturbed by: a target that is not settled when it begins.
CheckReads(o) ==
    /\ Does(o, "check", "begun")
    /\ Proceeds(o, [work[o] EXCEPT !.at = "checking", !.disturbed = settled # Targets,
                               !.sync = [t \in Targets |-> None]])
    /\ UNCHANGED <<stamp, outside, bundle, fleet>>

CheckTarget(o, t) ==
    /\ Does(o, "check", "checking") /\ work[o].sync[t] = None
    /\ Proceeds(o, [work[o] EXCEPT !.sync[t] = workflowSkillStatus(source, target[t])])
    /\ UNCHANGED <<stamp, outside, bundle, fleet>>

CheckEnds(o) ==
    /\ Does(o, "check", "checking") /\ \A t \in Targets : work[o].sync[t] # None
    /\ Exits(o, IF work[o].order.strict /\ \E t \in Targets : ~work[o].sync[t] THEN 1 ELSE 0)
    /\ UNCHANGED <<stamp, outside, bundle, fleet>>

-----------------------------------------------------------------------------
(* runtime adapt.  Without --apply it only prints.                         *)

Stage(at, left) == [at |-> at, left |-> left]

\* providerOutput and parseProviderVersion: a provider that does not answer has no version.
AdaptReads(o) ==
    /\ Does(o, "adapt", "begun")
    /\ \E current \in {version} \cup (IF "silent" \in RuntimeFaults THEN {None} ELSE {}) :
         IF work[o].order.apply
         THEN Proceeds(o, [work[o] EXCEPT !.at = "sync", !.current = current,
                                      !.sync = [t \in Targets |-> Stage("status", {})]])
         ELSE Exits(o, IF current = None THEN 2 ELSE 0)
    /\ UNCHANGED <<stamp, outside, bundle, fleet>>

\* The targets are synced side by side; each step of one is an await.
Step(o, t, at, left) == Proceeds(o, [work[o] EXCEPT !.sync[t] = Stage(at, left)])
InStep(o, t, at) == Does(o, "adapt", "sync") /\ work[o].sync[t].at = at

\* Others that are at the same target or check it see it change.
BeginSync(o, t) ==
    /\ InStep(o, t, "status")
    /\ IF Skill \notin DOMAIN source
       THEN Step(o, t, "done", {}) /\ UNCHANGED settled
       ELSE /\ work' = [Disturbed({x \in Operators : work[x].at = "checking"})
                         EXCEPT ![o].sync[t] = Stage("copy", DOMAIN source)]
            /\ settled' = settled \ {t}
    /\ UNCHANGED <<stamp, source, target, outside, fleet>>

\* cp with recursive and force: what it listed and does not find any more makes it reject.
\* The command fails by that, and the other targets are gone on with.
Copy(o, t) ==
    /\ InStep(o, t, "copy")
    /\ \E f \in work[o].sync[t].left :
         IF f \in DOMAIN source
         THEN /\ target' = [target EXCEPT ![t] = With(target[t], f, source[f])]
              /\ Step(o, t, "copy", work[o].sync[t].left \ {f})
              /\ UNCHANGED settled
         ELSE Step(o, t, "failed", {}) /\ UNCHANGED <<target, settled>>
    /\ UNCHANGED <<stamp, source, outside, fleet>>

Point(o, t) ==
    /\ InStep(o, t, "copy") /\ work[o].sync[t].left = {}
    /\ target' = [target EXCEPT ![t] = With(target[t], Pointer, "root")]
    /\ Step(o, t, "wrappers", {})
    /\ UNCHANGED <<stamp, source, settled, outside, fleet>>

RemoveWrappers(o, t) ==
    /\ InStep(o, t, "wrappers")
    /\ target' = [target EXCEPT ![t] = Without(target[t], Legacy)]
    /\ Step(o, t, "compare", {})
    /\ UNCHANGED <<stamp, source, settled, outside, fleet>>

\* The source is listed before the target is.
ListSource(o, t) ==
    /\ InStep(o, t, "compare")
    /\ Step(o, t, "listed", DOMAIN source)
    /\ UNCHANGED <<stamp, bundle, outside, fleet>>

ListTarget(o, t) ==
    /\ InStep(o, t, "listed")
    /\ Step(o, t, "remove", targetOnlyFiles(work[o].sync[t].left, DOMAIN target[t]))
    /\ UNCHANGED <<stamp, bundle, outside, fleet>>

\* The source can be installed at all: with the files that a status asks for, and none
\* that a sync removes or writes itself.
Fit == {Skill, Driver} \subseteq DOMAIN source /\ (Legacy \cup {Pointer}) \cap DOMAIN source = {}

\* A target is settled by a sync that nobody disturbed; one that was disturbed disturbs
\* those it ran next to.
RemoveExtras(o, t) ==
    LET others == {x \in Operators \ {o} : AtTarget(x, t)} IN
    /\ InStep(o, t, "remove")
    /\ target' = [target EXCEPT ![t] = Without(target[t], work[o].sync[t].left)]
    /\ settled' = IF ~work[o].disturbed /\ others = {} /\ Fit THEN settled \cup {t} ELSE settled
    /\ work' = [IF work[o].disturbed THEN Disturbed(others) ELSE work
                 EXCEPT ![o].sync[t] = Stage("done", {})]
    /\ UNCHANGED <<stamp, source, outside, fleet>>

\* Bug: the stamp is written before the daemons are restarted.
Synced_StampsFirst(o) ==
    /\ Syncing(o) /\ \A t \in Targets : ~AtTarget(o, t)
    /\ stamp' = work[o].current
    /\ ProceedsTo(o, "restart")
    /\ UNCHANGED <<outside, bundle, fleet>>

\* Without a version there is no restart and no stamp.
Synced(o) ==
    /\ Syncing(o) /\ \A t \in Targets : ~AtTarget(o, t)
    /\ IF \E t \in Targets : work[o].sync[t].at = "failed" THEN Exits(o, 1)
       ELSE IF work[o].current = None THEN Exits(o, 2) ELSE ProceedsTo(o, "restart")
    /\ UNCHANGED <<stamp, outside, bundle, fleet>>

\* A kill that fails is passed over in silence, and so is what it leaves running.
Restart(o) ==
    /\ Does(o, "adapt", "restart") /\ work[o].left # << >>
    /\ \/ Kill(Project(o)) /\ spared' = spared \ {Project(o)}
       \/ UNCHANGED daemon /\ spared' = spared \cup {Project(o)}
    /\ NextProject(o)
    /\ UNCHANGED <<stamp, starting, outside, bundle>>

\* RuntimeSync.record, after the preflight, whose verdict is only printed.  The stamp speaks
\* of the projects that the command was told of.
Record(o) ==
    /\ Does(o, "adapt", "restart") /\ work[o].left = << >>
    /\ stamp' = work[o].current
    /\ spared' = spared \cup (Providers \ Range(work[o].order.projects))
    /\ Exits(o, 0)
    /\ UNCHANGED <<daemon, starting, outside, bundle>>

\* A command dies; cp does not write a file at once.
Dies(o) ==
    /\ "crash" \in RuntimeFaults
    /\ work[o].at \notin {"rest", "told"}
    /\ LET at == {t \in Targets : AtTarget(o, t)}
           torn == {x \in at \X DOMAIN source : work[o].sync[x[1]].at = "copy" /\ x[2] \in work[o].sync[x[1]].left}
       IN /\ \/ UNCHANGED target
             \/ \E x \in torn : target' = [target EXCEPT ![x[1]] = With(target[x[1]], x[2], Torn)]
          /\ work' = [Disturbed({x \in Operators : \E t \in at : AtTarget(x, t)}) EXCEPT ![o] = Resting]
    /\ UNCHANGED <<stamp, source, settled, outside, fleet>>

RuntimeNext ==
    \/ EditSource \/ Upgrade
    \/ \E p \in Providers : Mount(p) \/ Stop(p)
    \/ \E o \in Operators :
          \/ \E order \in Orders : GiveOrder(o, order)
          \/ Up(o) \/ UpEnds(o) \/ Down(o) \/ DownEnds(o) \/ FleetStatus(o) \/ FleetStatusEnds(o)
          \/ CheckReads(o) \/ CheckEnds(o)
          \/ AdaptReads(o) \/ Synced(o) \/ Restart(o) \/ Record(o)
          \/ \E t \in Targets :
                \/ CheckTarget(o, t)
                \/ BeginSync(o, t) \/ Copy(o, t) \/ Point(o, t) \/ RemoveWrappers(o, t)
                \/ ListSource(o, t) \/ ListTarget(o, t) \/ RemoveExtras(o, t)
          \/ Dies(o)

-----------------------------------------------------------------------------
\* That nothing has drifted can be relied on.  A target that a sync left behind is what the
\* source is, whatever was there, whoever died in it before and whoever synced it at the
\* same time, as long as the source stood still; a strict check agrees with it (runtime.ts
\* syncWorkflowBundle, workflowSkillStatus, RuntimeCheckCommand).
SyncSettles ==
    /\ \A t \in settled : workflowSkillStatus(source, target[t])
    /\ \A o \in Operators :
         work[o].at = "told" /\ work[o].order.op = "check" /\ work[o].code = 1 => work[o].disturbed

\* No daemon runs code that is older than the stamp, unless an adapt could not stop it: an
\* upgrade is not taken for adapted to before its daemons are gone (runtime.ts
\* RuntimeAdaptCommand.execute, fleet.ts up and down).
StampIsBacked ==
    stamp # None =>
      \A p \in Providers \ spared : daemon[p] # None => daemon[p] >= stamp
=============================================================================
