----------------------------- MODULE MCCommands -----------------------------
(***************************************************************************)
(* Commands that ask models and report: the smoke over the command runner, *)
(* the companion, the plan panel and the selector.  They share no state:   *)
(* a behaviour picks one of them and is a behaviour of it.                 *)
(***************************************************************************)
EXTENDS Smoke, Companion, PlanPanel, Selection

CONSTANTS j1, j2, Parts

VARIABLE part

-----------------------------------------------------------------------------
(* Companion: three models, and the command lines that tell them apart.    *)

Known == ("qwen" :> {"token"}) @@ ("kimi" :> {}) @@ ("glm" :> {"max"})
UsualTeam == {Member("qwen", None), Member("kimi", None)}
Line(op, all, members, prompt, dry) == [op |-> op, all |-> all, members |-> members, prompt |-> prompt, dryRun |-> dry]

Lines ==
    {Line("team", all, {}, TRUE, FALSE) : all \in BOOLEAN}
    \cup {Line("team", FALSE, {Member("qwen", "token"), Member("qwen", None)}, TRUE, FALSE),
          Line("team", FALSE, {Member("kimi", "max"), Member("glm", None)}, TRUE, FALSE),
          Line("team", FALSE, {Member("glm", "max")}, TRUE, TRUE),
          Line("team", FALSE, {}, FALSE, FALSE),
          Line("task", FALSE, {Member("glm", "max")}, TRUE, FALSE),
          Line("task", FALSE, {Member("none", None)}, TRUE, FALSE),
          Line("ping", FALSE, {Member("kimi", None)}, FALSE, FALSE)}

-----------------------------------------------------------------------------
(* Plan panel: two targets share a file name.                              *)

PlannerFiles == ("codex:a" :> "codex_a") @@ ("codex_a" :> "codex_a") @@ ("kimi" :> "kimi")
PanelOf(targets, partial) == [targets |-> targets, partial |-> partial]
AskedPanels ==
    {PanelOf({"codex:a", "kimi"}, partial) : partial \in BOOLEAN}
    \cup {PanelOf({"codex_a"}, FALSE), PanelOf({"codex:a", "codex_a"}, FALSE)}

-----------------------------------------------------------------------------
(* Selector: a round of three tasks, and files of up to five candidates.   *)

RoundTasks == <<[id |-> "t1", agent |-> "kimi"], [id |-> "t2", agent |-> "glm"], [id |-> "t3", agent |-> "kimi"]>>

Candidate(agent, verified, label) == [agent |-> agent, verified |-> verified, label |-> label]
\* Labels are told apart and nothing else: the first that is seen is called a.
NamedInOrder(cs) == \A i \in DOMAIN cs : cs[i].label = "b" => \E j \in 1..i : cs[j].label = "a"
Candidates(verdicts, labels) == [agent : {"glm"}, verified : verdicts, label : labels]
\* Who dissents is somebody else.
Parted == {Candidate("glm", None, "a"), Candidate("kimi", None, "b")}
CandidateFiles ==
    {cs \in UNION {[1..n -> Candidates({None}, {None, "a", "b"})] : n \in 0..3} : NamedInOrder(cs)}
    \cup {cs \in UNION {[1..n -> Parted] : n \in 4..5} : NamedInOrder(cs)}
    \cup [1..2 -> Candidates({None, TRUE, FALSE}, {None, "a"})]

Config(threshold, singleton, category) ==
    [threshold |-> threshold, trustSingleton |-> singleton, category |-> category, forced |-> {"security"}]
Plain == Config(70, FALSE, "docs")
Question(ofRound, candidates, gate, config) == [round |-> ofRound, file |-> candidates, gate |-> gate, config |-> config]
Both(first, second) == <<Candidate("kimi", None, first), Candidate("glm", None, second)>>
RouteLines ==
    {Question(FALSE, candidates, FALSE, Plain) : candidates \in CandidateFiles}
    \cup {Question(TRUE, None, gate, Plain) : gate \in BOOLEAN}
    \cup {Question(FALSE, <<Candidate("kimi", None, "a")>>, FALSE, Config(70, TRUE, "docs")),
          Question(FALSE, Both("a", "a"), FALSE, Config(70, FALSE, "security")),
          Question(FALSE, Both("a", "b"), FALSE, Config(40, FALSE, "docs")),
          Question(FALSE, Both("a", "a"), FALSE, Config(100, FALSE, "docs"))}

-----------------------------------------------------------------------------
commandsVars == <<part, smokeVars, companionVars, planVars, selectVars>>

CommandsInit ==
    /\ part \in Parts
    /\ SmokeInit /\ CompanionInit /\ PlanInit /\ SelectInit

SmokeMoves ==
    part = "smoke" /\ SmokeNext /\ UNCHANGED <<part, companionVars, planVars, selectVars>>
CompanionMoves ==
    part = "companion" /\ CompanionNext /\ UNCHANGED <<part, smokeVars, planVars, selectVars>>
PlanMoves ==
    part = "plan" /\ PlanNext /\ UNCHANGED <<part, smokeVars, companionVars, selectVars>>
\* What is decided of a file does not depend on a round, and is asked while none moves.
OfFile == command.of # None /\ ~command.of.round
SelectMoves ==
    /\ part = "select" /\ SelectNext /\ UNCHANGED <<part, smokeVars, companionVars, planVars>>
    /\ OfFile' => \A t \in Ids : round'[t] = [status |-> "pending", result |-> None]

CommandsNext == SmokeMoves \/ CompanionMoves \/ PlanMoves \/ SelectMoves

CommandsSpec ==
    /\ CommandsInit /\ [][CommandsNext]_commandsVars
    /\ part = "smoke" => SmokeFairness
    /\ part = "companion" => CompanionFairness

-----------------------------------------------------------------------------
(* What holds of the parts; the others are stated in the parts' modules.   *)

(* Every smoke ends, whatever the runtimes do (smoke.ts, node-command-     *)
(* runner.ts).                                                             *)
EverySmokeEnds == part = "smoke" => SmokeEnds
=============================================================================
