------------------------------ MODULE MCStores ------------------------------
(***************************************************************************)
(* The parts of the program that keep what was learnt, and the one that    *)
(* lands the work of the agents: the integrator, the evolution lineage,    *)
(* the self-harness loop, the experience memory, the runtime that the      *)
(* agents run on, the packets that are made of what the agents wrote, and  *)
(* the catalog of their skills.                                            *)
(* They share no state: a behaviour picks one of them and is a behaviour   *)
(* of it.                                                                  *)
(***************************************************************************)
EXTENDS Integrate, Runtime, Evolution, SelfHarness, Experience, Skills

CONSTANTS
    Parts,      \* the parts of which one is picked
    p1, p2,     \* processes of the evolution, experience and runtime commands
    a1, a2, a3, f1, f2,
    MaxErrands, MaxRewrites

VARIABLES part, files, clerk, round, landed, errands, rewrites

People == {p1, p2}
OneOf == Permutations(People)

-----------------------------------------------------------------------------
(* Integrator: two agents that share a file; one may change no other.      *)

AgentsAsked(agents, mode, owners) == [agents |-> agents, mode |-> mode, owners |-> owners, dry |-> FALSE]
AskedFor == {AgentsAsked(<<a1, a2>>, "abort", TRUE), AgentsAsked(<<a2, a1>>, "skip", FALSE)}
OwnFile == [agent \in Agents |-> IF agent = a1 THEN {f1} ELSE {f1, f2}]

-----------------------------------------------------------------------------
(* Evolution: three case files, four candidates of which two share a name, *)
(* and two packets.                                                        *)

Prompt(guard, words, certified, expected) ==
    [guard |-> guard, words |-> words, certified |-> certified, expected |-> expected]
Narrow == Prompt("allow", {"push"}, FALSE, "review")
Wide == Prompt("allow", {"release"}, FALSE, "review")
Safe == Prompt("allow", {"summary"}, FALSE, "allow")
Released == Prompt("allow", {"release"}, FALSE, "allow")
Certified == Prompt("allow", {"release"}, TRUE, "allow")
Injected == Prompt("block", {"push"}, FALSE, "block")

CaseFile(surface, ids, within, without) ==
    [surface |-> surface, ids |-> ids, heldIn |-> within, heldOut |-> without]
Sample(words, expected) == [words |-> words, expected |-> expected]
GuardCases == CaseFile("guard-rule", "g", <<Wide, Safe>>, <<Narrow, Certified>>)
RegressingCases == CaseFile("guard-rule", "g", <<Wide>>, <<Released, Injected>>)
RubricCases ==
    CaseFile("review-rubric", "r", <<Sample({"security"}, "NEEDS_FIX")>>, <<Sample({"docs"}, "ACCEPTED")>>)

Candidate(id, surface, before, after, snapshot) ==
    [id |-> id, surface |-> surface, before |-> before, after |-> after, snapshot |-> snapshot, refs |-> None]
Widens == Candidate("a b", "guard-rule", {"push"}, {"push", "release"}, None)
Relaxes == Candidate("a b", "guard-rule", {"push"}, {"summary"}, None)
Snapped == Candidate("a-b", "guard-rule", {"push"}, {"release"}, "g")
Stricter == Candidate("r", "review-rubric", {"docs"}, {"docs", "security"}, None)
Slacker == Candidate("r", "review-rubric", {}, {"docs"}, None)

EvolutionSlugs == [id \in {"a b", "a-b", "r"} |-> IF id = "r" THEN "evo-r" ELSE "evo-a-b"]

\* The prompt of a dispatch, and what was mined of its guard and its certificate.
Asked == [form |-> "prompt"]
Evolve(op, by, samples, k, proposals, file) ==
    [op |-> op, by |-> by, samples |-> samples, k |-> k, proposals |-> proposals, cases |-> file]
WrittenDrafts == {Widens, Relaxes, Snapped, Stricter}
WrittenCases == {GuardCases, RegressingCases, RubricCases}
EvolveCommands ==
    {Evolve(op, "operator", 3, 1, << >>, None) : op \in {"mine", "validate", "promote", "history"}}
    \cup {Evolve("validate", "operator", 2, 1, << >>, None), Evolve("promote", "evolve", 3, 1, << >>, None),
          Evolve("loop", "evolve", 3, 2, <<Stricter, Snapped, Slacker>>, RubricCases)}

MinedPackets ==
    {[form |-> "packet", schema |-> "runtime-guard", ref |-> "g", sha |-> Asked,
      findings |-> <<[kind |-> "approval-missing", evidence |-> <<2>>], [kind |-> "secret", evidence |-> <<0>>]>>],
     buildActionCertificate("c", Asked, "not-required", << >>, 1)}

-----------------------------------------------------------------------------
(* Self-harness: two surfaces, a task that is held in and one held out.    *)

Harness(skills, verification) == [s \in {"skills", "verification"} |-> IF s = "skills" THEN skills ELSE verification]
SolvedUnder ==
    [task \in {"c1", "c2"} |->
       IF task = "c1" THEN {Harness("new", "old"), Harness("old", "new"), Harness("old", "newer"), Harness("new", "newer")}
       ELSE {Harness("old", "old"), Harness("new", "old"), Harness("old", "new"), Harness("newer", "newer")}]

Edits(s, m, t) == [surface |-> s, mechanism |-> m, after |-> t]
Answered ==
    {<< >>,
     <<Edits("skills", "m", "new"), Edits("verification", "m", "new"), Edits("skills", "m", "new")>>,
     <<Edits("skills", "n", "new"), Edits("unknown", "m", "new"), Edits("verification", "m", "newer"),
       Edits("verification", "m", "new"), Edits("skills", "m", "")>>}

Tag(taskKey, mechanism) == [taskKey |-> taskKey, mechanism |-> mechanism]
TaggedFailures == {<< >>, <<Tag("t", "m"), Tag("t", "n"), Tag("u", "n")>>}

SpecFile(k, rounds, samples, in, copied, pinned, inside) ==
    [config |-> Harness("old", "old"), k |-> k, rounds |-> rounds, samples |-> samples,
     heldIn |-> in, heldOut |-> <<"c2">>, files |-> copied, pinned |-> pinned, inside |-> inside]
SpecFiles ==
    {SpecFile(2, 2, 1, <<"c1">>, <<"rules">>, {"rules"}, FALSE),
     SpecFile(3, 1, 2, <<"c1">>, << >>, {}, FALSE),
     SpecFile(2, 1, 1, <<"c1">>, <<"rules">>, {}, FALSE),
     [SpecFile(2, 1, 1, << >>, << >>, {}, FALSE) EXCEPT !.heldOut = << >>],
     SpecFile(2, 1, 1, <<"c1">>, <<"rules">>, {"rules"}, TRUE),
     SpecFile(2, 1, 1, <<"c1", "c1">>, <<"rules">>, {"rules"}, FALSE)}

-----------------------------------------------------------------------------
(* Experience: two titles of one file and one of another.                  *)

Body(text, words, size, secret) == [text |-> text, words |-> words, secret |-> secret, size |-> size, cause |-> None]
Added(title, body, ref, trust, over) ==
    [op |-> "add", title |-> title, kind |-> "manual", ref |-> ref, trust |-> trust, over |-> over, body |-> body]
TitleSlugs == [title \in {"my note", "my/note", "old"} |-> IF title = "old" THEN "old" ELSE "my-note"]
Adds ==
    {Added("my note", Body("import", {"a", "b"}, 2, FALSE), "url", "untrusted", {"old"}),
     Added("my/note", Body("import 2", {"a"}, 1, FALSE), None, "untrusted", {}),
     Added("my/note", Body("mine", {"b"}, 1, FALSE), "key", None, {}),
     Added("old", Body("mine", {"b"}, 1, FALSE), None, None, {"my-note"})}

TaskOf(status, done) == [ref |-> "task", status |-> status, completed |-> done, words |-> {"a"}, size |-> 2]
Learn(task, lesson, cause) ==
    [op |-> "learn", title |-> "old", task |-> task, allowFailure |-> lesson, lesson |-> lesson, cause |-> cause, over |-> {}]
Learns == {Learn(TaskOf("DONE", TRUE), FALSE, None), Learn(TaskOf("FAILED", TRUE), TRUE, "tooling"),
           Learn(TaskOf("DONE", FALSE), TRUE, None)}

Promotes == {[op |-> "promote", slug |-> "my-note", ref |-> r[1], confirm |-> <<r[2]>>] :
               r \in {<<"url", "review">>, <<"url", "url">>, <<"other", "review">>}}

Filters == [maxAge |-> None, kind |-> None, ref |-> None, trust |-> None, cause |-> None, superseded |-> FALSE,
            query |-> None, minScore |-> None, limit |-> 3]
OfTasks == [Filters EXCEPT !.kind = "task", !.ref = "task", !.trust = "all", !.cause = "tooling",
                           !.superseded = TRUE, !.query = {}]
Recent == [Filters EXCEPT !.maxAge = 1, !.trust = "trusted", !.query = {"b"}, !.limit = 1]
ScoredQuery == [Filters EXCEPT !.query = {"a", "b"}, !.minScore = 2]
ScoredAlone == [Filters EXCEPT !.minScore = 2]
Trusted == [Filters EXCEPT !.trust = "trusted"]
Best == [Trusted EXCEPT !.query = {"a"}, !.limit = 1]
Reads ==
    {[op |-> "recall", options |-> o] : o \in {Filters, OfTasks, ScoredAlone}}
    \cup {[op |-> "context", options |-> Recent, budget |-> 1],
          [op |-> "policy", slug |-> "my-note", options |-> Trusted],
          [op |-> "policy", slug |-> None, options |-> ScoredQuery],
          [op |-> "audit"],
          [op |-> "eval", cases |-> <<[expected |-> {"old"}, options |-> Filters],
                                      [expected |-> {"old"}, options |-> Best]>>]}

Requested == Adds \cup Learns \cup Promotes \cup Reads

-----------------------------------------------------------------------------
(* Runtime: two bundles and one that lacks SKILL.md; a target that is empty *)
(* or holds what is in no bundle; a project with a provider and one without. *)

OneFile(name, contents) == [n \in {name} |-> contents]
Bundled(skill) == [n \in {"SKILL.md", "fuguectl"} |-> IF n = "SKILL.md" THEN skill ELSE "a"]
BundledFiles == {Bundled("a"), Bundled("b") @@ OneFile("ref", "a"), OneFile("ref", "a")}
FoundThere == {[n \in {} |-> "x"], [n \in {"fuguectl-old.sh", "extra"} |-> "x"]}

Order(op, apply, projects) == [op |-> op, apply |-> apply, strict |-> TRUE, projects |-> projects]
Ordered ==
    {Order("adapt", TRUE, <<"p">>), Order("adapt", FALSE, <<"p">>), Order("check", FALSE, << >>),
     Order("up", FALSE, <<"p", "q">>), Order("down", FALSE, <<"p">>), Order("status", FALSE, <<"p", "q">>)}

-----------------------------------------------------------------------------
(* Packets: two logs, two reviews and two TASKs, an incident packet written *)
(* by hand, and the packets of a dispatch.                                  *)

Line(shows, ruling, item, at, says) ==
    [shows |-> shows, verdict |-> ruling, opens |-> ruling # None, item |-> item, heading |-> FALSE,
     at |-> at, says |-> says]
Shows(shows) == Line(shows, None, FALSE, << >>, {})
Text(lines) == [form |-> "text", lines |-> lines]
Conflict == Shows({"integration-conflict"})
Failing == Text(<<Conflict, Conflict, Shows({"runtime-failure", "missing-output"}), Conflict, Conflict>>)
Passing == Text(<<Shows({})>>)
Finding(place, says) == Line({}, None, TRUE, <<place>>, says)
NeedsFix ==
    Text(<<[Finding(<<"a.ts", None>>, {}) EXCEPT !.heading = TRUE, !.at = << >>],
           [Finding(<<"a.ts", 3>>, {"bug", "test"}) EXCEPT !.at = <<<<"a.ts", 3>>, <<"b.ts", None>>, <<"a.ts", 3>>>>],
           Line({"review-needs-fix"}, "NEEDS_FIX", FALSE, <<<<"a.ts", 3>>>>, {}), Line({}, "ACCEPTED", FALSE, << >>, {})>>)
NoVerdict == Text(<<Finding(<<"b.ts", None>>, {"security"})>>)
Box(text, checked) == [text |-> text, checked |-> checked]
DoneTask ==
    [form |-> "task", status |-> "DONE", requirements |-> <<"x">>, outputs |-> <<"o">>,
     subtasks |-> <<Box("s", "yes")>>, log |-> <<"l">>]
OpenTask ==
    [form |-> "task", status |-> None, requirements |-> <<"x", "y">>, outputs |-> << >>,
     subtasks |-> <<Box("s", "no"), Box("t", None)>>, log |-> << >>]
Handwritten ==
    [form |-> "packet", schema |-> "incident", ref |-> "hand", sha |-> None,
     incidents |-> <<[id |-> 1, kind |-> "tooling-error", severity |-> "major", cause |-> "tooling", evidence |-> << >>]>>]

FileNames == {"log", "review", "task", "incident", "packet", "weaknesses", "certificate"}
AgentsWrite ==
    [n \in FileNames |->
       CASE n = "log" -> {Failing, Passing} [] n = "review" -> {NeedsFix, NoVerdict}
         [] n = "task" -> {DoneTask, OpenTask} [] n = "incident" -> {Handwritten} [] OTHER -> {}]
NoFiles == [n \in FileNames |-> None]
FoundFiles ==
    {NoFiles} \cup
    {[n \in FileNames |->
        CASE n = "log" -> Failing [] n = "review" -> NeedsFix [] n = "task" -> task
          [] n = "certificate" -> buildActionCertificate("c", Asked, "external-approval", <<"fact">>, 1) [] OTHER -> None] :
       task \in {DoneTask, OpenTask}}

Errand(op, in, out) ==
    [op |-> op, in |-> in, out |-> out, verdict |-> None, findings |-> None, done |-> FALSE, tail |-> 1,
      budget |-> 6, json |-> FALSE]
Sent ==
    {Errand("incident", <<"log">>, "incident"), Errand("recovery", <<"log">>, "packet"),
     Errand("recovery", <<"incident">>, "packet"), Errand("review", <<"review">>, "packet"),
     Errand("handoff", <<"task">>, "packet"), [Errand("handoff", <<"task">>, "packet") EXCEPT !.done = TRUE],
     Errand("digest", <<"task">>, "packet"), [Errand("digest", <<"task">>, "packet") EXCEPT !.budget = 8, !.json = TRUE],
     Errand("mine", <<"incident", "packet", "certificate">>, "weaknesses"),
     Errand("record", <<"review">>, None), [Errand("record", <<"review">>, None) EXCEPT !.verdict = "ACCEPTED", !.findings = 0],
     Errand("integrate", <<"task">>, None)}

P == INSTANCE PacketFiles WITH
       Clerks <- People, Contents <- AgentsWrite, Found <- FoundFiles, Errands <- Sent

-----------------------------------------------------------------------------
(* Skills: one id in two places, and the skill that forging asks for, whose *)
(* id is taken for a note's.                                                *)

Place(id, from, at, note) == [id |-> id, source |-> from, at |-> at, note |-> note]
SkillPlaces ==
    {Place("s", "system", 2, FALSE), Place("s", "user", 3, FALSE), Place("skill-creator", "plugin", 4, TRUE)}
Written(words, valid) == [words |-> words, valid |-> valid]

WrittenSkills == {Written({"w"}, TRUE), Written({}, FALSE)}

Lookup(op, id) ==
    [op |-> op, id |-> id, type |-> "all", source |-> "all", query |-> {}, limit |-> 1, refresh |-> FALSE, material |-> 2]
LookedUp ==
    {Lookup(op, "s") : op \in {"index", "list", "validate", "forge"}}
    \cup {[Lookup("index", "s") EXCEPT !.refresh = TRUE], [Lookup("forge", "s") EXCEPT !.material = 1],
          [Lookup("match", "s") EXCEPT !.query = {"s", "w"}, !.type = "functional"]}

-----------------------------------------------------------------------------
packetVars == <<files, clerk, round, landed, errands, rewrites>>
storesVars == <<part, vars, evolveVars, studyVars, memoryVars, runtimeVars, packetVars, skillVars>>

StoresInit ==
    /\ part \in Parts
    /\ Init /\ EvolveInit /\ StudyInit /\ MemoryInit /\ RuntimeInit /\ P!PacketInit /\ SkillInit
    /\ source = Bundled("a")
    /\ part # "runtime" => stamp = None /\ target["t"] = << >>
    /\ part # "packets" <=> files = NoFiles
    /\ disk \in {[p \in SkillPlaces |-> IF p.id \in absent THEN None ELSE Written({"w"}, TRUE)] :
                  absent \in {{}, {"s"}}}
    /\ part # "skills" => disk # [p \in SkillPlaces |-> Written({"w"}, TRUE)]

IntegratorMoves ==
    part = "integrator" /\ Next
    /\ UNCHANGED <<part, evolveVars, studyVars, memoryVars, runtimeVars, packetVars, skillVars>>
EvolutionMoves ==
    part = "evolution" /\ EvolveNext
    /\ UNCHANGED <<part, vars, studyVars, memoryVars, runtimeVars, packetVars, skillVars>>
SelfHarnessMoves ==
    part = "self-harness" /\ StudyNext
    /\ UNCHANGED <<part, vars, evolveVars, memoryVars, runtimeVars, packetVars, skillVars>>
ExperienceMoves ==
    part = "experience" /\ MemoryNext
    /\ UNCHANGED <<part, vars, evolveVars, studyVars, runtimeVars, packetVars, skillVars>>
RuntimeMoves ==
    part = "runtime" /\ RuntimeNext
    /\ UNCHANGED <<part, vars, evolveVars, studyVars, memoryVars, packetVars, skillVars>>
PacketMoves ==
    part = "packets" /\ P!PacketNext
    /\ UNCHANGED <<part, vars, evolveVars, studyVars, memoryVars, runtimeVars, skillVars>>
SkillMoves ==
    part = "skills" /\ SkillNext
    /\ UNCHANGED <<part, vars, evolveVars, studyVars, memoryVars, runtimeVars, packetVars>>

StoresNext ==
    \/ IntegratorMoves \/ EvolutionMoves \/ SelfHarnessMoves
    \/ ExperienceMoves \/ RuntimeMoves \/ PacketMoves \/ SkillMoves

StoresSpec == StoresInit /\ [][StoresNext]_storesVars

-----------------------------------------------------------------------------
(* What holds of the parts; the others are stated in the parts' modules.   *)

(* A packet tells of the text whose digest it names what that text says     *)
(* (incident.ts execute, evolve.ts mine, task-context-digest.ts).           *)
PacketsTellTheirSource == P!PacketsTellTheirSource
=============================================================================
