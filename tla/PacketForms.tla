----------------------------- MODULE PacketForms -----------------------------
(***************************************************************************)
(* The packets that the commands make of logs, reviews and TASK files, and *)
(* the weakness signals that are mined from them.                          *)
(*                                                                         *)
(* The SHA-256 of a content is the content itself.  A text is              *)
(* [form |-> "text", lines], a line is                                     *)
(*   shows    the kinds of incident whose patterns it matches              *)
(*   verdict  the verdict it holds, or None; opens: it begins with it      *)
(*   item     it is a list item or has a [P0]..[P3]; heading: "Findings:"  *)
(*   at       the <<file, line number or None>> it names, in order         *)
(*   says     the words that tell severities and rubrics                   *)
(* A TASK is [form |-> "task", status, requirements, subtasks, outputs,    *)
(* log], each a sequence of the items that are no placeholders; the rest   *)
(* are packets, [form |-> "packet", schema, ...].  The wording of a packet *)
(* is left out, and so is its rendering as text.                           *)
(***************************************************************************)
EXTENDS Absent, Integers, SequencesExt, FiniteSetsExt

Positions(s) == [i \in DOMAIN s |-> i]

FirstOf(n, s) == SubSeq(s, 1, Min({n, Len(s)}))
LastOf(n, s) == SubSeq(s, Max({1, Len(s) - n + 1}), Len(s))

-----------------------------------------------------------------------------
\* Incidents.

IncidentSpec(kind, severity, cause) == [kind |-> kind, severity |-> severity, cause |-> cause]

SPECS ==
    <<IncidentSpec("policy-violation", "critical", "policy"),
      IncidentSpec("review-needs-fix", "major", "verification"),
      IncidentSpec("verification-failure", "major", "verification"),
      IncidentSpec("build-failure", "major", "implementation"),
      IncidentSpec("integration-conflict", "major", "integration"),
      IncidentSpec("runtime-failure", "major", "runtime"),
      IncidentSpec("tooling-error", "major", "tooling"),
      IncidentSpec("missing-output", "major", "integration"),
      IncidentSpec("context-provenance", "major", "context"),
      IncidentSpec("planning-error", "minor", "planning")>>

MAX_EVIDENCE_PER_INCIDENT == 3

\* The numbers of the first lines that show the kind.
evidenceFor(lines, kind) ==
    FirstOf(MAX_EVIDENCE_PER_INCIDENT, SelectSeq(Positions(lines), LAMBDA i : kind \in lines[i].shows))

incidentPacket(content, ref) ==
    LET shown == SelectSeq(SPECS, LAMBDA s : evidenceFor(content.lines, s.kind) # << >>)
        incident(i) == [id |-> i, kind |-> shown[i].kind, severity |-> shown[i].severity,
                        cause |-> shown[i].cause, evidence |-> evidenceFor(content.lines, shown[i].kind)]
    IN [form |-> "packet", schema |-> "incident", ref |-> ref, sha |-> content,
        incidents |-> [i \in DOMAIN shown |-> incident(i)]]

\* What there is to say against guidance: the ids without evidence, or that there is no incident.
recoveryIssues(packet) ==
    IF packet.incidents = << >> THEN {"no-incident-evidence"}
    ELSE {packet.incidents[i].id : i \in {j \in DOMAIN packet.incidents : packet.incidents[j].evidence = << >>}}

recoveryGate(issues) == IF issues = {} THEN "ready" ELSE "blocked"

\* Groups neighbours only.
causeGroups_Adjacent(incidents) ==
    LET starts == SelectSeq(Positions(incidents), LAMBDA i : i = 1 \/ incidents[i - 1].cause # incidents[i].cause)
        end(n) == IF n = Len(starts) THEN Len(incidents) ELSE starts[n + 1] - 1
    IN [n \in DOMAIN starts |-> [cause |-> incidents[starts[n]].cause,
                                 incidents |-> SubSeq(incidents, starts[n], end(n))]]

\* The incidents by their cause, the causes in the order they first appear.
causeGroups(incidents) ==
    LET firsts == SelectSeq(Positions(incidents),
                            LAMBDA i : \A j \in 1..(i - 1) : incidents[j].cause # incidents[i].cause)
        group(cause) == [cause |-> cause, incidents |-> SelectSeq(incidents, LAMBDA i : i.cause = cause)]
    IN [n \in DOMAIN firsts |-> group(incidents[firsts[n]].cause)]

\* Who contains and who repairs a failure of a cause.
recoveryTemplateFor(cause) ==
    CASE cause = "implementation" -> [containment |-> "agent", repair |-> "agent"]
      [] cause = "verification" -> [containment |-> "operator", repair |-> "agent"]
      [] cause = "policy" -> [containment |-> "harness", repair |-> "harness"]
      [] OTHER -> [containment |-> "operator", repair |-> "operator"]

stepsOf(group) ==
    LET template == recoveryTemplateFor(group.cause)
        ids == [i \in DOMAIN group.incidents |-> group.incidents[i].id]
        step(phase, scope) == [phase |-> phase, scope |-> scope, cause |-> group.cause, ids |-> ids]
    IN <<step("containment", template.containment), step("repair", template.repair),
         step("validation", "operator"), step("learning", "operator")>>

incidentRecoveryPacket(packet) ==
    LET gate == recoveryGate(recoveryIssues(packet))
        groups == causeGroups(packet.incidents)
    IN [form |-> "packet", schema |-> "incident-recovery", ref |-> packet.ref, sha |-> packet.sha, gate |-> gate,
        steps |-> IF gate = "blocked" THEN << >> ELSE FlattenSeq([n \in DOMAIN groups |-> stepsOf(groups[n])])]

\* `incident recovery` takes an incident packet, or makes one of anything else.
isIncidentPacket(content) == content.form = "packet" /\ content.schema = "incident"

incidentPacketFromInput(content, ref) ==
    IF isIncidentPacket(content) THEN [content EXCEPT !.ref = ref] ELSE incidentPacket(content, ref)

-----------------------------------------------------------------------------
\* Reviews.

\* The first verdict of the text.
parseVerdict(lines) ==
    LET found == SelectSeq(lines, LAMBDA l : l.verdict # None) IN
    IF found = << >> THEN "UNKNOWN" ELSE Head(found).verdict

\* The first rating one of whose words is said.
Rated(ratings, words, otherwise) ==
    LET said == SelectSeq(ratings, LAMBDA r : r[2] \cap words # {}) IN
    IF said = << >> THEN otherwise ELSE Head(said)[1]

severityFrom(words) ==
    Rated(<<<<"critical", {"p0", "critical", "security"}>>, <<"major", {"p1", "bug", "broken"}>>,
            <<"minor", {"p2", "coverage", "test"}>>, <<"nit", {"p3", "style"}>>>>, words, "unknown")

rubricFrom(words) ==
    Rated(<<<<"security", {"security", "secret", "trust"}>>, <<"tests", {"test", "coverage"}>>,
            <<"correctness", {"bug", "wrong", "fail"}>>, <<"performance", {"perf", "timeout"}>>,
            <<"traceability", {"trace", "line"}>>, <<"integration", {"cli", "dispatch"}>>,
            <<"documentation", {"doc"}>>, <<"policy", {"policy", "gate"}>>,
            <<"maintainability", {"style", "refactor"}>>>>, words, "other")

\* Each place once, in the order of first mention.
parseEvidence(line) ==
    LET firsts == SelectSeq(Positions(line.at), LAMBDA i : \A j \in 1..(i - 1) : line.at[j] # line.at[i])
    IN [n \in DOMAIN firsts |-> line.at[firsts[n]]]

isFindingLine(line) == ~line.opens /\ (line.item \/ parseEvidence(line) # << >>)

reviewPacket(content, ref) ==
    LET found == SelectSeq(content.lines, LAMBDA l : isFindingLine(l) /\ ~l.heading)
        finding(l) == [severity |-> severityFrom(l.says), rubric |-> rubricFrom(l.says), evidence |-> parseEvidence(l)]
    IN [form |-> "packet", schema |-> "review", ref |-> ref, sha |-> content,
        verdict |-> parseVerdict(content.lines), findings |-> [i \in DOMAIN found |-> finding(found[i])]]

\* `loop record --review`: what the operator passes stands before what the review says.
augmentWithReview(content, verdict, findings) ==
    LET packet == reviewPacket(content, "review")
        verdictOf == IF packet.verdict = "ACCEPTED" THEN "ACCEPTED" ELSE "NEEDSFIX"
    IN IF packet.verdict = "UNKNOWN" THEN None
       ELSE [verdict |-> IF verdict # None THEN verdict ELSE verdictOf,
             findings |-> IF findings # None THEN findings ELSE Len(packet.findings)]

-----------------------------------------------------------------------------
\* Handoffs and digests of a TASK.

TaskStatus(task) == IF task.status = None THEN "UNKNOWN" ELSE task.status

Issue(kind, severity, applies) == IF applies THEN <<[kind |-> kind, severity |-> severity]>> ELSE << >>

handoffIssues(task, evidence) ==
    Issue("not-done", "warning", TaskStatus(task) # "DONE")
    \o Issue("missing-requirements", "error", task.requirements = << >>)
    \o Issue("missing-output-files", "error", task.outputs = << >>)
    \o Issue("unchecked-subtasks", "warning", \E i \in DOMAIN task.subtasks : task.subtasks[i].checked = "no")
    \o Issue("missing-evidence", "warning", evidence = << >>)

readiness(issues) ==
    IF \E i \in DOMAIN issues : issues[i].severity = "error" THEN "blocked"
    ELSE IF issues # << >> THEN "needs-review" ELSE "ready"

taskHandoffPacket(task, ref, maxEvidence) ==
    LET evidence == LastOf(maxEvidence, task.log)
        issues == handoffIssues(task, evidence)
    IN [form |-> "packet", schema |-> "handoff", ref |-> ref, status |-> TaskStatus(task),
        readiness |-> readiness(issues), evidence |-> evidence, issues |-> issues]

Unit(kind, text) == [kind |-> kind, text |-> text]
Units(kind, texts) == [i \in DOMAIN texts |-> Unit(kind, texts[i])]

\* Subtasks without a box are open as well.
openChecklistItems(task) ==
    LET open == SelectSeq(task.subtasks, LAMBDA s : s.checked # "yes") IN [i \in DOMAIN open |-> open[i].text]

allUnits(task, maxEvidence) ==
    <<Unit("goal", TaskStatus(task))>> \o Units("requirement", task.requirements)
    \o Units("open-subtask", openChecklistItems(task)) \o Units("handoff-object", task.outputs)
    \o Units("recent-evidence", LastOf(maxEvidence, task.log))

\* The length of a digest: two for what it says in any case, more as JSON, and one a unit.
Rendered(digest, json) == Len(digest.units) + (IF json THEN 4 ELSE 2)

\* Units are taken in order until one does not fit.
taskContextDigest(task, ref, budget, maxEvidence) ==
    LET units == allUnits(task, maxEvidence)
        digestOf(n) == [form |-> "packet", schema |-> "digest", ref |-> ref, sha |-> task,
                        units |-> SubSeq(units, 1, n), omitted |-> Len(units) - n]
        fits == {n \in 1..Len(units) : \A i \in 1..n : Rendered(digestOf(i), FALSE) <= budget}
    IN digestOf(Max(fits \cup {0}))

-----------------------------------------------------------------------------
\* Certificates of a dispatch.

Checkpoint(kind, status, evidence) == [kind |-> kind, status |-> status, evidence |-> evidence]

buildActionCertificate(ref, prompt, approval, facts, rc) ==
    [form |-> "packet", schema |-> "certificate", ref |-> ref, sha |-> prompt,
     checkpoints |->
       <<Checkpoint("pre-action-admissibility", "passed", <<"validated", "resolved">>),
         Checkpoint("action-open", "recorded", <<"recorded">>),
         Checkpoint("assumption-capture", IF facts = << >> THEN "not-required" ELSE "recorded",
                    IF facts = << >> THEN <<"no facts">> ELSE facts),
         Checkpoint("approval", IF approval = "not-required" THEN approval ELSE "recorded", <<approval>>),
         Checkpoint("outcome-closure", IF rc = 0 THEN "passed" ELSE "failed", <<"rc", "output">>)>>]

-----------------------------------------------------------------------------
\* Mining packets for weaknesses.

\* A signal keeps the evidence that has a line number, and is dropped without any.
validEvidence(lines) == SelectSeq(lines, LAMBDA l : l > 0)

Signal(packet, kind, lines) ==
    IF validEvidence(lines) = << >> THEN {}
    ELSE {[ref |-> packet.ref, sha |-> packet.sha, kind |-> kind, lines |-> validEvidence(lines)]}

mapRuntimeGuardPacket(packet) ==
    UNION {Signal(packet, f.kind, f.evidence) : f \in Range(packet.findings)}

\* A file without a line number is numbered by its place.
mapReviewPacket(packet) ==
    LET lines(f) == [i \in DOMAIN f.evidence |-> IF f.evidence[i][2] = None THEN i ELSE f.evidence[i][2]]
    IN UNION {Signal(packet, f.rubric, lines(f)) : f \in Range(packet.findings)}

mapIncidentPacket(packet) ==
    UNION {Signal(packet, i.kind, i.evidence) : i \in Range(packet.incidents)}

mapIncidentRecoveryPacket(packet) ==
    UNION {Signal(packet, packet.steps[i].phase, <<i>>) : i \in DOMAIN packet.steps}

\* A handoff has no schema version and is known by its fields; it is its own source.
mapTaskHandoffPacket(packet) ==
    LET lines(i) == IF packet.evidence = << >> THEN <<i>> ELSE Positions(packet.evidence)
        itself == [ref |-> packet.ref, sha |-> packet]
    IN UNION {Signal(itself, packet.issues[i].kind, lines(i)) : i \in DOMAIN packet.issues}

mapActionCertificate(packet) ==
    UNION {Signal(packet, c.kind, Positions(c.evidence)) :
             c \in {k \in Range(packet.checkpoints) : k.status = "failed"}}

mapTaskContextDigest(packet) == IF packet.omitted > 0 THEN Signal(packet, "omitted-trace", <<1>>) ELSE {}

packetWeaknessSignals(packet) ==
    CASE packet.schema = "runtime-guard" -> mapRuntimeGuardPacket(packet)
      [] packet.schema = "review" -> mapReviewPacket(packet)
      [] packet.schema = "incident" -> mapIncidentPacket(packet)
      [] packet.schema = "incident-recovery" -> mapIncidentRecoveryPacket(packet)
      [] packet.schema = "certificate" -> mapActionCertificate(packet)
      [] packet.schema = "digest" -> mapTaskContextDigest(packet)
      [] packet.schema = "handoff" -> mapTaskHandoffPacket(packet)

packetsWeaknessSignals(packets) == UNION {packetWeaknessSignals(p) : p \in packets}
=============================================================================
