----------------------------- MODULE PacketFiles -----------------------------
(***************************************************************************)
(* The commands that make packets, each with its output sent to a file:    *)
(* `fugue incident packet` and `recovery`, `review packet`, `task handoff` *)
(* and `digest`, `evolve mine`; and two that read a text as a packet,      *)
(* `loop record --review` and `integrate --strict-handoff`.  The agents    *)
(* write the log, the review and the TASK while commands run.              *)
(*                                                                         *)
(*   files    per name, its content, Empty or None                         *)
(*   clerk    per process, the command it runs and what it has read        *)
(*   round    what `loop record` recorded last                             *)
(*   landed   the TASK that `integrate` last went on with                  *)
(***************************************************************************)
EXTENDS PacketForms

CONSTANTS
    Clerks,       \* processes
    Contents,     \* name -> what an agent may write there
    Found,        \* the files that may be there from the start
    Errands,      \* the commands given: [op, in, out, verdict, findings, done, tail, budget, json];
                  \* in is a sequence of names, out a name or None
    MaxErrands,   \* how many of them are given
    MaxRewrites   \* how often a file is written by an agent

VARIABLES files, clerk, round, landed, errands, rewrites
packetVars == <<files, clerk, round, landed, errands, rewrites>>

Names == DOMAIN Contents
Free == [errand |-> None]
Empty == [form |-> "empty"]

PacketInit ==
    /\ files \in Found
    /\ clerk = [p \in Clerks |-> Free]
    /\ round = None /\ landed = None /\ errands = {} /\ rewrites = 0

Rewrite(n) ==
    /\ rewrites < MaxRewrites
    /\ \E content \in Contents[n] \ {files[n]} : files' = [files EXCEPT ![n] = content]
    /\ rewrites' = rewrites + 1
    /\ UNCHANGED <<clerk, round, landed, errands>>

Holds(p, errand, todo, held) == clerk' = [clerk EXCEPT ![p] = [errand |-> errand, todo |-> todo, held |-> held]]
Leaves(p) == clerk' = [clerk EXCEPT ![p] = Free]

Has(p, ops) == clerk[p] # Free /\ clerk[p].errand.op \in ops

\* The shell empties the file that the command prints to; mine writes its own.
SendFor(p, errand) ==
    /\ clerk[p] = Free
    /\ errand \notin errands /\ Cardinality(errands) < MaxErrands
    /\ errands' = errands \cup {errand}
    /\ files' = IF errand.out = None \/ errand.op = "mine" THEN files ELSE [files EXCEPT ![errand.out] = Empty]
    /\ Holds(p, errand, errand.in, << >>)
    /\ UNCHANGED <<round, landed, rewrites>>

ClerkDies(p) ==
    /\ clerk[p] # Free
    /\ Leaves(p)
    /\ UNCHANGED <<files, round, landed, errands, rewrites>>

-----------------------------------------------------------------------------

\* A file that is missing or empty ends the command: packets are JSON, and
\* the texts are asked for content.
Readable(content) == content \notin {None, Empty}

\* mine reads one packet after the other, the others their one file.
ReadInput(p) ==
    LET c == clerk[p] IN
    /\ c # Free /\ c.todo # << >>
    /\ IF Readable(files[Head(c.todo)])
       THEN Holds(p, c.errand, Tail(c.todo), Append(c.held, files[Head(c.todo)]))
       ELSE Leaves(p)
    /\ UNCHANGED <<files, round, landed, errands, rewrites>>

HasRead(p, ops) == Has(p, ops) /\ clerk[p].todo = << >>

PrintIncident(p) ==
    LET c == clerk[p] IN
    /\ HasRead(p, {"incident"})
    /\ files' = [files EXCEPT ![c.errand.out] = incidentPacket(c.held[1], c.errand.in[1])]
    /\ Leaves(p)
    /\ UNCHANGED <<round, landed, errands, rewrites>>

\* A blocked recovery is printed, too.
PrintRecovery(p) ==
    LET c == clerk[p]  packet == incidentPacketFromInput(c.held[1], c.errand.in[1]) IN
    /\ HasRead(p, {"recovery"})
    /\ files' = [files EXCEPT ![c.errand.out] = incidentRecoveryPacket(packet)]
    /\ Leaves(p)
    /\ UNCHANGED <<round, landed, errands, rewrites>>

PrintReview(p) ==
    LET c == clerk[p] IN
    /\ HasRead(p, {"review"})
    /\ files' = [files EXCEPT ![c.errand.out] = reviewPacket(c.held[1], c.errand.in[1])]
    /\ Leaves(p)
    /\ UNCHANGED <<round, landed, errands, rewrites>>

PrintHandoff(p) ==
    LET c == clerk[p]  task == c.held[1] IN
    /\ HasRead(p, {"handoff"})
    /\ files' = IF c.errand.done /\ TaskStatus(task) # "DONE" THEN files
                ELSE [files EXCEPT ![c.errand.out] = taskHandoffPacket(task, c.errand.in[1], c.errand.tail)]
    /\ Leaves(p)
    /\ UNCHANGED <<round, landed, errands, rewrites>>

\* What cannot be told within the budget is not told.
PrintDigest(p) ==
    LET c == clerk[p]
        digest == taskContextDigest(c.held[1], c.errand.in[1], c.errand.budget, c.errand.tail)
    IN
    /\ HasRead(p, {"digest"})
    /\ files' = IF Rendered(digest, c.errand.json) > c.errand.budget THEN files
                ELSE [files EXCEPT ![c.errand.out] = digest]
    /\ Leaves(p)
    /\ UNCHANGED <<round, landed, errands, rewrites>>

MinePackets(p) ==
    LET c == clerk[p]
        mined == packetsWeaknessSignals(Range(c.held))
    IN
    /\ HasRead(p, {"mine"})
    /\ files' = [files EXCEPT ![c.errand.out] = [form |-> "signals", signals |-> mined]]
    /\ Leaves(p)
    /\ UNCHANGED <<round, landed, errands, rewrites>>

RecordReview(p) ==
    LET c == clerk[p]
        found == augmentWithReview(c.held[1], c.errand.verdict, c.errand.findings)
    IN
    /\ HasRead(p, {"record"})
    /\ round' = IF found = None THEN round ELSE found
    /\ Leaves(p)
    /\ UNCHANGED <<files, landed, errands, rewrites>>

\* A handoff that needs review is let through with a warning.
checkHandoff(p) ==
    LET task == clerk[p].held[1]  packet == taskHandoffPacket(task, "TASK", 12) IN
    /\ HasRead(p, {"integrate"})
    /\ landed' = IF packet.readiness = "blocked" THEN landed ELSE task
    /\ Leaves(p)
    /\ UNCHANGED <<files, round, errands, rewrites>>

PacketNext ==
    \/ \E n \in Names : Rewrite(n)
    \/ \E p \in Clerks :
          \/ \E errand \in Errands : SendFor(p, errand)
          \/ ReadInput(p) \/ ClerkDies(p)
          \/ PrintIncident(p) \/ PrintRecovery(p) \/ PrintReview(p)
          \/ PrintHandoff(p) \/ PrintDigest(p) \/ MinePackets(p)
          \/ RecordReview(p) \/ checkHandoff(p)

-----------------------------------------------------------------------------

Made(schema) == {c \in Range(files) : Readable(c) /\ c.form = "packet" /\ c.schema = schema}
Mined == UNION {c.signals : c \in {f \in Range(files) : Readable(f) /\ f.form = "signals"}}

Kinds == {s.kind : s \in Range(SPECS)}
CauseOf(kind) == (CHOOSE s \in Range(SPECS) : s.kind = kind).cause
Phases == <<"containment", "repair", "validation", "learning">>

\* The kinds of a cause that a text shows.
Shown(text, cause) == {k \in Kinds : CauseOf(k) = cause /\ \E l \in Range(text.lines) : k \in l.shows}

\* Guidance is given if and only if the text it is about shows an incident; it then has the four
\* steps of each cause the text shows, once and in their order, each for all incidents of the cause.
IsGrounded(recovery) ==
    LET steps == recovery.steps
        causes == {CauseOf(k) : k \in {j \in Kinds : Shown(recovery.sha, CauseOf(j)) # {}}}
    IN  /\ (recovery.gate = "ready") <=> (causes # {})
        /\ {s.cause : s \in Range(steps)} = causes
        /\ Len(steps) = 4 * Cardinality(causes)
        /\ \A i \in DOMAIN steps :
             /\ steps[i].phase = Phases[((i - 1) % 4) + 1]
             /\ steps[i].phase # "containment" => steps[i].cause = steps[i - 1].cause /\ steps[i].ids = steps[i - 1].ids
             /\ Len(steps[i].ids) = Cardinality(Shown(recovery.sha, steps[i].cause))

\* A packet says of the text whose digest it names what that text says, however the files have changed since: recoveries
\* are grounded, or blocked where a packet shows no lines; a signal of an incident names lines that show it; a digest that
\* omits nothing has all the requirements and open subtasks (incident.ts execute, evolve.ts mine, task-context-digest.ts).
PacketsTellTheirSource ==
    /\ \A r \in Made("incident-recovery") : IF r.sha = None THEN r.gate = "blocked" /\ r.steps = << >> ELSE IsGrounded(r)
    /\ \A s \in Mined : s.kind \in Kinds => \A i \in Range(s.lines) : s.kind \in s.sha.lines[i].shows
    /\ \A d \in Made("digest") :
         d.omitted = 0 => \A t \in Range(d.sha.requirements) \cup Range(openChecklistItems(d.sha)) :
                             \E u \in Range(d.units) : u.text = t /\ u.kind \in {"requirement", "open-subtask"}
    /\ landed # None => landed.requirements # << >> /\ landed.outputs # << >>
=============================================================================
