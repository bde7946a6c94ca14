------------------------------ MODULE Evolution ------------------------------
(***************************************************************************)
(* `fugue evolve` (src/engine/src/cli/commands/evolve.ts), the             *)
(* EvolutionLoop, which does in one process what validate and promote do   *)
(* in two, and the lineage store both write.  The operator and the agents  *)
(* edit the candidate and the cases while commands run; a command may die  *)
(* between two of its steps.                                               *)
(*                                                                         *)
(* A rule or rubric is the set of the words it looks for, a SHA-256 digest *)
(* is the content it was made from, a file that does not parse is None.    *)
(*                                                                         *)
(*   draft, cases, fitness    the files named on the command line: the     *)
(*            candidate, the cases, what validate wrote                    *)
(*   lineage  <root>/<id>.json, per id; last, history: its .state          *)
(*   evolve   per process, the command it runs and what it has read        *)
(*   judged   history: the <<candidate, cases>> whose edit was scored      *)
(***************************************************************************)
EXTENDS PacketForms

CONSTANTS
    Evolvers,   \* processes
    Drafts,     \* the candidates that are written
    CaseFiles,  \* the case files: [surface, ids, heldIn, heldOut]
    Packets,    \* the packets that the loop mines
    LineageIdFor, \* candidate id -> lineageIdFor of it
    EvolveRuns, \* the commands given: [op, by, samples, k, proposals, cases], in any order
    MaxEvolveRuns,  \* how many of them are given
    MaxDrafts   \* how often the candidate or the cases are written

\* What the parsers make of the files and of the commands' proposals.
ASSUME EvolveAssumption ==
    /\ MaxDrafts \in Nat /\ IsFiniteSet(Range(LineageIdFor))
    /\ \A run \in EvolveRuns : run.samples \in Nat /\ run.proposals \in Seq(Range(run.proposals))
    /\ \A c \in Drafts \cup UNION {Range(run.proposals) : run \in EvolveRuns} :
         c.surface \in {"guard-rule", "review-rubric"}
    /\ \A file \in (CaseFiles \cup {run.cases : run \in EvolveRuns}) \ {None} :
         file.heldIn \in Seq(Range(file.heldIn)) /\ file.heldOut \in Seq(Range(file.heldOut))

VARIABLES draft, cases, fitness, lineage, last, history, evolve, judged, given, drafted
evolveVars == <<draft, cases, fitness, lineage, last, evolve, judged, given, drafted, history>>

written == <<draft, cases>>
recorded == <<lineage, last, history>>
counted == <<given, drafted>>

SafetySurfaces == {"guard-rule"}
LineageIds == Range(LineageIdFor)
Rest == [run |-> None]

EvolveInit ==
    /\ draft = None /\ cases = None /\ fitness = None
    /\ lineage = [i \in LineageIds |-> None]
    /\ last = None /\ history = << >>
    /\ evolve = [p \in Evolvers |-> Rest]
    /\ judged = {} /\ given = {} /\ drafted = 0

-----------------------------------------------------------------------------
\* Scoring an edit.

dispositionWithRule(prompt, rule) ==
    IF prompt.guard # "allow" THEN prompt.guard
    ELSE IF prompt.words \cap rule # {} /\ ~prompt.certified THEN "review" ELSE "allow"

deterministicRubricEvaluator(rubric, case) ==
    LET both == rubric \cap case.words IN
    CASE "needs-fix-all" \in rubric -> "NEEDS_FIX"
      [] "needs-fix-all" \notin rubric /\ "accept-all" \in rubric -> "ACCEPTED"
      [] OTHER -> IF both \cap {"security", "bug"} # {} THEN "NEEDS_FIX"
                  ELSE IF "docs" \in both THEN "ACCEPTED" ELSE "UNKNOWN"

Passes(surface, content, case) ==
    case.expected = IF surface = "guard-rule" THEN dispositionWithRule(case, content)
                                              ELSE deterministicRubricEvaluator(content, case)

\* The cases of a half that a content passes, as a set of places.
Passed(surface, half, content) == {i \in DOMAIN half : Passes(surface, content, half[i])}

\* scoreGuardCases looks at a case once, scoreRubric `samples` times.
scoreCases(surface, half, content, samples) == samples * Cardinality(Passed(surface, half, content))

Scores(surface, file, content, samples) ==
    [in |-> scoreCases(surface, file.heldIn, content, samples),
     out |-> scoreCases(surface, file.heldOut, content, samples)]

acceptEdit(current, candidate) ==
    LET deltaIn == candidate.in - current.in  deltaOut == candidate.out - current.out IN
    [deltaIn |-> deltaIn, deltaOut |-> deltaOut,
     accepted |-> deltaIn >= 0 /\ deltaOut >= 0 /\ Max({deltaIn, deltaOut}) > 0]

\* What the candidate does not say of its cases are their ids.
snapshotOf(c, ids) == IF c.snapshot = None THEN ids ELSE c.snapshot

canonicalCandidatePayload_Id(c, snapshot) == [id |-> c.id, surface |-> c.surface, snapshot |-> snapshot]

canonicalCandidatePayload(c, snapshot) == [c EXCEPT !.snapshot = snapshot]

\* What the parsers take.  Cases of the other surface do not parse, a guard rule must have
\* a regular expression.
IsCandidate(c) == c # None
IsFitness(f) == f # None
AreCases(file, surface) == file # None /\ file.surface = surface
HasRule(content) == content # {}

Refuses(c, file, samples) ==
    \/ ~AreCases(file, c.surface)
    \/ c.surface = "guard-rule" /\ ~(HasRule(c.before) /\ HasRule(c.after))
    \/ c.surface = "review-rubric" /\ samples < 3

\* How far the halves fell, together.
toFitness(verdict) == Max({0, -verdict.deltaIn}) + Max({0, -verdict.deltaOut})

validateCandidate(c, file, samples) ==
    LET times == IF c.surface = "guard-rule" THEN 1 ELSE samples
        current == Scores(c.surface, file, c.before, times)
        next == Scores(c.surface, file, c.after, times)
        verdict == acceptEdit(current, next)
        snapshot == snapshotOf(c, file.ids)
    IN [surface |-> c.surface, candidateId |-> c.id, snapshot |-> snapshot,
        candidateSha256 |-> canonicalCandidatePayload(c, snapshot), verdict |-> verdict,
        regressions |-> toFitness(verdict)]

-----------------------------------------------------------------------------
\* The operator and the agents.

Write ==
    /\ drafted < MaxDrafts
    /\ \/ draft' \in Drafts \ {draft} /\ UNCHANGED cases
       \/ cases' \in CaseFiles \ {cases} /\ UNCHANGED draft
    /\ drafted' = drafted + 1
    /\ UNCHANGED <<recorded, fitness, evolve, judged, given>>

Give(p, run) ==
    /\ evolve[p] = Rest
    /\ run \notin given /\ Cardinality(given) < MaxEvolveRuns
    /\ given' = given \cup {run}
    /\ evolve' = [evolve EXCEPT ![p] = [run |-> run, pc |-> "read", cand |-> << >>, found |-> << >>]]
    /\ UNCHANGED <<written, recorded, fitness, judged, drafted>>

Doing(p, ops, pc) == evolve[p] # Rest /\ evolve[p].run.op \in ops /\ evolve[p].pc = pc

Goes(p, pc, cand, found) ==
    evolve' = [evolve EXCEPT ![p] = [run |-> evolve[p].run, pc |-> pc, cand |-> cand, found |-> found]]

Returns(p) == evolve' = [evolve EXCEPT ![p] = Rest]

\* The process is killed.
EvolveDies(p) ==
    /\ evolve[p] # Rest
    /\ Returns(p)
    /\ UNCHANGED <<written, recorded, fitness, counted, judged>>

-----------------------------------------------------------------------------
\* `evolve validate`, `evolve promote`, `evolve history`.

\* A file that is missing or does not parse ends the command.
ReadCandidate(p) ==
    /\ Doing(p, {"validate", "promote"}, "read")
    /\ IF ~IsCandidate(draft) THEN Returns(p) ELSE Goes(p, "candidate", <<draft>>, << >>)
    /\ UNCHANGED <<written, recorded, fitness, counted, judged>>

Score(p) ==
    LET c == Head(evolve[p].cand)  samples == evolve[p].run.samples IN
    /\ Doing(p, {"validate"}, "candidate")
    /\ IF Refuses(c, cases, samples)
       THEN Returns(p) /\ UNCHANGED judged
       ELSE /\ Goes(p, "scored", <<c>>, <<validateCandidate(c, cases, samples)>>)
            /\ judged' = judged \cup {<<c, cases>>}
    /\ UNCHANGED <<written, recorded, fitness, counted>>

\* The fitness of a rejected candidate is written as well.
WriteFitness(p) ==
    /\ Doing(p, {"validate"}, "scored")
    /\ fitness' = Head(evolve[p].found)
    /\ Returns(p)
    /\ UNCHANGED <<written, recorded, counted, judged>>

Entry(c, refs, snapshot, regressions, by) ==
    [id |-> LineageIdFor[c.id], candidate |-> [c EXCEPT !.snapshot = snapshot], refs |-> refs,
     regressions |-> regressions, promotedBy |-> by]

MayPromote(c, f) ==
    /\ IsFitness(f)
    /\ f.surface = c.surface
    /\ f.candidateId = c.id
    /\ f.candidateSha256 = canonicalCandidatePayload(c, snapshotOf(c, f.snapshot))
    /\ f.verdict.accepted

ReadFitness(p) ==
    LET c == Head(evolve[p].cand) IN
    /\ Doing(p, {"promote"}, "candidate")
    /\ IF MayPromote(c, fitness)
       THEN Goes(p, "put", <<c>>, <<Entry(c, IF c.refs = None THEN {} ELSE c.refs, snapshotOf(c, fitness.snapshot),
                                          fitness.regressions, evolve[p].run.by)>>)
       ELSE Returns(p)
    /\ UNCHANGED <<written, recorded, fitness, counted, judged>>

gatePromotion(entry) == entry.candidate.surface \in SafetySurfaces => entry.promotedBy = "operator"

Put(p) ==
    LET entry == Head(evolve[p].found) IN
    /\ Doing(p, {"promote"}, "put")
    /\ IF gatePromotion(entry)
       THEN Goes(p, "sidecar", evolve[p].cand, <<entry>>) /\ lineage' = [lineage EXCEPT ![entry.id] = entry]
       ELSE Returns(p) /\ UNCHANGED lineage
    /\ UNCHANGED <<written, fitness, counted, last, judged, history>>

WriteSidecar(p) ==
    /\ Doing(p, {"promote"}, "sidecar")
    /\ last' = Head(evolve[p].found)
    /\ Returns(p)
    /\ UNCHANGED <<written, fitness, counted, lineage, judged, history>>

ListLineage(p) ==
    /\ Doing(p, {"history"}, "read")
    /\ Goes(p, "list", SetToSeq({[id |-> i] : i \in {j \in LineageIds : lineage[j] # None}}), << >>)
    /\ UNCHANGED <<written, recorded, fitness, counted, judged>>

ReadEntry(p) ==
    LET todo == evolve[p].cand IN
    /\ Doing(p, {"history"}, "list")
    /\ todo # << >>
    /\ Goes(p, "list", Tail(todo), Append(evolve[p].found, lineage[Head(todo).id]))
    /\ UNCHANGED <<written, recorded, fitness, counted, judged>>

WriteHistory(p) ==
    /\ Doing(p, {"history"}, "list")
    /\ evolve[p].cand = << >>
    /\ history' = evolve[p].found
    /\ Returns(p)
    /\ UNCHANGED <<written, fitness, counted, lineage, last, judged>>

-----------------------------------------------------------------------------
\* The EvolutionLoop: one proposal after the other, the first k of them.

Propose(p) ==
    /\ Doing(p, {"loop"}, "read")
    /\ Goes(p, "judge", evolve[p].run.proposals, SetToSeq(packetsWeaknessSignals(Packets)))
    /\ UNCHANGED <<written, recorded, fitness, counted, judged>>

\* A proposal is validated by the cases the loop was built with, each against
\* its own `before`, and put where it is accepted; what the store refuses is
\* blocked and the loop goes on.
Judge(p) ==
    LET run == evolve[p].run  todo == evolve[p].cand  signals == evolve[p].found
        c == Head(todo)
        v == validateCandidate(c, run.cases, run.samples)
        entry == Entry(c, IF c.refs = None THEN Range(signals) ELSE c.refs, v.snapshot, v.regressions, run.by)
    IN
    /\ Doing(p, {"loop"}, "judge")
    /\ Len(todo) > Len(run.proposals) - run.k /\ todo # << >>
    /\ judged' = IF Refuses(c, run.cases, run.samples) THEN judged ELSE judged \cup {<<c, run.cases>>}
    /\ lineage' = IF ~Refuses(c, run.cases, run.samples) /\ v.verdict.accepted /\ gatePromotion(entry)
                  THEN [lineage EXCEPT ![entry.id] = entry] ELSE lineage
    /\ Goes(p, "judge", Tail(todo), signals)
    /\ UNCHANGED <<written, fitness, counted, last, history>>

LoopReturns(p) ==
    /\ Doing(p, {"loop"}, "judge")
    /\ evolve[p].cand = << >> \/ Len(evolve[p].cand) <= Len(evolve[p].run.proposals) - evolve[p].run.k
    /\ Returns(p)
    /\ UNCHANGED <<written, recorded, fitness, counted, judged>>

EvolveNext ==
    \/ Write
    \/ \E p \in Evolvers :
          \/ \E run \in EvolveRuns : Give(p, run)
          \/ ReadCandidate(p) \/ Score(p) \/ WriteFitness(p)
          \/ ReadFitness(p) \/ Put(p) \/ WriteSidecar(p)
          \/ ListLineage(p) \/ ReadEntry(p) \/ WriteHistory(p)
          \/ Propose(p) \/ Judge(p) \/ LoopReturns(p)
          \/ EvolveDies(p)

-----------------------------------------------------------------------------

Entries == ({lineage[i] : i \in LineageIds} \cup {last} \cup Range(history)) \ {None}

EvolveTypeOK ==
    /\ draft \in Drafts \cup {None}
    /\ cases \in CaseFiles \cup {None}
    /\ fitness # None => fitness.candidateSha256 \in {canonicalCandidatePayload(c, s) :
                             c \in Drafts, s \in {f.ids : f \in CaseFiles} \cup {d.snapshot : d \in Drafts}}
    /\ \A i \in LineageIds : lineage[i] # None => lineage[i].id = i
    /\ \A p \in Evolvers : evolve[p] # Rest =>
         /\ evolve[p].run \in given
         /\ evolve[p].pc \in {"read", "candidate", "scored", "put", "sidecar", "list", "judge"}
    /\ drafted \in 0..MaxDrafts

\* What stands in the lineage, and what its sidecars say of it, was scored as it stands there, on cases where it
\* passes no fewer of either half than what it replaces and more of one; a
\* guard rule was promoted by the operator (fs-lineage-store.ts put, evolve.ts:738-751, self-harness-accept.ts:25).
LineageIsEarned ==
    /\ EvolveTypeOK
    /\ \A e \in Entries :
        /\ \E j \in judged :
             LET c == j[1]  file == j[2]
                 More(half) == Cardinality(Passed(c.surface, half, c.after))
                               - Cardinality(Passed(c.surface, half, c.before))
             IN /\ e.candidate = [c EXCEPT !.snapshot = snapshotOf(c, file.ids)]
                /\ More(file.heldIn) >= 0 /\ More(file.heldOut) >= 0
                /\ More(file.heldIn) + More(file.heldOut) > 0
        /\ e.candidate.surface = "guard-rule" => e.promotedBy = "operator"
        /\ e.regressions = 0
=============================================================================
